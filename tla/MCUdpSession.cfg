SPECIFICATION Spec
CONSTANTS
    Pcbs = {p1, p2, p3}
    Nil = Nil
    NoPort = NoPort
    Ports = {a, b}
    Anywhere = FALSE
    Audio = TRUE
SYMMETRY Symmetry
INVARIANTS ListExact NoPcbLost LinkedTrue
