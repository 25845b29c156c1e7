SPECIFICATION Spec
CONSTANTS
    NTx = 3
    Frames = {f1, f2}
    Nothing = Nothing
    Torn = Torn
    MainSends = FALSE
INVARIANT RingInStep
PROPERTIES SendsInOrder EveryFrameLeaves
