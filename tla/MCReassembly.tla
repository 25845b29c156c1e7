---------------------------- MODULE MCReassembly ----------------------------
(***************************************************************************)
(* Datagrams of four units, cut up in three ways that share the last        *)
(* fragment; d1 may also be cut up with a longer last fragment.              *)
(***************************************************************************)
EXTENDS Reassembly, TLC

CONSTANTS d1, d2, d3

MCIds == {d1, d2, d3}
Symmetric == Permutations({d2, d3})

\* A pbuf holds one unit.
Cut(ends) ==
    LET start(n) == IF n = 1 THEN 0 ELSE ends[n - 1]
    IN [n \in DOMAIN ends |-> [start |-> start(n), end |-> ends[n], clen |-> ends[n] - start(n)]]

SameLast == {Cut(<<1, 2, 3, 4>>), Cut(<<2, 3, 4>>), Cut(<<1, 3, 4>>)}

MCFragmentations ==
    [id \in MCIds |-> IF id = d1 THEN SameLast \cup {Cut(<<2, 4>>)} ELSE SameLast]
=============================================================================
