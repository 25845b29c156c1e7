----------------------------- MODULE Allocator -----------------------------
(***************************************************************************)
(* What a memory allocator promises its callers, whatever its table looks  *)
(* like: it grants an owner an area of free blocks, it takes areas back,   *)
(* whole or in part, and nothing else moves.  BlockPool (MALLOC/malloc.c)  *)
(* and Heap (lwIP's mem.c) implement it.                                   *)
(***************************************************************************)
CONSTANTS Owners, Blocks

VARIABLE area   \* the blocks each owner holds

Free == {b \in Blocks : \A o \in Owners : b \notin area[o]}

Init == area = [o \in Owners |-> {}]

\* A grant replaces what the owner held: a reallocation moves.
Grant(o) ==
    /\ area'[o] # {} /\ area'[o] \subseteq Free
    /\ area' = [area EXCEPT ![o] = area'[o]]

\* Part of an area is given back.
Shrink(o) ==
    /\ area'[o] # {} /\ area'[o] \subseteq area[o]
    /\ area' = [area EXCEPT ![o] = area'[o]]

Release(o) == area' = [area EXCEPT ![o] = {}]

Next == \E o \in Owners : Grant(o) \/ Shrink(o) \/ Release(o)

Spec == Init /\ [][Next]_area
=============================================================================
