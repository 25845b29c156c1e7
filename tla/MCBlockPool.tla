---------------------------- MODULE MCBlockPool ----------------------------
(***************************************************************************)
(* BlockPool on a pool of five two-byte blocks with three owners: requests  *)
(* of no byte, of less than a block, of an exact multiple, and of more     *)
(* than half the pool, so that the pool fragments and runs out.            *)
(***************************************************************************)
EXTENDS BlockPool, TLC

MCSizes == {0, 1, 4, 5}

Symmetry == Permutations(Owners)
=============================================================================
