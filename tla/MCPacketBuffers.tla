--------------------------- MODULE MCPacketBuffers ---------------------------
(***************************************************************************)
(* A heap in which two packets fit, a pool of two elements and one PBUF_REF. *)
(***************************************************************************)
EXTENDS PacketBuffers, TLC

CONSTANTS p1, p2, r1

MCPool == {p1, p2}
MCRefs == {r1}
Symmetry == Permutations(MCPool)
=============================================================================
