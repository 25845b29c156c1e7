---------------------------- MODULE MCUdpSession ----------------------------
(* UdpSession with a pool of three pcbs and two ports, which the EEPROM may *)
(* give to the two channels in any way.                                     *)
EXTENDS UdpSession, TLC

Symmetry == Permutations(Pcbs) \cup Permutations(Ports)
=============================================================================
