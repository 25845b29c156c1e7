------------------------------ MODULE MCEthRx ------------------------------
(* EthRx with a ring of three descriptors.                                 *)
EXTENDS EthRx, TLC
=============================================================================
