------------------------------ MODULE MCEthTx ------------------------------
(* EthTx with a ring of three descriptors.                                 *)
EXTENDS EthTx, TLC
=============================================================================
