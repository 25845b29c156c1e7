--------------------------- MODULE MCRemoteConfig ---------------------------
(***************************************************************************)
(* RemoteConfig with a framed message and one without the frame marks, of   *)
(* which the second byte tells which it is.                                *)
(***************************************************************************)
EXTENDS RemoteConfig, TLC

MCMessages == {[framed |-> TRUE, data |-> <<5, 6>>],
               [framed |-> FALSE, data |-> <<5, 0>>]}
=============================================================================
