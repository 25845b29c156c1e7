---------------------------- MODULE MCAudioStream ----------------------------
(***************************************************************************)
(* AudioStream for TLC.                                                    *)
(***************************************************************************)
EXTENDS AudioStream
=============================================================================
