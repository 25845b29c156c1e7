----------------------------- MODULE MCArpTable -----------------------------
(***************************************************************************)
(* Two entries for three hosts, of which one may change its network card;   *)
(* the clock wraps every second tick.                                       *)
(***************************************************************************)
EXTENDS ArpTable, TLC

CONSTANTS h1, h2, h3, m1, m2

MCHosts == {h1, h2, h3}
MCHwAddrs == h1 :> {m1, m2} @@ h2 :> {m2} @@ h3 :> {m1}
=============================================================================
