---------------------------- MODULE MCMarketData ----------------------------
(***************************************************************************)
(* The two sources share the service's flag and nothing else: it is enough *)
(* to let one of them have pools at a time.                                *)
(***************************************************************************)
EXTENDS MarketData

InTurn == \E d \in Sources : watched'[d] = << >>
TurnsSpec == InitFeed /\ [][NextFeed /\ InTurn]_feedVars /\ Timers
=============================================================================
