------------------------- MODULE MCPositionMonitor -------------------------
EXTENDS PositionMonitor

(* Every position is one of the MID tier in the same jetton. *)
MCMaster == [p \in Positions |-> CHOOSE m \in Jettons : TRUE]
MCTier == [p \in Positions |-> "mid"]
=============================================================================
