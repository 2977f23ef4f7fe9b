---------------------------- MODULE MCKillSwitch ----------------------------
(* The instance of KillSwitch that TLC checks. *)
EXTENDS KillSwitch

MCMaxMisses == 3     \* the default of KILL_SWITCH_MAX_MISSES
MCMissBound == 4
MCUrls == Kinds
=============================================================================
