--------------------------- MODULE MCSniperEngine ---------------------------
(* The instances of SniperEngine that TLC checks. *)
EXTENDS SniperEngine

RugOrEven == {0, 2}
=============================================================================
