----------------------------- MODULE SwingEntry -----------------------------
(***************************************************************************)
(* The gates and the life of a position put together: a swing lot is       *)
(* bought with the greenlight of SafetyCaps (core/coordinator.ts           *)
(* authorizeForTier) and recorded past the second gate (mcp/tools.ts       *)
(* record_position), and from then on kept by the rules of PositionLife.   *)
(* The tier is not followed while there is a position: for the next        *)
(* proposal it starts over, and every tier state is reached again.         *)
(***************************************************************************)
EXTENDS PositionLife, TierGates

entryVars == <<vars, gateVars>>

(* A strategy of the swing side may propose. *)
Judging == mode = "swing" /\ phase = "flat"

NoTicket == CHOOSE t \in Proposals : TRUE
NoTier == [balance |-> 0, open |-> 0, unlocked |-> FALSE, killed |-> FALSE, breakerOk |-> TRUE, observeOnly |-> ObserveOnly]

InitEntry == Init /\ ticket = NoTicket /\ ctx = NoTier

(* A first proposal, for either tier. *)
Turn ==
    /\ Judging /\ ticket = NoTicket /\ ctx = NoTier
    /\ ticket' \in Proposals /\ ctx' \in FirstTier(ticket')
    /\ UNCHANGED vars

(* authorizeForTier and record_position judge by the same cached handle. *)
Admitted(l) ==
    /\ ticket.side = "buy" /\ ticket.amount = l
    /\ CapsOk(ticket, ctx) /\ GateAllows(ticket.high, ticket.amount, ctx)

(* The steps of the position; the first of a swing position is its entry. *)
Live ==
    /\ Next
    /\ Judging => Admitted(lot')
    /\ ticket' = NoTicket /\ ctx' = NoTier

NextEntry == Turn \/ (Judging /\ NextGates /\ UNCHANGED vars) \/ Live

EntrySpec == InitEntry /\ [][NextEntry]_entryVars /\ WF_vars(still /\ due /\ Look)
=============================================================================
