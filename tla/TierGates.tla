----------------------------- MODULE TierGates ------------------------------
(***************************************************************************)
(* The gates over time: a proposal stands while the coordinator's loops    *)
(* move the tier underneath it (refreshAllAndReport, checkPromotion, the   *)
(* kill-switch poller, the daily PnL), and is judged again after each      *)
(* move.  Every proposal and every tier state of a small grid is reached.  *)
(***************************************************************************)
EXTENDS SafetyCaps

CONSTANTS
    Proposals,    \* the tickets a strategy may propose
    Balances,     \* what wallet.getBalance() may return
    ObserveOnly   \* OBSERVE_ONLY

ASSUME ProposalsAssumption == Proposals \subseteq Tickets
ASSUME BalancesAssumption == Balances \subseteq Nat
ASSUME ObserveAssumption == ObserveOnly \in BOOLEAN

VARIABLES
    ticket,   \* the proposal under judgement
    ctx       \* the tier's snapshot

gateVars == <<ticket, ctx>>

(* initTier: the cached handle starts with no position and HIGH locked. *)
FirstTier(t) ==
    [balance : Balances, open : {0}, unlocked : {~t.high}, killed : {FALSE}, breakerOk : {TRUE},
     observeOnly : {ObserveOnly}]
InitGates == ticket \in Proposals /\ ctx \in FirstTier(ticket)

(* refreshAllAndReport: both figures of the handle are read afresh, the     *)
(* balance over the network, which may fail and leave the old one.          *)
Refresh ==
    /\ \E b \in Balances, n \in 0..MaxOpen :
           ctx' = [ctx EXCEPT !.balance = b, !.open = n]
    /\ UNCHANGED ticket

(* isHighTierUnlocked: the closed LOW and MID positions and what they made; *)
(* a query that fails unlocks nothing.                                      *)
ClosedToUnlock == 5
HighTierUnlocked(closed, pnl) == closed >= ClosedToUnlock /\ pnl > 0

(* checkPromotion, both ways: only the HIGH tier is ever locked. *)
Promotion ==
    /\ ticket.high
    /\ \E closed \in 0..ClosedToUnlock, pnl \in -1..1 :
           ctx' = [ctx EXCEPT !.unlocked = HighTierUnlocked(closed, pnl)]
    /\ UNCHANGED ticket

(* dailyPnlStore crosses DAILY_LOSS_LIMIT_TON, or the day ends. *)
BreakerMoves ==
    /\ ctx' = [ctx EXCEPT !.breakerOk = ~@]
    /\ UNCHANGED ticket

(* KillSwitch's flag, as this component sees it. *)
BrakeMoves ==
    /\ ctx' = [ctx EXCEPT !.killed = ~@]
    /\ UNCHANGED ticket

(* Another proposal for the same tier. *)
Propose ==
    /\ ticket' \in {t \in Proposals : t.high = ticket.high}
    /\ UNCHANGED ctx

NextGates == Refresh \/ Promotion \/ BreakerMoves \/ BrakeMoves \/ Propose

GatesSpec == InitGates /\ [][NextGates]_gateVars

-----------------------------------------------------------------------------
(* Properties *)

(* The snapshot has the shape of CapCheckContext. *)
GatesTypeOK == ticket \in Proposals /\ ctx \in Contexts

(* c is a tier in no better shape than d. *)
Worse(c, d) ==
    /\ c.balance <= d.balance
    /\ c.open >= d.open
    /\ c.unlocked => d.unlocked
    /\ d.killed => c.killed
    /\ c.breakerOk => d.breakerOk
    /\ d.observeOnly => c.observeOnly

(* A refused ticket stays refused while the tier only gets worse: no gate   *)
(* compares the state of the tier the wrong way round.  Of the gates that   *)
(* look at the ticket alone (size, slippage, depth, score) this says        *)
(* nothing: a tier does not change them.                                    *)
CapsMonotone ==
    [][ ticket' = ticket /\ Worse(ctx', ctx) /\ CapsOk(ticket, ctx)' => CapsOk(ticket, ctx) ]_gateVars

(* t is the same proposal as u with a smaller, still positive, size. *)
Smaller(t, u) == t = [u EXCEPT !.amount = t.amount] /\ 0 < t.amount /\ t.amount <= u.amount

(* Clamping a proposal, as executeTradePipeline does, never loses it a      *)
(* greenlight, and never makes a human's approval necessary.                *)
ClampingIsSafe ==
    [][ ctx' = ctx /\ Smaller(ticket', ticket) =>
            /\ CapsOk(ticket, ctx) => CapsOk(ticket, ctx)'
            /\ CapsOk(ticket, ctx) /\ NeedsHuman(ticket, ctx)' => NeedsHuman(ticket, ctx) ]_gateVars

(* What the gate lets through, no gate that checkTicket shares with it      *)
(* refuses: a trade the fast path or check_risk_status admits is never      *)
(* beyond a tier limit that the coordinator would have enforced.            *)
Shared == {"OBSERVE_ONLY", "KILL_SWITCH", "HIGH_LOCKED", "CIRCUIT_BREAKER", "TIER_CAP",
           "BANKROLL", "MAX_OPEN"}
GateIsStricter ==
    ticket.side = "buy" /\ GateAllows(ticket.high, ticket.amount, ctx) =>
        Failures(ticket, ctx) \cap Shared = {}

(* With a ceiling no lower than the allocation limit, as by default, size   *)
(* alone never sends a ticket to a human: only a caution verdict does.      *)
OnlyCautionNeedsHuman ==
    CeilingPct >= AllocationPct /\ NeedsHuman(ticket, ctx) => ticket.verdict = "caution"
=============================================================================
