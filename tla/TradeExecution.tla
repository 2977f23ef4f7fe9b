--------------------------- MODULE TradeExecution ---------------------------
(***************************************************************************)
(* How a proposal becomes a signed swap, for one tier:                     *)
(*   core/coordinator.ts    authorizeForTier, executeForTier               *)
(*   safetycaps/registry.ts the single-use registry of greenlit tickets    *)
(*   telegram/approvals.ts  the human's approvals                          *)
(*   mcp/tools.ts           record_position, after a delivered buy         *)
(* JavaScript runs each piece between two awaits without interruption, so  *)
(* one action is one such piece; several callers (the LLM's tool calls,    *)
(* the position monitor's exits) are in executeForTier at once.            *)
(***************************************************************************)
EXTENDS SafetyCaps, FiniteSets

CONSTANTS
    Callers,       \* concurrent invocations of executeForTier
    ApprovalIds,   \* approvals an operator may be asked for (none is deleted)
    Proposals,     \* the tickets proposed for this tier
    Balances,      \* what wallet.getBalance() may return
    ObserveOnly,   \* OBSERVE_ONLY
    Ttl,           \* AUTH_TTL_MS and the approvals' TTL, in ticks of the clock
    RowWrites,     \* outcomes of positionsStore.upsert: subset of {"ok", "throws"}
    JournalThrows, \* outcomes of decisionJournalStore.append: subset of BOOLEAN
    MaxRows        \* bound: OPEN rows of the tier

ASSUME SetsAssumption == Proposals \subseteq Tickets /\ Proposals # {}
ASSUME HoldersAssumption == Callers \cap ApprovalIds = {} /\ "registry" \notin Callers \cup ApprovalIds
ASSUME FinitenessAssumption == IsFiniteSet(Callers) /\ IsFiniteSet(ApprovalIds)
ASSUME EnvAssumption == Balances \subseteq Nat /\ ObserveOnly \in BOOLEAN
ASSUME BoundsAssumption == Ttl \in Nat /\ MaxRows \in Nat
ASSUME OutcomesAssumption == RowWrites \subseteq {"ok", "throws"} /\ JournalThrows \subseteq BOOLEAN

VARIABLES
    ctx,         \* the cached TierHandle, killSwitchActive and the breaker
    rows,        \* OPEN rows of the tier in the positions table
    issued,      \* the registry: at most one result per ticket
    approvals,   \* the approval store
    calls,       \* the executeForTier invocations in progress
    humanSwaps   \* history: signed swaps of each caution ticket

vars == <<ctx, rows, issued, approvals, calls, humanSwaps>>

Ages == 0..(Ttl + 1)     \* the model's cap: Ttl + 1 is "expired"
Caps == [ticket : Proposals, ok : BOOLEAN, human : BOOLEAN,
         status : {"not_required", "pending", "approved"}, age : Ages]
Approvals == [status : {"free", "pending", "approved", "denied", "timeout"},
              cap : Caps, age : Ages]
Calls == [pc : {"idle", "resolving", "quoting", "swapping", "refreshing", "recording", "orphaned"},
          ticket : Proposals, amountIn : BOOLEAN, minOut : BOOLEAN]

SomeTicket == CHOOSE t \in Proposals : TRUE
IdleCall == [pc |-> "idle", ticket |-> SomeTicket, amountIn |-> TRUE, minOut |-> FALSE]
NoCap == [ticket |-> SomeTicket, ok |-> FALSE, human |-> TRUE, status |-> "pending", age |-> 0]
FreeApproval == [status |-> "free", cap |-> NoCap, age |-> 0]

IsCaution(t) == t.side = "buy" /\ t.verdict = "caution"

Init ==
    /\ ctx \in [balance : Balances, open : {0}, unlocked : {TRUE}, killed : {FALSE},
                breakerOk : {TRUE}, observeOnly : {ObserveOnly}]
    /\ rows = 0
    /\ issued = {}
    /\ approvals = [a \in ApprovalIds |-> FreeApproval]
    /\ calls = [c \in Callers |-> IdleCall]
    /\ humanSwaps = [t \in Proposals |-> 0]

-----------------------------------------------------------------------------
(* The registry. *)

(* checkTicket on the live tier; checked_at is now. *)
Check(t) ==
    [ticket |-> t, ok |-> CapsOk(t, ctx), human |-> NeedsHuman(t, ctx),
     status |-> IF NeedsHuman(t, ctx) THEN "pending" ELSE "not_required", age |-> 0]

(* prune *)
Live == {e \in issued : e.age <= Ttl}
Without(S, t) == {e \in S : e.ticket # t}

(* issueAuthorization: replaces any earlier result of the same ticket. *)
Issue(cap) == IF cap.ok THEN Without(issued, cap.ticket) \cup {cap} ELSE issued

(* authorizeForTier called on its own: greenlights now, executed later or never. *)
Authorize(t) ==
    /\ issued' = Issue(Check(t))
    /\ UNCHANGED <<ctx, rows, approvals, calls, humanSwaps>>

-----------------------------------------------------------------------------
(* The human. *)

(* createApproval: the cap is recorded as one that needs a human. *)
RequestApproval(a, t) ==
    /\ approvals[a].status = "free"
    /\ approvals' = [approvals EXCEPT ![a] =
           [status |-> "pending", age |-> 0,
            cap |-> [Check(t) EXCEPT !.human = TRUE, !.status = "pending"]]]
    /\ UNCHANGED <<ctx, rows, issued, calls, humanSwaps>>

(* Mutant of Approve: no test that the row is still pending. *)
Approve_Again(a) ==
    /\ approvals[a].status # "free"
    /\ LET cap == [approvals[a].cap EXCEPT !.status = "approved"]
       IN  /\ issued' = Issue(cap)
           /\ approvals' = [approvals EXCEPT ![a].status = "approved", ![a].cap = cap]
    /\ UNCHANGED <<ctx, rows, calls, humanSwaps>>

(* approveApproval: withHitlApproved keeps checked_at, so the check's age runs on. *)
Approve(a) ==
    /\ approvals[a].status = "pending"
    /\ LET cap == [approvals[a].cap EXCEPT !.status = "approved"]
       IN  /\ issued' = Issue(cap)
           /\ approvals' = [approvals EXCEPT ![a].status = "approved", ![a].cap = cap]
    /\ UNCHANGED <<ctx, rows, calls, humanSwaps>>

(* denyApproval *)
Deny(a) ==
    /\ approvals[a].status = "pending"
    /\ approvals' = [approvals EXCEPT ![a].status = "denied", ![a].cap.ok = FALSE]
    /\ UNCHANGED <<ctx, rows, issued, calls, humanSwaps>>

(* expireStaleApprovals *)
ExpireApprovals ==
    /\ \E a \in ApprovalIds : approvals[a].status = "pending" /\ approvals[a].age >= Ttl
    /\ approvals' = [a \in ApprovalIds |->
           IF approvals[a].status = "pending" /\ approvals[a].age >= Ttl
           THEN [approvals[a] EXCEPT !.status = "timeout", !.cap.ok = FALSE]
           ELSE approvals[a]]
    /\ UNCHANGED <<ctx, rows, issued, calls, humanSwaps>>

-----------------------------------------------------------------------------
(* executeForTier up to its first await. *)

(* Whether a request names what it pays with: a buy does, the monitor's     *)
(* exits do, and a sell the brain asks for with execute_swap does not.      *)
NamesAmount(t) == IF t.side = "buy" THEN {TRUE} ELSE BOOLEAN

(* The cap decides: denied and back to the caller, or on to the swap.       *)
Proceed(c, t, allowed) ==
    IF allowed
    THEN \E amountIn \in NamesAmount(t) :
             calls' = [calls EXCEPT ![c] =
                    [pc |-> "resolving", ticket |-> t, amountIn |-> amountIn, minOut |-> FALSE]]
    ELSE calls' = [calls EXCEPT ![c] = IdleCall]

Returned(c) == calls[c].pc \in {"idle", "orphaned"}

(* No hash, or a hash the registry does not know: the caps run now, and the *)
(* result they issue is consumed at once; an unknown hash must be the       *)
(* ticket's own.                                                            *)
ExecuteFresh(c, t, matches) ==
    LET cap == Check(t)
    IN  /\ Returned(c)
        /\ issued' = Without(Live, t)
        /\ Proceed(c, t, matches /\ cap.ok /\ ~cap.human)
        /\ UNCHANGED <<ctx, rows, approvals, humanSwaps>>

Execute(c, t) == ExecuteFresh(c, t, TRUE)

(* Mutant of ExecuteWithHash: the result is looked at and not consumed. *)
ExecuteWithHash_Peeks(c, t, h) ==
    \/ /\ ~\E e \in Live : e.ticket = h
       /\ ExecuteFresh(c, t, h = t)
    \/ \E e \in Live :
           /\ Returned(c)
           /\ e.ticket = h
           /\ issued' = Live
           /\ Proceed(c, t, Binds(e, t))
           /\ UNCHANGED <<ctx, rows, approvals, humanSwaps>>

(* A pre-issued result is consumed first and then held against the ticket;  *)
(* the caps are not run again.                                              *)
ExecuteWithHash(c, t, h) ==
    \/ /\ ~\E e \in Live : e.ticket = h
       /\ ExecuteFresh(c, t, h = t)
    \/ \E e \in Live :
           /\ Returned(c)
           /\ e.ticket = h
           /\ issued' = Without(Live, h)
           /\ Proceed(c, t, Binds(e, t))
           /\ UNCHANGED <<ctx, rows, approvals, humanSwaps>>

-----------------------------------------------------------------------------
(* executeForTier after its awaits. *)

(* No pool, a drained pool, no quote, an error, a journal that throws. *)
Refuse(c) ==
    /\ calls[c].pc \in {"resolving", "quoting"}
    /\ calls' = [calls EXCEPT ![c] = IdleCall]
    /\ UNCHANGED <<ctx, rows, issued, approvals, humanSwaps>>

(* After resolvePool, when there is an amount to quote. *)
Resolve(c) ==
    /\ calls[c].pc = "resolving" /\ calls[c].amountIn
    /\ calls' = [calls EXCEPT ![c].pc = "quoting"]
    /\ UNCHANGED <<ctx, rows, issued, approvals, humanSwaps>>

Submit(c, minOut) ==
    LET t == calls[c].ticket
        most == Cardinality(ApprovalIds) + 1    \* the model's cap on the history
    IN  /\ calls' = [calls EXCEPT ![c].pc = "swapping", ![c].minOut = minOut]
        /\ humanSwaps' = IF IsCaution(t) /\ humanSwaps[t] < most
                         THEN [humanSwaps EXCEPT ![t] = @ + 1] ELSE humanSwaps
        /\ UNCHANGED <<ctx, rows, issued, approvals>>

(* After resolvePool, with no amount: a warning, and executeSwap unpriced. *)
SubmitUnpriced(c) == calls[c].pc = "resolving" /\ ~calls[c].amountIn /\ Submit(c, FALSE)

(* After getSwapQuote: computeMinOut, then executeSwap. *)
SubmitPriced(c) == calls[c].pc = "quoting" /\ Submit(c, TRUE)

(* executeSwap catches everything and returns not-ok. *)
SwapFails(c) ==
    /\ calls[c].pc = "swapping"
    /\ calls' = [calls EXCEPT ![c] = IdleCall]
    /\ UNCHANGED <<ctx, rows, issued, approvals, humanSwaps>>

(* executeSwap delivers; the router refuses a sell without an amount. *)
SwapDelivers(c) ==
    /\ calls[c].pc = "swapping"
    /\ calls[c].ticket.side = "sell" => calls[c].amountIn
    /\ calls' = [calls EXCEPT ![c].pc = "refreshing"]
    /\ UNCHANGED <<ctx, rows, issued, approvals, humanSwaps>>

(* refreshBalance, then the journal: if that throws, the caller of a        *)
(* delivered swap sees a rejection.                                         *)
FinishSwap(c) ==
    /\ calls[c].pc = "refreshing"
    /\ \E b \in Balances \cup {ctx.balance} : ctx' = [ctx EXCEPT !.balance = b]
    /\ \E throws \in JournalThrows :
           calls' = [calls EXCEPT ![c] =
               IF calls[c].ticket.side = "sell" THEN IdleCall
               ELSE [@ EXCEPT !.pc = IF throws THEN "orphaned" ELSE "recording"]]
    /\ UNCHANGED <<rows, issued, approvals, humanSwaps>>

(* record_position: the buy's own gate is asked again before the insert. *)
RecordPosition(c) ==
    LET t == calls[c].ticket
    IN  /\ calls[c].pc = "recording"
        /\ \E write \in RowWrites :
               IF GateAllows(t.high, t.amount, ctx) /\ write = "ok"
               THEN /\ rows < MaxRows
                    /\ rows' = rows + 1
                    /\ calls' = [calls EXCEPT ![c] = IdleCall]
               ELSE /\ calls' = [calls EXCEPT ![c].pc = "orphaned"]
                    /\ UNCHANGED rows
        /\ UNCHANGED <<ctx, issued, approvals, humanSwaps>>

-----------------------------------------------------------------------------
(* The rest of the agent, and time. *)

(* refreshAllAndReport: the only place openPositions is counted. *)
RefreshAll ==
    /\ \E b \in Balances \cup {ctx.balance} : ctx' = [ctx EXCEPT !.balance = b, !.open = rows]
    /\ UNCHANGED <<rows, issued, approvals, calls, humanSwaps>>

(* The position monitor closes a row. *)
RowCloses ==
    /\ rows > 0
    /\ rows' = rows - 1
    /\ UNCHANGED <<ctx, issued, approvals, calls, humanSwaps>>

BreakerMoves ==
    /\ ctx' = [ctx EXCEPT !.breakerOk = ~@]
    /\ UNCHANGED <<rows, issued, approvals, calls, humanSwaps>>

(* KillSwitch's flag. *)
BrakeMoves ==
    /\ ctx' = [ctx EXCEPT !.killed = ~@]
    /\ UNCHANGED <<rows, issued, approvals, calls, humanSwaps>>

Older(age) == IF age <= Ttl THEN age + 1 ELSE age

(* The clock: every result and every request grows older. *)
Tick ==
    /\ issued' = {[e EXCEPT !.age = Older(@)] : e \in issued}
    /\ approvals' = [a \in ApprovalIds |->
           [approvals[a] EXCEPT !.age = Older(@), !.cap.age = Older(@)]]
    /\ UNCHANGED <<ctx, rows, calls, humanSwaps>>

CallStep(c) ==
    \/ Refuse(c) \/ Resolve(c) \/ SubmitUnpriced(c) \/ SubmitPriced(c)
    \/ SwapFails(c) \/ SwapDelivers(c) \/ FinishSwap(c)

Next ==
    \/ \E t \in Proposals : Authorize(t)
    \/ \E a \in ApprovalIds, t \in Proposals : RequestApproval(a, t)
    \/ \E a \in ApprovalIds : Approve(a) \/ Deny(a)
    \/ ExpireApprovals
    \/ \E c \in Callers, t \in Proposals : Execute(c, t)
    \/ \E c \in Callers, t, h \in Proposals : ExecuteWithHash(c, t, h)
    \/ \E c \in Callers : CallStep(c) \/ RecordPosition(c)
    \/ RefreshAll \/ RowCloses \/ BreakerMoves \/ BrakeMoves
    \/ Tick

(* Every await of executeForTier settles (the HTTP clients have timeouts),  *)
(* and time passes.                                                         *)
Fairness == WF_vars(Tick) /\ \A c \in Callers : WF_vars(CallStep(c))

Spec == Init /\ [][Next]_vars
FairSpec == Spec /\ Fairness

-----------------------------------------------------------------------------
(* Properties *)

(* The variables have the shapes of the code's records. *)
TypeOK ==
    /\ ctx \in Contexts
    /\ rows \in 0..MaxRows
    /\ issued \subseteq Caps
    /\ approvals \in [ApprovalIds -> Approvals]
    /\ calls \in [Callers -> Calls]
    /\ humanSwaps \in [Proposals -> Nat]

(* The human is asked every time: however often the ticket is presented,    *)
(* with or without its hash, by however many callers, a caution ticket is   *)
(* signed at most as many times as an operator approved that very ticket.   *)
HitlHonoured ==
    \A t \in Proposals : IsCaution(t) =>
        humanSwaps[t] <= Cardinality({a \in ApprovalIds :
            approvals[a].status = "approved" /\ approvals[a].cap.ticket = t})

(* A swap that delivers was bounded by a live quote: the coordinator sends  *)
(* a request without an amount unpriced, and relies on the router.          *)
MinOutBeforeDelivery ==
    \A c \in Callers : calls[c].pc \in {"refreshing", "recording"} => calls[c].minOut

(* What can still become a signed swap: a call past its caps, a registered  *)
(* result that would bind, a request a human may yet approve.               *)
InFlight(c) == calls[c].pc \in {"resolving", "quoting"}
Executable(e) == e.age <= Ttl /\ (e.human => e.status = "approved")
AtCaller(c, t) == InFlight(c) /\ calls[c].ticket = t
InRegistry(t) == \E e \in issued : e.ticket = t /\ Executable(e)
OnDesk(a, t) == approvals[a].status = "pending" /\ approvals[a].cap.ok /\ approvals[a].cap.ticket = t
Holds(h, t) ==
    \/ h \in Callers /\ AtCaller(h, t)
    \/ h = "registry" /\ InRegistry(t)
    \/ h \in ApprovalIds /\ OnDesk(h, t)
Permits == {p \in (Callers \cup ApprovalIds \cup {"registry"}) \X Proposals : Holds(p[1], p[2])}
Exposed == {p[2] : p \in Permits}

(* While the brake is on, no ticket becomes executable that was not already *)
(* on its way: what was greenlit before still is, and nothing is added.     *)
HaltContainment == [][ ctx.killed => Exposed' \subseteq Exposed ]_vars

(* A halt that lasts empties the pipeline: greenlit results and requests    *)
(* grow too old, calls in progress end, and no swap is signed any more.     *)
HaltDrains ==
    <>[](ctx.killed) => <>[](\A c \in Callers : ~InFlight(c) /\ calls[c].pc # "swapping")

(* The path implements permits that are moved and never copied. *)
Signing == {p \in Callers \X Proposals : calls[p[1]].pc = "swapping" /\ calls[p[1]].ticket = p[2]}
Abstract == INSTANCE SwapPermits WITH
                Desks <- ApprovalIds,
                HumanOnly <- {t \in Proposals : IsCaution(t)},
                permits <- Permits, signing <- Signing, halted <- ctx.killed
ImplementsPermits == Abstract!Spec
=============================================================================
