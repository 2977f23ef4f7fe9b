------------------------ MODULE TradeExecution_proofs ------------------------
(***************************************************************************)
(* TradeExecution for every set of callers, operators' desks and tickets,  *)
(* every limit, and every time to live: its types, the price bound on      *)
(* delivered swaps, the refinement of SwapPermits, from which the          *)
(* containment of a halt follows, and the human's say over caution buys.   *)
(***************************************************************************)
EXTENDS TradeExecution, FiniteSetTheorems, TLAPS

(* A result is either ok or not, and either needs a human or does not. *)
LEMMA CapsAreBoolean ==
    ASSUME NEW t \in Tickets, NEW c \in Contexts
    PROVE  CapsOk(t, c) \in BOOLEAN /\ NeedsHuman(t, c) \in BOOLEAN
BY DEF CapsOk, NeedsHuman

(* checkTicket refuses everything while the brake is on. *)
LEMMA BrakeRefuses ==
    ASSUME NEW t \in Tickets, NEW c \in Contexts, CapsOk(t, c)
    PROVE  ~c.killed
<1>1. "KILL_SWITCH" \in DOMAIN HaltFailures(t, c)
    BY DEF HaltFailures
<1>2. HaltFailures(t, c)["KILL_SWITCH"] = c.killed
    BY DEF HaltFailures
<1>3. "KILL_SWITCH" \notin Raised(HaltFailures(t, c))
    BY DEF CapsOk, Failures
<1> QED
    BY <1>1, <1>2, <1>3 DEF Raised

(* checkTicket sends every greenlit caution ticket to a human. *)
LEMMA CautionNeedsHuman ==
    ASSUME NEW t \in Tickets, NEW c \in Contexts, CapsOk(t, c),
           t.side = "buy", t.verdict = "caution"
    PROVE  NeedsHuman(t, c)
BY DEF NeedsHuman

(* The default values of the stores and of a caller are well typed. *)
LEMMA DefaultTypes ==
    SomeTicket \in Proposals /\ IdleCall \in Calls /\ FreeApproval \in Approvals /\ 0 \in Ages
<1>1. SomeTicket \in Proposals
    BY SetsAssumption DEF SomeTicket
<1>2. 0 \in Ages
    BY BoundsAssumption DEF Ages
<1> QED
    BY <1>1, <1>2 DEF IdleCall, Calls, FreeApproval, Approvals, NoCap, Caps

(* checkTicket returns a well-typed result of the ticket it was given. *)
LEMMA CheckType ==
    ASSUME TypeOK, NEW t \in Proposals
    PROVE  Check(t) \in Caps
<1>1. t \in Tickets /\ ctx \in Contexts
    BY SetsAssumption DEF TypeOK
<1>2. CapsOk(t, ctx) \in BOOLEAN /\ NeedsHuman(t, ctx) \in BOOLEAN
    BY <1>1, CapsAreBoolean
<1> QED
    BY <1>2, DefaultTypes DEF Check, Caps

(* issueAuthorization keeps the registry well typed. *)
LEMMA IssueType ==
    ASSUME TypeOK, NEW cap \in Caps
    PROVE  Issue(cap) \subseteq Caps
BY DEF TypeOK, Issue, Without

(* A result that ages stays within the model's cap on ages. *)
LEMMA OlderType ==
    ASSUME NEW age \in Ages
    PROVE  Older(age) \in Ages
BY BoundsAssumption DEF Ages, Older

(* What the caps decide, as two cases. *)
LEMMA ProceedCases ==
    ASSUME NEW c \in Callers, NEW t \in Proposals, NEW allowed, Proceed(c, t, allowed)
    PROVE  \/ ~allowed /\ calls' = [calls EXCEPT ![c] = IdleCall]
           \/ /\ allowed
              /\ \E a \in BOOLEAN :
                     /\ t.side = "buy" => a
                     /\ calls' = [calls EXCEPT ![c] =
                            [pc |-> "resolving", ticket |-> t, amountIn |-> a, minOut |-> FALSE]]
<1>1. CASE allowed
  <2>1. PICK a \in NamesAmount(t) :
            calls' = [calls EXCEPT ![c] =
                [pc |-> "resolving", ticket |-> t, amountIn |-> a, minOut |-> FALSE]]
    BY <1>1 DEF Proceed
  <2>2. a \in BOOLEAN /\ (t.side = "buy" => a)
    BY DEF NamesAmount
  <2> QED BY <1>1, <2>1, <2>2
<1>2. CASE ~allowed
  BY <1>2 DEF Proceed
<1> QED BY <1>1, <1>2

(* Whatever the caps say, the caller ends up with a well-typed call. *)
LEMMA ProceedType ==
    ASSUME TypeOK, NEW c \in Callers, NEW t \in Proposals, NEW allowed \in BOOLEAN,
           Proceed(c, t, allowed)
    PROVE  calls' \in [Callers -> Calls]
<1>1. CASE allowed
    <2>1. PICK amountIn \in BOOLEAN :
              calls' = [calls EXCEPT ![c] =
                  [pc |-> "resolving", ticket |-> t, amountIn |-> amountIn, minOut |-> FALSE]]
        BY <1>1, ProceedCases
    <2> QED
        BY <2>1 DEF TypeOK, Calls
<1>2. CASE ~allowed
    BY <1>2, ProceedCases, DefaultTypes DEF TypeOK
<1> QED
    BY <1>1, <1>2

(* The code starts with an empty registry, no request and idle callers. *)
LEMMA InitType == Init => TypeOK
<1> SUFFICES ASSUME Init
             PROVE  TypeOK
    OBVIOUS
<1>1. ctx \in Contexts
    <2>1. PICK b \in Balances :
              ctx = [balance |-> b, open |-> 0, unlocked |-> TRUE, killed |-> FALSE,
                     breakerOk |-> TRUE, observeOnly |-> ObserveOnly]
        BY DEF Init
    <2> QED
        BY <2>1, EnvAssumption DEF Contexts
<1>2. approvals \in [ApprovalIds -> Approvals] /\ calls \in [Callers -> Calls]
    BY DefaultTypes DEF Init
<1> QED
    BY <1>1, <1>2, BoundsAssumption DEF Init, TypeOK

(* Every step of the callers, the operator and the loops keeps the types. *)
LEMMA NextType == TypeOK /\ [Next]_vars => TypeOK'
<1> SUFFICES ASSUME TypeOK, [Next]_vars
             PROVE  TypeOK'
    OBVIOUS
<1>1. ASSUME NEW t \in Proposals, Authorize(t)
      PROVE  TypeOK'
    <2>1. issued' \subseteq Caps
        BY <1>1, CheckType, IssueType DEF Authorize
    <2> QED
        BY <1>1, <2>1 DEF Authorize, TypeOK
<1>2. ASSUME NEW a \in ApprovalIds, NEW t \in Proposals, RequestApproval(a, t)
      PROVE  TypeOK'
    <2>1. [Check(t) EXCEPT !.human = TRUE, !.status = "pending"] \in Caps
        <3>1. Check(t) \in Caps
            BY CheckType
        <3> QED
            BY <3>1 DEF Caps
    <2>2. approvals' \in [ApprovalIds -> Approvals]
        BY <1>2, <2>1, DefaultTypes DEF RequestApproval, TypeOK, Approvals
    <2> QED
        BY <1>2, <2>2 DEF RequestApproval, TypeOK
<1>3. ASSUME NEW a \in ApprovalIds, Approve(a)
      PROVE  TypeOK'
    <2> DEFINE cap == [approvals[a].cap EXCEPT !.status = "approved"]
    <2>1. approvals[a] \in Approvals
        BY DEF TypeOK
    <2>2. cap \in Caps
        BY <2>1 DEF Approvals, Caps
    <2>3. issued' \subseteq Caps
        BY <1>3, <2>2, IssueType DEF Approve
    <2>4. approvals' \in [ApprovalIds -> Approvals]
        BY <1>3, <2>1, <2>2 DEF Approve, TypeOK, Approvals
    <2> QED
        BY <1>3, <2>3, <2>4 DEF Approve, TypeOK
<1>4. ASSUME NEW a \in ApprovalIds, Deny(a)
      PROVE  TypeOK'
    <2>1. approvals[a] \in Approvals
        BY DEF TypeOK
    <2>2. [approvals[a] EXCEPT !.status = "denied", !.cap.ok = FALSE] \in Approvals
        BY <2>1 DEF Approvals, Caps
    <2> QED
        BY <1>4, <2>2 DEF Deny, TypeOK
<1>5. CASE ExpireApprovals
    <2>1. ASSUME NEW a \in ApprovalIds
          PROVE  [approvals[a] EXCEPT !.status = "timeout", !.cap.ok = FALSE] \in Approvals
        <3>1. approvals[a] \in Approvals
            BY DEF TypeOK
        <3> QED
            BY <3>1 DEF Approvals, Caps
    <2> QED
        BY <1>5, <2>1 DEF ExpireApprovals, TypeOK
<1>6. ASSUME NEW c \in Callers, NEW t \in Proposals, NEW m \in BOOLEAN, ExecuteFresh(c, t, m)
      PROVE  TypeOK'
    <2>1. Check(t) \in Caps
        BY CheckType
    <2>2. calls' \in [Callers -> Calls]
        BY <1>6, <2>1, ProceedType DEF ExecuteFresh, Caps
    <2> QED
        BY <1>6, <2>2 DEF ExecuteFresh, Without, Live, TypeOK
<1>7. ASSUME NEW c \in Callers, NEW t \in Proposals, Execute(c, t)
      PROVE  TypeOK'
    BY <1>6, <1>7 DEF Execute
<1>8. ASSUME NEW c \in Callers, NEW t \in Proposals, NEW h \in Proposals, ExecuteWithHash(c, t, h)
      PROVE  TypeOK'
    <2>1. CASE ExecuteFresh(c, t, h = t)
        BY <1>6, <2>1
    <2>2. ASSUME NEW e \in Live, Proceed(c, t, Binds(e, t)), issued' = Without(Live, h),
                 UNCHANGED <<ctx, rows, approvals, humanSwaps>>
          PROVE  TypeOK'
        <3>1. Binds(e, t) \in BOOLEAN
            BY DEF Binds, Live, TypeOK, Caps
        <3>2. calls' \in [Callers -> Calls]
            BY <2>2, <3>1, ProceedType
        <3> QED
            BY <2>2, <3>2 DEF Without, Live, TypeOK
    <2> QED
        BY <1>8, <2>1, <2>2 DEF ExecuteWithHash
<1>9. ASSUME NEW c \in Callers, CallStep(c)
      PROVE  TypeOK'
    <2>0. calls[c] \in Calls
        BY DEF TypeOK
    <2>1. CASE Refuse(c) \/ SwapFails(c)
        BY <2>1, DefaultTypes DEF Refuse, SwapFails, TypeOK
    <2>2. CASE Resolve(c)
        BY <2>0, <2>2 DEF Resolve, TypeOK, Calls
    <2>3. ASSUME NEW minOut \in BOOLEAN, Submit(c, minOut)
          PROVE  TypeOK'
        <3>1. calls' \in [Callers -> Calls]
            BY <2>0, <2>3 DEF Submit, TypeOK, Calls
        <3>2. humanSwaps' \in [Proposals -> Nat]
            BY <2>0, <2>3 DEF Submit, TypeOK, Calls
        <3> QED
            BY <2>3, <3>1, <3>2 DEF Submit, TypeOK
    <2>4. CASE SubmitUnpriced(c) \/ SubmitPriced(c)
        BY <2>3, <2>4 DEF SubmitUnpriced, SubmitPriced
    <2>5. CASE SwapDelivers(c)
        BY <2>0, <2>5 DEF SwapDelivers, TypeOK, Calls
    <2>6. CASE FinishSwap(c)
        <3>1. ctx' \in Contexts
            BY <2>6, EnvAssumption DEF FinishSwap, TypeOK, Contexts
        <3>2. calls' \in [Callers -> Calls]
            BY <2>0, <2>6, DefaultTypes DEF FinishSwap, TypeOK, Calls
        <3> QED
            BY <2>6, <3>1, <3>2 DEF FinishSwap, TypeOK
    <2> QED
        BY <1>9, <2>1, <2>2, <2>4, <2>5, <2>6 DEF CallStep
<1>10. ASSUME NEW c \in Callers, RecordPosition(c)
       PROVE  TypeOK'
    <2>0. calls[c] \in Calls
        BY DEF TypeOK
    <2>1. rows' \in 0..MaxRows
        BY <1>10, BoundsAssumption DEF RecordPosition, TypeOK
    <2>2. calls' \in [Callers -> Calls]
        BY <1>10, <2>0, DefaultTypes DEF RecordPosition, TypeOK, Calls
    <2> QED
        BY <1>10, <2>1, <2>2 DEF RecordPosition, TypeOK
<1>11. CASE RefreshAll
    <2>1. rows \in Nat
        BY BoundsAssumption DEF TypeOK
    <2>2. PICK b \in Balances \cup {ctx.balance} :
              ctx' = [ctx EXCEPT !.balance = b, !.open = rows]
        BY <1>11 DEF RefreshAll
    <2>3. ctx' \in Contexts
        <3>1. ctx \in Contexts
            BY DEF TypeOK
        <3>2. b \in Int
            BY <3>1, EnvAssumption DEF Contexts
        <3> QED
            BY <2>1, <2>2, <3>1, <3>2 DEF Contexts
    <2> QED
        BY <1>11, <2>3 DEF RefreshAll, TypeOK
<1>12. CASE RowCloses
    BY <1>12, BoundsAssumption DEF RowCloses, TypeOK
<1>13. CASE BreakerMoves \/ BrakeMoves
    BY <1>13 DEF BreakerMoves, BrakeMoves, TypeOK, Contexts
<1>14. CASE Tick
    <2>1. issued' \subseteq Caps
        <3>1. ASSUME NEW e \in issued
              PROVE  [e EXCEPT !.age = Older(@)] \in Caps
            BY OlderType DEF TypeOK, Caps
        <3> QED
            BY <1>14, <3>1 DEF Tick
    <2>2. ASSUME NEW a \in ApprovalIds
          PROVE  [approvals[a] EXCEPT !.age = Older(@), !.cap.age = Older(@)] \in Approvals
        <3>1. approvals[a] \in Approvals
            BY DEF TypeOK
        <3> QED
            BY <3>1, OlderType DEF Approvals, Caps
    <2> QED
        BY <1>14, <2>1, <2>2 DEF Tick, TypeOK
<1>15. CASE UNCHANGED vars
    BY <1>15 DEF vars, TypeOK
<1> QED
    BY <1>1, <1>2, <1>3, <1>4, <1>5, <1>7, <1>8, <1>9, <1>10, <1>11, <1>12, <1>13, <1>14, <1>15
    DEF Next

(* The stores, the tier's snapshot and the calls keep the shapes of the     *)
(* code's records, for every number of callers, requests and tickets.       *)
THEOREM TypeCorrect == Spec => []TypeOK
<1>1. Init => TypeOK
    BY InitType
<1>2. TypeOK /\ [Next]_vars => TypeOK'
    BY NextType
<1> QED
    BY <1>1, <1>2, PTL DEF Spec

-----------------------------------------------------------------------------
(* The price bound.  A call that goes to the router unpriced is a sell      *)
(* without an amount, which the router refuses: so every later stage of a   *)
(* delivered swap carries the bound of its quote.                           *)
PricedOrUnsellable(c) ==
    /\ calls[c].pc \in {"resolving", "quoting", "swapping"} =>
           (calls[c].ticket.side = "buy" => calls[c].amountIn)
    /\ calls[c].pc = "swapping" => calls[c].minOut \/ ~calls[c].amountIn
    /\ calls[c].pc \in {"refreshing", "recording"} => calls[c].minOut

PriceInv == TypeOK /\ \A c \in Callers : PricedOrUnsellable(c)

(* A step that leaves the calls alone leaves their prices alone. *)
LEMMA PricesUnmoved ==
    ASSUME PriceInv, UNCHANGED calls
    PROVE  \A c \in Callers : PricedOrUnsellable(c)'
BY DEF PriceInv, PricedOrUnsellable

(* A call that starts, or ends, is priced as its stage requires. *)
LEMMA PricesAtStart ==
    ASSUME PriceInv, NEW c \in Callers, NEW t \in Proposals, NEW allowed, Proceed(c, t, allowed)
    PROVE  \A d \in Callers : PricedOrUnsellable(d)'
BY ProceedCases DEF PriceInv, TypeOK, PricedOrUnsellable, IdleCall

(* Each stage of executeForTier hands the next one a priced call, or one    *)
(* that the router refuses.                                                 *)
LEMMA NextPrice == PriceInv /\ [Next]_vars => PriceInv'
<1> SUFFICES ASSUME PriceInv, [Next]_vars
             PROVE  \A c \in Callers : PricedOrUnsellable(c)'
    BY NextType DEF PriceInv
<1>1. CASE UNCHANGED calls
    BY <1>1, PricesUnmoved
<1>2. ASSUME NEW c \in Callers, NEW t \in Proposals, Execute(c, t)
      PROVE  \A d \in Callers : PricedOrUnsellable(d)'
    BY <1>2, PricesAtStart DEF Execute, ExecuteFresh
<1>3. ASSUME NEW c \in Callers, NEW t \in Proposals, NEW h \in Proposals, ExecuteWithHash(c, t, h)
      PROVE  \A d \in Callers : PricedOrUnsellable(d)'
    BY <1>3, PricesAtStart DEF ExecuteWithHash, ExecuteFresh
<1>4. ASSUME NEW c \in Callers, CallStep(c) \/ RecordPosition(c)
      PROVE  \A d \in Callers : PricedOrUnsellable(d)'
    <2>0. calls[c] \in Calls /\ calls[c].ticket \in Tickets /\ PricedOrUnsellable(c)
        BY SetsAssumption DEF PriceInv, TypeOK, Calls
    <2> SUFFICES PricedOrUnsellable(c)' /\ \A d \in Callers \ {c} : calls'[d] = calls[d]
        BY DEF PriceInv, PricedOrUnsellable
    <2> USE DEF PriceInv, TypeOK, PricedOrUnsellable
    <2>1. CASE Refuse(c) \/ SwapFails(c)
        BY <2>1 DEF Refuse, SwapFails, IdleCall
    <2>2. CASE Resolve(c)
        BY <2>0, <2>2 DEF Resolve, Calls
    <2>3. CASE SubmitUnpriced(c) \/ SubmitPriced(c)
        BY <2>0, <2>3 DEF SubmitUnpriced, SubmitPriced, Submit, Calls
    <2>4. CASE SwapDelivers(c)
        BY <2>0, <2>4 DEF SwapDelivers, Calls, Tickets
    <2>5. CASE FinishSwap(c)
        BY <2>0, <2>5 DEF FinishSwap, IdleCall, Calls
    <2>6. CASE RecordPosition(c)
        BY <2>0, <2>6 DEF RecordPosition, IdleCall, Calls
    <2> QED
        BY <1>4, <2>1, <2>2, <2>3, <2>4, <2>5, <2>6 DEF CallStep
<1>5. CASE \/ \E t \in Proposals : Authorize(t)
           \/ \E a \in ApprovalIds, t \in Proposals : RequestApproval(a, t)
           \/ \E a \in ApprovalIds : Approve(a) \/ Deny(a)
           \/ ExpireApprovals \/ RefreshAll \/ RowCloses \/ BreakerMoves \/ BrakeMoves \/ Tick
    <2>1. UNCHANGED calls
        BY <1>5 DEF Authorize, RequestApproval, Approve, Deny, ExpireApprovals, RefreshAll,
                    RowCloses, BreakerMoves, BrakeMoves, Tick
    <2> QED
        BY <1>1, <2>1
<1>6. UNCHANGED vars => UNCHANGED calls
    BY DEF vars
<1> QED
    BY <1>1, <1>2, <1>3, <1>4, <1>5, <1>6 DEF Next

(* No swap delivers without the minimum output a live quote gave it. *)
THEOREM DeliveriesArePriced == Spec => []MinOutBeforeDelivery
<1>1. Init => PriceInv
    BY InitType DEF Init, PriceInv, PricedOrUnsellable, IdleCall
<1>2. PriceInv /\ [Next]_vars => PriceInv'
    BY NextPrice
<1>3. PriceInv => MinOutBeforeDelivery
    BY DEF PriceInv, PricedOrUnsellable, MinOutBeforeDelivery
<1> QED
    BY <1>1, <1>2, <1>3, PTL DEF Spec

-----------------------------------------------------------------------------
(* The refinement.  Holds(h, t) says where the permit of a ticket is; these *)
(* lemmas say how each store moves it.                                      *)

(* issueAuthorization puts at most the new result into the registry. *)
LEMMA IssueAdds ==
    ASSUME NEW cap \in Caps, issued' = Issue(cap), NEW t \in Proposals, InRegistry(t)'
    PROVE  InRegistry(t) \/ (t = cap.ticket /\ cap.ok /\ Executable(cap))
BY DEF Issue, Without, InRegistry, Executable

(* consumeAuthorization leaves nothing of the consumed ticket, and prune    *)
(* drops nothing that would still bind.                                     *)
LEMMA ConsumeRemoves ==
    ASSUME NEW t \in Proposals, issued' = Without(Live, t), NEW u \in Proposals, InRegistry(u)'
    PROVE  InRegistry(u) /\ u # t
BY DEF Without, Live, InRegistry, Executable

(* A returned caller gets a permit for its ticket only if the caps let it,  *)
(* and nobody else's call is touched.                                       *)
LEMMA ProceedAdds ==
    ASSUME TypeOK, NEW c \in Callers, NEW t \in Proposals, NEW allowed \in BOOLEAN,
           Returned(c), Proceed(c, t, allowed)
    PROVE  /\ Signing' = Signing
           /\ \A d \in Callers, u \in Proposals :
                  AtCaller(d, u)' => AtCaller(d, u) \/ (d = c /\ u = t /\ allowed)
<1>1. \A d \in Callers \ {c} : calls'[d] = calls[d]
    BY ProceedCases DEF TypeOK
<1>2. calls'[c].pc \in {"idle", "resolving"} /\ calls[c].pc \in {"idle", "orphaned"}
    BY ProceedCases DEF TypeOK, IdleCall, Returned
<1>3. Signing' = Signing
    BY <1>1, <1>2 DEF Signing
<1>4. calls'[c].pc = "resolving" => allowed /\ calls'[c].ticket = t
    BY ProceedCases DEF TypeOK, IdleCall
<1> QED
    BY <1>1, <1>2, <1>3, <1>4 DEF AtCaller, InFlight

(* Where none of the three stores changes, no permit moves. *)
LEMMA PermitsUnmoved ==
    ASSUME UNCHANGED <<issued, approvals, calls>>
    PROVE  Permits' = Permits /\ Signing' = Signing
BY DEF Permits, Signing, Holds, AtCaller, InFlight, InRegistry, OnDesk, Executable

(* Permits are compared holder by holder. *)
LEMMA PermitsWithin ==
    ASSUME NEW S,
           \A h \in Callers \cup ApprovalIds \cup {"registry"}, t \in Proposals :
               Holds(h, t)' => <<h, t>> \in S
    PROVE  Permits' \subseteq S
BY DEF Permits

(* Every step of the code is a step of SwapPermits or leaves it alone. *)
LEMMA StepSimulation == TypeOK /\ [Next]_vars => [Abstract!Next]_(Abstract!vars)
<1> SUFFICES ASSUME TypeOK, [Next]_vars
             PROVE  Abstract!Next \/ UNCHANGED Abstract!vars
    OBVIOUS
<1> DEFINE H == Callers \cup ApprovalIds \cup {"registry"}
<1>a. H = Abstract!Holders
    BY DEF Abstract!Holders, Abstract!Registry
<1>b. \A h \in H, t \in Proposals : Holds(h, t) <=> <<h, t>> \in Permits
    BY DEF Permits
<1>c. \A t \in Proposals : t \in Tickets
    BY SetsAssumption
<1>d. ctx \in Contexts
    BY DEF TypeOK
<1>e. ASSUME UNCHANGED <<issued, approvals, calls>>, ctx'.killed \in BOOLEAN
      PROVE  Abstract!Brake
    BY <1>e, PermitsUnmoved DEF Abstract!Brake
<1>f. ASSUME NEW c \in Callers, NEW t \in Proposals, NEW m \in BOOLEAN, ExecuteFresh(c, t, m)
      PROVE  Abstract!Next
    <2>1. Check(t) \in Caps
        BY CheckType
    <2>2. Signing' = Signing /\ \A d \in Callers, u \in Proposals :
              AtCaller(d, u)' => AtCaller(d, u) \/ (d = c /\ u = t /\ Check(t).ok /\ ~Check(t).human)
        BY <1>f, <2>1, ProceedAdds DEF ExecuteFresh, Caps
    <2>3. \A h \in H, u \in Proposals :
              Holds(h, u)' => Holds(h, u) \/ (h = c /\ u = t /\ Check(t).ok /\ ~Check(t).human)
        BY <1>f, <2>2, ConsumeRemoves DEF Holds, ExecuteFresh, OnDesk
    <2>4. CASE Check(t).ok /\ ~Check(t).human
        <3>1. ~ctx.killed /\ ~IsCaution(t)
            BY <1>c, <1>d, <2>4, BrakeRefuses, CautionNeedsHuman DEF Check, IsCaution
        <3>2. Permits' \subseteq Permits \cup {<<c, t>>}
            <4>1. \A g \in H, u \in Proposals :
                      Holds(g, u)' => <<g, u>> \in Permits \cup {<<c, t>>}
                BY <1>b, <2>3
            <4> QED
                BY <4>1, PermitsWithin
        <3>3. Abstract!Grant(c, t)
            BY <1>f, <2>2, <3>1, <3>2 DEF Abstract!Grant, ExecuteFresh
        <3> QED
            BY <1>a, <3>3 DEF Abstract!Next
    <2>5. CASE ~(Check(t).ok /\ ~Check(t).human)
        <3>1. Permits' \subseteq Permits
            BY <1>b, <2>3, <2>5, PermitsWithin
        <3> QED
            BY <1>f, <2>2, <3>1 DEF Abstract!Next, Abstract!Lose, ExecuteFresh
    <2> QED
        BY <2>4, <2>5
<1>1. ASSUME NEW t \in Proposals, Authorize(t)
      PROVE  Abstract!Next
    <2>1. Check(t) \in Caps
        BY CheckType
    <2>2. Signing' = Signing /\ \A h \in H, u \in Proposals :
              Holds(h, u)' => Holds(h, u) \/ (h = "registry" /\ u = t /\ Check(t).ok /\ Executable(Check(t)))
        BY <1>1, <2>1, IssueAdds
        DEF Authorize, Holds, AtCaller, InFlight, OnDesk, Signing, Check
    <2>3. CASE Check(t).ok /\ Executable(Check(t))
        <3>1. ~NeedsHuman(t, ctx)
            BY <2>3, <1>c, <1>d, CapsAreBoolean DEF Check, Executable
        <3>2. ~ctx.killed /\ ~IsCaution(t)
            BY <1>c, <1>d, <2>3, <3>1, BrakeRefuses, CautionNeedsHuman DEF Check, IsCaution
        <3>3. Permits' \subseteq Permits \cup {<<"registry", t>>}
            <4>1. \A g \in H, u \in Proposals :
                      Holds(g, u)' => <<g, u>> \in Permits \cup {<<"registry", t>>}
                BY <1>b, <2>2
            <4> QED
                BY <4>1, PermitsWithin
        <3>4. Abstract!Grant("registry", t)
            BY <1>1, <2>2, <3>2, <3>3 DEF Abstract!Grant, Authorize
        <3> QED
            BY <1>a, <3>4 DEF Abstract!Next
    <2>4. CASE ~(Check(t).ok /\ Executable(Check(t)))
        <3>1. Permits' \subseteq Permits
            BY <1>b, <2>2, <2>4, PermitsWithin
        <3> QED
            BY <1>1, <2>2, <3>1 DEF Abstract!Next, Abstract!Lose, Authorize
    <2> QED
        BY <2>3, <2>4
<1>2. ASSUME NEW a \in ApprovalIds, NEW t \in Proposals, RequestApproval(a, t)
      PROVE  Abstract!Next
    <2>1. Check(t) \in Caps
        BY CheckType
    <2>2. /\ \A b \in ApprovalIds \ {a} : approvals'[b] = approvals[b]
          /\ approvals'[a].cap.ok = Check(t).ok
          /\ approvals'[a].cap.ticket = t
        BY <1>2, <2>1 DEF RequestApproval, TypeOK, Check, Caps
    <2>3. Signing' = Signing /\ \A h \in H, u \in Proposals :
              Holds(h, u)' => Holds(h, u) \/ (h = a /\ u = t /\ Check(t).ok)
        BY <1>2, <2>2
        DEF RequestApproval, Holds, AtCaller, InFlight, InRegistry, Executable, OnDesk, Signing
    <2>4. CASE Check(t).ok
        <3>1. ~ctx.killed
            BY <1>c, <1>d, <2>4, BrakeRefuses DEF Check
        <3>2. Permits' \subseteq Permits \cup {<<a, t>>}
            <4>1. \A g \in H, u \in Proposals :
                      Holds(g, u)' => <<g, u>> \in Permits \cup {<<a, t>>}
                BY <1>b, <2>3
            <4> QED
                BY <4>1, PermitsWithin
        <3>3. Abstract!Grant(a, t)
            BY <1>2, <2>3, <3>1, <3>2 DEF Abstract!Grant, RequestApproval
        <3> QED
            BY <1>a, <3>3 DEF Abstract!Next
    <2>5. CASE ~Check(t).ok
        <3>1. Permits' \subseteq Permits
            BY <1>b, <2>3, <2>5, PermitsWithin
        <3> QED
            BY <1>2, <2>3, <3>1 DEF Abstract!Next, Abstract!Lose, RequestApproval
    <2> QED
        BY <2>4, <2>5
<1>3. ASSUME NEW a \in ApprovalIds, Approve(a)
      PROVE  Abstract!Next
    <2> DEFINE cap == [approvals[a].cap EXCEPT !.status = "approved"]
               t == approvals[a].cap.ticket
    <2>1. approvals[a] \in Approvals /\ cap \in Caps /\ t \in Proposals
        BY DEF TypeOK, Approvals, Caps
    <2>2. cap.ticket = t /\ cap.ok = approvals[a].cap.ok
        BY <2>1 DEF Approvals, Caps
    <2>3. /\ issued' = Issue(cap)
          /\ \A b \in ApprovalIds \ {a} : approvals'[b] = approvals[b]
          /\ approvals'[a].status = "approved"
          /\ UNCHANGED <<ctx, calls>>
        BY <1>3, <2>1 DEF Approve, TypeOK, Approvals
    <2>4. Signing' = Signing /\ \A h \in H, u \in Proposals :
              Holds(h, u)' => \/ Holds(h, u) /\ ~(h = a /\ u = t)
                              \/ h = "registry" /\ u = t /\ cap.ok
        <3>1. \A u \in Proposals : InRegistry(u)' => InRegistry(u) \/ (u = t /\ cap.ok)
            BY <2>1, <2>2, <2>3, IssueAdds
        <3>2. a \notin Callers /\ a # "registry"
            BY HoldersAssumption
        <3>3. Signing' = Signing
            BY <2>3 DEF Signing
        <3>4. ASSUME NEW h \in H, NEW u \in Proposals, Holds(h, u)'
              PROVE  \/ Holds(h, u) /\ ~(h = a /\ u = t)
                     \/ h = "registry" /\ u = t /\ cap.ok
            <4> HIDE DEF t, cap
            <4>1. CASE h \in Callers
                <5>1. AtCaller(h, u)
                    BY <2>3, <3>4, <4>1, HoldersAssumption DEF Holds, AtCaller, InFlight
                <5> QED
                    BY <3>2, <4>1, <5>1 DEF Holds
            <4>2. CASE h = "registry"
                <5>1. InRegistry(u)'
                    BY <3>4, <4>2, HoldersAssumption DEF Holds
                <5> QED
                    BY <3>1, <3>2, <4>2, <5>1 DEF Holds
            <4>3. CASE h \in ApprovalIds
                <5>1. OnDesk(h, u)'
                    BY <3>4, <4>3, HoldersAssumption DEF Holds
                <5>2. h # a /\ approvals'[h] = approvals[h]
                    BY <2>3, <4>3, <5>1 DEF OnDesk
                <5> QED
                    BY <4>3, <5>1, <5>2 DEF Holds, OnDesk
            <4> QED
                BY <4>1, <4>2, <4>3
        <3> QED
            BY <3>3, <3>4
    <2>5. CASE cap.ok
        <3>1. Holds(a, t)
            BY <1>3, <2>2, <2>5 DEF Approve, Holds, OnDesk
        <3>2. Permits' \subseteq (Permits \ {<<a, t>>}) \cup {<<"registry", t>>}
            <4> HIDE DEF t, cap
            <4>1. \A h \in H, u \in Proposals :
                      Holds(h, u)' => <<h, u>> \in (Permits \ {<<a, t>>}) \cup {<<"registry", t>>}
                BY <1>b, <2>4
            <4> QED
                BY <4>1, PermitsWithin
        <3>3. Abstract!Move(a, "registry", t)
            BY <1>b, <2>1, <2>3, <2>4, <3>1, <3>2 DEF Abstract!Move, Abstract!Registry
        <3> QED
            BY <1>a, <2>1, <3>3 DEF Abstract!Next
    <2>6. CASE ~cap.ok
        <3>1. Permits' \subseteq Permits
            BY <1>b, <2>4, <2>6, PermitsWithin
        <3> QED
            BY <2>3, <2>4, <3>1 DEF Abstract!Next, Abstract!Lose
    <2> QED
        BY <2>5, <2>6
<1>4. ASSUME \/ \E a \in ApprovalIds : Deny(a)
             \/ ExpireApprovals
             \/ Tick
      PROVE  Abstract!Next
    <2>1. UNCHANGED <<ctx, calls>>
        BY <1>4 DEF Deny, ExpireApprovals, Tick
    <2>2. \A a \in ApprovalIds : /\ approvals'[a].status \in {approvals[a].status, "denied", "timeout"}
                                 /\ approvals'[a].cap.ok => approvals[a].cap.ok
                                 /\ approvals'[a].cap.ticket = approvals[a].cap.ticket
        <3>1. \A a \in ApprovalIds : approvals[a] \in Approvals
            BY DEF TypeOK
        <3>2. ASSUME NEW b \in ApprovalIds, Deny(b), NEW a \in ApprovalIds
              PROVE  /\ approvals'[a].status \in {approvals[a].status, "denied", "timeout"}
                     /\ approvals'[a].cap.ok => approvals[a].cap.ok
                     /\ approvals'[a].cap.ticket = approvals[a].cap.ticket
            <4>1. CASE a = b
                BY <3>1, <3>2, <4>1 DEF Deny, TypeOK, Approvals, Caps
            <4>2. CASE a # b
                BY <3>2, <4>2 DEF Deny, TypeOK
            <4> QED
                BY <4>1, <4>2
        <3>3. ASSUME ExpireApprovals, NEW a \in ApprovalIds
              PROVE  /\ approvals'[a].status \in {approvals[a].status, "denied", "timeout"}
                     /\ approvals'[a].cap.ok => approvals[a].cap.ok
                     /\ approvals'[a].cap.ticket = approvals[a].cap.ticket
            BY <3>1, <3>3 DEF ExpireApprovals, Approvals, Caps
        <3>4. ASSUME Tick, NEW a \in ApprovalIds
              PROVE  /\ approvals'[a].status \in {approvals[a].status, "denied", "timeout"}
                     /\ approvals'[a].cap.ok => approvals[a].cap.ok
                     /\ approvals'[a].cap.ticket = approvals[a].cap.ticket
            BY <3>1, <3>4 DEF Tick, Approvals, Caps
        <3> QED
            BY <1>4, <3>2, <3>3, <3>4
    <2>3. \A u \in Proposals : InRegistry(u)' => InRegistry(u)
        <3>1. CASE Tick
            <4>1. ASSUME NEW e \in issued, Executable([e EXCEPT !.age = Older(@)])
                  PROVE  Executable(e) /\ [e EXCEPT !.age = Older(@)].ticket = e.ticket
                <5>1. e \in Caps
                    BY DEF TypeOK
                <5>2. Older(e.age) <= Ttl => e.age <= Ttl
                    BY <5>1, BoundsAssumption DEF Older, Caps, Ages
                <5> QED
                    BY <4>1, <5>1, <5>2 DEF Executable, Caps
            <4> QED
                BY <3>1, <4>1 DEF Tick, InRegistry, Executable
        <3>2. CASE UNCHANGED issued
            BY <3>2 DEF InRegistry, Executable
        <3> QED
            BY <1>4, <3>1, <3>2 DEF Deny, ExpireApprovals
    <2>4. Signing' = Signing /\ \A h \in H, u \in Proposals : Holds(h, u)' => Holds(h, u)
        BY <2>1, <2>2, <2>3 DEF Holds, AtCaller, InFlight, OnDesk, Signing
    <2>5. Permits' \subseteq Permits
        BY <1>b, <2>4, PermitsWithin
    <2> QED
        BY <2>1, <2>4, <2>5 DEF Abstract!Next, Abstract!Lose
<1>5. ASSUME NEW c \in Callers, NEW t \in Proposals, Execute(c, t)
      PROVE  Abstract!Next
    BY <1>5, <1>f DEF Execute
<1>6. ASSUME NEW c \in Callers, NEW t \in Proposals, NEW h \in Proposals, ExecuteWithHash(c, t, h)
      PROVE  Abstract!Next
    <2>1. CASE ExecuteFresh(c, t, h = t)
        BY <2>1, <1>f
    <2>2. ASSUME NEW e \in Live, Returned(c), e.ticket = h, issued' = Without(Live, h),
                 Proceed(c, t, Binds(e, t)), UNCHANGED <<ctx, rows, approvals, humanSwaps>>
          PROVE  Abstract!Next
        <3>1. Binds(e, t) \in BOOLEAN
            BY DEF Binds, Live, TypeOK, Caps
        <3>2. Signing' = Signing /\ \A d \in Callers, u \in Proposals :
                  AtCaller(d, u)' => AtCaller(d, u) \/ (d = c /\ u = t /\ Binds(e, t))
            BY <2>2, <3>1, ProceedAdds
        <3>3. c # "registry"
            BY HoldersAssumption
        <3>4. \A g \in H, u \in Proposals :
                  Holds(g, u)' => \/ Holds(g, u) /\ ~(g = "registry" /\ u = h)
                                  \/ g = c /\ u = t /\ Binds(e, t)
            <4>1. ASSUME NEW g \in H, NEW u \in Proposals, Holds(g, u)'
                  PROVE  \/ Holds(g, u) /\ ~(g = "registry" /\ u = h)
                         \/ g = c /\ u = t /\ Binds(e, t)
                <5>1. CASE g \in Callers
                    <6>1. AtCaller(g, u)' /\ g # "registry"
                        BY <4>1, <5>1, HoldersAssumption DEF Holds
                    <6> QED
                        BY <3>2, <5>1, <6>1 DEF Holds
                <5>2. CASE g = "registry"
                    <6>1. InRegistry(u)'
                        BY <4>1, <5>2, HoldersAssumption DEF Holds
                    <6>2. InRegistry(u) /\ u # h
                        BY <2>2, <6>1, ConsumeRemoves
                    <6> QED
                        BY <5>2, <6>2 DEF Holds
                <5>3. CASE g \in ApprovalIds
                    <6>1. OnDesk(g, u)' /\ g # "registry"
                        BY <4>1, <5>3, HoldersAssumption DEF Holds
                    <6> QED
                        BY <2>2, <5>3, <6>1 DEF Holds, OnDesk
                <5> QED
                    BY <5>1, <5>2, <5>3
            <4> QED
                BY <4>1
        <3>5. CASE Binds(e, t)
            <4>1. h = t /\ Holds("registry", t)
                BY <2>2, <3>5 DEF Binds, Holds, InRegistry, Executable, Live
            <4>2. Permits' \subseteq (Permits \ {<<"registry", t>>}) \cup {<<c, t>>}
                <5>1. \A g \in H, u \in Proposals :
                          Holds(g, u)' => <<g, u>> \in (Permits \ {<<"registry", t>>}) \cup {<<c, t>>}
                    BY <1>b, <3>4, <4>1
                <5> QED
                    BY <5>1, PermitsWithin
            <4>3. Abstract!Move("registry", c, t)
                BY <1>b, <2>2, <3>2, <4>1, <4>2 DEF Abstract!Move, Abstract!Registry
            <4> QED
                BY <1>a, <4>3 DEF Abstract!Next
        <3>6. CASE ~Binds(e, t)
            <4>1. Permits' \subseteq Permits
                BY <1>b, <3>4, <3>6, PermitsWithin
            <4> QED
                BY <2>2, <3>2, <4>1 DEF Abstract!Next, Abstract!Lose
        <3> QED
            BY <3>5, <3>6
    <2> QED
        BY <1>6, <2>1, <2>2 DEF ExecuteWithHash
<1>7. ASSUME NEW c \in Callers, CallStep(c) \/ RecordPosition(c)
      PROVE  Abstract!Next
    <2> DEFINE t == calls[c].ticket
    <2>0. calls[c] \in Calls /\ t \in Proposals
        BY DEF TypeOK, Calls
    <2>1. UNCHANGED <<issued, approvals>> /\ ctx'.killed = ctx.killed
          /\ \A d \in Callers \ {c} : calls'[d] = calls[d]
        BY <1>7, <1>d
        DEF CallStep, Refuse, Resolve, SubmitUnpriced, SubmitPriced, Submit, SwapFails,
            SwapDelivers, FinishSwap, RecordPosition, TypeOK, Contexts
    <2>2. CASE InFlight(c) /\ calls'[c].pc = "swapping" /\ calls'[c].ticket = t
        <3>1. Permits' = Permits \ {<<c, t>>}
            <4>1. c \notin ApprovalIds /\ c # "registry"
                BY HoldersAssumption
            <4>2. \A h \in H, u \in Proposals : Holds(h, u)' <=> Holds(h, u) /\ ~(h = c /\ u = t)
                BY <2>1, <2>2, <4>1
                DEF Holds, AtCaller, InFlight, InRegistry, Executable, OnDesk
            <4> QED
                BY <4>2 DEF Permits
        <3>2. Signing' = Signing \cup {<<c, t>>}
            BY <2>0, <2>1, <2>2 DEF Signing, InFlight
        <3>3. <<c, t>> \in Permits
            BY <2>0, <2>2 DEF Permits, Holds, AtCaller
        <3>4. Abstract!Sign(c, t)
            BY <2>1, <3>1, <3>2, <3>3 DEF Abstract!Sign
        <3> QED
            BY <2>0, <3>4 DEF Abstract!Next
    <2>3. CASE calls[c].pc = "swapping" /\ calls'[c].pc \in {"idle", "refreshing"}
        <3>1. \A h \in H, u \in Proposals : Holds(h, u)' <=> Holds(h, u)
            BY <2>1, <2>3 DEF Holds, AtCaller, InFlight, InRegistry, Executable, OnDesk
        <3>2. Permits' = Permits
            BY <3>1 DEF Permits
        <3>3. Signing' = Signing \ {<<c, t>>}
            BY <2>0, <2>1, <2>3 DEF Signing
        <3>4. Abstract!Settle(c, t)
            BY <2>1, <3>2, <3>3 DEF Abstract!Settle
        <3> QED
            BY <2>0, <3>4 DEF Abstract!Next
    <2>4. CASE /\ calls[c].pc # "swapping" /\ calls'[c].pc # "swapping"
               /\ InFlight(c)' => InFlight(c) /\ calls'[c].ticket = t
        <3>1. Signing' = Signing /\ \A h \in H, u \in Proposals : Holds(h, u)' => Holds(h, u)
            BY <2>1, <2>4 DEF Holds, AtCaller, InFlight, InRegistry, Executable, OnDesk, Signing
        <3>2. Permits' \subseteq Permits
            BY <1>b, <3>1, PermitsWithin
        <3> QED
            BY <2>1, <3>1, <3>2 DEF Abstract!Next, Abstract!Lose
    <2>5. CASE Refuse(c) \/ Resolve(c) \/ FinishSwap(c) \/ RecordPosition(c)
        <3>1. /\ calls[c].pc # "swapping" /\ calls'[c].pc # "swapping"
              /\ InFlight(c)' => InFlight(c) /\ calls'[c].ticket = t
            BY <2>0, <2>5 DEF Refuse, Resolve, FinishSwap, RecordPosition, InFlight, IdleCall, TypeOK, Calls
        <3> QED
            BY <2>4, <3>1
    <2>6. CASE SwapFails(c) \/ SwapDelivers(c)
        <3>1. calls[c].pc = "swapping" /\ calls'[c].pc \in {"idle", "refreshing"}
            BY <2>0, <2>6 DEF SwapFails, SwapDelivers, IdleCall, TypeOK, Calls
        <3> QED
            BY <2>3, <3>1
    <2>7. CASE SubmitUnpriced(c) \/ SubmitPriced(c)
        <3>1. InFlight(c) /\ calls'[c].pc = "swapping" /\ calls'[c].ticket = t
            BY <2>0, <2>7 DEF SubmitUnpriced, SubmitPriced, Submit, InFlight, TypeOK, Calls
        <3> QED
            BY <2>2, <3>1
    <2> QED
        BY <1>7, <2>5, <2>6, <2>7 DEF CallStep
<1>8. CASE RefreshAll \/ RowCloses \/ BreakerMoves \/ BrakeMoves
    <2>1. UNCHANGED <<issued, approvals, calls>> /\ ctx'.killed \in BOOLEAN
        BY <1>8, <1>d DEF RefreshAll, RowCloses, BreakerMoves, BrakeMoves, Contexts
    <2> QED
        BY <1>e, <2>1 DEF Abstract!Next
<1>9. CASE UNCHANGED vars
    <2>1. UNCHANGED <<issued, approvals, calls, ctx>>
        BY <1>9 DEF vars
    <2> QED
        BY <2>1, PermitsUnmoved DEF Abstract!vars
<1> QED
    BY <1>1, <1>2, <1>3, <1>4, <1>5, <1>6, <1>7, <1>8, <1>9 DEF Next

(* The code starts without any permit. *)
LEMMA InitSimulation == Init => Abstract!Init
<1> SUFFICES ASSUME Init
             PROVE  Abstract!Init
    OBVIOUS
<1>1. Permits = {}
    BY DEF Init, Permits, Holds, AtCaller, InFlight, InRegistry, OnDesk, IdleCall, FreeApproval
<1>2. Signing = {}
    BY DEF Init, Signing, IdleCall
<1>3. ctx.killed = FALSE
    BY DEF Init
<1> QED
    BY <1>1, <1>2, <1>3 DEF Abstract!Init

(* The authorization path is a system of permits that are created only      *)
(* while trading is not halted, reach the registry past a human where one   *)
(* is needed, and are moved, never copied, until a swap is signed.          *)
THEOREM Refinement == Spec => ImplementsPermits
<1>1. Init => Abstract!Init
    BY InitSimulation
<1>2. TypeOK /\ [Next]_vars => [Abstract!Next]_(Abstract!vars)
    BY StepSimulation
<1> QED
    BY <1>1, <1>2, TypeCorrect, PTL DEF Spec, ImplementsPermits, Abstract!Spec

(* A step of SwapPermits exposes no new ticket while the brake is on. *)
LEMMA MovesExposeNothing ==
    ASSUME [Abstract!Next]_(Abstract!vars), ctx.killed
    PROVE  Exposed' \subseteq Exposed
<1> SUFFICES ASSUME NEW p \in Permits'
             PROVE  p[2] \in Exposed
    BY DEF Exposed
<1>0. Permits \subseteq (Callers \cup ApprovalIds \cup {"registry"}) \X Proposals
    BY DEF Permits
<1>1. CASE Permits' \subseteq Permits
    BY <1>1 DEF Exposed
<1>2. ASSUME NEW g, NEW h, NEW t, Abstract!Move(g, h, t)
      PROVE  p[2] \in Exposed
    <2>1. <<g, t>> \in Permits /\ (p \in Permits \/ p = <<h, t>>)
        BY <1>2 DEF Abstract!Move
    <2>2. <<g, t>>[2] \in Exposed
        BY <2>1 DEF Exposed
    <2> QED
        BY <2>1, <2>2 DEF Exposed
<1>3. ASSUME NEW h, NEW t, Abstract!Grant(h, t)
      PROVE  FALSE
    BY <1>3 DEF Abstract!Grant
<1>4. ASSUME NEW c, NEW t, Abstract!Sign(c, t) \/ Abstract!Settle(c, t)
      PROVE  Permits' \subseteq Permits
    BY <1>4 DEF Abstract!Sign, Abstract!Settle
<1> QED
    BY <1>1, <1>2, <1>3, <1>4 DEF Abstract!Next, Abstract!Lose, Abstract!Brake, Abstract!vars

(* While the kill switch is active no ticket becomes executable that was    *)
(* not already on its way, for every number of callers and requests.        *)
THEOREM HaltContains == Spec => HaltContainment
<1>1. TypeOK /\ [Next]_vars => [ctx.killed => Exposed' \subseteq Exposed]_vars
    BY StepSimulation, MovesExposeNothing
<1> QED
    BY <1>1, TypeCorrect, PTL DEF Spec, HaltContainment

-----------------------------------------------------------------------------
(* The human's say *)

Approved(t) == {a \in ApprovalIds : approvals[a].status = "approved" /\ approvals[a].cap.ticket = t}
(* Who may still have the ticket signed without asking again. *)
Claims(t) == {h \in Callers \cup {"registry"} : Holds(h, t)}
(* Every signature and every claim has an approval of its own. *)
HitlInv ==
    \A t \in Proposals : IsCaution(t) =>
        humanSwaps[t] + Cardinality(Claims(t)) <= Cardinality(Approved(t))

LEMMA ClaimsAreHeld ==
    ASSUME NEW t \in Proposals
    PROVE  /\ \A c \in Callers : c \in Claims(t) <=> AtCaller(c, t)
           /\ "registry" \in Claims(t) <=> InRegistry(t)
           /\ Claims(t) \subseteq Callers \cup {"registry"}
BY HoldersAssumption DEF Claims, Holds

LEMMA ClaimsFinite ==
    ASSUME NEW t \in Proposals
    PROVE  /\ IsFiniteSet(Claims(t)) /\ IsFiniteSet(Approved(t))
           /\ Cardinality(Claims(t)) \in Nat /\ Cardinality(Approved(t)) \in Nat
<1>1. IsFiniteSet(Callers \cup {"registry"})
    BY FinitenessAssumption, FS_AddElement
<1>2. Claims(t) \in SUBSET (Callers \cup {"registry"}) /\ Approved(t) \in SUBSET ApprovalIds
    BY DEF Claims, Approved
<1>3. IsFiniteSet(Claims(t)) /\ IsFiniteSet(Approved(t))
    BY <1>1, <1>2, FS_Subset, FinitenessAssumption
<1> QED
    BY <1>3, FS_CardinalityType

LEMMA ClaimsStayFinite ==
    ASSUME NEW t \in Proposals
    PROVE  /\ IsFiniteSet(Claims(t)') /\ IsFiniteSet(Approved(t)')
           /\ Cardinality(Claims(t)') \in Nat /\ Cardinality(Approved(t)') \in Nat
<1>1. IsFiniteSet(Callers \cup {"registry"})
    BY FinitenessAssumption, FS_AddElement
<1>2. Claims(t)' \in SUBSET (Callers \cup {"registry"}) /\ Approved(t)' \in SUBSET ApprovalIds
    BY DEF Claims, Approved
<1>3. IsFiniteSet(Claims(t)') /\ IsFiniteSet(Approved(t)')
    BY <1>1, <1>2, FS_Subset, FinitenessAssumption
<1> QED
    BY <1>3, FS_CardinalityType

(* The four things that may happen to a caution ticket: nothing, a claim    *)
(* being lost; an approval, which puts it into the registry; a caller that  *)
(* takes it from there; a signature.                                        *)
Dropped(t) ==
    humanSwaps'[t] = humanSwaps[t] /\ Claims(t)' \subseteq Claims(t) /\ Approved(t) \subseteq Approved(t)'
Greenlit(t) ==
    /\ humanSwaps'[t] = humanSwaps[t] /\ Claims(t)' \subseteq Claims(t) \cup {"registry"}
    /\ Approved(t) \subseteq Approved(t)' /\ Approved(t) # Approved(t)'
Taken(t, c) ==
    /\ humanSwaps'[t] = humanSwaps[t] /\ "registry" \in Claims(t) /\ c \notin Claims(t)
    /\ Claims(t)' \subseteq (Claims(t) \ {"registry"}) \cup {c} /\ Approved(t)' = Approved(t)
Signed(t, c) ==
    /\ humanSwaps'[t] \in {humanSwaps[t], humanSwaps[t] + 1} /\ c \in Claims(t)
    /\ Claims(t)' \subseteq Claims(t) \ {c} /\ Approved(t)' = Approved(t)

LEMMA AddsOne ==
    ASSUME NEW S, IsFiniteSet(S), NEW x
    PROVE  IsFiniteSet(S \cup {x}) /\ Cardinality(S \cup {x}) <= Cardinality(S) + 1
<1>1. Cardinality(S) \in Nat
    BY FS_CardinalityType
<1>2. /\ IsFiniteSet(S \cup {x})
      /\ Cardinality(S \cup {x}) = IF x \in S THEN Cardinality(S) ELSE Cardinality(S) + 1
    BY FS_AddElement
<1> QED
    BY <1>1, <1>2

LEMMA ClaimsCounted ==
    ASSUME TypeOK, NEW t \in Proposals, humanSwaps[t] + Cardinality(Claims(t)) <= Cardinality(Approved(t)),
           Dropped(t) \/ Greenlit(t) \/ \E c \in Callers : Taken(t, c) \/ Signed(t, c)
    PROVE  humanSwaps'[t] + Cardinality(Claims(t)') <= Cardinality(Approved(t)')
<1>0. /\ IsFiniteSet(Claims(t)) /\ IsFiniteSet(Approved(t)')
      /\ Cardinality(Claims(t)) \in Nat /\ Cardinality(Approved(t)) \in Nat
      /\ Cardinality(Claims(t)') \in Nat /\ Cardinality(Approved(t)') \in Nat
      /\ humanSwaps[t] \in Nat
    BY ClaimsFinite, ClaimsStayFinite DEF TypeOK
<1>1. CASE Dropped(t)
  <2>1. Cardinality(Claims(t)') <= Cardinality(Claims(t)) /\ Cardinality(Approved(t)) <= Cardinality(Approved(t)')
    BY <1>0, <1>1, FS_Subset DEF Dropped
  <2> QED BY <1>0, <1>1, <2>1 DEF Dropped
<1>2. CASE Greenlit(t)
  <2>1. Cardinality(Claims(t)') <= Cardinality(Claims(t)) + 1
    <3>1. IsFiniteSet(Claims(t) \cup {"registry"})
          /\ Cardinality(Claims(t) \cup {"registry"}) <= Cardinality(Claims(t)) + 1
      BY <1>0, AddsOne
    <3>2. Cardinality(Claims(t)') <= Cardinality(Claims(t) \cup {"registry"})
      BY <1>2, <3>1, FS_Subset DEF Greenlit
    <3>3. Cardinality(Claims(t) \cup {"registry"}) \in Nat
      BY <3>1, FS_CardinalityType
    <3> QED BY <1>0, <3>1, <3>2, <3>3
  <2>2. Cardinality(Approved(t)) < Cardinality(Approved(t)')
    <3>1. /\ Cardinality(Approved(t)) <= Cardinality(Approved(t)')
          /\ Cardinality(Approved(t)') # Cardinality(Approved(t))
      BY <1>0, <1>2, FS_Subset DEF Greenlit
    <3> QED BY <1>0, <3>1
  <2> QED BY <1>0, <1>2, <2>1, <2>2 DEF Greenlit
<1>3. ASSUME NEW c \in Callers, Taken(t, c)
      PROVE  humanSwaps'[t] + Cardinality(Claims(t)') <= Cardinality(Approved(t)')
  <2> DEFINE rest == Claims(t) \ {"registry"}
  <2>1. IsFiniteSet(rest) /\ Cardinality(rest) = Cardinality(Claims(t)) - 1
    BY <1>0, <1>3, FS_RemoveElement DEF Taken
  <2>2. IsFiniteSet(rest \cup {c}) /\ Cardinality(rest \cup {c}) <= Cardinality(rest) + 1
    <3> HIDE DEF rest
    <3> QED BY <2>1, AddsOne
  <2>3. Cardinality(Claims(t)') <= Cardinality(rest \cup {c}) /\ Cardinality(rest \cup {c}) \in Nat
    BY <1>3, <2>2, FS_Subset, FS_CardinalityType DEF Taken
  <2> HIDE DEF rest
  <2>4. Cardinality(Claims(t)') <= Cardinality(Claims(t))
    BY <1>0, <2>1, <2>2, <2>3
  <2> QED BY <1>0, <1>3, <2>4 DEF Taken
<1>4. ASSUME NEW c \in Callers, Signed(t, c)
      PROVE  humanSwaps'[t] + Cardinality(Claims(t)') <= Cardinality(Approved(t)')
  <2>1. IsFiniteSet(Claims(t) \ {c}) /\ Cardinality(Claims(t) \ {c}) = Cardinality(Claims(t)) - 1
    BY <1>0, <1>4, FS_RemoveElement DEF Signed
  <2>2. Cardinality(Claims(t)') <= Cardinality(Claims(t) \ {c})
    BY <1>4, <2>1, FS_Subset DEF Signed
  <2>3. Cardinality(Claims(t)') + 1 <= Cardinality(Claims(t))
    BY <1>0, <2>1, <2>2
  <2>4. humanSwaps'[t] \in Nat /\ humanSwaps'[t] <= humanSwaps[t] + 1 /\ Approved(t)' = Approved(t)
    BY <1>0, <1>4 DEF Signed
  <2> QED BY <1>0, <2>3, <2>4
<1> QED
    BY <1>1, <1>2, <1>3, <1>4

LEMMA HitlStep == TypeOK /\ HitlInv /\ [Next]_vars => HitlInv'
<1> SUFFICES ASSUME TypeOK, HitlInv, [Next]_vars, NEW t \in Proposals, IsCaution(t)
             PROVE  Dropped(t) \/ Greenlit(t) \/ \E c \in Callers : Taken(t, c) \/ Signed(t, c)
  <2>1. ASSUME TypeOK, HitlInv, [Next]_vars, NEW t \in Proposals, IsCaution(t),
               Dropped(t) \/ Greenlit(t) \/ \E c \in Callers : Taken(t, c) \/ Signed(t, c)
        PROVE  humanSwaps'[t] + Cardinality(Claims(t)') <= Cardinality(Approved(t)')
    <3>1. humanSwaps[t] + Cardinality(Claims(t)) <= Cardinality(Approved(t))
      BY <2>1 DEF HitlInv
    <3> QED BY <2>1, <3>1, ClaimsCounted
  <2> QED BY <2>1 DEF HitlInv
<1>a. t \in Tickets /\ ctx \in Contexts /\ Check(t) \in Caps
    BY SetsAssumption, CheckType DEF TypeOK
<1>b. Check(t).ok => Check(t).human /\ Check(t).status = "pending"
    BY <1>a, CautionNeedsHuman, CapsAreBoolean DEF Check, IsCaution
<1>c. ASSUME UNCHANGED humanSwaps, \A c \in Callers : AtCaller(c, t)' => AtCaller(c, t),
             InRegistry(t)' => InRegistry(t), Approved(t) \subseteq Approved(t)'
      PROVE  Dropped(t)
  <2>1. Claims(t)' \subseteq Claims(t)
    BY <1>c, HoldersAssumption DEF Claims, Holds, OnDesk
  <2> QED BY <1>c, <2>1 DEF Dropped
<1>d. UNCHANGED calls => \A c \in Callers : AtCaller(c, t)' <=> AtCaller(c, t)
    BY DEF AtCaller, InFlight
<1>e. (UNCHANGED issued => (InRegistry(t)' <=> InRegistry(t))) /\ (UNCHANGED approvals => Approved(t)' = Approved(t))
    BY DEF InRegistry, Executable, Approved
<1>f. ASSUME NEW c \in Callers, NEW u \in Proposals, NEW m \in BOOLEAN, ExecuteFresh(c, u, m)
      PROVE  Dropped(t)
  <2>1. Check(u) \in Caps
    BY CheckType
  <2>2. \A d \in Callers : AtCaller(d, t)' => AtCaller(d, t)
    BY <1>b, <1>f, <2>1, ProceedAdds DEF ExecuteFresh, Caps
  <2>3. InRegistry(t)' => InRegistry(t)
    BY <1>f, ConsumeRemoves DEF ExecuteFresh
  <2> QED BY <1>c, <1>e, <1>f, <2>2, <2>3 DEF ExecuteFresh
<1>1. ASSUME NEW u \in Proposals, Authorize(u)
      PROVE  Dropped(t)
  <2>1. Check(u) \in Caps /\ issued' = Issue(Check(u))
    BY <1>1, CheckType DEF Authorize
  <2>2. InRegistry(t)' => InRegistry(t)
    BY <1>b, <2>1, IssueAdds DEF Check, Executable
  <2> QED BY <1>1, <1>c, <1>d, <1>e, <2>2 DEF Authorize
<1>2. ASSUME NEW a \in ApprovalIds, NEW u \in Proposals, RequestApproval(a, u)
      PROVE  Dropped(t)
  <2>1. a \notin Approved(t) /\ \A b \in ApprovalIds : b # a => approvals'[b] = approvals[b]
    BY <1>2 DEF RequestApproval, Approved, TypeOK
  <2>2. Approved(t) \subseteq Approved(t)'
    BY <2>1 DEF Approved
  <2> QED BY <1>2, <1>c, <1>d, <1>e, <2>2 DEF RequestApproval
<1>3. ASSUME NEW a \in ApprovalIds, Approve(a)
      PROVE  Dropped(t) \/ Greenlit(t)
  <2> DEFINE cap == [approvals[a].cap EXCEPT !.status = "approved"]
  <2>1. approvals[a] \in Approvals /\ cap \in Caps /\ cap.ticket = approvals[a].cap.ticket
    BY DEF TypeOK, Approvals, Caps
  <2>2. /\ issued' = Issue(cap) /\ approvals[a].status = "pending"
        /\ \A b \in ApprovalIds \ {a} : approvals'[b] = approvals[b]
        /\ approvals'[a].status = "approved" /\ approvals'[a].cap = cap
        /\ UNCHANGED <<humanSwaps, calls>>
    BY <1>3, <2>1 DEF Approve, TypeOK, Approvals
  <2>3. InRegistry(t)' => InRegistry(t) \/ t = cap.ticket
    BY <2>1, <2>2, IssueAdds
  <2>4. Approved(t) \subseteq Approved(t)'
    BY <2>2 DEF Approved
  <2>5. CASE t = cap.ticket
    <3>1. a \in Approved(t)' /\ a \notin Approved(t)
      BY <2>2, <2>5 DEF Approved
    <3>2. Claims(t)' \subseteq Claims(t) \cup {"registry"}
      BY <1>d, <2>2 DEF Claims, Holds, OnDesk
    <3> QED BY <2>2, <2>4, <3>1, <3>2 DEF Greenlit
  <2>6. CASE t # cap.ticket
    BY <1>c, <1>d, <2>2, <2>3, <2>4, <2>6
  <2> QED BY <2>5, <2>6
<1>4. ASSUME NEW a \in ApprovalIds, Deny(a)
      PROVE  Dropped(t)
  <2>1. Approved(t) \subseteq Approved(t)'
    BY <1>4 DEF Deny, Approved, TypeOK
  <2> QED BY <1>4, <1>c, <1>d, <1>e, <2>1 DEF Deny
<1>5. ASSUME ExpireApprovals
      PROVE  Dropped(t)
  <2>1. Approved(t) \subseteq Approved(t)'
    BY <1>5 DEF ExpireApprovals, Approved
  <2> QED BY <1>5, <1>c, <1>d, <1>e, <2>1 DEF ExpireApprovals
<1>6. ASSUME NEW c \in Callers, NEW u \in Proposals, Execute(c, u)
      PROVE  Dropped(t)
  BY <1>6, <1>f DEF Execute
<1>7. ASSUME NEW c \in Callers, NEW u \in Proposals, NEW h \in Proposals, ExecuteWithHash(c, u, h)
      PROVE  Dropped(t) \/ Taken(t, c)
  <2>1. CASE ExecuteFresh(c, u, h = u)
    <3>1. (h = u) \in BOOLEAN
      OBVIOUS
    <3> QED BY <1>f, <2>1, <3>1
  <2>2. ASSUME NEW e \in Live, Returned(c), e.ticket = h, issued' = Without(Live, h),
               Proceed(c, u, Binds(e, u)), UNCHANGED <<approvals, humanSwaps>>
        PROVE  Dropped(t) \/ Taken(t, c)
    <3>0. e \in Caps /\ Binds(e, u) \in BOOLEAN
      BY <2>2 DEF Live, TypeOK, Caps, Binds
    <3>1. \A d \in Callers : AtCaller(d, t)' => AtCaller(d, t) \/ (d = c /\ u = t /\ Binds(e, u))
      BY <2>2, <3>0, ProceedAdds
    <3>2. InRegistry(t)' => InRegistry(t) /\ t # h
      BY <2>2, ConsumeRemoves
    <3>3. Approved(t)' = Approved(t)
      BY <2>2, <1>e
    <3>4. CASE u = t /\ Binds(e, u)
      <4>1. h = t /\ InRegistry(t)
        BY <2>2, <3>4 DEF Binds, Live, InRegistry, Executable
      <4>2. ~AtCaller(c, t)
        BY <2>2 DEF Returned, AtCaller, InFlight
      <4>3. Claims(t)' \subseteq (Claims(t) \ {"registry"}) \cup {c}
        <5>1. \A d \in Claims(t)' : d \in Callers /\ AtCaller(d, t)'
          BY <3>2, <4>1, HoldersAssumption DEF Claims, Holds
        <5>2. \A d \in Callers : AtCaller(d, t) => d \in Claims(t) \ {"registry"}
          BY HoldersAssumption, ClaimsAreHeld
        <5> QED BY <3>1, <5>1, <5>2
      <4> QED BY <2>2, <3>3, <4>1, <4>2, <4>3, ClaimsAreHeld DEF Taken
    <3>5. CASE ~(u = t /\ Binds(e, u))
      BY <1>c, <2>2, <3>1, <3>2, <3>3, <3>5
    <3> QED BY <3>4, <3>5
  <2> QED BY <1>7, <2>1, <2>2 DEF ExecuteWithHash
<1>8. ASSUME NEW c \in Callers, CallStep(c) \/ RecordPosition(c)
      PROVE  Dropped(t) \/ Signed(t, c)
  <2>0. calls \in [Callers -> Calls] /\ humanSwaps \in [Proposals -> Nat]
    BY DEF TypeOK
  <2>1. CASE Refuse(c) \/ SwapFails(c) \/ Resolve(c) \/ SwapDelivers(c) \/ FinishSwap(c) \/ RecordPosition(c)
    <3>1. \A d \in Callers : AtCaller(d, t)' => AtCaller(d, t)
      BY <2>0, <2>1
      DEF Refuse, SwapFails, Resolve, SwapDelivers, FinishSwap, RecordPosition, AtCaller, InFlight, IdleCall, Calls
    <3>2. UNCHANGED <<issued, approvals, humanSwaps>>
      BY <2>1 DEF Refuse, SwapFails, Resolve, SwapDelivers, FinishSwap, RecordPosition
    <3> QED BY <1>c, <1>e, <3>1, <3>2
  <2>2. CASE SubmitUnpriced(c) \/ SubmitPriced(c)
    <3>1. PICK m \in BOOLEAN : Submit(c, m) /\ InFlight(c)
      BY <2>2 DEF SubmitUnpriced, SubmitPriced, InFlight
    <3>2. /\ \A d \in Callers : d # c => calls'[d] = calls[d]
          /\ calls'[c].pc = "swapping" /\ UNCHANGED <<issued, approvals>>
      BY <2>0, <3>1 DEF Submit, Calls
    <3>3. \A d \in Callers : AtCaller(d, t)' => AtCaller(d, t) /\ d # c
      BY <3>2 DEF AtCaller, InFlight
    <3>4. humanSwaps'[t] \in {humanSwaps[t], humanSwaps[t] + 1}
      BY <2>0, <3>1 DEF Submit
    <3>5. calls[c].ticket # t => UNCHANGED humanSwaps \/ humanSwaps'[t] = humanSwaps[t]
      BY <2>0, <3>1 DEF Submit
    <3>6. CASE calls[c].ticket = t
      <4>1. c \in Claims(t)
        BY <3>1, <3>6, ClaimsAreHeld DEF AtCaller
      <4>2. Claims(t)' \subseteq Claims(t) \ {c}
        <5>1. "registry" # c
          BY HoldersAssumption
        <5>2. InRegistry(t)' <=> InRegistry(t)
          BY <1>e, <3>2
        <5> QED BY <3>3, <5>1, <5>2, HoldersAssumption DEF Claims, Holds, OnDesk
      <4> QED BY <1>e, <3>2, <3>4, <4>1, <4>2 DEF Signed
    <3>7. CASE calls[c].ticket # t
      <4>1. Claims(t)' \subseteq Claims(t)
        BY <1>e, <3>2, <3>3, HoldersAssumption DEF Claims, Holds, OnDesk
      <4> QED BY <1>e, <3>2, <3>5, <3>7, <4>1 DEF Dropped
    <3> QED BY <3>6, <3>7
  <2> QED BY <1>8, <2>1, <2>2 DEF CallStep
<1>9. CASE RefreshAll \/ RowCloses \/ BreakerMoves \/ BrakeMoves \/ UNCHANGED vars
  <2>1. UNCHANGED <<issued, approvals, calls, humanSwaps>>
    BY <1>9 DEF RefreshAll, RowCloses, BreakerMoves, BrakeMoves, vars
  <2> QED BY <1>c, <1>d, <1>e, <2>1
<1>10. CASE Tick
  <2>1. UNCHANGED <<calls, humanSwaps>>
    BY <1>10 DEF Tick
  <2>2. Approved(t) \subseteq Approved(t)'
    BY <1>10 DEF Tick, Approved, TypeOK, Approvals, Caps
  <2>3. InRegistry(t)' => InRegistry(t)
    <3> SUFFICES ASSUME NEW e \in issued', e.ticket = t, Executable(e) PROVE InRegistry(t)
      BY DEF InRegistry, Executable
    <3>1. PICK f \in issued : e = [f EXCEPT !.age = Older(f.age)]
      BY <1>10 DEF Tick
    <3>2. f \in Caps
      BY <3>1 DEF TypeOK
    <3>3. /\ e.ticket = f.ticket /\ e.human = f.human /\ e.status = f.status /\ e.age = Older(f.age)
          /\ f.age \in Nat
      BY <3>1, <3>2 DEF Caps, Ages
    <3>4. Older(f.age) <= Ttl => f.age <= Ttl
      BY <3>3, BoundsAssumption DEF Older
    <3> QED BY <3>1, <3>3, <3>4 DEF Executable, InRegistry
  <2> QED BY <1>c, <1>d, <2>1, <2>2, <2>3
<1> QED
  BY <1>1, <1>2, <1>3, <1>4, <1>5, <1>6, <1>7, <1>8, <1>9, <1>10 DEF Next

(* The human is asked every time: a caution ticket is signed at most as     *)
(* often as an operator approved it, whoever presents it, with or without   *)
(* its hash, and however stale the registry is.                             *)
THEOREM HumanIsAsked == Spec => []HitlHonoured
<1>1. Init => HitlInv
  <2> SUFFICES ASSUME Init, NEW t \in Proposals
               PROVE  humanSwaps[t] + Cardinality(Claims(t)) <= Cardinality(Approved(t))
    BY DEF HitlInv
  <2>1. Claims(t) = {}
    BY HoldersAssumption, ClaimsAreHeld DEF Init, Claims, Holds, AtCaller, InFlight, InRegistry, OnDesk, FreeApproval, IdleCall
  <2>2. Cardinality(Claims(t)) = 0 /\ humanSwaps[t] = 0
    BY <2>1, FS_EmptySet DEF Init
  <2> QED BY <2>2, ClaimsFinite
<1>2. TypeOK /\ HitlInv => HitlHonoured
  <2> SUFFICES ASSUME TypeOK, HitlInv, NEW t \in Proposals, IsCaution(t)
               PROVE  humanSwaps[t] <= Cardinality(Approved(t))
    BY DEF HitlHonoured, Approved
  <2>1. humanSwaps[t] + Cardinality(Claims(t)) <= Cardinality(Approved(t))
    BY DEF HitlInv
  <2>2. Cardinality(Claims(t)) \in Nat /\ Cardinality(Approved(t)) \in Nat /\ humanSwaps[t] \in Nat
    BY ClaimsFinite DEF TypeOK
  <2> QED BY <2>1, <2>2
<1> QED
  BY <1>1, <1>2, InitType, NextType, HitlStep, PTL DEF Spec
=============================================================================
