---------------------------- MODULE Gates_proofs -----------------------------
(***************************************************************************)
(* What stands before every trade.  KillSwitch: its safety properties, for *)
(* every grace window, every set of URLs and any number of restarts.       *)
(* TierGates: the gates never turn round; for every setting of the limits, *)
(* the properties TLC checks on a grid hold of every proposal and tier.    *)
(* RateLimit: a bucket keeps its cap and strands no slot, for any number   *)
(* of callers, any cap and any gap, and so do the requests of HttpRequests *)
(* that go through it.  TokenAudit: no report is older than the caches     *)
(* allow, for all lifetimes, tokens and callers.  Scoring: of two reports  *)
(* the worse never fares better, whatever the numbers in them.             *)
(***************************************************************************)
EXTENDS KillSwitch, TierGates, HttpRequests, TokenAudit, Recursion_proofs, FiniteSetTheorems, FunctionTheorems, TLAPS

(* NoTradingInSilence is not inductive: the miss counter, not the history  *)
(* variable, decides whether a failed poll trips the brake.  While the     *)
(* agent trades the two agree, and the counter is inside the window.       *)
WindowOpen == ~active => misses = silence /\ misses < MaxMisses

IInv == TypeOK /\ WindowOpen /\ AutoTripOnlyWhileActive

(* One more failed poll, still inside the bound that caps the counters. *)
LEMMA BumpType ==
    ASSUME NEW n \in 0..MissBound
    PROVE  Bump(n) \in 0..MissBound
BY MissesAssumption DEF Bump

(* The code starts with the brake off and no poll missed. *)
LEMMA InitIInv == Init => IInv
<1> SUFFICES ASSUME Init
             PROVE  IInv
    OBVIOUS
<1>1. 0 \in 0..MissBound /\ 0 \in 0..MaxRestarts /\ 0 < MaxMisses
    BY MissesAssumption, RestartsAssumption
<1>2. TypeOK
    BY <1>1 DEF Init, TypeOK
<1>3. WindowOpen /\ AutoTripOnlyWhileActive
    BY <1>1 DEF Init, WindowOpen, AutoTripOnlyWhileActive
<1> QED
    BY <1>2, <1>3 DEF IInv

(* Every step of the coordinator, of the operator and of the endpoint keeps *)
(* the flags, the counters and the grace window consistent.                 *)
LEMMA NextIInv == IInv /\ [Next]_vars => IInv'
<1> SUFFICES ASSUME IInv, [Next]_vars
             PROVE  IInv'
    OBVIOUS
<1> USE DEF IInv, WindowOpen, AutoTripOnlyWhileActive
<1>0. 0 \in 0..MissBound /\ 0 < MaxMisses
    BY MissesAssumption
<1>1. CASE PollUnset
    BY <1>0, <1>1 DEF PollUnset, TypeOK
<1>2. ASSUME RegisterMiss
      PROVE  /\ active' \in BOOLEAN /\ autoTripped' \in BOOLEAN
             /\ misses' \in 0..MissBound /\ silence' \in 0..MissBound
             /\ operatorHalt' \in BOOLEAN
             /\ WindowOpen' /\ AutoTripOnlyWhileActive'
    <2>1. misses' \in 0..MissBound /\ silence' \in 0..MissBound
        BY <1>2, BumpType DEF RegisterMiss, TypeOK
    <2>2. WindowOpen'
        <3> SUFFICES ASSUME ~active'
                     PROVE  misses' = silence' /\ misses' < MaxMisses
            OBVIOUS
        <3>1. ~active /\ ~(Bump(misses) >= MaxMisses)
            BY <1>2 DEF RegisterMiss, TypeOK
        <3>2. misses' = Bump(misses) /\ silence' = Bump(misses)
            BY <1>2, <3>1 DEF RegisterMiss
        <3> QED
            BY <2>1, <3>1, <3>2, MissesAssumption
    <2>3. AutoTripOnlyWhileActive'
        BY <1>2 DEF RegisterMiss, TypeOK
    <2> QED
        BY <1>2, <2>1, <2>2, <2>3 DEF RegisterMiss, TypeOK
<1>3. CASE PollInsecure
    BY <1>2, <1>3 DEF PollInsecure, TypeOK
<1>4. CASE PollSend
    BY <1>4 DEF PollSend, brake, TypeOK
<1>5. CASE PollReceive
    BY <1>0, <1>5 DEF PollReceive, TypeOK
<1>6. CASE PollFail
    BY <1>2, <1>6 DEF PollFail, TypeOK
<1>7. ASSUME NEW on \in BOOLEAN, SetKillSwitch(on)
      PROVE  IInv'
    <2>1. CASE on = active
        BY <1>7, <2>1 DEF SetKillSwitch, TypeOK
    <2>2. CASE on # active
        BY <1>0, <1>7, <2>2 DEF SetKillSwitch, TypeOK
    <2> QED
        BY <2>1, <2>2
<1>8. CASE Restart
    <2>1. restarts' \in 0..MaxRestarts
        BY <1>8, RestartsAssumption DEF Restart, TypeOK
    <2> QED
        BY <1>0, <1>8, <2>1 DEF Restart, TypeOK
<1>9. CASE EndpointChange
    BY <1>9 DEF EndpointChange, brake, TypeOK
<1>10. CASE EndpointAnswer
    BY <1>10 DEF EndpointAnswer, brake, TypeOK
<1>11. CASE UNCHANGED vars
    BY <1>11 DEF vars, TypeOK
<1> QED
    BY <1>1, <1>3, <1>4, <1>5, <1>6, <1>7, <1>8, <1>9, <1>10, <1>11 DEF Next, PostKill

(* The strengthened invariant holds throughout every behaviour. *)
THEOREM InvariantHolds == Spec => []IInv
<1>1. Init => IInv
    BY InitIInv
<1>2. IInv /\ [Next]_vars => IInv'
    BY NextIInv
<1> QED
    BY <1>1, <1>2, PTL DEF Spec

(* The brake's flags, counters and in-flight poll always have the types of  *)
(* CoordinatorState.                                                        *)
THEOREM TypeCorrect == Spec => []TypeOK
<1>1. IInv => TypeOK
    BY DEF IInv
<1> QED
    BY <1>1, InvariantHolds, PTL

(* For every grace window: after that many unanswered polls in a row the    *)
(* agent is halted, whatever the operator, the endpoint and restarts do.    *)
THEOREM GraceWindow == Spec => []NoTradingInSilence
<1>1. IInv => NoTradingInSilence
    BY MissesAssumption DEF IInv, TypeOK, WindowOpen, NoTradingInSilence
<1> QED
    BY <1>1, InvariantHolds, PTL

(* A brake that is off never carries the self-imposed mark. *)
THEOREM MarkFollowsBrake == Spec => []AutoTripOnlyWhileActive
<1>1. IInv => AutoTripOnlyWhileActive
    BY DEF IInv
<1> QED
    BY <1>1, InvariantHolds, PTL

(* No failed poll ever lifts a halt: a lift is an answer, the operator, a   *)
(* restart, or a process that polls nothing.                                *)
THEOREM LiftsOnlyOnContact == Spec => FailedPollNeverLifts
<1> DEFINE Lift == (active /\ ~active') =>
               \/ poll \in Answers /\ poll' = "idle" /\ silence' = 0
               \/ ~operatorHalt' /\ silence' = 0
               \/ url = "unset"
<1>1. IInv /\ [Next]_vars => [Lift]_vars
    <2> SUFFICES ASSUME IInv, Next, active, ~active'
                 PROVE  Lift
        BY DEF vars
    <2>1. ~RegisterMiss
        BY DEF RegisterMiss, IInv, TypeOK
    <2>2. CASE PollUnset \/ PollReceive \/ Restart
        BY <2>2 DEF PollUnset, PollReceive, Restart
    <2>3. ASSUME NEW on \in BOOLEAN, SetKillSwitch(on)
          PROVE  Lift
        BY <2>3 DEF SetKillSwitch, IInv, TypeOK
    <2>4. ~(PollInsecure \/ PollFail \/ PollSend \/ EndpointChange \/ EndpointAnswer)
        BY <2>1 DEF PollInsecure, PollFail, PollSend, EndpointChange, EndpointAnswer, brake
    <2> QED
        BY <2>2, <2>3, <2>4 DEF Next, PostKill
<1> QED
    BY <1>1, InvariantHolds, PTL DEF Spec, FailedPollNeverLifts

-----------------------------------------------------------------------------
(* The gates *)

(* A percentage of a larger balance is no smaller. *)
LEMMA ShareGrows ==
    ASSUME NEW x \in Int, NEW y \in Int, NEW p \in Nat, x <= y
    PROVE  x * p <= y * p
BY SMTT(30)

(* What checkTicket greenlights, gate by gate. *)
LEMMA CapsUnfold ==
    ASSUME NEW t \in Tickets, NEW c \in Contexts
    PROVE  CapsOk(t, c) <=>
               /\ ~c.observeOnly /\ ~c.killed /\ t.amount > 0 /\ t.jettonOk
               /\ t.side = "buy" =>
                     /\ ~(t.high /\ ~c.unlocked) /\ c.breakerOk /\ t.verdict # "reject"
                     /\ t.amount <= MaxPosition /\ c.balance >= t.amount + GasCushion
                     /\ c.open < MaxOpen /\ ~OverAllocation(t, c)
                     /\ ~(t.slippage # Absent /\ t.slippage > MaxSlippage)
                     /\ t.tvl # 0 /\ ~(t.tvl > 0 /\ t.amount * 100 > t.tvl * DepthPct)
                     /\ ~(t.tvl = Absent /\ RequireTvl)
                     /\ ~(t.score # Absent /\ t.score < MinAiScore)
<1>1. Raised(HaltFailures(t, c)) = {} <=>
          ~c.observeOnly /\ ~c.killed /\ ~(t.amount <= 0) /\ t.jettonOk
    <2> DEFINE f == HaltFailures(t, c)
    <2>1. DOMAIN f = {"OBSERVE_ONLY", "KILL_SWITCH", "BAD_SIZE", "BAD_JETTON"}
        BY DEF HaltFailures
    <2>2. /\ f["OBSERVE_ONLY"] <=> c.observeOnly
          /\ f["KILL_SWITCH"] <=> c.killed
          /\ f["BAD_SIZE"] <=> t.amount <= 0
          /\ f["BAD_JETTON"] <=> ~t.jettonOk
        BY DEF HaltFailures
    <2> HIDE DEF f
    <2> QED
        BY <2>1, <2>2 DEF Raised, f
<1>2. Raised(BuyFailures(t, c)) = {} <=>
          /\ ~(t.high /\ ~c.unlocked) /\ c.breakerOk /\ t.verdict # "reject"
          /\ ~(t.amount > MaxPosition) /\ ~(c.balance < t.amount + GasCushion)
          /\ ~(c.open >= MaxOpen) /\ ~OverAllocation(t, c)
          /\ ~(t.slippage # Absent /\ t.slippage > MaxSlippage)
          /\ t.tvl # 0 /\ ~(t.tvl > 0 /\ t.amount * 100 > t.tvl * DepthPct)
          /\ ~(t.tvl = Absent /\ RequireTvl)
          /\ ~(t.score # Absent /\ t.score < MinAiScore)
    <2> DEFINE f == BuyFailures(t, c)
    <2>1. DOMAIN f = {"HIGH_LOCKED", "CIRCUIT_BREAKER", "RISK_REJECT", "TIER_CAP", "BANKROLL",
                      "MAX_OPEN", "ALLOCATION", "SLIPPAGE", "POOL_TVL", "DEPTH",
                      "POOL_REQUIRED", "AI_SCORE"}
        BY DEF BuyFailures
    <2>2. /\ f["HIGH_LOCKED"] <=> t.high /\ ~c.unlocked
          /\ f["CIRCUIT_BREAKER"] <=> ~c.breakerOk
          /\ f["RISK_REJECT"] <=> t.verdict = "reject"
          /\ f["TIER_CAP"] <=> t.amount > MaxPosition
        BY DEF BuyFailures
    <2>3. /\ f["BANKROLL"] <=> c.balance < t.amount + GasCushion
          /\ f["MAX_OPEN"] <=> c.open >= MaxOpen
          /\ f["ALLOCATION"] <=> OverAllocation(t, c)
          /\ f["SLIPPAGE"] <=> t.slippage # Absent /\ t.slippage > MaxSlippage
        BY DEF BuyFailures
    <2>4. /\ f["POOL_TVL"] <=> t.tvl = 0
          /\ f["DEPTH"] <=> t.tvl > 0 /\ t.amount * 100 > t.tvl * DepthPct
          /\ f["POOL_REQUIRED"] <=> t.tvl = Absent /\ RequireTvl
          /\ f["AI_SCORE"] <=> t.score # Absent /\ t.score < MinAiScore
        BY DEF BuyFailures
    <2> HIDE DEF f
    <2>5. Raised(f) = {} <=> \A code \in DOMAIN f : ~f[code]
        BY DEF Raised
    <2>6. (\A code \in DOMAIN f : ~f[code]) <=>
              /\ ~f["HIGH_LOCKED"] /\ ~f["CIRCUIT_BREAKER"] /\ ~f["RISK_REJECT"]
              /\ ~f["TIER_CAP"] /\ ~f["BANKROLL"] /\ ~f["MAX_OPEN"] /\ ~f["ALLOCATION"]
              /\ ~f["SLIPPAGE"] /\ ~f["POOL_TVL"] /\ ~f["DEPTH"]
              /\ ~f["POOL_REQUIRED"] /\ ~f["AI_SCORE"]
        BY <2>1
    <2> QED
        BY <2>2, <2>3, <2>4, <2>5, <2>6 DEF f
<1>3. /\ t.amount \in Int /\ c.balance \in Int /\ c.open \in Int
      /\ MaxPosition \in Int /\ GasCushion \in Int /\ MaxOpen \in Int
    BY TierAssumption, ReserveAssumption DEF Tickets, Contexts
<1> QED
    BY <1>1, <1>2, <1>3 DEF CapsOk, Failures

(* Proposals keep to the grid and the tier's snapshot to its shape: no loop *)
(* of the coordinator can leave a field of the wrong kind behind.           *)
THEOREM GatesTypeCorrect == GatesSpec => []GatesTypeOK
<1>1. InitGates => GatesTypeOK
    <2> SUFFICES ASSUME InitGates PROVE GatesTypeOK
        OBVIOUS
    <2>1. ticket \in Tickets /\ ticket.high \in BOOLEAN
        BY ProposalsAssumption DEF InitGates, FirstTier, Tickets
    <2>2. PICK b \in Balances, u \in BOOLEAN :
              ctx = [balance |-> b, open |-> 0, unlocked |-> u, killed |-> FALSE,
                     breakerOk |-> TRUE, observeOnly |-> ObserveOnly]
        BY <2>1 DEF InitGates, FirstTier
    <2>3. ctx \in Contexts
        BY <2>2, BalancesAssumption, ObserveAssumption DEF Contexts
    <2> QED
        BY <2>3 DEF InitGates, FirstTier, GatesTypeOK
<1>2. GatesTypeOK /\ [NextGates]_gateVars => GatesTypeOK'
    <2> SUFFICES ASSUME GatesTypeOK, [NextGates]_gateVars PROVE GatesTypeOK'
        OBVIOUS
    <2>1. CASE Refresh
        <3>1. PICK b \in Balances, n \in 0..MaxOpen :
                  ctx' = [ctx EXCEPT !.balance = b, !.open = n]
            BY <2>1 DEF Refresh
        <3>2. b \in Int /\ n \in Nat
            BY BalancesAssumption, TierAssumption
        <3> QED
            BY <2>1, <3>1, <3>2 DEF Refresh, GatesTypeOK, Contexts
    <2>2. CASE Promotion
        BY <2>2 DEF Promotion, HighTierUnlocked, GatesTypeOK, Contexts
    <2>3. CASE BreakerMoves
        BY <2>3 DEF BreakerMoves, GatesTypeOK, Contexts
    <2>4. CASE BrakeMoves
        BY <2>4 DEF BrakeMoves, GatesTypeOK, Contexts
    <2>5. CASE Propose
        BY <2>5 DEF Propose, GatesTypeOK
    <2>6. CASE UNCHANGED gateVars
        BY <2>6 DEF gateVars, GatesTypeOK
    <2> QED
        BY <2>1, <2>2, <2>3, <2>4, <2>5, <2>6 DEF NextGates
<1> QED
    BY <1>1, <1>2, PTL DEF GatesSpec

(* The state part of the monotonicity: the same ticket, a worse tier. *)
LEMMA WorseRefusesMore ==
    ASSUME NEW t \in Tickets, NEW c \in Contexts, NEW d \in Contexts,
           Worse(c, d), CapsOk(t, c)
    PROVE  CapsOk(t, d)
<1>1. /\ c.balance \in Int /\ d.balance \in Int /\ c.open \in Nat /\ d.open \in Nat
      /\ t.amount \in Int
    BY DEF Tickets, Contexts
<1>2. /\ c.balance <= d.balance /\ c.open >= d.open /\ (c.unlocked => d.unlocked)
      /\ (d.killed => c.killed) /\ (c.breakerOk => d.breakerOk)
      /\ (d.observeOnly => c.observeOnly)
    BY DEF Worse
<1>3. c.balance * AllocationPct <= d.balance * AllocationPct
    BY <1>1, <1>2, ShareGrows, PctAssumption
<1>4. ~OverAllocation(t, c) => ~OverAllocation(t, d)
    <2>1. /\ t.amount * 100 \in Int
          /\ c.balance * AllocationPct \in Int /\ d.balance * AllocationPct \in Int
        BY <1>1, PctAssumption
    <2> QED
        BY <1>3, <2>1 DEF OverAllocation
<1>5. /\ c.balance >= t.amount + GasCushion => d.balance >= t.amount + GasCushion
      /\ c.open < MaxOpen => d.open < MaxOpen
    BY <1>1, <1>2, TierAssumption, ReserveAssumption
<1> QED
    BY <1>2, <1>4, <1>5, CapsUnfold

(* A refused ticket stays refused while the tier only gets worse. *)
THEOREM RefusalsStand == GatesSpec => CapsMonotone
<1>1. GatesTypeOK /\ GatesTypeOK' /\ [NextGates]_gateVars =>
          [ticket' = ticket /\ Worse(ctx', ctx) /\ CapsOk(ticket, ctx)' => CapsOk(ticket, ctx)]_gateVars
    <2> SUFFICES ASSUME GatesTypeOK, GatesTypeOK', ticket' = ticket, Worse(ctx', ctx), CapsOk(ticket', ctx')
                 PROVE  CapsOk(ticket, ctx)
        BY DEF CapsOk
    <2>1. ticket \in Tickets /\ ctx \in Contexts /\ ctx' \in Contexts
        BY ProposalsAssumption DEF GatesTypeOK
    <2>2. CapsOk(ticket, ctx')
        OBVIOUS
    <2> QED
        BY <2>1, <2>2, WorseRefusesMore
<1> QED
    BY <1>1, GatesTypeCorrect, PTL DEF GatesSpec, CapsMonotone

(* What the fast path's gate admits is never beyond a limit it shares with  *)
(* checkTicket, whatever the reserve and the cushion are set to.            *)
THEOREM GateWithinCaps == GatesSpec => []GateIsStricter
<1>1. GatesTypeOK => GateIsStricter
    <2> SUFFICES ASSUME GatesTypeOK, ticket.side = "buy", GateAllows(ticket.high, ticket.amount, ctx)
                 PROVE  Failures(ticket, ctx) \cap Shared = {}
        BY DEF GateIsStricter
    <2>1. /\ ticket.amount \in Int /\ ctx.balance \in Int /\ ctx.open \in Nat
        BY ProposalsAssumption DEF GatesTypeOK, Tickets, Contexts
    <2>2. Raised(HaltFailures(ticket, ctx)) \cap Shared = {}
        BY DEF Raised, HaltFailures, Shared, GateAllows
    <2>3. /\ ~(ticket.amount > MaxPosition) /\ ~(ctx.balance < ticket.amount + GasCushion)
          /\ ~(ctx.open >= MaxOpen) /\ ctx.breakerOk /\ ~(ticket.high /\ ~ctx.unlocked)
        BY <2>1, TierAssumption, ReserveAssumption DEF GateAllows
    <2>4. Raised(BuyFailures(ticket, ctx)) \cap Shared = {}
        <3> DEFINE f == BuyFailures(ticket, ctx)
        <3>1. DOMAIN f = {"HIGH_LOCKED", "CIRCUIT_BREAKER", "RISK_REJECT", "TIER_CAP", "BANKROLL",
                          "MAX_OPEN", "ALLOCATION", "SLIPPAGE", "POOL_TVL", "DEPTH",
                          "POOL_REQUIRED", "AI_SCORE"}
            BY DEF BuyFailures
        <3>2. /\ ~f["HIGH_LOCKED"] /\ ~f["CIRCUIT_BREAKER"] /\ ~f["TIER_CAP"]
              /\ ~f["BANKROLL"] /\ ~f["MAX_OPEN"]
            BY <2>3 DEF BuyFailures
        <3> HIDE DEF f
        <3>3. \A code \in DOMAIN f \cap Shared : ~f[code]
            BY <3>1, <3>2 DEF Shared
        <3> QED
            BY <3>3 DEF Raised, f
    <2> QED
        BY <2>2, <2>4 DEF Failures
<1> QED
    BY <1>1, GatesTypeCorrect, PTL

(* With a ceiling no lower than the allocation limit only a caution verdict *)
(* sends a ticket to a human.                                               *)
THEOREM SizeNeverNeedsHuman == GatesSpec => []OnlyCautionNeedsHuman
<1>1. GatesTypeOK => OnlyCautionNeedsHuman
    <2> SUFFICES ASSUME GatesTypeOK, CeilingPct >= AllocationPct, NeedsHuman(ticket, ctx),
                        ticket.verdict # "caution"
                 PROVE  FALSE
        BY DEF OnlyCautionNeedsHuman
    <2>1. ticket \in Tickets /\ ctx \in Contexts /\ ticket.amount \in Int /\ ctx.balance \in Int
        BY ProposalsAssumption DEF GatesTypeOK, Tickets, Contexts
    <2>2. /\ ticket.amount * 100 > ctx.balance * CeilingPct
          /\ ticket.side = "buy" /\ CapsOk(ticket, ctx)
        BY DEF NeedsHuman
    <2>3. ~(ticket.amount * 100 > ctx.balance * AllocationPct) /\ ctx.balance >= 0
        <3>1. /\ ~OverAllocation(ticket, ctx) /\ ticket.amount > 0
              /\ ctx.balance >= ticket.amount + GasCushion
            BY <2>1, <2>2, CapsUnfold
        <3> QED
            BY <2>1, <3>1, ReserveAssumption DEF OverAllocation
    <2>4. AllocationPct * ctx.balance <= CeilingPct * ctx.balance
        BY <2>1, <2>3, ShareGrows, PctAssumption
    <2>5. ctx.balance * AllocationPct <= ctx.balance * CeilingPct
        BY <2>1, <2>4, PctAssumption
    <2> QED
        BY <2>1, <2>2, <2>3, <2>5, PctAssumption
<1> QED
    BY <1>1, GatesTypeCorrect, PTL

(* The state part of clamping: a smaller size of the same proposal. *)
LEMMA SmallerPasses ==
    ASSUME NEW t \in Tickets, NEW u \in Tickets, NEW c \in Contexts,
           Smaller(t, u), CapsOk(u, c)
    PROVE  CapsOk(t, c) /\ (NeedsHuman(t, c) => NeedsHuman(u, c))
<1>1. /\ t.amount \in Int /\ u.amount \in Int /\ 0 < t.amount /\ t.amount <= u.amount
      /\ c.balance \in Int
    BY DEF Smaller, Tickets, Contexts
<1>2. /\ t.side = u.side /\ t.high = u.high /\ t.jettonOk = u.jettonOk
      /\ t.verdict = u.verdict /\ t.slippage = u.slippage /\ t.tvl = u.tvl
      /\ t.score = u.score
    BY DEF Smaller, Tickets
<1>3. ~OverAllocation(u, c) => ~OverAllocation(t, c)
    <2>1. c.balance * AllocationPct \in Int
        BY <1>1, PctAssumption
    <2> QED
        BY <1>1, <2>1 DEF OverAllocation
<1>4. u.tvl > 0 /\ ~(u.amount * 100 > u.tvl * DepthPct) => ~(t.amount * 100 > u.tvl * DepthPct)
    <2>1. u.tvl * DepthPct \in Int
        BY PctAssumption DEF Tickets
    <2> QED
        BY <1>1, <2>1
<1>5. /\ u.amount <= MaxPosition => t.amount <= MaxPosition
      /\ c.balance >= u.amount + GasCushion => c.balance >= t.amount + GasCushion
    BY <1>1, TierAssumption, ReserveAssumption
<1>6. CapsOk(t, c)
    BY <1>1, <1>2, <1>3, <1>4, <1>5, CapsUnfold
<1>7. t.amount * 100 > c.balance * CeilingPct => u.amount * 100 > c.balance * CeilingPct
    <2>1. c.balance * CeilingPct \in Int
        BY <1>1, PctAssumption
    <2> QED
        BY <1>1, <2>1
<1> QED
    BY <1>2, <1>6, <1>7 DEF NeedsHuman

(* Clamping, as executeTradePipeline does it, never loses a greenlight and  *)
(* never makes an operator's approval necessary.                            *)
THEOREM ClampingLosesNothing == GatesSpec => ClampingIsSafe
<1>1. GatesTypeOK /\ GatesTypeOK' =>
          [ctx' = ctx /\ Smaller(ticket', ticket) =>
              /\ CapsOk(ticket, ctx) => CapsOk(ticket, ctx)'
              /\ CapsOk(ticket, ctx) /\ NeedsHuman(ticket, ctx)' => NeedsHuman(ticket, ctx)]_gateVars
    <2> SUFFICES ASSUME GatesTypeOK, GatesTypeOK', ctx' = ctx, Smaller(ticket', ticket), CapsOk(ticket, ctx)
                 PROVE  CapsOk(ticket', ctx) /\ (NeedsHuman(ticket', ctx) => NeedsHuman(ticket, ctx))
        BY DEF CapsOk, NeedsHuman
    <2>1. ticket \in Tickets /\ ticket' \in Tickets /\ ctx \in Contexts
        BY ProposalsAssumption DEF GatesTypeOK
    <2> QED
        BY <2>1, SmallerPasses
<1> QED
    BY <1>1, GatesTypeCorrect, PTL DEF GatesSpec, ClampingIsSafe

-----------------------------------------------------------------------------
(* The request limiter.  What a step does to the number of timers depends   *)
(* on no caller having two timers of a kind, and that on a caller who waits *)
(* or holds a slot having no release timer yet (NotReleased).               *)
NotReleased == \A t \in timers : t.kind = "release" => t.by \notin Queued \cup holders

Finite == IsFiniteSet(timers) /\ IsFiniteSet(holders)

BucketInv == BucketTypeOK /\ NotReleased /\ Finite

-----------------------------------------------------------------------------
(* The queue. *)

(* A newcomer is appended once. *)
LEMMA AppendNew ==
    ASSUME NEW S, NEW q \in Seq(S), IsInjective(q), NEW r \in S, r \notin Range(q)
    PROVE  /\ Append(q, r) \in Seq(S) /\ IsInjective(Append(q, r))
           /\ Range(Append(q, r)) = Range(q) \cup {r}
           /\ Len(Append(q, r)) = Len(q) + 1
<1> DEFINE a == Append(q, r)
<1>1. /\ a \in Seq(S) /\ Len(a) = Len(q) + 1 /\ Len(q) \in Nat
      /\ DOMAIN a = 1..(Len(q) + 1) /\ DOMAIN q = 1..Len(q)
      /\ a[Len(q) + 1] = r /\ \A i \in 1..Len(q) : a[i] = q[i]
  OBVIOUS
<1>2. \A i \in 1..Len(q) : a[i] \in Range(q)
  BY <1>1 DEF Range
<1>3. IsInjective(a)
  <2> SUFFICES ASSUME NEW i \in DOMAIN a, NEW j \in DOMAIN a, a[i] = a[j] PROVE i = j
    BY DEF IsInjective
  <2>1. CASE i \in 1..Len(q) /\ j \in 1..Len(q)
    <3>1. q[i] = q[j]
      BY <1>1, <2>1
    <3> QED  BY <3>1, <2>1, <1>1 DEF IsInjective
  <2>2. CASE i = Len(q) + 1 /\ j \in 1..Len(q)
    BY <1>1, <1>2, <2>2
  <2>3. CASE i \in 1..Len(q) /\ j = Len(q) + 1
    BY <1>1, <1>2, <2>3
  <2>4. i \in 1..Len(q) \/ i = Len(q) + 1
    BY <1>1
  <2>5. j \in 1..Len(q) \/ j = Len(q) + 1
    BY <1>1
  <2> QED  BY <2>1, <2>2, <2>3, <2>4, <2>5
<1>4. Range(a) = Range(q) \cup {r}
  <2>1. ASSUME NEW x \in Range(a) PROVE x \in Range(q) \cup {r}
    <3>1. PICK i \in DOMAIN a : x = a[i]
      BY <2>1 DEF Range
    <3>2. i \in 1..Len(q) \/ i = Len(q) + 1
      BY <1>1
    <3> QED  BY <1>1, <1>2, <3>1, <3>2
  <2>2. ASSUME NEW x \in Range(q) PROVE x \in Range(a)
    <3>1. PICK i \in DOMAIN q : x = q[i]
      BY <2>2 DEF Range
    <3>2. i \in DOMAIN a /\ a[i] = x
      BY <1>1, <3>1
    <3> QED  BY <3>2 DEF Range
  <2>3. r \in Range(a)
    <3>1. Len(q) + 1 \in DOMAIN a
      BY <1>1
    <3> QED  BY <1>1, <3>1 DEF Range
  <2> QED  BY <2>1, <2>2, <2>3
<1> QED  BY <1>1, <1>3, <1>4

(* The first waiter leaves the queue, and only that one. *)
LEMMA TakeFirst ==
    ASSUME NEW S, NEW q \in Seq(S), IsInjective(q), q # <<>>
    PROVE  /\ Head(q) \in S /\ Head(q) \in Range(q) /\ Head(q) \notin Range(Tail(q))
           /\ Tail(q) \in Seq(S) /\ IsInjective(Tail(q)) /\ Range(Tail(q)) \subseteq Range(q)
           /\ Len(Tail(q)) = Len(q) - 1 /\ Len(q) \in Nat \ {0}
<1> DEFINE b == Tail(q)
<1>1. /\ b \in Seq(S) /\ Len(b) = Len(q) - 1 /\ Len(q) \in Nat \ {0}
      /\ DOMAIN b = 1..(Len(q) - 1) /\ DOMAIN q = 1..Len(q)
      /\ Head(q) = q[1] /\ q[1] \in S
      /\ \A i \in 1..(Len(q) - 1) : b[i] = q[i + 1]
  OBVIOUS
<1>2. Head(q) \in Range(q)
  BY <1>1 DEF Range
<1>3. Range(b) \subseteq Range(q) /\ Head(q) \notin Range(b)
  <2> SUFFICES ASSUME NEW x \in Range(b) PROVE x \in Range(q) /\ x # Head(q)
    OBVIOUS
  <2>1. PICK i \in DOMAIN b : x = b[i]
    BY DEF Range
  <2>2. i + 1 \in DOMAIN q /\ 1 \in DOMAIN q /\ i + 1 # 1 /\ x = q[i + 1]
    BY <1>1, <2>1
  <2> QED  BY <1>1, <2>2 DEF Range, IsInjective
<1>4. IsInjective(b)
  <2> SUFFICES ASSUME NEW i \in DOMAIN b, NEW j \in DOMAIN b, b[i] = b[j] PROVE i = j
    BY DEF IsInjective
  <2>1. i + 1 \in DOMAIN q /\ j + 1 \in DOMAIN q /\ q[i + 1] = q[j + 1]
    BY <1>1
  <2>2. i + 1 = j + 1
    BY <2>1 DEF IsInjective
  <2> QED  BY <1>1, <2>2
<1> QED  BY <1>1, <1>2, <1>3, <1>4

-----------------------------------------------------------------------------
(* The timers. *)

(* The passing of time loses no timer and makes no two of them one. *)
LEMMA TimersAge ==
    ASSUME BucketInv, Tick
    PROVE  /\ IsFiniteSet(timers') /\ Cardinality(timers') = Cardinality(timers)
           /\ timers' \subseteq Timers
           /\ \A t, u \in timers' : t.by = u.by /\ t.kind = u.kind => t = u
           /\ \A t \in timers' : \E u \in timers : u.by = t.by /\ u.kind = t.kind
<1> DEFINE Elapsed(t) == [t EXCEPT !.left = IF @ > 0 THEN @ - 1 ELSE 0]
           age == [t \in timers |-> Elapsed(t)]
<1>1. /\ timers \subseteq Timers /\ IsFiniteSet(timers)
      /\ \A t, u \in timers : t.by = u.by /\ t.kind = u.kind => t = u
  BY DEF BucketInv, BucketTypeOK, Finite
<1>2. timers' = {Elapsed(t) : t \in timers}
  BY DEF Tick
<1>3. ASSUME NEW t \in timers
      PROVE  Elapsed(t) \in Timers /\ Elapsed(t).by = t.by /\ Elapsed(t).kind = t.kind
  <2>1. t \in Timers
    BY <1>1
  <2>2. (IF t.left > 0 THEN t.left - 1 ELSE 0) \in 0..Gap
    BY <2>1, LimitsAssumption DEF Timers
  <2> QED  BY <2>1, <2>2 DEF Timers
<1>4. \A t, u \in timers : Elapsed(t) = Elapsed(u) => t = u
  <2> HIDE DEF Elapsed
  <2> SUFFICES ASSUME NEW t \in timers, NEW u \in timers, Elapsed(t) = Elapsed(u) PROVE t = u
    OBVIOUS
  <2>1. t.by = u.by /\ t.kind = u.kind
    BY <1>3
  <2> QED  BY <1>1, <2>1
<1>5. age \in Bijection(timers, timers')
  <2> HIDE DEF Elapsed
  <2>1. age \in [timers -> timers']
    BY <1>2
  <2>2. \A t, u \in timers : age[t] = age[u] => t = u
    BY <1>4
  <2>3. \A x \in timers' : \E t \in timers : age[t] = x
    BY <1>2
  <2> QED  BY <2>1, <2>2, <2>3, Fun_IsBij
<1>6. IsFiniteSet(timers') /\ Cardinality(timers') = Cardinality(timers)
  BY <1>1, <1>5, FS_Bijection DEF ExistsBijection
<1> HIDE DEF Elapsed, age
<1>7. timers' \subseteq Timers
  BY <1>2, <1>3
<1>8. \A t \in timers' : \E u \in timers : u.by = t.by /\ u.kind = t.kind
  BY <1>2, <1>3
<1>9. \A t, u \in timers' : t.by = u.by /\ t.kind = u.kind => t = u
  BY <1>1, <1>2, <1>3
<1> QED  BY <1>6, <1>7, <1>8, <1>9

(* What an attempt leaves behind, when it began with the queue q of waiters *)
(* who hold nothing, and with the timers `rest`, none of them of its kind.  *)
Consistent(q, rest, kind, r) ==
    /\ q \in Seq(Requests) /\ IsInjective(q) /\ Range(q) \cap holders = {}
    /\ rest \subseteq Timers /\ IsFiniteSet(rest)
    /\ \A t, u \in rest : t.by = u.by /\ t.kind = u.kind => t = u
    /\ \A t \in rest : ~(t.by = r /\ t.kind = kind)
    /\ \A t \in rest : t.kind = "release" => t.by \notin Range(q) \cup holders
    /\ r \in Requests /\ kind \in {"acquire", "release"}
    /\ kind = "release" => r \notin Range(q) \cup holders

LEMMA Attempt ==
    ASSUME BucketInv, UNCHANGED since, NEW q, NEW rest, NEW kind, NEW r,
           Consistent(q, rest, kind, r), TryDrain(q, rest, kind, r)
    PROVE  BucketInv'
<1>1. /\ holders \subseteq Requests /\ inflight = Cardinality(holders) /\ since \in 0..Gap
      /\ IsFiniteSet(holders)
  BY DEF BucketInv, BucketTypeOK, Finite
<1>2. CASE Refused(q, rest, kind)
  <2>1. queue' = q /\ timers' = rest /\ inflight' = inflight /\ holders' = holders
    BY <1>2 DEF Refused
  <2>2. Queued' = Range(q)
    BY <2>1 DEF Queued
  <2>3. BucketTypeOK'
    BY <1>1, <2>1, <2>2 DEF BucketTypeOK, Consistent
  <2>4. NotReleased' /\ Finite'
    BY <1>1, <2>1, <2>2 DEF NotReleased, Finite, Consistent
  <2> QED  BY <2>3, <2>4 DEF BucketInv
<1>3. CASE PutOff(q, rest, kind, r)
  <2> DEFINE new == [by |-> r, kind |-> kind, left |-> GapOf(kind) - since]
  <2>1. /\ queue' = q /\ timers' = rest \cup {new} /\ inflight' = inflight /\ holders' = holders
        /\ since < GapOf(kind)
    BY <1>3 DEF PutOff
  <2>2. Queued' = Range(q)
    BY <2>1 DEF Queued
  <2>3. new \in Timers /\ new.by = r /\ new.kind = kind
    <3>1. GapOf(kind) \in 0..Gap /\ Gap \in Nat
      BY LimitsAssumption DEF GapOf
    <3>2. GapOf(kind) - since \in 0..Gap
      BY <1>1, <2>1, <3>1
    <3> QED  BY <3>2 DEF Timers, Consistent
  <2> HIDE DEF new
  <2>4. \A t, u \in timers' : t.by = u.by /\ t.kind = u.kind => t = u
    BY <2>1, <2>3 DEF Consistent
  <2>5. BucketTypeOK'
    BY <1>1, <2>1, <2>2, <2>3, <2>4 DEF BucketTypeOK, Consistent
  <2>6. NotReleased'
    BY <2>1, <2>2, <2>3 DEF NotReleased, Consistent
  <2>7. Finite'
    BY <1>1, <2>1, FS_AddElement DEF Finite, Consistent
  <2> QED  BY <2>5, <2>6, <2>7 DEF BucketInv
<1>4. CASE Granted(q, rest, kind)
  <2>1. /\ q # <<>> /\ queue' = Tail(q) /\ timers' = rest
        /\ inflight' = inflight + 1 /\ holders' = holders \cup {Head(q)}
    BY <1>4 DEF Granted
  <2>2. /\ Head(q) \in Requests /\ Head(q) \in Range(q) /\ Head(q) \notin Range(Tail(q))
        /\ Tail(q) \in Seq(Requests) /\ IsInjective(Tail(q)) /\ Range(Tail(q)) \subseteq Range(q)
    BY <2>1, TakeFirst DEF Consistent
  <2>3. Queued' = Range(Tail(q))
    BY <2>1 DEF Queued
  <2>4. Head(q) \notin holders
    BY <2>2 DEF Consistent
  <2>5. IsFiniteSet(holders') /\ inflight' = Cardinality(holders')
    BY <1>1, <2>1, <2>4, FS_AddElement
  <2>6. BucketTypeOK'
    BY <1>1, <2>1, <2>2, <2>3, <2>5 DEF BucketTypeOK, Consistent
  <2>7. NotReleased' /\ Finite'
    BY <2>1, <2>2, <2>3, <2>5 DEF NotReleased, Finite, Consistent
  <2> QED  BY <2>6, <2>7 DEF BucketInv
<1> QED  BY <1>2, <1>3, <1>4 DEF TryDrain

(* Both kinds of attempt begin like that. *)
LEMMA AcquireBegins ==
    ASSUME BucketInv, NEW r \in Requests, Acquire(r)
    PROVE  /\ Consistent(Append(queue, r), timers, "acquire", r)
           /\ TryDrain(Append(queue, r), timers, "acquire", r) /\ UNCHANGED since
           /\ Len(Append(queue, r)) = Len(queue) + 1
<1>1. /\ r \notin Queued /\ r \notin holders /\ \A t \in timers : t.by # r
      /\ TryDrain(Append(queue, r), timers, "acquire", r) /\ UNCHANGED since
  BY DEF Acquire
<1>2. /\ queue \in Seq(Requests) /\ IsInjective(queue) /\ Range(queue) \cap holders = {}
      /\ r \notin Range(queue)
  BY <1>1 DEF BucketInv, BucketTypeOK, Queued
<1>3. /\ Append(queue, r) \in Seq(Requests) /\ IsInjective(Append(queue, r))
      /\ Range(Append(queue, r)) = Range(queue) \cup {r}
      /\ Len(Append(queue, r)) = Len(queue) + 1
  BY <1>2, AppendNew
<1>4. Consistent(Append(queue, r), timers, "acquire", r)
  BY <1>1, <1>2, <1>3 DEF Consistent, BucketInv, BucketTypeOK, NotReleased, Finite, Queued
<1> QED  BY <1>1, <1>3, <1>4

LEMMA FireBegins ==
    ASSUME BucketInv, NEW t \in timers, Fire(t)
    PROVE  /\ Consistent(queue, timers \ {t}, t.kind, t.by)
           /\ TryDrain(queue, timers \ {t}, t.kind, t.by) /\ UNCHANGED since
<1>1. t \in Timers
  BY DEF BucketInv, BucketTypeOK
<1>2. t.by \in Requests /\ t.kind \in {"acquire", "release"}
  BY <1>1 DEF Timers
<1>3. IsFiniteSet(timers \ {t})
  BY FS_RemoveElement DEF BucketInv, Finite
<1>4. Consistent(queue, timers \ {t}, t.kind, t.by)
  BY <1>2, <1>3 DEF Consistent, BucketInv, BucketTypeOK, NotReleased, Queued
<1> QED  BY <1>4 DEF Fire

(* A slot given back: one timer more, of a caller that had none of its kind. *)
LEMMA ReleaseKeeps ==
    ASSUME BucketInv, NEW r \in Requests, Release(r)
    PROVE  /\ BucketInv' /\ queue' = queue /\ inflight' = inflight - 1
           /\ Cardinality(timers') = Cardinality(timers) + 1
<1> DEFINE new == [by |-> r, kind |-> "release", left |-> Gap]
<1>1. /\ r \in holders /\ holders' = holders \ {r} /\ inflight' = inflight - 1 /\ since' = 0
      /\ timers' = timers \cup {new} /\ queue' = queue
  BY DEF Release
<1>2. new \in Timers /\ new.by = r /\ new.kind = "release"
  BY LimitsAssumption DEF Timers
<1> HIDE DEF new
<1>3. \A t \in timers : ~(t.by = r /\ t.kind = "release")
  BY <1>1 DEF BucketInv, NotReleased
<1>4. IsFiniteSet(timers') /\ Cardinality(timers') = Cardinality(timers) + 1
  BY <1>1, <1>2, <1>3, FS_AddElement DEF BucketInv, Finite
<1>5. IsFiniteSet(holders') /\ inflight' = Cardinality(holders')
  BY <1>1, FS_RemoveElement DEF BucketInv, Finite, BucketTypeOK
<1>6. Queued' = Queued /\ r \notin Queued
  BY <1>1 DEF Queued, BucketInv, BucketTypeOK
<1>7. since' \in 0..Gap
  BY <1>1, LimitsAssumption
<1>8. \A t, u \in timers' : t.by = u.by /\ t.kind = u.kind => t = u
  BY <1>1, <1>2, <1>3 DEF BucketInv, BucketTypeOK
<1>9. BucketTypeOK'
  BY <1>1, <1>2, <1>5, <1>6, <1>7, <1>8 DEF BucketInv, BucketTypeOK
<1>10. NotReleased'
  BY <1>1, <1>2, <1>6 DEF BucketInv, NotReleased
<1> QED  BY <1>1, <1>4, <1>5, <1>9, <1>10 DEF BucketInv, Finite

LEMMA BucketInvInit == InitBucket => BucketInv
<1> SUFFICES ASSUME InitBucket PROVE BucketInv
  OBVIOUS
<1>1. queue = <<>> /\ inflight = 0 /\ holders = {} /\ since = Gap /\ timers = {}
  BY DEF InitBucket
<1>2. queue \in Seq(Requests) /\ IsInjective(queue) /\ Queued = {}
  BY <1>1 DEF IsInjective, Queued, Range
<1>3. IsFiniteSet({}) /\ Cardinality({}) = 0
  BY FS_EmptySet
<1> QED  BY <1>1, <1>2, <1>3, LimitsAssumption DEF BucketInv, BucketTypeOK, NotReleased, Finite

LEMMA BucketInvStep == BucketInv /\ [NextBucket]_bucketVars => BucketInv'
<1> SUFFICES ASSUME BucketInv, [NextBucket]_bucketVars PROVE BucketInv'
  OBVIOUS
<1>1. ASSUME NEW r \in Requests, Acquire(r) PROVE BucketInv'
  BY <1>1, AcquireBegins, Attempt
<1>2. ASSUME NEW r \in Requests, Release(r) PROVE BucketInv'
  BY <1>2, ReleaseKeeps
<1>3. ASSUME NEW t \in timers, Fire(t) PROVE BucketInv'
  BY <1>3, FireBegins, Attempt
<1>4. CASE Tick
  <2>1. /\ queue' = queue /\ inflight' = inflight /\ holders' = holders
        /\ since' = IF since < Gap THEN since + 1 ELSE since
    BY <1>4 DEF Tick
  <2>2. Queued' = Queued
    BY <2>1 DEF Queued
  <2>3. since' \in 0..Gap
    BY <2>1, LimitsAssumption DEF BucketInv, BucketTypeOK
  <2>4. BucketTypeOK'
    BY <1>4, <2>1, <2>2, <2>3, TimersAge DEF BucketInv, BucketTypeOK
  <2>5. NotReleased' /\ Finite'
    BY <1>4, <2>1, <2>2, TimersAge DEF BucketInv, NotReleased, Finite
  <2> QED  BY <2>4, <2>5 DEF BucketInv
<1>5. CASE UNCHANGED bucketVars
  <2>1. UNCHANGED <<queue, inflight, since, timers, holders>> /\ Queued' = Queued
    BY <1>5 DEF bucketVars, Queued
  <2> QED  BY <2>1 DEF BucketInv, BucketTypeOK, NotReleased, Finite
<1> QED  BY <1>1, <1>2, <1>3, <1>4, <1>5 DEF NextBucket

-----------------------------------------------------------------------------
(* The counter, the queue and the timers are what they are taken for.       *)
THEOREM BucketTypeCorrect == LimiterSpec => []BucketTypeOK
<1>1. BucketInv => BucketTypeOK
  BY DEF BucketInv
<1> QED  BY BucketInvInit, BucketInvStep, <1>1, PTL DEF LimiterSpec

(* Whatever limits a bucket and its releases carry, it never exceeds the    *)
(* wider of the two caps: so DeDust's bucket and TONAPI's keep their own,   *)
(* and the STON.fi bucket keeps DeDust's.                                   *)
THEOREM CapHolds == LimiterSpec => []CapKept
<1>0. WidestCap \in Nat /\ Max <= WidestCap /\ ReleaseMax <= WidestCap
  BY LimitsAssumption DEF WidestCap
<1>1. InitBucket => CapKept
  BY <1>0 DEF InitBucket, CapKept
<1>2. BucketInv /\ CapKept /\ [NextBucket]_bucketVars => CapKept'
  <2> SUFFICES ASSUME BucketInv, CapKept, [NextBucket]_bucketVars PROVE CapKept'
    OBVIOUS
  <2>1. inflight \in Nat
    BY FS_CardinalityType DEF BucketInv, BucketTypeOK, Finite
  <2>2. ASSUME NEW q, NEW rest, NEW kind, NEW r, TryDrain(q, rest, kind, r) PROVE CapKept'
    <3>1. MaxOf(kind) <= WidestCap /\ MaxOf(kind) \in Nat
      BY <1>0, LimitsAssumption DEF MaxOf
    <3>2. inflight' = inflight \/ (inflight < MaxOf(kind) /\ inflight' = inflight + 1)
      BY <2>2 DEF TryDrain, Refused, PutOff, Granted
    <3> QED  BY <1>0, <2>1, <3>1, <3>2 DEF CapKept
  <2>3. ASSUME NEW r \in Requests, Acquire(r) PROVE CapKept'
    BY <2>2, <2>3 DEF Acquire
  <2>4. ASSUME NEW t \in timers, Fire(t) PROVE CapKept'
    BY <2>2, <2>4 DEF Fire
  <2>5. ASSUME NEW r \in Requests, Release(r) PROVE CapKept'
    BY <1>0, <2>1, <2>5 DEF Release, CapKept
  <2>6. CASE Tick
    BY <2>6 DEF Tick, CapKept
  <2>7. CASE UNCHANGED bucketVars
    BY <2>7 DEF bucketVars, CapKept
  <2> QED  BY <2>3, <2>4, <2>5, <2>6, <2>7 DEF NextBucket
<1> QED  BY BucketInvInit, BucketInvStep, <1>1, <1>2, PTL DEF LimiterSpec

(* An attempt that finds enough timers beside it leaves enough behind.      *)
LEMMA AttemptStrands ==
    ASSUME BucketInv, ReleaseMax >= Max, NEW q, NEW rest, NEW kind, NEW r,
           Consistent(q, rest, kind, r), TryDrain(q, rest, kind, r),
           \/ inflight + Cardinality(rest) + 1 >= Max
           \/ Cardinality(rest) + 1 >= Len(q)
    PROVE  NoSlotStranded'
<1>1. inflight \in Nat /\ Cardinality(rest) \in Nat /\ Len(q) \in Nat
  <2>1. IsFiniteSet(rest) /\ q \in Seq(Requests)
    BY DEF Consistent
  <2> QED  BY <2>1, FS_CardinalityType DEF BucketInv, BucketTypeOK, Finite
<1>2. MaxOf(kind) \in Nat /\ MaxOf(kind) >= Max /\ Max \in Nat
  BY LimitsAssumption DEF MaxOf
<1>3. CASE Refused(q, rest, kind)
  <2>1. queue' = q /\ timers' = rest /\ inflight' = inflight /\ (q = <<>> \/ inflight >= MaxOf(kind))
    BY <1>3 DEF Refused
  <2>2. q = <<>> => Len(q) = 0
    OBVIOUS
  <2> QED  BY <1>1, <1>2, <2>1, <2>2 DEF NoSlotStranded
<1>4. CASE PutOff(q, rest, kind, r)
  <2> DEFINE new == [by |-> r, kind |-> kind, left |-> GapOf(kind) - since]
  <2>1. queue' = q /\ timers' = rest \cup {new} /\ inflight' = inflight
    BY <1>4 DEF PutOff
  <2>2. new \notin rest
    BY DEF Consistent
  <2> HIDE DEF new
  <2>3. Cardinality(timers') = Cardinality(rest) + 1
    BY <2>1, <2>2, FS_AddElement DEF Consistent
  <2> QED  BY <1>1, <1>2, <2>1, <2>3 DEF NoSlotStranded
<1>5. CASE Granted(q, rest, kind)
  <2>1. q # <<>> /\ queue' = Tail(q) /\ timers' = rest /\ inflight' = inflight + 1
    BY <1>5 DEF Granted
  <2>2. Len(Tail(q)) = Len(q) - 1
    BY <2>1, TakeFirst DEF Consistent
  <2> QED  BY <1>1, <1>2, <2>1, <2>2 DEF NoSlotStranded
<1> QED  BY <1>3, <1>4, <1>5 DEF TryDrain

(* No bucket strands a slot, if its releases carry no narrower cap than its *)
(* own, however its attempts are dropped, put off or overtaken.             *)
THEOREM SlotsReachWaiters ==
    ASSUME ReleaseMax >= Max
    PROVE  LimiterSpec => []NoSlotStranded
<1>1. InitBucket => NoSlotStranded
  <2>1. Cardinality({}) = 0
    BY FS_EmptySet
  <2> QED  BY <2>1 DEF InitBucket, NoSlotStranded
<1>2. BucketInv /\ NoSlotStranded /\ [NextBucket]_bucketVars => NoSlotStranded'
  <2> SUFFICES ASSUME BucketInv, NoSlotStranded, [NextBucket]_bucketVars PROVE NoSlotStranded'
    OBVIOUS
  <2>1. inflight \in Nat /\ Cardinality(timers) \in Nat /\ Len(queue) \in Nat /\ Max \in Nat
    BY FS_CardinalityType, LimitsAssumption DEF BucketInv, BucketTypeOK, Finite
  <2>2. ASSUME NEW r \in Requests, Acquire(r) PROVE NoSlotStranded'
    <3>1. \/ inflight + Cardinality(timers) + 1 >= Max
          \/ Cardinality(timers) + 1 >= Len(Append(queue, r))
      BY <2>1, <2>2, AcquireBegins DEF NoSlotStranded
    <3> QED  BY <2>2, <3>1, AcquireBegins, AttemptStrands
  <2>3. ASSUME NEW t \in timers, Fire(t) PROVE NoSlotStranded'
    <3>1. Cardinality(timers \ {t}) = Cardinality(timers) - 1
      BY FS_RemoveElement DEF BucketInv, Finite
    <3>2. \/ inflight + Cardinality(timers \ {t}) + 1 >= Max
          \/ Cardinality(timers \ {t}) + 1 >= Len(queue)
      BY <2>1, <3>1 DEF NoSlotStranded
    <3> QED  BY <2>3, <3>2, FireBegins, AttemptStrands
  <2>4. ASSUME NEW r \in Requests, Release(r) PROVE NoSlotStranded'
    BY <2>1, <2>4, ReleaseKeeps DEF NoSlotStranded
  <2>5. CASE Tick
    BY <2>5, TimersAge DEF Tick, NoSlotStranded
  <2>6. CASE UNCHANGED bucketVars
    BY <2>6 DEF bucketVars, NoSlotStranded
  <2> QED  BY <2>2, <2>3, <2>4, <2>5, <2>6 DEF NextBucket
<1> QED  BY BucketInvInit, BucketInvStep, <1>1, <1>2, PTL DEF LimiterSpec

(* Repeated, backing off or given up, the requests take and give back slots *)
(* as the limiter's callers do.                                             *)
THEOREM RequestsUseTheLimiter == RequestsSpec => LimiterSpec
<1>1. InitRequests => InitBucket
  BY DEF InitRequests
<1>2. [NextRequests]_allVars => [NextBucket]_bucketVars
  <2> SUFFICES ASSUME NextRequests \/ UNCHANGED allVars PROVE NextBucket \/ UNCHANGED bucketVars
    OBVIOUS
  <2>1. ASSUME NEW r \in Requests, Ask(r) PROVE NextBucket
    BY <2>1 DEF Ask, NextBucket
  <2>2. ASSUME NEW r \in Requests, Answered(r) PROVE NextBucket \/ UNCHANGED bucketVars
    BY <2>2 DEF Answered, Repeat, Settle, NextBucket
  <2>3. CASE Background
    BY <2>3 DEF Background, NextBucket
  <2>4. CASE UNCHANGED allVars
    BY <2>4 DEF allVars
  <2> QED
    BY <2>1, <2>2, <2>3, <2>4 DEF NextRequests
<1> QED  BY <1>1, <1>2, PTL DEF RequestsSpec, LimiterSpec

(* So whatever fails and however often it is repeated, no more requests are *)
(* under way than the widest cap that an attempt of the bucket carries.     *)
THEOREM RequestsKeepCap == RequestsSpec => []CapKept
BY RequestsUseTheLimiter, CapHolds

-----------------------------------------------------------------------------
(* The audits.  A cache lies behind the next, so that what a report says is *)
(* as old as the entries it came through together: an entry of the audit    *)
(* cache holds what was read no longer ago than its own age and that of the *)
(* meta data under it, and one of the monitor's what was as old as that     *)
(* when it was entered.                                                     *)
AuditPools == [dex : Dexes \cup {"none"}, depth : {"known", "unknown"}]
AuditVerdicts == [renounced : BOOLEAN, lp : {"locked", "unlocked", "undetermined"}, adminAge : Nat, lpAge : Nat]
AuditCalls == [at : {"idle", "resolve", "stonfi", "dedust", "audit", "admin", "lp", "done"},
               token : Tokens \cup {"none"}, pool : AuditPools, stonfi : AuditPools,
               verdict : AuditVerdicts, waited : {0, 1}]
PoolEntries == [pool : AuditPools, age : Nat]
MetaEntries == [renounced : BOOLEAN, age : Nat]
ReportEntries == [verdict : AuditVerdicts, age : Nat]

Within(v, lpAge, adminAge) == v.lpAge <= lpAge /\ v.adminAge <= adminAge
PoolsKnown == pools \in [Tokens -> PoolEntries \cup {NoEntry}]
MetaRecent ==
    /\ jettons \in [Tokens -> MetaEntries \cup {NoEntry}]
    /\ \A t \in Tokens : jettons[t] # NoEntry => jettons[t].age < JettonTtl
AuditsRecent ==
    /\ audits \in [Tokens \X (Dexes \cup {"none"}) -> ReportEntries \cup {NoEntry}]
    /\ \A k \in Tokens \X (Dexes \cup {"none"}) :
          audits[k] # NoEntry => /\ audits[k].age < AuditTtl
                                 /\ Within(audits[k].verdict, audits[k].age, audits[k].age + JettonTtl)
(* n is for how long the entry has been there; it may be older by the wait  *)
(* of the call that made it.                                                *)
Kept(e, n) == n <= e.age /\ Within(e.verdict, AuditTtl - 1 + n, AuditTtl - 1 + JettonTtl + n)
VerdictsRecent ==
    /\ verdicts \in [Tokens -> ReportEntries \cup {NoEntry}]
    /\ \A t \in Tokens : verdicts[t] # NoEntry => \E n \in 0..(VerdictTtl - 1) : Kept(verdicts[t], n)

Held(c) == AuditTtl + (IF c = Monitor THEN VerdictTtl ELSE 0)
(* What holds of a call k of c: it is about a token, and its evidence is as *)
(* recent as it has to be when it is reported.                              *)
CallGood(c, k) ==
    /\ k \in AuditCalls
    /\ k.at # "idle" => k.token \in Tokens
    /\ k.at = "lp" => k.verdict.adminAge <= JettonTtl - 1 + k.waited
    /\ k.at = "done" => k.verdict.lpAge < Held(c) /\ k.verdict.adminAge < Held(c) + JettonTtl
CallsGood == call \in [Callers -> AuditCalls] /\ \A c \in Callers : CallGood(c, call[c])

AuditInv == PoolsKnown /\ MetaRecent /\ AuditsRecent /\ VerdictsRecent /\ CallsGood

LEMMA AuditDefaults ==
    /\ NoPool \in AuditPools /\ NoVerdict \in AuditVerdicts /\ Idle \in AuditCalls
    /\ Idle.at = "idle" /\ NoEntry.age = -1
    /\ \A c \in Callers : CallGood(c, Idle)
<1>1. NoPool \in AuditPools /\ NoVerdict \in AuditVerdicts
    BY DEF NoPool, AuditPools, NoVerdict, AuditVerdicts
<1>2. Idle \in AuditCalls /\ Idle.at = "idle"
    BY <1>1 DEF Idle, AuditCalls
<1> QED
    BY <1>1, <1>2 DEF NoEntry, CallGood

LEMMA Lifetimes == JettonTtl \in Nat \ {0} /\ AuditTtl \in Nat \ {0} /\ VerdictTtl \in Nat \ {0} /\ PoolTtl \in Nat \ {0}
BY AuditAssumption

(* One call moves on. *)
LEMMA CallMoves ==
    ASSUME CallsGood, NEW c \in Callers, NEW new, Goes(c, new), CallGood(c, new)
    PROVE  CallsGood'
<1>1. call \in [Callers -> AuditCalls] /\ new \in AuditCalls /\ call' = [call EXCEPT ![c] = new]
    BY DEF CallsGood, CallGood, Goes
<1>2. call' \in [Callers -> AuditCalls]
    BY <1>1
<1>3. ASSUME NEW d \in Callers PROVE CallGood(d, call'[d])
    <2>1. CASE d = c
        <3>1. call'[d] = new
            BY <1>1, <2>1
        <3> QED
            BY <2>1, <3>1
    <2>2. CASE d # c
        <3>1. call'[d] = call[d] /\ CallGood(d, call[d])
            BY <1>1, <2>2 DEF CallsGood
        <3> QED
            BY <3>1
    <2> QED
        BY <2>1, <2>2
<1>4. \A d \in Callers : CallGood(d, call[d])'
    BY <1>3 DEF CallGood, Held
<1> QED
    BY <1>2, <1>4 DEF CallsGood

LEMMA CallFacts ==
    ASSUME CallsGood, NEW c \in Callers
    PROVE  call[c] \in AuditCalls /\ CallGood(c, call[c])
BY DEF CallsGood

-----------------------------------------------------------------------------
(* A pool is found, or known to be unknown. *)
LEMMA ResolvedKeeps ==
    ASSUME CallsGood, NEW c \in Callers, NEW pool \in AuditPools, call[c].at # "idle", Resolved(c, pool)
    PROVE  CallsGood'
<1> DEFINE new == [call[c] EXCEPT !.at = "audit", !.pool = pool, !.stonfi = NoPool, !.waited = 0]
<1>1. call[c] \in AuditCalls /\ call[c].token \in Tokens
    BY CallFacts DEF CallGood
<1>2. new \in AuditCalls /\ new.at = "audit" /\ new.token = call[c].token
    BY <1>1, AuditDefaults DEF AuditCalls
<1>3. Goes(c, new)
    BY DEF Resolved
<1> HIDE DEF new
<1>4. CallGood(c, new)
    BY <1>1, <1>2 DEF CallGood
<1> QED
    BY <1>3, <1>4, CallMoves

LEMMA RememberKeeps ==
    ASSUME PoolsKnown, NEW t \in Tokens, NEW pool \in AuditPools, Remember(t, pool)
    PROVE  PoolsKnown'
BY DEF PoolsKnown, Remember, PoolEntries

LEMMA PoolOf ==
    ASSUME PoolsKnown, NEW t \in Tokens, Fresh(pools[t])
    PROVE  pools[t].pool \in AuditPools
BY DEF PoolsKnown, Fresh, PoolEntries

(* Only the place of the call changes. *)
LEMMA StageKeeps ==
    ASSUME CallsGood, NEW c \in Callers, NEW at \in {"stonfi", "dedust", "admin"}, NEW pool \in AuditPools,
           call[c].at # "idle",
           \/ Goes(c, [call[c] EXCEPT !.at = at])
           \/ Goes(c, [call[c] EXCEPT !.at = at, !.stonfi = pool])
    PROVE  CallsGood'
<1> DEFINE one == [call[c] EXCEPT !.at = at]
           two == [call[c] EXCEPT !.at = at, !.stonfi = pool]
<1>1. call[c] \in AuditCalls /\ call[c].token \in Tokens
    BY CallFacts DEF CallGood
<1>2. /\ one \in AuditCalls /\ one.at = at /\ one.token = call[c].token
      /\ two \in AuditCalls /\ two.at = at /\ two.token = call[c].token
    BY <1>1 DEF AuditCalls
<1>3. Goes(c, one) \/ Goes(c, two)
    OBVIOUS
<1> HIDE DEF one, two
<1>4. CallGood(c, one) /\ CallGood(c, two)
    BY <1>1, <1>2 DEF CallGood
<1> QED
    BY <1>3, <1>4, CallMoves

LEMMA LookupKeeps ==
    ASSUME AuditInv, NEW c \in Callers, Lookup(c)
    PROVE  AuditInv'
<1>1. UNCHANGED caches /\ call[c].at = "resolve" /\ CallsGood
    BY DEF Lookup, AuditInv
<1>2. call[c].token \in Tokens
    BY <1>1, CallFacts DEF CallGood
<1>3. CallsGood'
    <2> DEFINE t == call[c].token
    <2>1. CASE Fresh(pools[t])
        <3>1. Resolved(c, pools[t].pool)
            BY <2>1 DEF Lookup
        <3>2. pools[t].pool \in AuditPools
            BY <1>2, <2>1, PoolOf DEF AuditInv
        <3> QED
            BY <1>1, <3>1, <3>2, ResolvedKeeps
    <2>2. CASE ~Fresh(pools[t])
        <3>1. Goes(c, [call[c] EXCEPT !.at = "stonfi"])
            BY <2>2 DEF Lookup
        <3> QED
            BY <1>1, <3>1, StageKeeps, AuditDefaults
    <2> QED
        BY <2>1, <2>2
<1> QED
    BY <1>1, <1>3 DEF AuditInv, PoolsKnown, MetaRecent, AuditsRecent, VerdictsRecent, caches

LEMMA AskStonfiKeeps ==
    ASSUME AuditInv, NEW c \in Callers, AskStonfi(c)
    PROVE  AuditInv'
<1> DEFINE t == call[c].token
           hit(depth) == [dex |-> "stonfi", depth |-> depth]
<1>1. /\ call[c].at = "stonfi" /\ CallsGood /\ PoolsKnown /\ UNCHANGED <<jettons, audits, verdicts>>
    BY DEF AskStonfi, AuditInv
<1>2. t \in Tokens
    BY <1>1, CallFacts DEF CallGood
<1>3. PICK pool \in {hit("known"), hit("unknown"), NoPool} :
          IF Accepted(pool) THEN Resolved(c, pool) /\ Remember(t, pool)
          ELSE Goes(c, [call[c] EXCEPT !.at = "dedust", !.stonfi = pool]) /\ UNCHANGED pools
    BY DEF AskStonfi
<1>4. pool \in AuditPools
    BY <1>3, AuditDefaults DEF AuditPools, Dexes
<1>5. CallsGood' /\ PoolsKnown'
    <2>1. CASE Accepted(pool)
        BY <1>1, <1>2, <1>3, <1>4, <2>1, ResolvedKeeps, RememberKeeps
    <2>2. CASE ~Accepted(pool)
        <3>1. Goes(c, [call[c] EXCEPT !.at = "dedust", !.stonfi = pool]) /\ UNCHANGED pools
            BY <1>3, <2>2
        <3> QED
            BY <1>1, <1>4, <3>1, StageKeeps DEF PoolsKnown
    <2> QED
        BY <2>1, <2>2
<1> QED
    BY <1>1, <1>5 DEF AuditInv, MetaRecent, AuditsRecent, VerdictsRecent

LEMMA AskDedustKeeps ==
    ASSUME AuditInv, NEW c \in Callers, AskDedust(c)
    PROVE  AuditInv'
<1> DEFINE t == call[c].token
<1>1. /\ call[c].at = "dedust" /\ CallsGood /\ PoolsKnown /\ UNCHANGED <<jettons, audits, verdicts>>
    BY DEF AskDedust, AuditInv
<1>2. t \in Tokens /\ call[c].stonfi \in AuditPools
    BY <1>1, CallFacts DEF CallGood, AuditCalls
<1>3. PICK pool \in AuditPools : Resolved(c, pool) /\ (Remember(t, pool) \/ UNCHANGED pools)
    <2> DEFINE ready == [dex |-> "dedust", depth |-> "known"]
    <2>1. ready \in AuditPools
        BY DEF AuditPools, Dexes
    <2>2. \/ Resolved(c, ready) /\ Remember(t, ready)
          \/ Resolved(c, call[c].stonfi) /\ (Remember(t, call[c].stonfi) \/ UNCHANGED pools)
        BY DEF AskDedust
    <2> HIDE DEF ready
    <2> QED
        BY <1>2, <2>1, <2>2
<1>4. CallsGood'
    BY <1>1, <1>3, ResolvedKeeps
<1>5. PoolsKnown'
    <2>1. CASE Remember(t, pool)
        BY <1>1, <1>2, <2>1, RememberKeeps
    <2>2. CASE UNCHANGED pools
        BY <1>1, <2>2 DEF PoolsKnown
    <2> QED
        BY <1>3, <2>1, <2>2
<1> QED
    BY <1>1, <1>4, <1>5 DEF AuditInv, MetaRecent, AuditsRecent, VerdictsRecent

-----------------------------------------------------------------------------
(* A call has its report. *)
LEMMA DoneKeeps ==
    ASSUME CallsGood, NEW c \in Callers, NEW v \in AuditVerdicts, call[c].at # "idle",
           v.lpAge < Held(c), v.adminAge < Held(c) + JettonTtl,
           Goes(c, [call[c] EXCEPT !.at = "done", !.verdict = v])
    PROVE  CallsGood'
<1> DEFINE new == [call[c] EXCEPT !.at = "done", !.verdict = v]
<1>1. call[c] \in AuditCalls /\ call[c].token \in Tokens
    BY CallFacts DEF CallGood
<1>2. new \in AuditCalls /\ new.at = "done" /\ new.token = call[c].token /\ new.verdict = v
    BY <1>1 DEF AuditCalls
<1>3. Goes(c, new)
    OBVIOUS
<1> HIDE DEF new
<1>4. CallGood(c, new)
    BY <1>1, <1>2 DEF CallGood
<1> QED
    BY <1>3, <1>4, CallMoves

LEMMA RecallKeeps ==
    ASSUME AuditInv, NEW c \in Callers, Recall(c)
    PROVE  AuditInv'
<1> DEFINE t == call[c].token
           v == verdicts[t].verdict
<1>1. /\ call[c].at = "audit" /\ c = Monitor /\ verdicts[t] # NoEntry /\ UNCHANGED caches /\ CallsGood
      /\ Goes(c, [call[c] EXCEPT !.at = "done", !.verdict = v])
    BY DEF Recall, AuditInv, Fresh
<1>2. t \in Tokens
    BY <1>1, CallFacts DEF CallGood
<1>3. verdicts[t] \in ReportEntries
    BY <1>1, <1>2 DEF AuditInv, VerdictsRecent
<1>4. v \in AuditVerdicts /\ v.lpAge \in Nat /\ v.adminAge \in Nat
    BY <1>3 DEF ReportEntries, AuditVerdicts
<1>5. PICK n \in 0..(VerdictTtl - 1) : Within(v, AuditTtl - 1 + n, AuditTtl - 1 + JettonTtl + n)
    BY <1>1, <1>2 DEF AuditInv, VerdictsRecent, Kept
<1>6. Held(c) = AuditTtl + VerdictTtl
    BY <1>1 DEF Held
<1> HIDE DEF v
<1>7. v.lpAge < Held(c) /\ v.adminAge < Held(c) + JettonTtl
    BY <1>4, <1>5, <1>6, Lifetimes DEF Within
<1>8. CallsGood'
    BY <1>1, <1>4, <1>7, DoneKeeps
<1> QED
    BY <1>1, <1>8 DEF AuditInv, PoolsKnown, MetaRecent, AuditsRecent, VerdictsRecent, caches

(* A report of the audit itself: the monitor enters it. *)
LEMMA ReportedKeeps ==
    ASSUME CallsGood, VerdictsRecent, NEW c \in Callers, NEW v \in AuditVerdicts, call[c].at # "idle",
           Within(v, AuditTtl - 1, AuditTtl - 1 + JettonTtl), Reported(c, v)
    PROVE  CallsGood' /\ VerdictsRecent'
<1>1. call[c].token \in Tokens /\ call[c].waited \in {0, 1}
    BY CallFacts DEF CallGood, AuditCalls
<1>2. v.lpAge \in Nat /\ v.adminAge \in Nat
    BY DEF AuditVerdicts
<1>3. Held(c) \in Nat /\ Held(c) >= AuditTtl
    BY Lifetimes DEF Held
<1>4. v.lpAge < Held(c) /\ v.adminAge < Held(c) + JettonTtl
    BY <1>2, <1>3, Lifetimes DEF Within
<1>5. CallsGood'
    <2>1. Goes(c, [call[c] EXCEPT !.at = "done", !.verdict = v])
        BY DEF Reported, Answer
    <2> QED
        BY <1>4, <2>1, DoneKeeps
<1>6. VerdictsRecent'
    <2> DEFINE new == [verdict |-> v, age |-> call[c].waited]
    <2>1. new \in ReportEntries
        BY <1>1 DEF ReportEntries
    <2>2. 0 \in 0..(VerdictTtl - 1) /\ Kept(new, 0)
        <3>1. 0 <= call[c].waited /\ new.verdict = v /\ new.age = call[c].waited
            BY <1>1
        <3> QED
            BY <3>1, Lifetimes DEF Kept, Within
    <2>3. verdicts' = verdicts \/ verdicts' = [verdicts EXCEPT ![call[c].token] = new]
        BY DEF Reported
    <2> HIDE DEF new
    <2>4. CASE verdicts' = verdicts
        BY <2>4 DEF VerdictsRecent
    <2>5. CASE verdicts' = [verdicts EXCEPT ![call[c].token] = new]
        <3>1. verdicts' \in [Tokens -> ReportEntries \cup {NoEntry}]
            BY <2>1, <2>5 DEF VerdictsRecent
        <3>2. ASSUME NEW t \in Tokens, verdicts'[t] # NoEntry
              PROVE  \E n \in 0..(VerdictTtl - 1) : Kept(verdicts'[t], n)
            <4>1. CASE t = call[c].token
                <5>1. verdicts'[t] = new
                    BY <2>5, <4>1 DEF VerdictsRecent
                <5> QED
                    BY <2>2, <5>1
            <4>2. CASE t # call[c].token
                <5>1. verdicts'[t] = verdicts[t]
                    BY <2>5, <4>2 DEF VerdictsRecent
                <5> QED
                    BY <3>2, <5>1 DEF VerdictsRecent
            <4> QED
                BY <4>1, <4>2
        <3> QED
            BY <3>1, <3>2 DEF VerdictsRecent
    <2> QED
        BY <2>3, <2>4, <2>5
<1> QED
    BY <1>5, <1>6

LEMMA KeyIn ==
    ASSUME CallsGood, NEW c \in Callers, call[c].at # "idle"
    PROVE  Key(c) \in Tokens \X (Dexes \cup {"none"})
<1>1. call[c].token \in Tokens /\ call[c].pool \in AuditPools
    BY CallFacts DEF CallGood, AuditCalls
<1> QED
    BY <1>1 DEF Key, AuditPools

LEMMA ConsultKeeps ==
    ASSUME AuditInv, NEW c \in Callers, Consult(c)
    PROVE  AuditInv'
<1> DEFINE entry == audits[Key(c)]
<1>1. call[c].at = "audit" /\ CallsGood /\ VerdictsRecent /\ UNCHANGED <<pools, jettons, audits>>
    BY DEF Consult, AuditInv
<1>2. Key(c) \in Tokens \X (Dexes \cup {"none"})
    BY <1>1, KeyIn
<1>3. CallsGood' /\ VerdictsRecent'
    <2>1. CASE entry # NoEntry
        <3>1. entry \in ReportEntries /\ entry.age < AuditTtl
              /\ Within(entry.verdict, entry.age, entry.age + JettonTtl)
            BY <1>2, <2>1 DEF AuditInv, AuditsRecent
        <3>2. entry.verdict \in AuditVerdicts /\ entry.age \in Nat
              /\ entry.verdict.lpAge \in Nat /\ entry.verdict.adminAge \in Nat
            BY <3>1 DEF ReportEntries, AuditVerdicts
        <3>3. Reported(c, entry.verdict)
            BY <2>1 DEF Consult, Fresh
        <3> HIDE DEF entry
        <3>4. Within(entry.verdict, AuditTtl - 1, AuditTtl - 1 + JettonTtl)
            BY <3>1, <3>2, Lifetimes DEF Within
        <3> QED
            BY <1>1, <3>2, <3>3, <3>4, ReportedKeeps
    <2>2. CASE entry = NoEntry
        <3>1. Goes(c, [call[c] EXCEPT !.at = "admin"]) /\ UNCHANGED verdicts
            BY <2>2 DEF Consult, Fresh
        <3> QED
            BY <1>1, <3>1, StageKeeps, AuditDefaults DEF VerdictsRecent
    <2> QED
        BY <2>1, <2>2
<1> QED
    BY <1>1, <1>3 DEF AuditInv, PoolsKnown, MetaRecent, AuditsRecent

LEMMA ReadAdminKeeps ==
    ASSUME AuditInv, NEW c \in Callers, ReadAdmin(c)
    PROVE  AuditInv'
<1> DEFINE t == call[c].token
           new(renounced, age) == [call[c] EXCEPT !.at = "lp", !.verdict.renounced = renounced, !.verdict.adminAge = age]
<1>1. call[c].at = "admin" /\ CallsGood /\ MetaRecent /\ UNCHANGED <<pools, audits, verdicts>>
    BY DEF ReadAdmin, AuditInv
<1>2. t \in Tokens /\ call[c] \in AuditCalls
    BY <1>1, CallFacts DEF CallGood
<1>3. ASSUME NEW renounced \in BOOLEAN, NEW age \in Nat, age < JettonTtl, Goes(c, new(renounced, age))
      PROVE  CallsGood'
    <2> DEFINE k == new(renounced, age)
               v == [call[c].verdict EXCEPT !.renounced = renounced, !.adminAge = age]
    <2>1. v \in AuditVerdicts /\ v.adminAge = age
        BY <1>2 DEF AuditCalls, AuditVerdicts
    <2>2. k = [call[c] EXCEPT !.at = "lp", !.verdict = v]
        BY <1>2 DEF AuditCalls, AuditVerdicts
    <2>3. Goes(c, k)
        BY <1>3
    <2> HIDE DEF k, v
    <2>4. k \in AuditCalls /\ k.at = "lp" /\ k.token = t /\ k.verdict = v /\ k.waited \in {0, 1}
        BY <1>2, <2>1, <2>2 DEF AuditCalls
    <2>5. k.verdict.adminAge <= JettonTtl - 1 + k.waited
        BY <1>3, <2>1, <2>4, Lifetimes
    <2>6. CallGood(c, k)
        BY <1>2, <2>4, <2>5 DEF CallGood
    <2> QED
        BY <1>1, <2>3, <2>6, CallMoves
<1>4. 0 \in Nat /\ 0 < JettonTtl /\ (t \notin admin) \in BOOLEAN /\ FALSE \in BOOLEAN
    BY Lifetimes
<1>5. CASE Fresh(jettons[t])
    <2>1. Goes(c, new(jettons[t].renounced, jettons[t].age)) /\ UNCHANGED jettons
        BY <1>5 DEF ReadAdmin
    <2>2. jettons[t] \in MetaEntries /\ jettons[t].age < JettonTtl
        BY <1>1, <1>2, <1>5 DEF MetaRecent, Fresh
    <2>3. jettons[t].renounced \in BOOLEAN /\ jettons[t].age \in Nat
        BY <2>2 DEF MetaEntries
    <2>4. CallsGood'
        BY <1>3, <2>1, <2>2, <2>3
    <2> QED
        BY <1>1, <2>1, <2>4 DEF AuditInv, PoolsKnown, MetaRecent, AuditsRecent, VerdictsRecent
<1>6. CASE ~Fresh(jettons[t])
    <2>1. /\ Goes(c, new(t \notin admin, 0)) \/ Goes(c, new(FALSE, 0))
          /\ KeepMeta(t) \/ UNCHANGED jettons
        BY <1>6 DEF ReadAdmin
    <2>2. CallsGood'
        <3> HIDE DEF new
        <3> QED
            BY <1>3, <1>4, <2>1
    <2>3. MetaRecent'
        <3> DEFINE e == [renounced |-> t \notin admin, age |-> 0]
        <3>1. e \in MetaEntries /\ e.age = 0
            BY <1>4 DEF MetaEntries
        <3>2. jettons' = [jettons EXCEPT ![t] = e] \/ jettons' = jettons
            BY <2>1 DEF KeepMeta
        <3> HIDE DEF e
        <3>3. CASE jettons' = [jettons EXCEPT ![t] = e]
            BY <1>1, <1>2, <1>4, <3>1, <3>3 DEF MetaRecent
        <3>4. CASE jettons' = jettons
            BY <1>1, <3>4 DEF MetaRecent
        <3> QED
            BY <3>2, <3>3, <3>4
    <2> QED
        BY <1>1, <2>2, <2>3 DEF AuditInv, PoolsKnown, AuditsRecent, VerdictsRecent
<1> QED
    BY <1>5, <1>6

LEMMA ReadLpKeeps ==
    ASSUME AuditInv, NEW c \in Callers, ReadLp(c)
    PROVE  AuditInv'
<1>1. call[c].at = "lp" /\ CallsGood /\ VerdictsRecent /\ UNCHANGED <<pools, jettons>>
    BY DEF ReadLp, AuditInv
<1>2. call[c] \in AuditCalls /\ call[c].verdict \in AuditVerdicts
      /\ call[c].verdict.adminAge <= JettonTtl - 1 + call[c].waited /\ call[c].waited \in {0, 1}
    BY <1>1, CallFacts DEF CallGood, AuditCalls
<1>3. PICK state \in {"locked", "unlocked", "undetermined"} :
          LET v == [call[c].verdict EXCEPT !.lp = state, !.lpAge = 0]
          IN  Reported(c, v) /\ audits' = [audits EXCEPT ![Key(c)] = [verdict |-> v, age |-> 0]]
    BY DEF ReadLp
<1> DEFINE v == [call[c].verdict EXCEPT !.lp = state, !.lpAge = 0]
           e == [verdict |-> v, age |-> 0]
<1>4. v \in AuditVerdicts /\ v.lpAge = 0 /\ v.adminAge = call[c].verdict.adminAge /\ v.adminAge \in Nat
    BY <1>2 DEF AuditVerdicts
<1>5. Reported(c, v) /\ audits' = [audits EXCEPT ![Key(c)] = e]
    BY <1>3
<1> HIDE DEF v
<1>6. Within(v, 0, JettonTtl) /\ Within(v, AuditTtl - 1, AuditTtl - 1 + JettonTtl)
    BY <1>2, <1>4, Lifetimes DEF Within
<1>7. CallsGood' /\ VerdictsRecent'
    BY <1>1, <1>4, <1>5, <1>6, ReportedKeeps
<1>8. AuditsRecent'
    <2> DEFINE K == Tokens \X (Dexes \cup {"none"})
    <2>1. Key(c) \in K
        BY <1>1, KeyIn
    <2>2. e \in ReportEntries /\ e.age = 0 /\ e.verdict = v
        BY <1>4 DEF ReportEntries
    <2>3. e.age < AuditTtl /\ Within(e.verdict, e.age, e.age + JettonTtl)
        BY <1>6, <2>2, Lifetimes
    <2> HIDE DEF e, K
    <2>4. /\ audits \in [K -> ReportEntries \cup {NoEntry}]
          /\ \A k \in K : audits[k] # NoEntry => /\ audits[k].age < AuditTtl
                                                 /\ Within(audits[k].verdict, audits[k].age, audits[k].age + JettonTtl)
        BY DEF AuditInv, AuditsRecent, K
    <2>5. audits' \in [K -> ReportEntries \cup {NoEntry}]
        BY <1>5, <2>2, <2>4
    <2>6. \A k \in K : audits'[k] = e \/ audits'[k] = audits[k]
        BY <1>5, <2>4
    <2>7. \A k \in K : audits'[k] # NoEntry => /\ audits'[k].age < AuditTtl
                                               /\ Within(audits'[k].verdict, audits'[k].age, audits'[k].age + JettonTtl)
        BY <2>3, <2>4, <2>6
    <2> QED
        BY <2>5, <2>7 DEF AuditsRecent, K
<1> QED
    BY <1>1, <1>7, <1>8 DEF AuditInv, PoolsKnown, MetaRecent

-----------------------------------------------------------------------------
(* Calls begin and end. *)
LEMMA BeginKeeps ==
    ASSUME AuditInv, NEW c \in Callers, NEW t \in Tokens, NEW at \in {"resolve", "audit"}, UNCHANGED caches,
           Goes(c, [Idle EXCEPT !.at = at, !.token = t])
    PROVE  AuditInv'
<1> DEFINE new == [Idle EXCEPT !.at = at, !.token = t]
<1>1. new \in AuditCalls /\ new.at = at /\ new.token = t
    BY AuditDefaults DEF AuditCalls
<1>2. Goes(c, new)
    OBVIOUS
<1> HIDE DEF new
<1>3. CallGood(c, new)
    BY <1>1 DEF CallGood
<1>4. CallsGood'
    BY <1>2, <1>3, CallMoves DEF AuditInv
<1> QED
    BY <1>4 DEF AuditInv, PoolsKnown, MetaRecent, AuditsRecent, VerdictsRecent, caches

LEMMA UseKeeps ==
    ASSUME AuditInv, NEW c \in Callers, Use(c)
    PROVE  AuditInv'
<1>1. UNCHANGED caches /\ Goes(c, Idle) /\ CallGood(c, Idle)
    BY AuditDefaults DEF Use
<1>2. CallsGood'
    BY <1>1, CallMoves DEF AuditInv
<1> QED
    BY <1>1, <1>2 DEF AuditInv, PoolsKnown, MetaRecent, AuditsRecent, VerdictsRecent, caches

-----------------------------------------------------------------------------
(* Time passes. *)
LEMMA OlderBy ==
    ASSUME NEW n \in Nat
    PROVE  Older(n) \in Nat /\ n <= Older(n) /\ Older(n) <= n + 1
BY Lifetimes DEF Older

LEMMA OlderYoung ==
    ASSUME NEW n \in Nat, NEW ttl \in {JettonTtl, AuditTtl, VerdictTtl}, n < ttl
    PROVE  Older(n) = n + 1
<1>1. ttl <= Oldest /\ ttl \in Nat /\ Oldest \in Nat
    BY Lifetimes DEF Oldest
<1> QED
    BY <1>1 DEF Older

LEMMA AgedVerdictIs ==
    ASSUME NEW v \in AuditVerdicts, NEW i \in Nat, NEW j \in Nat, Within(v, i, j)
    PROVE  AgedVerdict(v) \in AuditVerdicts /\ Within(AgedVerdict(v), i + 1, j + 1)
<1>1. v.lpAge \in Nat /\ v.adminAge \in Nat
    BY DEF AuditVerdicts
<1>2. /\ Older(v.lpAge) \in Nat /\ Older(v.lpAge) <= v.lpAge + 1
      /\ Older(v.adminAge) \in Nat /\ Older(v.adminAge) <= v.adminAge + 1
    BY <1>1, OlderBy
<1>3. AgedVerdict(v) \in AuditVerdicts /\ AgedVerdict(v).lpAge = Older(v.lpAge)
      /\ AgedVerdict(v).adminAge = Older(v.adminAge)
    BY <1>2 DEF AgedVerdict, AuditVerdicts
<1>4. Older(v.lpAge) <= i + 1 /\ Older(v.adminAge) <= j + 1
    BY <1>1, <1>2 DEF Within
<1> QED
    BY <1>3, <1>4 DEF Within

(* An entry that is still there is a minute older. *)
LEMMA AgedReportIs ==
    ASSUME NEW e \in ReportEntries, NEW ttl \in {AuditTtl, VerdictTtl}, AgedReport(e, ttl) # NoEntry
    PROVE  /\ e.age + 1 < ttl /\ AgedReport(e, ttl) \in ReportEntries
           /\ AgedReport(e, ttl).age = e.age + 1 /\ AgedReport(e, ttl).verdict = AgedVerdict(e.verdict)
<1>1. e.age \in Nat /\ e.verdict \in AuditVerdicts /\ ttl \in Nat
    BY Lifetimes DEF ReportEntries
<1>2. e # NoEntry /\ ~Expires(e.age, ttl)
    BY DEF AgedReport, Aged
<1>3. e.age + 1 < ttl
    BY <1>1, <1>2 DEF Expires
<1>4. Older(e.age) = e.age + 1
    BY <1>1, <1>3, OlderYoung
<1> DEFINE f == [e EXCEPT !.age = Older(@)]
<1>5. Aged(e, ttl) = f
    BY <1>2 DEF Aged
<1>6. f = [verdict |-> e.verdict, age |-> e.age + 1]
    BY <1>4 DEF ReportEntries
<1>7. f # NoEntry
    BY <1>1, <1>6 DEF NoEntry
<1> HIDE DEF f
<1>8. AgedReport(e, ttl) = [f EXCEPT !.verdict = AgedVerdict(@)]
    BY <1>5, <1>7 DEF AgedReport
<1>9. AgedReport(e, ttl) = [verdict |-> AgedVerdict(e.verdict), age |-> e.age + 1]
    BY <1>6, <1>8
<1>10. AgedVerdict(e.verdict) \in AuditVerdicts
    <2>1. e.verdict.lpAge \in Nat /\ e.verdict.adminAge \in Nat
        BY <1>1 DEF AuditVerdicts
    <2>2. Within(e.verdict, e.verdict.lpAge, e.verdict.adminAge)
        BY <2>1 DEF Within
    <2> QED
        BY <1>1, <2>1, <2>2, AgedVerdictIs
<1> QED
    BY <1>1, <1>3, <1>9, <1>10 DEF ReportEntries

LEMMA AgedNone == \A ttl : AgedReport(NoEntry, ttl) = NoEntry /\ Aged(NoEntry, ttl) = NoEntry
BY DEF AgedReport, Aged

LEMMA MinuteKeepsPools ==
    ASSUME PoolsKnown, Minute
    PROVE  PoolsKnown'
<1>1. pools' = [t \in Tokens |-> Aged(pools[t], PoolTtl)]
    BY DEF Minute
<1>2. ASSUME NEW t \in Tokens PROVE Aged(pools[t], PoolTtl) \in PoolEntries \cup {NoEntry}
    <2>1. CASE pools[t] = NoEntry
        BY <2>1, AgedNone
    <2>2. CASE pools[t] \in PoolEntries
        <3>1. Older(pools[t].age) \in Nat
            BY <2>2, OlderBy DEF PoolEntries
        <3>2. [pools[t] EXCEPT !.age = Older(@)] \in PoolEntries
            BY <2>2, <3>1 DEF PoolEntries
        <3> QED
            BY <3>2 DEF Aged
    <2> QED
        BY <2>1, <2>2 DEF PoolsKnown
<1> QED
    BY <1>1, <1>2 DEF PoolsKnown

LEMMA MinuteKeepsMeta ==
    ASSUME MetaRecent, Minute
    PROVE  MetaRecent'
<1> DEFINE new(t) == Aged(jettons[t], JettonTtl)
<1>1. jettons' = [t \in Tokens |-> new(t)]
    BY DEF Minute
<1>2. ASSUME NEW t \in Tokens
      PROVE  new(t) \in MetaEntries \cup {NoEntry} /\ (new(t) # NoEntry => new(t).age < JettonTtl)
    <2>1. CASE new(t) = NoEntry
        BY <2>1
    <2>2. CASE new(t) # NoEntry
        <3>1. jettons[t] # NoEntry /\ ~Expires(jettons[t].age, JettonTtl)
            BY <2>2 DEF Aged
        <3>2. jettons[t] \in MetaEntries /\ jettons[t].age \in Nat
            BY <3>1 DEF MetaRecent, MetaEntries
        <3>3. jettons[t].age + 1 < JettonTtl
            BY <3>1, <3>2, Lifetimes DEF Expires
        <3>4. Older(jettons[t].age) = jettons[t].age + 1
            BY <3>2, <3>3, Lifetimes, OlderYoung
        <3>5. new(t) = [jettons[t] EXCEPT !.age = jettons[t].age + 1]
            BY <3>1, <3>4 DEF Aged
        <3>6. new(t) \in MetaEntries /\ new(t).age = jettons[t].age + 1
            BY <3>2, <3>5 DEF MetaEntries
        <3> QED
            BY <3>3, <3>6
    <2> QED
        BY <2>1, <2>2
<1> HIDE DEF new
<1> QED
    BY <1>1, <1>2 DEF MetaRecent

LEMMA MinuteKeepsAudits ==
    ASSUME AuditsRecent, Minute
    PROVE  AuditsRecent'
<1> DEFINE K == Tokens \X (Dexes \cup {"none"})
           new(k) == AgedReport(audits[k], AuditTtl)
           good(e) == e.age < AuditTtl /\ Within(e.verdict, e.age, e.age + JettonTtl)
<1>1. audits' = [k \in K |-> new(k)]
    BY DEF Minute, AuditsRecent
<1>2. ASSUME NEW k \in K
      PROVE  new(k) \in ReportEntries \cup {NoEntry} /\ (new(k) # NoEntry => good(new(k)))
    <2>1. CASE new(k) = NoEntry
        BY <2>1
    <2>2. CASE new(k) # NoEntry
        <3> DEFINE e == audits[k]
        <3>1. e \in ReportEntries /\ good(e)
            BY <2>2, AgedNone DEF AuditsRecent
        <3>2. e.age \in Nat /\ e.verdict \in AuditVerdicts /\ e.age + JettonTtl \in Nat
            BY <3>1, Lifetimes DEF ReportEntries
        <3>3. /\ e.age + 1 < AuditTtl /\ new(k) \in ReportEntries
              /\ new(k).age = e.age + 1 /\ new(k).verdict = AgedVerdict(e.verdict)
            BY <2>2, <3>1, AgedReportIs
        <3> HIDE DEF e, new
        <3>4. Within(AgedVerdict(e.verdict), e.age + 1, e.age + JettonTtl + 1)
            BY <3>1, <3>2, AgedVerdictIs
        <3>5. e.age + JettonTtl + 1 = e.age + 1 + JettonTtl
            BY <3>2, Lifetimes
        <3> QED
            BY <3>3, <3>4, <3>5
    <2> QED
        BY <2>1, <2>2
<1>3. audits' \in [K -> ReportEntries \cup {NoEntry}]
    <2> HIDE DEF new, good, K
    <2> QED
        BY <1>1, <1>2
<1>4. \A k \in K : audits'[k] # NoEntry => good(audits'[k])
    <2> HIDE DEF new, good, K
    <2> QED
        BY <1>1, <1>2
<1> QED
    BY <1>3, <1>4 DEF AuditsRecent

LEMMA MinuteKeepsVerdicts ==
    ASSUME VerdictsRecent, Minute
    PROVE  VerdictsRecent'
<1> DEFINE new(t) == AgedReport(verdicts[t], VerdictTtl)
           good(e) == \E n \in 0..(VerdictTtl - 1) : Kept(e, n)
<1>1. verdicts' = [t \in Tokens |-> new(t)]
    BY DEF Minute
<1>2. ASSUME NEW t \in Tokens
      PROVE  new(t) \in ReportEntries \cup {NoEntry} /\ (new(t) # NoEntry => good(new(t)))
    <2>1. CASE new(t) = NoEntry
        BY <2>1
    <2>2. CASE new(t) # NoEntry
        <3> DEFINE e == verdicts[t]
        <3>1. e \in ReportEntries /\ good(e)
            BY <2>2, AgedNone DEF VerdictsRecent
        <3>2. e.age \in Nat /\ e.verdict \in AuditVerdicts
            BY <3>1 DEF ReportEntries
        <3>3. /\ e.age + 1 < VerdictTtl /\ new(t) \in ReportEntries
              /\ new(t).age = e.age + 1 /\ new(t).verdict = AgedVerdict(e.verdict)
            BY <2>2, <3>1, AgedReportIs
        <3>4. PICK n \in 0..(VerdictTtl - 1) : Kept(e, n)
            BY <3>1
        <3> HIDE DEF e, new
        <3>5. n \in Nat /\ n <= e.age /\ Within(e.verdict, AuditTtl - 1 + n, AuditTtl - 1 + JettonTtl + n)
            BY <3>4, Lifetimes DEF Kept
        <3>6. AuditTtl - 1 + n \in Nat /\ AuditTtl - 1 + JettonTtl + n \in Nat
            BY <3>5, Lifetimes
        <3>7. Within(AgedVerdict(e.verdict), AuditTtl - 1 + n + 1, AuditTtl - 1 + JettonTtl + n + 1)
            BY <3>2, <3>5, <3>6, AgedVerdictIs
        <3>8. /\ n + 1 \in 0..(VerdictTtl - 1) /\ n + 1 <= e.age + 1
              /\ AuditTtl - 1 + n + 1 = AuditTtl - 1 + (n + 1)
              /\ AuditTtl - 1 + JettonTtl + n + 1 = AuditTtl - 1 + JettonTtl + (n + 1)
            BY <3>2, <3>3, <3>5, Lifetimes
        <3>9. Kept(new(t), n + 1)
            BY <3>3, <3>7, <3>8 DEF Kept
        <3> QED
            BY <3>3, <3>8, <3>9
    <2> QED
        BY <2>1, <2>2
<1> HIDE DEF new, good
<1>3. verdicts' \in [Tokens -> ReportEntries \cup {NoEntry}]
    BY <1>1, <1>2
<1>4. \A t \in Tokens : verdicts'[t] # NoEntry => good(verdicts'[t])
    BY <1>1, <1>2
<1> QED
    BY <1>3, <1>4 DEF VerdictsRecent, good

Waits(k, v) == [k EXCEPT !.waited = 1, !.verdict = v]
LEMMA CallWaits ==
    ASSUME NEW k \in AuditCalls, NEW v \in AuditVerdicts
    PROVE  /\ Waits(k, v) \in AuditCalls /\ Waits(k, v).at = k.at /\ Waits(k, v).token = k.token
           /\ Waits(k, v).verdict = v /\ Waits(k, v).waited = 1
BY DEF AuditCalls, Waits

LEMMA MinuteKeepsCalls ==
    ASSUME CallsGood, Minute
    PROVE  CallsGood'
<1> DEFINE age(c) == IF call[c].at = "lp" THEN Older(call[c].verdict.adminAge) ELSE call[c].verdict.adminAge
           later(c) == [call[c] EXCEPT !.waited = 1, !.verdict.adminAge = age(c)]
           new(c) == IF call[c].at = "idle" THEN Idle ELSE later(c)
<1>1. call' = [c \in Callers |-> new(c)]
    BY DEF Minute
<1>2. ASSUME NEW c \in Callers PROVE new(c) \in AuditCalls /\ CallGood(c, new(c))
    <2>1. CASE call[c].at = "idle"
        BY <2>1, AuditDefaults
    <2>2. CASE call[c].at # "idle"
        <3> DEFINE v == call[c].verdict
                   w == [v EXCEPT !.adminAge = age(c)]
        <3>1. call[c].at # "done" /\ call[c].waited = 0
            BY <2>2 DEF Minute
        <3>2. call[c] \in AuditCalls /\ CallGood(c, call[c]) /\ v \in AuditVerdicts
            BY CallFacts DEF AuditCalls
        <3>3. v.adminAge \in Nat
            BY <3>2 DEF AuditVerdicts
        <3>4. age(c) \in Nat /\ age(c) <= v.adminAge + 1
            BY <3>3, OlderBy
        <3> HIDE DEF age
        <3>5. w \in AuditVerdicts /\ w.adminAge = age(c)
            BY <3>2, <3>4 DEF AuditVerdicts
        <3>6. later(c) = [call[c] EXCEPT !.waited = 1, !.verdict = w]
            BY <3>2 DEF AuditCalls, AuditVerdicts
        <3>7. new(c) = later(c)
            BY <2>2
        <3> HIDE DEF w, later, new
        <3>8. /\ new(c) \in AuditCalls /\ new(c).at = call[c].at /\ new(c).token = call[c].token
              /\ new(c).verdict = w /\ new(c).waited = 1
            <4>1. new(c) = Waits(call[c], w)
                BY <3>6, <3>7 DEF Waits
            <4>2. /\ Waits(call[c], w) \in AuditCalls /\ Waits(call[c], w).at = call[c].at
                  /\ Waits(call[c], w).token = call[c].token
                  /\ Waits(call[c], w).verdict = w /\ Waits(call[c], w).waited = 1
                BY <3>2, <3>5, CallWaits
            <4> QED
                BY <4>1, <4>2
        <3>9. call[c].at = "lp" => w.adminAge <= JettonTtl - 1 + 1
            <4>1. call[c].at = "lp" => v.adminAge <= JettonTtl - 1 + 0
                BY <3>1, <3>2 DEF CallGood
            <4> HIDE DEF v
            <4> QED
                BY <3>3, <3>4, <3>5, <4>1, Lifetimes
        <3> QED
            BY <3>1, <3>2, <3>8, <3>9 DEF CallGood
    <2> QED
        BY <2>1, <2>2
<1> HIDE DEF new
<1>3. call' \in [Callers -> AuditCalls] /\ \A c \in Callers : CallGood(c, call'[c])
    BY <1>1, <1>2
<1>4. \A c \in Callers : CallGood(c, call[c])'
    BY <1>3 DEF CallGood, Held
<1> QED
    BY <1>3, <1>4 DEF CallsGood

-----------------------------------------------------------------------------
LEMMA AuditsBegin ==
    ASSUME InitAudits
    PROVE  AuditInv
<1>1. /\ pools = [t \in Tokens |-> NoEntry] /\ jettons = [t \in Tokens |-> NoEntry]
      /\ audits = [k \in Tokens \X (Dexes \cup {"none"}) |-> NoEntry]
      /\ verdicts = [t \in Tokens |-> NoEntry] /\ call = [c \in Callers |-> Idle]
    BY DEF InitAudits
<1>2. PoolsKnown /\ MetaRecent /\ AuditsRecent /\ VerdictsRecent
    BY <1>1 DEF PoolsKnown, MetaRecent, AuditsRecent, VerdictsRecent
<1>3. CallsGood
    BY <1>1, AuditDefaults DEF CallsGood
<1> QED
    BY <1>2, <1>3 DEF AuditInv

LEMMA AuditsStep ==
    ASSUME AuditInv, [NextAudits]_auditVars
    PROVE  AuditInv'
<1>1. ASSUME UNCHANGED <<caches, call>> PROVE AuditInv'
    BY <1>1 DEF AuditInv, PoolsKnown, MetaRecent, AuditsRecent, VerdictsRecent, CallsGood, CallGood, Held, caches
<1>2. CASE \E t \in Tokens : Watch(t)
    <2>1. PICK t \in Tokens : Watch(t)
        BY <1>2
    <2>2. Monitor \in Callers /\ UNCHANGED caches /\ Goes(Monitor, [Idle EXCEPT !.at = "resolve", !.token = t])
        BY <2>1 DEF Watch, Callers
    <2> QED
        BY <2>2, BeginKeeps
<1>3. CASE \E t \in Tokens, c \in Seekers : Scan(c, t)
    <2>1. PICK t \in Tokens, c \in Seekers : Scan(c, t)
        BY <1>3
    <2>2. c \in Callers /\ UNCHANGED caches /\ Goes(c, [Idle EXCEPT !.at = "audit", !.token = t])
        BY <2>1 DEF Scan, Callers
    <2> QED
        BY <2>2, BeginKeeps
<1>4. CASE \E t \in Tokens, c \in Seekers : Plan(c, t)
    <2>1. PICK t \in Tokens, c \in Seekers : Plan(c, t)
        BY <1>4
    <2>2. PICK at \in {"resolve", "audit"} : Goes(c, [Idle EXCEPT !.at = at, !.token = t])
        BY <2>1 DEF Plan
    <2>3. c \in Callers /\ UNCHANGED caches
        BY <2>1 DEF Plan, Callers
    <2> QED
        BY <2>2, <2>3, BeginKeeps
<1>5. CASE \E c \in Callers : Proceed(c)
    BY <1>5, LookupKeeps, AskStonfiKeeps, AskDedustKeeps, RecallKeeps, ConsultKeeps, ReadAdminKeeps, ReadLpKeeps, UseKeeps
       DEF Proceed
<1>6. CASE Minute
    BY <1>6, MinuteKeepsPools, MinuteKeepsMeta, MinuteKeepsAudits, MinuteKeepsVerdicts, MinuteKeepsCalls DEF AuditInv
<1>7. CASE Change
    BY <1>1, <1>7 DEF Change
<1>8. CASE UNCHANGED auditVars
    BY <1>1, <1>8 DEF auditVars
<1> QED
    BY <1>2, <1>3, <1>4, <1>5, <1>6, <1>7, <1>8 DEF NextAudits

(* Type correctness: the audits' caches and calls hold what they should. *)
THEOREM AuditsHold == AuditSpec => []AuditInv
<1>1. InitAudits => AuditInv
    BY AuditsBegin
<1>2. AuditInv /\ [NextAudits]_auditVars => AuditInv'
    BY AuditsStep
<1> QED
    BY <1>1, <1>2, PTL DEF AuditSpec

(* EvidenceIsRecent: a report that is acted on is no older than the caches  *)
(* it may have come through together keep an entry.                         *)
THEOREM ReportsAreRecent == AuditSpec => []EvidenceIsRecent
<1>1. AuditInv => EvidenceIsRecent
    BY DEF AuditInv, CallsGood, CallGood, EvidenceIsRecent, Held
<1> QED
    BY <1>1, AuditsHold, PTL

-----------------------------------------------------------------------------
(* The score.  A scale with rising bounds and falling costs charges more    *)
(* for less.                                                                *)
IsScale(s) ==
    /\ DOMAIN s \subseteq Nat /\ \A i \in DOMAIN s : s[i].bound \in Int /\ s[i].cost \in Nat
    /\ \A i, j \in DOMAIN s : i <= j => s[i].bound <= s[j].bound /\ s[j].cost <= s[i].cost

(* What a value is charged, without CHOOSE. *)
LEMMA DeductIs ==
    ASSUME NEW s, IsScale(s), NEW v \in Int
    PROVE  \/ /\ \A i \in DOMAIN s : s[i].bound <= v
              /\ Deduct(v, s) = 0
           \/ \E i \in DOMAIN s : /\ v < s[i].bound /\ Deduct(v, s) = s[i].cost
                                  /\ \A j \in DOMAIN s : v < s[j].bound => i <= j
<1> DEFINE below == {i \in DOMAIN s : v < s[i].bound}
           least == CHOOSE i \in below : \A j \in below : i <= j
<1>1. DOMAIN s \subseteq Nat /\ \A i \in DOMAIN s : s[i].bound \in Int
    BY DEF IsScale
<1>2. Deduct(v, s) = IF below = {} THEN 0 ELSE s[least].cost
    BY DEF Deduct
<1>3. CASE below = {}
    BY <1>1, <1>2, <1>3
<1>4. CASE below # {}
    <2>1. \E i \in below : \A j \in below : i <= j
        <3>1. below \subseteq Nat
            BY <1>1
        <3> HIDE DEF below
        <3> QED
            BY <1>4, <3>1, SmallestN
    <2>2. least \in below /\ \A j \in below : least <= j
        BY <2>1
    <2> QED
        BY <1>2, <1>4, <2>2
<1> QED
    BY <1>3, <1>4

LEMMA LessIsCharged ==
    ASSUME NEW s, IsScale(s), NEW v \in Int, NEW w \in Int, w <= v
    PROVE  Deduct(v, s) \in Nat /\ Deduct(w, s) \in Nat /\ Deduct(v, s) <= Deduct(w, s)
<1>1. DOMAIN s \subseteq Nat /\ \A i \in DOMAIN s : s[i].bound \in Int /\ s[i].cost \in Nat
    BY DEF IsScale
<1>2. Deduct(v, s) \in Nat /\ Deduct(w, s) \in Nat
    BY <1>1, DeductIs
<1>3. CASE \A i \in DOMAIN s : s[i].bound <= w
    <2>1. ~\E i \in DOMAIN s : v < s[i].bound
        BY <1>1, <1>3
    <2>2. Deduct(v, s) = 0
        BY <2>1, DeductIs
    <2> QED
        BY <1>2, <2>2
<1>4. CASE \E i \in DOMAIN s : ~(s[i].bound <= w)
    <2>1. PICK i \in DOMAIN s : w < s[i].bound /\ Deduct(w, s) = s[i].cost
                                /\ \A j \in DOMAIN s : w < s[j].bound => i <= j
        BY <1>4, DeductIs
    <2>2. CASE Deduct(v, s) = 0
        BY <1>2, <2>2
    <2>3. CASE Deduct(v, s) # 0
        <3>1. PICK j \in DOMAIN s : v < s[j].bound /\ Deduct(v, s) = s[j].cost
            BY <2>3, DeductIs
        <3>2. w < s[j].bound
            BY <1>1, <3>1
        <3>3. i <= j
            BY <2>1, <3>2
        <3>4. s[j].cost <= s[i].cost
            BY <3>3 DEF IsScale
        <3>5. Deduct(v, s) = s[j].cost /\ Deduct(w, s) = s[i].cost
            BY <2>1, <3>1
        <3> QED
            BY <1>2, <3>4, <3>5
    <2> QED
        BY <2>2, <2>3
<1> QED
    BY <1>2, <1>3, <1>4

(* What the code has of a report: flags, and numbers it may not know. *)
IsReport(r) ==
    /\ {r.renounced, r.lpLocked, r.honeypotSafe, r.poolAvailable} \subseteq BOOLEAN
    /\ r.holders \in Int /\ r.ageHours \in Int /\ r.liquidityTon \in Nat
(* w is in nothing better than r; what is not known is worst. *)
NoBetter(w, r) ==
    /\ w.renounced => r.renounced
    /\ w.lpLocked => r.lpLocked
    /\ w.honeypotSafe => r.honeypotSafe
    /\ w.poolAvailable => r.poolAvailable
    /\ w.holders <= r.holders /\ w.ageHours <= r.ageHours /\ w.liquidityTon <= r.liquidityTon

LEMMA Scales ==
    /\ IsScale(<<Step(10, 15), Step(100, 10), Step(500, 5)>>)
    /\ IsScale(<<Step(1, 15), Step(12, 10), Step(24, 5)>>)
    /\ IsScale(<<Step(10, 10), Step(100, 5)>>)
BY DEF IsScale, Step

LEMMA LiquidityIsCharged ==
    ASSUME NEW r, NEW w, IsReport(r), IsReport(w), NoBetter(w, r)
    PROVE  /\ LiquidityDeduction(r) \in Nat /\ LiquidityDeduction(w) \in Nat
           /\ LiquidityDeduction(r) <= LiquidityDeduction(w)
<1> DEFINE s == <<Step(10, 10), Step(100, 5)>>
<1>1. IsScale(s)
    BY Scales
<1>2. \A v \in Int : Deduct(v, s) \in 0..10
    <2>1. DOMAIN s = {1, 2} /\ s[1].cost = 10 /\ s[2].cost = 5
        BY DEF Step
    <2> HIDE DEF s
    <2> QED
        BY <1>1, <2>1, DeductIs
<1> HIDE DEF s
<1>3. /\ w.liquidityTon \in Int /\ r.liquidityTon \in Int /\ w.liquidityTon <= r.liquidityTon
      /\ r.liquidityTon >= 0 /\ w.liquidityTon >= 0
    BY DEF IsReport, NoBetter
<1>4. Deduct(r.liquidityTon, s) <= Deduct(w.liquidityTon, s)
    BY <1>1, <1>3, LessIsCharged
<1>5. LiquidityDeduction(r) = IF ~r.poolAvailable \/ r.liquidityTon = 0 THEN 10 ELSE Deduct(r.liquidityTon, s)
    BY DEF LiquidityDeduction, Unknown, s
<1>6. LiquidityDeduction(w) = IF ~w.poolAvailable \/ w.liquidityTon = 0 THEN 10 ELSE Deduct(w.liquidityTon, s)
    BY DEF LiquidityDeduction, Unknown, s
<1>7. LiquidityDeduction(r) \in 0..10 /\ LiquidityDeduction(w) \in 0..10
    BY <1>2, <1>3, <1>5, <1>6
<1>8. CASE ~w.poolAvailable \/ w.liquidityTon = 0
    BY <1>6, <1>7, <1>8
<1>9. CASE w.poolAvailable /\ w.liquidityTon # 0
    <2>1. r.poolAvailable /\ r.liquidityTon # 0
        BY <1>3, <1>9 DEF NoBetter
    <2>2. LiquidityDeduction(r) = Deduct(r.liquidityTon, s)
        BY <1>5, <2>1
    <2>3. LiquidityDeduction(w) = Deduct(w.liquidityTon, s)
        BY <1>6, <1>9
    <2> QED
        BY <1>4, <1>7, <2>2, <2>3
<1> QED
    BY <1>7, <1>8, <1>9

(* Of two reports the one that is in nothing better scores no higher: no    *)
(* bound, and nothing the code has for an unknown number, breaks the order. *)
THEOREM ScoreFollowsRisk ==
    ASSUME NEW r, NEW w, IsReport(r), IsReport(w), NoBetter(w, r)
    PROVE  /\ ComputeConfidenceScore(r) \in Nat /\ ComputeConfidenceScore(w) \in Nat
           /\ ComputeConfidenceScore(w) <= ComputeConfidenceScore(r)
<1>1. /\ r.holders \in Int /\ w.holders \in Int /\ r.ageHours \in Int /\ w.ageHours \in Int
      /\ w.holders <= r.holders /\ w.ageHours <= r.ageHours
    BY DEF IsReport, NoBetter
<1>2. AuditDeduction(r) \in Nat /\ AuditDeduction(w) \in Nat /\ AuditDeduction(r) <= AuditDeduction(w)
    BY DEF AuditDeduction, NoBetter
<1>3. /\ HoldersDeduction(r.holders) \in Nat /\ HoldersDeduction(w.holders) \in Nat
      /\ HoldersDeduction(r.holders) <= HoldersDeduction(w.holders)
    BY <1>1, Scales, LessIsCharged DEF HoldersDeduction
<1>4. /\ AgeDeduction(r.ageHours) \in Nat /\ AgeDeduction(w.ageHours) \in Nat
      /\ AgeDeduction(r.ageHours) <= AgeDeduction(w.ageHours)
    BY <1>1, Scales, LessIsCharged DEF AgeDeduction
<1>5. /\ LiquidityDeduction(r) \in Nat /\ LiquidityDeduction(w) \in Nat
      /\ LiquidityDeduction(r) <= LiquidityDeduction(w)
    BY LiquidityIsCharged
<1>6. /\ DataGapDeduction(r) \in Nat /\ DataGapDeduction(w) \in Nat /\ DataGapDeduction(r) <= DataGapDeduction(w)
    BY <1>1 DEF DataGapDeduction
<1> QED
    BY <1>2, <1>3, <1>4, <1>5, <1>6 DEF ComputeConfidenceScore

(* Nor does it pass a gate that the better one does not pass. *)
THEOREM GateFollowsRisk ==
    ASSUME NEW r, NEW w, IsReport(r), IsReport(w), NoBetter(w, r), NEW minAiScore \in Int,
           ExecutionAllowed(w, minAiScore)
    PROVE  ExecutionAllowed(r, minAiScore)
<1>1. w.honeypotSafe /\ w.lpLocked /\ w.poolAvailable
    BY DEF ExecutionAllowed
<1>2. r.honeypotSafe /\ r.lpLocked /\ r.poolAvailable
    BY <1>1 DEF NoBetter
<1>3. r.liquidityTon >= 50 /\ r.liquidityTon # 0
    BY DEF ExecutionAllowed, NoBetter, IsReport, MinExecutableLiquidity
<1>4. ComputeConfidenceScore(r) >= minAiScore /\ ComputeConfidenceScore(r) >= MinExecutionConfidence
    BY ScoreFollowsRisk DEF ExecutionAllowed, MinExecutionConfidence
<1> QED
    BY <1>2, <1>3, <1>4 DEF ExecutionAllowed, Unknown, MinExecutableLiquidity

LEMMA WorsenedIsNoBetter ==
    ASSUME NEW r \in Reports, NEW w \in Worsened(r)
    PROVE  IsReport(r) /\ IsReport(w) /\ NoBetter(w, r)
<1>1. /\ r.renounced \in BOOLEAN /\ r.lpLocked \in BOOLEAN /\ r.honeypotSafe \in BOOLEAN /\ r.poolAvailable \in BOOLEAN
    BY DEF Reports
<1>2. r.holders \in Nat /\ r.ageHours \in Nat /\ r.liquidityTon \in Nat /\ r.holders \in Int /\ r.ageHours \in Int
    BY DEF Reports, Unknown
<1>3. IsReport(r)
    BY <1>1, <1>2 DEF IsReport
<1>4. CASE \E f \in {"renounced", "lpLocked", "honeypotSafe", "poolAvailable"} : w = [r EXCEPT ![f] = FALSE]
    <2>1. \/ w = [r EXCEPT !.renounced = FALSE] \/ w = [r EXCEPT !.lpLocked = FALSE]
          \/ w = [r EXCEPT !.honeypotSafe = FALSE] \/ w = [r EXCEPT !.poolAvailable = FALSE]
        BY <1>4
    <2>2. /\ w.holders = r.holders /\ w.ageHours = r.ageHours /\ w.liquidityTon = r.liquidityTon
          /\ w.renounced \in BOOLEAN /\ w.lpLocked \in BOOLEAN /\ w.honeypotSafe \in BOOLEAN /\ w.poolAvailable \in BOOLEAN
          /\ (w.renounced => r.renounced) /\ (w.lpLocked => r.lpLocked)
          /\ (w.honeypotSafe => r.honeypotSafe) /\ (w.poolAvailable => r.poolAvailable)
        <3>1. CASE w = [r EXCEPT !.renounced = FALSE]
            BY <1>1, <3>1 DEF Reports
        <3>2. CASE w = [r EXCEPT !.lpLocked = FALSE]
            BY <1>1, <3>2 DEF Reports
        <3>3. CASE w = [r EXCEPT !.honeypotSafe = FALSE]
            BY <1>1, <3>3 DEF Reports
        <3>4. CASE w = [r EXCEPT !.poolAvailable = FALSE]
            BY <1>1, <3>4 DEF Reports
        <3> QED
            BY <2>1, <3>1, <3>2, <3>3, <3>4
    <2> QED
        <3>1. w.holders <= r.holders /\ w.ageHours <= r.ageHours /\ w.liquidityTon <= r.liquidityTon
            BY <1>2, <2>2
        <3>2. IsReport(w)
            BY <1>2, <2>2, Zenon DEF IsReport
        <3> QED
            BY <1>3, <2>2, <3>1, <3>2, Zenon DEF NoBetter
<1>5. CASE \E h \in Nat : h < r.holders /\ w = [r EXCEPT !.holders = h]
    BY <1>1, <1>2, <1>3, <1>5 DEF Reports, IsReport, NoBetter
<1>6. CASE \E a \in Nat : a < r.ageHours /\ w = [r EXCEPT !.ageHours = a]
    BY <1>1, <1>2, <1>3, <1>6 DEF Reports, IsReport, NoBetter
<1>7. CASE \E l \in Nat : l < r.liquidityTon /\ w = [r EXCEPT !.liquidityTon = l]
    BY <1>1, <1>2, <1>3, <1>7 DEF Reports, IsReport, NoBetter
<1> QED
    BY <1>4, <1>5, <1>6, <1>7 DEF Worsened, Unknown

LEMMA NoneMisjudged == Misjudged = {}
<1>1. ASSUME NEW r \in Reports, NEW w \in Worsened(r)
      PROVE  /\ ~(ComputeConfidenceScore(w) > ComputeConfidenceScore(r))
             /\ ~(ExecutionAllowed(w, MinAiScoreLow) /\ ~ExecutionAllowed(r, MinAiScoreLow))
    <2>1. IsReport(r) /\ IsReport(w) /\ NoBetter(w, r)
        BY WorsenedIsNoBetter
    <2>2. ~(ComputeConfidenceScore(w) > ComputeConfidenceScore(r))
        BY <2>1, ScoreFollowsRisk
    <2>3. ~(ExecutionAllowed(w, MinAiScoreLow) /\ ~ExecutionAllowed(r, MinAiScoreLow))
        BY <2>1, GateFollowsRisk DEF MinAiScoreLow
    <2> QED
        BY <2>2, <2>3
<1>2. \A r \in Reports : ~Inverted(r)
    BY <1>1 DEF Inverted
<1> QED
    BY <1>2 DEF Misjudged

(* RiskOnlyLowersConfidence: whatever audit a call reports, a token with    *)
(* fewer holders, hours or TON scores no higher and passes no more gates.   *)
THEOREM RiskLowersConfidence == AuditSpec => []RiskOnlyLowersConfidence
<1>1. RiskOnlyLowersConfidence
    BY NoneMisjudged DEF RiskOnlyLowersConfidence
<1> QED
    BY <1>1, PTL
=============================================================================
