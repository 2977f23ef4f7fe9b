----------------------------- MODULE SafetyCaps -----------------------------
(***************************************************************************)
(* The deterministic gates a trade must clear, as operators:               *)
(*   apps/agent/src/safetycaps/check.ts   checkTicket, verifyCapBinding    *)
(*   apps/agent/src/core/gate.ts          evaluateTradeGate                *)
(* Amounts are integers in hundredths of a TON, percentages are integers.  *)
(* A ticket is compared whole where the code compares its hash: the hash   *)
(* covers every field below and the cycle id.                              *)
(***************************************************************************)
EXTENDS Integers

CONSTANTS
    MaxPosition,     \* TIER_RISK_CONFIGS[tier].maxPositionTon
    MaxOpen,         \* TIER_RISK_CONFIGS[tier].maxOpen
    MinAiScore,      \* TIER_RISK_CONFIGS[tier].minAiScore
    AllocationPct,   \* MAX_PORTFOLIO_ALLOCATION_PCT
    CeilingPct,      \* AUTO_APPROVE_CEILING_PCT
    MaxSlippage,     \* MAX_SLIPPAGE_PCT, in hundredths of a percent
    DepthPct,        \* MAX_TRADE_POOL_TVL_PCT
    RequireTvl,      \* REQUIRE_POOL_TVL
    GasCushion,      \* GAS_CUSHION_TON
    TradeReserve     \* TRADE_RESERVE_TON = effectiveBuyReserveTon()

ASSUME TierAssumption == MaxPosition \in Nat /\ MaxOpen \in Nat /\ MinAiScore \in Nat
ASSUME PctAssumption ==
    /\ AllocationPct \in Nat /\ CeilingPct \in Nat /\ DepthPct \in Nat
    /\ MaxSlippage \in Nat /\ RequireTvl \in BOOLEAN
ASSUME ReserveAssumption == GasCushion \in Nat /\ TradeReserve \in Nat

\* An optional field the caller left out (slippage, TVL and score are never negative).
Absent == -1
Verdicts == {"none", "pass", "caution", "reject"}

Tickets == [side : {"buy", "sell"}, high : BOOLEAN, jettonOk : BOOLEAN, amount : Int,
            verdict : Verdicts, slippage : Int, tvl : Int, score : Int]

(* The tier as the coordinator sees it: the cached handle, the brake, the   *)
(* daily-loss breaker, and the OBSERVE_ONLY setting.                        *)
Contexts == [balance : Int, open : Nat, unlocked : BOOLEAN, killed : BOOLEAN,
             breakerOk : BOOLEAN, observeOnly : BOOLEAN]

-----------------------------------------------------------------------------

(* Mutant of HaltFailures: the brake holds buys only, like the other caps.  *)
HaltFailures_ExitsExempt(t, c) ==
    [OBSERVE_ONLY |-> c.observeOnly, KILL_SWITCH |-> c.killed /\ t.side = "buy",
     BAD_SIZE |-> t.amount <= 0, BAD_JETTON |-> ~t.jettonOk]

(* Sells are stopped by the halts only, so that a position can be closed   *)
(* while the breaker is tripped.                                            *)
HaltFailures(t, c) ==
    [OBSERVE_ONLY |-> c.observeOnly,
     KILL_SWITCH  |-> c.killed,
     BAD_SIZE     |-> t.amount <= 0,
     BAD_JETTON   |-> ~t.jettonOk]

OverAllocation_Turned(t, c) == t.amount * 100 < c.balance * AllocationPct   \* mutant
OverAllocation(t, c) == t.amount * 100 > c.balance * AllocationPct

BuyFailures(t, c) ==
    [HIGH_LOCKED     |-> t.high /\ ~c.unlocked,
     CIRCUIT_BREAKER |-> ~c.breakerOk,
     RISK_REJECT     |-> t.verdict = "reject",
     TIER_CAP        |-> t.amount > MaxPosition,
     BANKROLL        |-> c.balance < t.amount + GasCushion,
     MAX_OPEN        |-> c.open >= MaxOpen,
     ALLOCATION      |-> OverAllocation(t, c),
     SLIPPAGE        |-> t.slippage # Absent /\ t.slippage > MaxSlippage,
     POOL_TVL        |-> t.tvl = 0,
     DEPTH           |-> t.tvl > 0 /\ t.amount * 100 > t.tvl * DepthPct,
     POOL_REQUIRED   |-> t.tvl = Absent /\ RequireTvl,
     AI_SCORE        |-> t.score # Absent /\ t.score < MinAiScore]

(* checkTicket pushes every failure that applies; it does not stop at the first. *)
Raised(f) == {code \in DOMAIN f : f[code]}
Failures(t, c) ==
    Raised(HaltFailures(t, c)) \cup (IF t.side = "buy" THEN Raised(BuyFailures(t, c)) ELSE {})

CapsOk(t, c) == Failures(t, c) = {}

(* hitl_required: caution always, and a size above the auto-approve ceiling. *)
NeedsHuman(t, c) ==
    /\ t.side = "buy"
    /\ CapsOk(t, c)
    /\ t.verdict = "caution" \/ t.amount * 100 > c.balance * CeilingPct

(* verifyCapBinding *)
Binds(cap, t) == cap.ok /\ cap.ticket = t /\ (cap.human => cap.status = "approved")

-----------------------------------------------------------------------------
(* Mutant of GateAllows: the position count is left to the caller. *)
GateAllows_NoCount(high, amount, c) ==
    /\ ~c.observeOnly /\ ~c.killed
    /\ ~(high /\ ~c.unlocked)
    /\ c.breakerOk
    /\ amount <= MaxPosition
    /\ c.balance >= amount + GasCushion + TradeReserve

(* evaluateTradeGate, which check_risk_status, record_position and the fast *)
(* path consult instead of checkTicket.                                     *)
GateAllows(high, amount, c) ==
    /\ ~c.observeOnly /\ ~c.killed
    /\ ~(high /\ ~c.unlocked)
    /\ c.breakerOk
    /\ amount <= MaxPosition
    /\ c.balance >= amount + GasCushion + TradeReserve
    /\ c.open < MaxOpen
=============================================================================
