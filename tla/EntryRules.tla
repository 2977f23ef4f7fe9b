----------------------------- MODULE EntryRules -----------------------------
(***************************************************************************)
(* What the sniper lets in, and how large: the gates and the score of      *)
(* sniper/filters.ts, the size chain of scanTick, sniper/sizing.ts and the *)
(* viability floor of economics/trade-economics.ts.  Amounts are in        *)
(* hundredths of a TON.                                                    *)
(***************************************************************************)
EXTENDS Integers

CONSTANTS
    MinVerification, MinCurve, MaxCurvePct, CurveMax,
    MinBuyers, MinScore,
    TargetPct,       \* SNIPER_TAKE_PROFIT_T1_PCT
    Safety,          \* POSITION_VIABILITY_SAFETY_FACTOR
    PerTrade,        \* SNIPER_PER_TRADE_TON
    PortfolioPct,    \* SNIPER_PORTFOLIO_PCT
    SniperMaxOpen,   \* SNIPER_MAX_OPEN_POSITIONS
    RouterGas,       \* ROUTER_GAS_TON, one leg
    DepthSharePct,   \* SNIPER_MAX_POOL_DEPTH_SHARE_PCT
    MaxImpactPct     \* SNIPER_SLIPPAGE_PROBE_MAX_IMPACT_PCT

ASSUME GatesAssumption == {MinVerification, MinCurve, MaxCurvePct, MinBuyers, MinScore} \subseteq Nat /\ CurveMax \in Nat \ {0}
ASSUME SizingAssumption ==
    {TargetPct, PerTrade, PortfolioPct, SniperMaxOpen, RouterGas, DepthSharePct, MaxImpactPct} \subseteq Nat /\ Safety \in Nat \ {0}

Least(a, b) == IF a < b THEN a ELSE b
NonNegative(a) == IF a < 0 THEN 0 ELSE a
None == -1

(* curveMetrics: the share of the curve that is collected, in percent. *)
CurvePct(c) == (c.collected * 100) \div CurveMax

(* participation: distinct wallets of the last day; a bucket that is not in  *)
(* the answer counts as nobody.                                              *)
Wallets(n) == IF n = None THEN 0 ELSE n
Buyers(c) == Wallets(c.buyers)
Sellers(c) == Wallets(c.sellers)

(* metadataSanity and the patterns of spam: no metadata is as bad as bad.    *)
Sane(c) == c.metadata = "fine"

(* hardGates: every one of them must pass; an age that cannot be parsed does. *)
HardGates(c) ==
    /\ c.verification # None /\ c.verification >= MinVerification
    /\ c.collected >= MinCurve /\ CurvePct(c) <= MaxCurvePct
    /\ Buyers(c) >= MinBuyers
    /\ c.age # "stale" /\ Sane(c) /\ ~c.migrated

(* softScore *)
BuyerPoints(b) == IF b >= 50 THEN 25 ELSE IF b >= 15 THEN 15 ELSE IF b >= 3 THEN 5 ELSE 0
CurvePoints(c) == IF CurvePct(c) \in 8..45 THEN 20 ELSE IF CurvePct(c) > 45 THEN 8 ELSE 5
FlowPoints(b, s) ==
    IF b + s < 5 THEN 0
    ELSE Least(20, 5 + b + s) + (IF s > 0 /\ 2 * b >= 3 * s THEN 10 ELSE 0)
LinkPoints(n) == IF n >= 2 THEN 5 ELSE IF n = 1 THEN 2 ELSE 0
Score(c) ==
    Least(100, NonNegative(30 + BuyerPoints(Buyers(c)) + CurvePoints(c) + FlowPoints(Buyers(c), Sellers(c))
                           + LinkPoints(c.links) - (IF c.repeated THEN 15 ELSE 0)))

(* evaluateLaunch *)
Launchable(c) == HardGates(c) /\ Score(c) >= MinScore

(* minViablePositionTon: at the Safety-th part of the target, and after the *)
(* fees, the lot has paid its gas; when the fees alone eat that, no lot     *)
(* does.  Rates are in basis points.                                        *)
Edge(feeBp) == (10000 - feeBp) * (10000 + (TargetPct * 100) \div Safety) - 10000 * 10000
(* Mutant of Viable: break-even at the whole target. *)
Viable_AtTarget(lot, gas, feeBp) ==
    LET edge == (10000 - feeBp) * (10000 + TargetPct * 100) - 10000 * 10000
    IN  edge > 0 /\ (lot * (edge \div 10000)) >= gas * 10000
Viable(lot, gas, feeBp) == Edge(feeBp) > 0 /\ (lot * (Edge(feeBp) \div 10000)) >= gas * 10000

(* worstCaseSlLossOk: what a stop at its widest leaves is viable too. *)
SurvivesStop(lot, feeBp, widenMax) == Viable((lot * (100 - widenMax)) \div 100, 2 * RouterGas, feeBp)

(* positionSizeTon *)
Sized(bankroll, remaining) ==
    NonNegative(Least(PerTrade, Least((bankroll * PortfolioPct) \div 100, remaining)))

(* Mutant of Spendable: the exits of the lots already held are not reserved. *)
Spendable_ThisLot(bankroll, held) == NonNegative(bankroll - RouterGas - RouterGas)
(* scanTick: the exit gas of every lot is set aside first. *)
Spendable(bankroll, held) == NonNegative(bankroll - (held + 1) * RouterGas - RouterGas)
DailyRemaining(spent) == NonNegative(PerTrade * SniperMaxOpen - spent)

(* poolDepthCapTon; without a depth there is no cap. *)
DepthAllows(lot, depth) == depth <= 0 \/ lot * 100 <= depth * DepthSharePct

(* slippageProbeOk; a quote without an impact tells nothing. *)
ProbeOk(q) == q.possible /\ (q.impact = None \/ q.impact <= MaxImpactPct)
=============================================================================
