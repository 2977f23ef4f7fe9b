------------------------------ MODULE ExitRules ------------------------------
(***************************************************************************)
(* The pure rules that end a position.                                     *)
(*   exit/trend-monitor.ts, ml/features.ts   the trend and its two EMAs    *)
(*   exit/volatility-regime.ts               ATR and the structure stop    *)
(*   exit/rug-detector.ts                    the drain of the exit value   *)
(*   economics/trade-economics.ts            costs and the effective stop  *)
(*   exit/policy-engine.ts                   evaluateExitPolicy (swing)    *)
(*   sniper/filters.ts                       decideExit (sniper)           *)
(* Prices are integer percentages of the entry price, TON amounts are in   *)
(* hundredths of a TON, rates in basis points; quotients are compared by   *)
(* cross-multiplication, so that nothing is rounded that the code does not *)
(* round.                                                                  *)
(***************************************************************************)
EXTENDS Integers, Sequences, FiniteSets

CONSTANTS
    Fast, Slow,       \* trendExitFastEma, trendExitSlowEma
    History,          \* trendExitHistory
    Confirm,          \* trendExitConfirmTicks
    MinObs,           \* trendExitMinObservations
    SpikedExtra,      \* trendExitSpikedExtraTicks
    StopConfirm,      \* stopConfirmTicks
    Lookback,         \* volatilityLookback, the period of the ATR
    AtrMult,          \* stopAtrMult, in percent
    StopPct,          \* stopLossPct of the tier, and SNIPER_STOP_LOSS_PCT
    WidenMaxPct,      \* SNIPER_SL_VOL_WIDEN_MAX_PCT
    ArmPct, DropPct,  \* SNIPER_GIVEBACK_ARM_PCT, SNIPER_GIVEBACK_DROP_PCT
    EntryGas, ExitGas,\* ENTRY_GAS_TON, EXIT_GAS_TON
    FeeBp             \* ROUND_TRIP_FEE_PCT

ASSUME TrendAssumption ==
    /\ Fast \in Nat \ {0} /\ Slow \in Nat \ {0} /\ Confirm \in Nat \ {0} /\ MinObs \in Nat \ {0}
    /\ History \in Nat /\ SpikedExtra \in Nat
ASSUME StopAssumption ==
    /\ StopConfirm \in Nat \ {0} /\ Lookback \in Nat \ {0} /\ AtrMult \in 50..200
    /\ StopPct \in 1..99 /\ WidenMaxPct \in StopPct..99
ASSUME CostAssumption ==
    /\ ArmPct \in Nat /\ DropPct \in 0..99 /\ EntryGas \in Nat \ {0} /\ ExitGas \in Nat /\ FeeBp \in Nat

Entry == 100
Largest(S) == CHOOSE x \in S : \A y \in S : x >= y
Higher(a, b) == IF a > b THEN a ELSE b
Last(s) == s[Len(s)]

-----------------------------------------------------------------------------
(* The trend *)

(* The constructor of TrendTracker: a history too short for the slow average *)
(* would switch the signal off.                                              *)
HistorySize == Higher(History, Slow + 2)

(* A new buffer is filled with the entry price. *)
Seed == [i \in 1..(Slow + 2) |-> Entry]

(* observe: the newest price in, the oldest out. *)
Pushed(s, x) == IF Len(s) = HistorySize THEN Append(Tail(s), x) ELSE Append(s, x)

(* base^n *)
Power(base, n) ==
    LET power[k \in 0..n] == IF k = 0 THEN 1 ELSE base * power[k - 1]
    IN  power[n]

(* calculateEMA with period n, times (n + 1)^(Len(s) - 1). *)
Ema(s, n) ==
    LET ema[i \in 1..Len(s)] ==
            IF i = 1 THEN s[1] ELSE 2 * s[i] * Power(n + 1, i - 2) + (n - 1) * ema[i - 1]
    IN  ema[Len(s)]

(* calculateMACD: the signal line is a fifth of the MACD line itself, so    *)
(* that the histogram has the sign of the crossover and adds nothing to it. *)
Macd(s) == Ema(s, Fast) * Power(Slow + 1, Len(s) - 1) - Ema(s, Slow) * Power(Fast + 1, Len(s) - 1)
Histogram(macd) == 5 * macd - macd

(* Mutant of Bearish: a flat market counts as falling. *)
Bearish_Flat(s) == Len(s) >= Slow + 2 /\ Macd(s) <= 0
(* evaluateTrendSignal *)
Bearish(s) == Len(s) >= Slow + 2 /\ LET macd == Macd(s) IN macd < 0 /\ Histogram(macd) < 0

(* Mutant of Counted: a recovery does not start the count over. *)
Counted_Keeps(s, conf) == IF ~Bearish(s) THEN conf ELSE IF conf < Confirm + SpikedExtra THEN conf + 1 ELSE conf
(* The confirmations after an observation, as far as they are compared. *)
Counted(s, conf) == IF ~Bearish(s) THEN 0 ELSE IF conf < Confirm + SpikedExtra THEN conf + 1 ELSE conf

-----------------------------------------------------------------------------
(* The structure stop *)

(* |close - previous close| *)
Move(s, i) == IF s[i + 1] > s[i] THEN s[i + 1] - s[i] ELSE s[i] - s[i + 1]
Moves(s) == Len(s) - 1

(* The mean of the first moves, then smoothed, times its denominator: the   *)
(* count, and then a factor of the period for each smoothing.               *)
Count(n) == IF n < Lookback THEN n ELSE Lookback
Smoothings(n) == n - Count(n)
Smoothed(s) ==
    LET sum[i \in 1..Moves(s)] ==
            IF i = 1 THEN Move(s, 1)
            ELSE IF i <= Lookback THEN sum[i - 1] + Move(s, i)
            ELSE sum[i - 1] * (Lookback - 1) + Move(s, i) * Power(Lookback, Smoothings(i))
    IN  sum[Moves(s)]

MeanMove(s) == [num |-> Smoothed(s), den |-> Count(Moves(s)) * Power(Lookback, Smoothings(Moves(s)))]

(* Mutant of AtrClose: no floor under an average of zero. *)
AtrClose_NoFloor(s) == MeanMove(s)
(* atrClose as a fraction; instead of zero, two percent of the last close. *)
AtrClose(s) == IF Smoothed(s) > 0 THEN MeanMove(s) ELSE [num |-> 2 * Last(s), den |-> 100]

HighWaterClose(s) == Largest({s[i] : i \in 1..Len(s)})

(* mark <= structureStopLevel: the high water less the ATR band, and never  *)
(* under the stop the tier configures.                                      *)
UnderStructure(s, mark) ==
    \/ mark <= Entry - StopPct
    \/ LET atr == AtrClose(s) IN 100 * atr.den * (HighWaterClose(s) - mark) >= AtrMult * atr.num

-----------------------------------------------------------------------------
(* Costs, in basis points of a lot *)

(* ROUND_TRIP_GAS_TON: flat, whatever the size. *)
GasTon == EntryGas + ExitGas

(* roundTripCostPct *)
CostBp(lot) == (GasTon * 10000) \div lot + FeeBp

(* STOP_SPREAD_MULTIPLE, in percent *)
SpreadMultiple == 150
(* effectiveStopLossPct: a stop within the cost of the round trip would fire *)
(* on the spread.                                                            *)
StopBp(lot) == Higher(StopPct * 100, (SpreadMultiple * CostBp(lot)) \div 100)

(* LiquidityTracker.observe: the best exit value seen in this process. *)
Tracked(best, price) == Higher(best, price)

(* RUG_LIQUIDITY_MIN_BASE_TON and RUG_LIQUIDITY_DROP_PCT *)
DrainBase == 100
DrainPct == 50
(* detectLiquidityDrain: of a depth worth measuring, too much is gone. *)
Drained(lot, best, price) == lot * best >= 100 * DrainBase /\ 100 * price < (100 - DrainPct) * best

-----------------------------------------------------------------------------
(* evaluateExitPolicy: rug, trend, time, stop, structure. *)

Spiked(regime, conf) == regime = "spiked" /\ conf < Confirm + SpikedExtra

(* Mutant of PolicyExit: an unconfirmed flip puts the stop off. *)
PolicyExit_TrendFirst(f) ==
    CASE f.rug -> "emergency_exit"
      [] ~f.rug /\ f.flip /\ ~Spiked(f.regime, f.conf) -> "trend_exit"
      [] ~f.rug /\ f.flip /\ Spiked(f.regime, f.conf) -> "none"
      [] OTHER -> IF f.due THEN "time_exit"
                  ELSE IF 100 * (Entry - f.mark) >= StopBp(f.lot) THEN "stop_loss" ELSE "none"

PolicyExit(f) ==
    IF f.rug THEN "emergency_exit"
    ELSE IF f.flip /\ ~Spiked(f.regime, f.conf) THEN "trend_exit"
    ELSE IF f.due THEN "time_exit"
    ELSE IF 100 * (Entry - f.mark) >= StopBp(f.lot) THEN "stop_loss"
    ELSE IF f.under /\ f.streak >= StopConfirm THEN "structure_stop"
    ELSE "none"

-----------------------------------------------------------------------------
(* decideExit: trend, giveback, time, stop. *)

(* What realizedVol tells apart here: the returns of a window differ. *)
RealizedVol(s) == Cardinality({(1000 * s[i + 1]) \div s[i] : i \in 1..(Len(s) - 1)}) - 1

(* effectiveStopPct *)
SniperStop(vol, base) ==
    IF base <= 0 \/ vol <= base THEN StopPct
    ELSE LET widened == (StopPct * vol) \div base
         IN  IF widened < WidenMaxPct THEN widened ELSE WidenMaxPct

(* givebackExit: armed by the peak; the level is raised to the price that   *)
(* pays the gas back, wherever the price is.                                *)
Giveback(lot, peak, price) ==
    /\ peak >= Entry + ArmPct
    /\ \/ 100 * price <= (100 - DropPct) * peak
       \/ lot * price <= 100 * (lot + GasTon)

(* A confirmed flip closes a winner or what is under the stop already; a    *)
(* shallow loser is held, also past its deadline.                           *)
SniperExit(f, stop) ==
    IF f.flip
    THEN IF f.mark > Entry \/ Entry - f.mark >= StopPct THEN "trend_exit" ELSE "none"
    ELSE IF Giveback(f.lot, f.peak, f.mark) THEN "giveback_exit"
    ELSE IF f.due THEN "time_exit"
    ELSE IF Entry - f.mark >= stop THEN "stop_loss"
    ELSE "none"

(* confirmedByFeeds: sellers there and at least as many as buyers, holders  *)
(* not growing, nothing unknown.                                            *)
ConfirmedByFeeds(f) ==
    /\ f.sellers > 0 /\ f.sellers >= f.buyers
    /\ f.holders # "unknown" /\ f.holders # "growing"
=============================================================================
