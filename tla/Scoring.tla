------------------------------ MODULE Scoring -------------------------------
(***************************************************************************)
(* risk/scoring.ts: the confidence in a token, from 100 down, and the gate *)
(* that asks for enough of it.  Holders, hours and TON are numbers or      *)
(* Unknown, which the code has as null, 0 or NaN.                          *)
(***************************************************************************)
EXTENDS Integers

Unknown == 0

(* The deduction of a scale: that of the first bound the value is below. *)
Deduct(value, scale) ==
    LET below == {i \in DOMAIN scale : value < scale[i].bound}
    IN  IF below = {} THEN 0 ELSE scale[CHOOSE i \in below : \A j \in below : i <= j].cost

Step(bound, cost) == [bound |-> bound, cost |-> cost]
AuditDeduction(r) ==
    (IF r.renounced THEN 0 ELSE 25) + (IF r.lpLocked THEN 0 ELSE 30) + (IF r.honeypotSafe THEN 0 ELSE 40)
HoldersDeduction(holders) == Deduct(holders, <<Step(10, 15), Step(100, 10), Step(500, 5)>>)
AgeDeduction(hours) == Deduct(hours, <<Step(1, 15), Step(12, 10), Step(24, 5)>>)
(* Mutant of LiquidityDeduction: a depth that is not known costs nothing. *)
LiquidityDeduction_Lenient(r) ==
    IF ~r.poolAvailable THEN 10 ELSE IF r.liquidityTon = Unknown THEN 0
    ELSE Deduct(r.liquidityTon, <<Step(10, 10), Step(100, 5)>>)
LiquidityDeduction(r) ==
    IF ~r.poolAvailable \/ r.liquidityTon = Unknown THEN 10 ELSE Deduct(r.liquidityTon, <<Step(10, 10), Step(100, 5)>>)
DataGapDeduction(r) ==
    (IF r.holders <= 0 THEN 20 ELSE 0) + (IF r.ageHours <= 0 THEN 20 ELSE 0)

ComputeConfidenceScore(r) ==
    LET total == 100 - AuditDeduction(r) - HoldersDeduction(r.holders) - AgeDeduction(r.ageHours)
                     - LiquidityDeduction(r) - DataGapDeduction(r)
    IN  IF total < 0 THEN 0 ELSE total

MinExecutionConfidence == 70
MinAiScoreLow == 80  \* of the LOW tier
MinExecutableLiquidity == 50
(* evaluateExecutionConfidence: three hard gates, the depth, the score. *)
ExecutionAllowed(r, minAiScore) ==
    /\ r.honeypotSafe /\ r.lpLocked /\ r.poolAvailable
    /\ r.liquidityTon # Unknown /\ r.liquidityTon >= MinExecutableLiquidity
    /\ ComputeConfidenceScore(r) >= minAiScore
    /\ ComputeConfidenceScore(r) >= MinExecutionConfidence

-----------------------------------------------------------------------------
(* Inputs on both sides of every bound. *)
Reports == [renounced : BOOLEAN, lpLocked : BOOLEAN, honeypotSafe : BOOLEAN, poolAvailable : BOOLEAN,
            holders : {Unknown, 9, 10, 99, 100, 499, 500}, ageHours : {Unknown, 1, 11, 12, 23, 24},
            liquidityTon : {Unknown, 9, 10, 49, 50, 99, 100}]

(* One thing about a token gets worse. *)
Worsened(r) ==
    {[r EXCEPT ![f] = FALSE] : f \in {"renounced", "lpLocked", "honeypotSafe", "poolAvailable"}}
      \cup {[r EXCEPT !.holders = h] : h \in {x \in {Unknown, 9, 99, 499} : x < r.holders}}
      \cup {[r EXCEPT !.ageHours = a] : a \in {x \in {Unknown, 1, 11, 23} : x < r.ageHours}}
      \cup {[r EXCEPT !.liquidityTon = l] : l \in {x \in {Unknown, 9, 49, 99} : x < r.liquidityTon}}

(* The score or the gate has r and something worse the wrong way round. *)
Inverted(r) ==
    \E w \in Worsened(r) :
        \/ ComputeConfidenceScore(w) > ComputeConfidenceScore(r)
        \/ ExecutionAllowed(w, MinAiScoreLow) /\ ~ExecutionAllowed(r, MinAiScoreLow)
(* The audits, renounced and locked, with which that can happen. *)
Misjudged == {<<r.renounced, r.lpLocked>> : r \in {s \in Reports : Inverted(s)}}
=============================================================================
