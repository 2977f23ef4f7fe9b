-------------------------- MODULE MCTradeExecution --------------------------
(* LOW tier with default limits: a caution buy and an exit sell. *)
EXTENDS TradeExecution

Plain == [side |-> "buy", high |-> FALSE, jettonOk |-> TRUE, amount |-> 50,
          verdict |-> "none", slippage |-> Absent, tvl |-> Absent, score |-> Absent]
CautionBuy == [Plain EXCEPT !.verdict = "caution"]
ExitSell == [Plain EXCEPT !.side = "sell"]

CautionAndExit == {CautionBuy, ExitSell}
\* Enough for the caps and the gate.
Rich == {2000}
=============================================================================
