---------------------------- MODULE MCSwingEntry ----------------------------
EXTENDS SwingEntry

(* Launches on both sides of each gate that moves with the market. *)
MCCoins ==
    [verification : {3}, collected : {1000, 30000, 120000}, buyers : {None, 3, 15}, sellers : {None, 4, 12},
     links : {2}, repeated : BOOLEAN, age : {"unknown", "stale"}, metadata : {"fine"}, migrated : {FALSE}]
        \cup [verification : {None, 2}, collected : {30000}, buyers : {15}, sellers : {0},
              links : {2}, repeated : {FALSE}, age : {"fresh"}, metadata : {"none", "bad", "fine"}, migrated : BOOLEAN]

MCFeeds == {[sellers |-> 3, buyers |-> 2, holders |-> "steady"], [sellers |-> 0, buyers |-> 0, holders |-> "unknown"]}

(* LOW and HIGH proposals around every limit, with the default settings.    *)
MCBalances == {0, 130, 230, 1000, 2000}
Buys == [side : {"buy"}, high : BOOLEAN, jettonOk : {TRUE}, amount : {0, 30, 50, 100, 101},
         verdict : {"none", "caution"}, slippage : {Absent}, tvl : {Absent}, score : {Absent}]
\* One optional field at a time, at and beyond its limit.
Priced == {[t EXCEPT !.slippage = s] : t \in Buys, s \in {150, 151}}
Pooled == {[t EXCEPT !.tvl = v] : t \in Buys, v \in {0, 1000, 2000}}
Scored == {[t EXCEPT !.score = n] : t \in Buys, n \in {79, 80}}
Rejected == {[t EXCEPT !.verdict = "reject"] : t \in Buys}
Sells == {[t EXCEPT !.side = "sell", !.jettonOk = j] : t \in Buys, j \in BOOLEAN}
MCProposals == {t \in Buys \cup Priced \cup Pooled \cup Scored \cup Rejected \cup Sells :
                    t.verdict # "none" => t.amount \in {30, 100}}
=============================================================================
