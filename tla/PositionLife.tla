---------------------------- MODULE PositionLife ----------------------------
(***************************************************************************)
(* One position from the launch that is considered, or the lot that is     *)
(* recorded, to the verdict that ends it: the rules of ExitRules and       *)
(* EntryRules under the trackers that feed them.                           *)
(*   hotpath/position-monitor.ts   the look of runMonitor at one position  *)
(*   sniper/engine.ts              scanTick, buyToken, monitorTick         *)
(*   exit/trend-monitor.ts, exit/volatility-regime.ts, exit/rug-detector.ts *)
(*                                 the trackers, which a restart empties   *)
(* What becomes of the verdict is the subject of PositionMonitor and of    *)
(* SniperEngine.  A look that finds no price changes nothing here.         *)
(***************************************************************************)
EXTENDS ExitRules, EntryRules

CONSTANTS
    Prices,      \* what the market can show, in percent of the entry price
    SwingLots,   \* lots of swing positions
    Bankrolls,   \* balances of the sniper's wallet
    Coins,       \* launches in the feed
    Feeds        \* participation and holders that the feeds report

ASSUME MarketAssumption == Prices \subseteq Nat \ {0} /\ Prices # {} /\ SwingLots \subseteq Nat \ {0}
ASSUME BankrollAssumption == Bankrolls \subseteq Nat

VARIABLES
    mode,     \* which engine keeps the position
    phase,    \* flat, sized (a launch that is about to be bought), open, out
    offer,    \* the launch, and what its size was computed from
    lot,
    series,   \* ring buffer of trendTracker, empty before it is seeded
    conf, obs,\* its counters
    streak,   \* structureBreakStreaks
    regime,   \* RegimeClassifier: the regime, and the candidate for the next
    best,     \* exitValueTracker
    peak,     \* peak_price_ton of the row
    timed,    \* the row has a deadline
    due,      \* and it has passed
    feeds,    \* what fetchTradesWindow and fetchHoldersTotal would answer
    still,    \* the market no longer moves
    mark,     \* the price of the last look
    verdict,  \* why the position ends
    \* History, not in the code:
    high,     \* the best price observed since the entry
    shaken,   \* observations in a row whose window holds a fall
    looksBelow\* looks in a row under the best price

trackers == <<series, conf, obs, streak, regime, best>>
history == <<high, shaken, looksBelow>>
vars == <<mode, phase, offer, lot, trackers, peak, timed, due, feeds, still, mark, verdict, history>>

NoOffer == [coin |-> CHOOSE c \in Coins : TRUE, bankroll |-> 0, held |-> 0]
Unknown == [now |-> "unknown", next |-> "none"]

Untracked ==
    /\ series = << >> /\ conf = 0 /\ obs = 0 /\ streak = 0 /\ regime = Unknown /\ best = 0
Init ==
    /\ mode \in {"swing", "sniper"} /\ phase = "flat" /\ offer = NoOffer /\ lot = 0
    /\ Untracked
    /\ feeds \in Feeds
    /\ peak = Entry /\ timed = FALSE /\ due = FALSE /\ still = FALSE /\ mark = Entry /\ verdict = "none"
    /\ high = Entry /\ shaken = 0 /\ looksBelow = 0

-----------------------------------------------------------------------------
(* Entry *)

(* scanTick: gates, size, viability at the target and at the widest stop,   *)
(* and the depth of the pool.                                               *)
Consider(c) ==
    /\ mode = "sniper" /\ phase = "flat"
    /\ Launchable(c)
    /\ \E bankroll \in Bankrolls, held \in 0..(SniperMaxOpen - 1) :
           LET size == Sized(Spendable(bankroll, held), DailyRemaining(held * PerTrade))
           IN  /\ size > 0
               /\ Viable(size, 2 * RouterGas, FeeBp)
               /\ SurvivesStop(size, FeeBp, WidenMaxPct)
               /\ DepthAllows(size, c.collected)
               /\ offer' = [coin |-> c, bankroll |-> bankroll, held |-> held]
               /\ lot' = size
    /\ phase' = "sized"
    /\ UNCHANGED <<mode, trackers, peak, timed, due, feeds, still, mark, verdict, history>>

(* getMemepadQuote fails closed: an answer without a route, without swap    *)
(* data or with no output throws.                                           *)
Quoted(q) == q.possible

(* buyToken: the quote and its probe, then the buy; a refusal is an error   *)
(* of the pass, and the launch comes round again.                           *)
Buy ==
    /\ phase = "sized"
    /\ \E q \in [possible : BOOLEAN, impact : {None, MaxImpactPct, MaxImpactPct + 1}] :
           IF Quoted(q) /\ ProbeOk(q) THEN phase' = "open" /\ timed' = TRUE /\ UNCHANGED lot
           ELSE phase' = "flat" /\ lot' = 0 /\ UNCHANGED timed
    /\ offer' = NoOffer
    /\ UNCHANGED <<mode, trackers, peak, due, feeds, still, mark, verdict, history>>

(* record_position: a swing lot, with or without tierMaxHoldMs. *)
EnterSwing(l) ==
    /\ mode = "swing" /\ phase = "flat"
    /\ phase' = "open" /\ lot' = l /\ timed' \in BOOLEAN
    /\ UNCHANGED <<mode, offer, trackers, peak, due, feeds, still, mark, verdict, history>>

-----------------------------------------------------------------------------
(* The trackers *)

(* For the history: the window holds a fall. *)
Falls(s) == \E i \in 2..Len(s) : s[i] < s[i - 1]

(* trendTracker.observe and the history of it. *)
Observe(y) ==
    /\ series' = Pushed(IF series = << >> THEN Seed ELSE series, y)
    /\ conf' = Counted(series', conf)
    /\ obs' = IF obs < MinObs THEN obs + 1 ELSE obs
    /\ high' = Higher(high, y)
    /\ shaken' = IF ~Falls(series') THEN 0 ELSE IF shaken < Confirm THEN shaken + 1 ELSE shaken
Confirmed == conf' >= Confirm /\ obs' >= MinObs

(* RegimeClassifier.observe: two measurements in a row change the regime. *)
Classify(target) ==
    regime' = IF target = regime.now THEN [regime EXCEPT !.next = "none"]
              ELSE IF target = regime.next THEN [now |-> target, next |-> "none"]
              ELSE [regime EXCEPT !.next = target]

(* Ticks of the market: anything, or what it was when it has settled. *)
Shown == IF still THEN {mark} ELSE Prices

Ends(why, x) ==
    /\ verdict' = why
    /\ phase' = IF why = "none" THEN "open" ELSE "out"
    /\ looksBelow' = IF x >= high THEN 0 ELSE IF looksBelow < StopConfirm THEN looksBelow + 1 ELSE looksBelow

-----------------------------------------------------------------------------
(* ExitPolicyContext: what the policy is told of a look at price x. *)
SwingFacts(x) ==
    [lot |-> lot, mark |-> x, due |-> due,
     rug |-> Drained(lot, best', x),
     flip |-> Confirmed /\ ConfirmedByFeeds(feeds), conf |-> conf', regime |-> regime'.now,
     under |-> streak' > 0, streak |-> streak']

(* The look of the swing monitor: the probe price is the mark and the trend *)
(* price; the structure stop, the depth, and the policy.                    *)
LookSwing(x) ==
    /\ mode = "swing" /\ phase = "open" /\ x \in Shown /\ mark' = x
    /\ Observe(x)
    /\ streak' = IF ~UnderStructure(series', x) THEN 0
                 ELSE IF streak < StopConfirm THEN streak + 1 ELSE streak
    /\ best' = Tracked(best, x)
    /\ \E measured \in {"normal", "spiked"} : Classify(measured)
    /\ Ends(PolicyExit(SwingFacts(x)), x)
    /\ UNCHANGED <<mode, offer, lot, peak, timed, due, feeds, still>>

(* onPolledTick: between two looks a polled price feeds the trend. *)
PollTick(y) ==
    /\ mode = "swing" /\ phase = "open" /\ y \in Shown /\ series # << >>
    /\ Observe(y)
    /\ UNCHANGED <<mode, phase, offer, lot, streak, regime, best, peak, timed, due, feeds, still, mark, verdict, looksBelow>>

(* ExitState: what decideExit is told. *)
SniperFacts(x) ==
    [lot |-> lot, mark |-> x, due |-> due, peak |-> peak',
     flip |-> Confirmed /\ ConfirmedByFeeds(feeds)]
(* The volatility of the window, against that of its first two prices. *)
WidenedStop == SniperStop(RealizedVol(series'), RealizedVol(SubSeq(series', 1, 2)))

(* probePriceTon: a tenth of the lot gets a price that is never worse, and  *)
(* a probe that fails or is dust gives the price x of the whole.            *)
Probes(x) == {y \in Shown : y >= x}

(* The look of the sniper: the whole lot is quoted for the mark, and a      *)
(* probe for the trend.                                                     *)
LookSniper(x, y) ==
    /\ mode = "sniper" /\ phase = "open" /\ x \in Shown /\ y \in Probes(x) /\ mark' = x
    /\ Observe(y)
    /\ peak' = Higher(peak, x)
    /\ Ends(SniperExit(SniperFacts(x), WidenedStop), x)
    /\ UNCHANGED <<mode, offer, lot, streak, regime, best, timed, due, feeds, still>>

Look ==
    \/ \E x \in Prices \cup {Entry} : LookSwing(x)
    \/ \E x, y \in Prices \cup {Entry} : LookSniper(x, y)

-----------------------------------------------------------------------------
(* The world around *)

(* The process restarts: the trackers are gone, the rows stay. *)
Restart ==
    /\ phase = "open"
    /\ series' = << >> /\ conf' = 0 /\ obs' = 0 /\ streak' = 0 /\ regime' = Unknown /\ best' = 0
    /\ UNCHANGED <<mode, phase, offer, lot, peak, timed, due, feeds, still, mark, verdict, history>>

DeadlinePasses ==
    /\ phase = "open" /\ timed /\ ~due
    /\ due' = TRUE
    /\ UNCHANGED <<mode, phase, offer, lot, trackers, peak, timed, feeds, still, mark, verdict, history>>

(* Traders and holders come and go, or a feed fails. *)
FeedsMove ==
    /\ phase = "open" /\ ~still
    /\ feeds' \in Feeds
    /\ UNCHANGED <<mode, phase, offer, lot, trackers, peak, timed, due, still, mark, verdict, history>>

(* The market goes quiet where it is. *)
Settle ==
    /\ phase = "open" /\ ~still
    /\ still' = TRUE
    /\ UNCHANGED <<mode, phase, offer, lot, trackers, peak, timed, due, feeds, mark, verdict, history>>

(* The sale is through and the position is forgotten. *)
Forget ==
    /\ phase = "out"
    /\ phase' = "flat" /\ lot' = 0 /\ verdict' = "none"
    /\ series' = << >> /\ conf' = 0 /\ obs' = 0 /\ streak' = 0 /\ regime' = Unknown /\ best' = 0
    /\ peak' = Entry /\ timed' = FALSE /\ due' = FALSE /\ still' = FALSE /\ mark' = Entry
    /\ high' = Entry /\ shaken' = 0 /\ looksBelow' = 0
    /\ UNCHANGED <<mode, offer, feeds>>

Next ==
    \/ \E c \in Coins : Consider(c)
    \/ Buy \/ \E l \in SwingLots : EnterSwing(l)
    \/ Look \/ \E y \in Prices \cup {Entry} : PollTick(y)
    \/ Restart \/ DeadlinePasses \/ FeedsMove \/ Settle \/ Forget

Spec == Init /\ [][Next]_vars
(* The interval timers fire; all that is needed of them are the looks at a  *)
(* position past its deadline once the market is quiet.                     *)
FairSpec == Spec /\ WF_vars(still /\ due /\ Look)

-----------------------------------------------------------------------------
(* Properties *)

(* The counters stay within what is compared of them, the window within the *)
(* history, and whatever is remembered of the market is a price it showed.  *)
Shows == Prices \cup {Entry}
ExitVerdicts ==
    {"none", "emergency_exit", "trend_exit", "giveback_exit", "time_exit", "stop_loss", "structure_stop"}
TypeOK ==
    /\ mode \in {"swing", "sniper"} /\ phase \in {"flat", "sized", "open", "out"}
    /\ offer \in [coin : Coins \cup {NoOffer.coin}, bankroll : Bankrolls \cup {0}, held : 0..SniperMaxOpen] /\ lot \in Nat
    /\ series \in Seq(Shows) /\ Len(series) \in {0} \cup (Slow + 2)..HistorySize
    /\ conf \in 0..(Confirm + SpikedExtra) /\ obs \in 0..MinObs /\ streak \in 0..StopConfirm
    /\ regime \in [now : {"unknown", "normal", "spiked"}, next : {"none", "normal", "spiked"}]
    /\ best \in Shows \cup {0} /\ {peak, mark, high} \subseteq Shows
    /\ {timed, due, still} \subseteq BOOLEAN /\ feeds \in Feeds
    /\ verdict \in ExitVerdicts
    /\ shaken \in 0..Confirm /\ looksBelow \in 0..StopConfirm

(* A lot is bought only when, after the buy and its gas, the wallet can     *)
(* still pay the gas of the exit of every lot it holds, this one included.  *)
ExitsAreFunded ==
    phase = "sized" => offer.bankroll - lot - RouterGas >= (offer.held + 1) * RouterGas

(* The price under which nothing keeps a position open. *)
Floor == IF mode = "swing" THEN 10000 - StopBp(lot) ELSE 100 * (Entry - WidenMaxPct)

(* No branch hides the stop: after a look at or under the floor the         *)
(* position is not open, whatever the trend, the regime or the feeds say.   *)
LossesAreCut == phase = "open" => 100 * mark > Floor

(* Only a fall ends a position before its deadline: at a new high, or in a  *)
(* market that has not moved, no rule but the trend closes it.  The giveback *)
(* of a lot whose gas break-even is above the arming level is left out.     *)
WinnersRide ==
    verdict \notin {"none", "time_exit", "trend_exit"} /\ (verdict = "giveback_exit" => 100 * GasTon < ArmPct * lot)
        => mark < high

(* How little a wick is: the structure stop closes only after its looks     *)
(* below the best price, and the trend only when the window of each of its  *)
(* confirmations held a fall.  One wick may be the fall in all of them, so  *)
(* that this is less than the "single wicks" of trend-monitor.ts's doc.     *)
WicksAreRidden ==
    /\ verdict = "trend_exit" => shaken >= Confirm
    /\ verdict = "structure_stop" => looksBelow >= StopConfirm

(* In a market that has gone quiet, a position past its deadline ends; also *)
(* the shallow loser that a confirmed flip holds back.                      *)
StaleEnds == still /\ due ~> phase # "open"
=============================================================================
