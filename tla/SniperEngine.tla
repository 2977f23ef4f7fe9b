---------------------------- MODULE SniperEngine ----------------------------
(***************************************************************************)
(* The memepad sniper (apps/agent/src/sniper/engine.ts) over its table     *)
(* sniper_positions and its daily ledger (storage/store.ts).  Two timers   *)
(* start scan passes and monitor ticks; nothing stops a timer from         *)
(* starting the next pass while the previous one awaits the network, and   *)
(* an operator edits the table by hand.  One action is one piece of code   *)
(* between two awaits.  Amounts count lots: what a lot buys, its price and *)
(* the exit rules' inputs are abstracted to what the ledger sees of them.  *)
(***************************************************************************)
EXTENDS Integers, FiniteSets

CONSTANTS
    Masters,      \* tokens, by jetton master; a row's id is derived from it
    Scans,        \* scan passes that may run at once
    Monitors,     \* monitor ticks that may run at once
    MaxOpen,      \* SNIPER_MAX_OPEN_POSITIONS
    PerTrade,     \* SNIPER_PER_TRADE_TON
    Gas,          \* ROUND_TRIP_GAS_TON
    LossLimit,    \* SNIPER_DAILY_LOSS_LIMIT_TON
    SellQuotes,   \* what the router may quote for a position
    MaxCost,      \* bound: a cost basis stops here
    MaxLedger,    \* bound: realized PnL stays within -MaxLedger..MaxLedger
    MaxDisturbances   \* bound: kinds of disturbance in one behaviour

ASSUME LimitsAssumption ==
    /\ MaxOpen \in Nat \ {0} /\ PerTrade \in Nat \ {0} /\ Gas \in Nat /\ LossLimit \in Nat \ {0}
    /\ SellQuotes \subseteq Nat
ASSUME ActorsAssumption == IsFiniteSet(Masters)
ASSUME BoundsAssumption ==
    MaxCost \in Nat /\ MaxLedger \in Nat /\ MaxDisturbances \in Nat

VARIABLES
    rows,       \* sniper_positions, by master
    realized,   \* sniper_daily.realized_ton_nano of today
    scans,      \* the scan passes in progress
    ticks,      \* the monitor ticks in progress
    calm,       \* the router answers, and no confirmed flip on a shallow loss holds exits
    \* History, not in the code:
    fills,      \* what the recorded fills of the current position cost
    sold,       \* masters a sell of whose current position was broadcast
    resold,     \* masters whose position was sold again after that
    parked,     \* masters handed over while no pass or tick was looking
    disturbed   \* what has happened that a timer-driven loop may not expect

vars == <<rows, realized, scans, ticks, calm, fills, sold, resold, parked, disturbed>>

Disturbances ==
    {"scans overlap", "ticks overlap", "fill in a tick", "handoff in a tick", "answer lost", "crash"}

NoRow == [status |-> "none", spent |-> 0, handoff |-> FALSE, due |-> FALSE]
IdleScan == [pc |-> "idle", held |-> {}, off |-> {}, coin |-> {}]
IdleTick == [pc |-> "idle", queue |-> {}, at |-> {}]

AtMost(n, top) == IF n > top THEN top ELSE n
Within(n) == IF n > MaxLedger THEN MaxLedger ELSE IF n < -MaxLedger THEN -MaxLedger ELSE n

Disturb(kind, happens) ==
    /\ disturbed' = IF happens THEN disturbed \cup kind ELSE disturbed
    /\ Cardinality(disturbed') <= MaxDisturbances

ListOpen == {m \in Masters : rows[m].status = "open"}
HandoffMasters == {m \in Masters : rows[m].handoff}
InTick(m) == \E k \in Monitors : \E p \in ticks[k].queue \cup ticks[k].at : p.master = m

Init ==
    /\ rows = [m \in Masters |-> NoRow]
    /\ realized = 0
    /\ scans = [s \in Scans |-> IdleScan]
    /\ ticks = [k \in Monitors |-> IdleTick]
    /\ calm = TRUE
    /\ fills = [m \in Masters |-> 0]
    /\ sold = {} /\ resold = {}
    /\ parked = {}
    /\ disturbed = {}

(* mergeFill: what a position cost, after another fill. *)
Merged(prior, fill) == AtMost(prior + fill, MaxCost)

(* sniperPositionStore.upsert of an open row: entry_at and close_reason     *)
(* stay as they are.                                                        *)
Upserted(m, spent) == [rows EXCEPT ![m].status = "open", ![m].spent = spent]

-----------------------------------------------------------------------------
(* A scan pass. *)

(* Mutant of ScanStart: the breaker is read and only logged. *)
ScanStart_NoBreaker(s) ==
    /\ scans[s].pc = "idle"
    /\ Cardinality(ListOpen) < MaxOpen
    /\ scans' = [scans EXCEPT ![s] =
           [IdleScan EXCEPT !.pc = "reading", !.held = ListOpen]]
    /\ Disturb({"scans overlap"}, \E r \in Scans : scans[r].pc # "idle")
    /\ UNCHANGED <<rows, realized, ticks, calm, fills, sold, resold, parked>>

(* scanTick after fetchNewLaunches: the open rows, the spending and the     *)
(* loss breaker are read together; a pass that may not buy ends here.       *)
ScanStart(s) ==
    /\ scans[s].pc = "idle"
    /\ Cardinality(ListOpen) < MaxOpen
    /\ realized > -LossLimit
    /\ scans' = [scans EXCEPT ![s] =
           [IdleScan EXCEPT !.pc = "reading", !.held = ListOpen]]
    /\ Disturb({"scans overlap"}, \E r \in Scans : scans[r].pc # "idle")
    /\ UNCHANGED <<rows, realized, ticks, calm, fills, sold, resold, parked>>

(* Mutant of ScanReadHandoffs: the guard looks at open rows only. *)
ScanReadHandoffs_OpenOnly(s) ==
    /\ scans[s].pc = "reading"
    /\ scans' = [scans EXCEPT ![s].pc = "choosing", ![s].off = HandoffMasters \cap ListOpen]
    /\ UNCHANGED <<rows, realized, ticks, calm, fills, sold, resold, parked, disturbed>>

(* scanTick after getTonUsd: the handed-off masters are read. *)
ScanReadHandoffs(s) ==
    /\ scans[s].pc = "reading"
    /\ scans' = [scans EXCEPT ![s].pc = "choosing", ![s].off = HandoffMasters]
    /\ UNCHANGED <<rows, realized, ticks, calm, fills, sold, resold, parked, disturbed>>

(* Mutant of ScanPick: the pass does not claim what it is about to buy. *)
ScanPick_Unclaimed(s, m) ==
    LET p == scans[s]
    IN  /\ p.pc = "choosing"
        /\ Cardinality(p.held) < MaxOpen
        /\ m \notin p.held \cup p.off
        /\ scans' = [scans EXCEPT ![s].pc = "buying", ![s].coin = {m}]
        /\ UNCHANGED <<rows, realized, ticks, calm, fills, sold, resold, parked, disturbed>>

(* A launch of the feed that clears the gates and is neither held nor       *)
(* handed off: the pass claims it before it buys.  The feed may name a      *)
(* token twice; scoring and sizing (wallet, gas reserve, the day's          *)
(* allowance, viability, depth) only refuse, which is ScanEnd.              *)
ScanPick(s, m) ==
    LET p == scans[s]
    IN  /\ p.pc = "choosing"
        /\ Cardinality(p.held) < MaxOpen
        /\ m \notin p.held \cup p.off
        /\ scans' = [scans EXCEPT ![s].pc = "buying", ![s].coin = {m},
                                  ![s].held = @ \cup {m}]
        /\ UNCHANGED <<rows, realized, ticks, calm, fills, sold, resold, parked, disturbed>>

(* buyToken: quote, probe and payload succeed, the message is broadcast.    *)
BuySend(s) ==
    /\ scans[s].pc = "buying"
    /\ scans' = [scans EXCEPT ![s].pc = "sent"]
    /\ UNCHANGED <<rows, realized, ticks, calm, fills, sold, resold, parked, disturbed>>

(* buyToken throws, before the broadcast or after it: the claim is dropped. *)
BuyFails(s) ==
    /\ scans[s].pc \in {"buying", "sent"}
    /\ scans' = [scans EXCEPT ![s].pc = "choosing", ![s].held = @ \ scans[s].coin, ![s].coin = {}]
    /\ Disturb({"answer lost"}, scans[s].pc = "sent")
    /\ UNCHANGED <<rows, realized, ticks, calm, fills, sold, resold, parked>>

(* Mutant of BuyRecord: a second fill overwrites the first one's cost. *)
BuyRecord_Overwrites(s, m) ==
    LET open == rows[m].status = "open"
    IN  /\ scans[s].pc = "sent" /\ scans[s].coin = {m}
        /\ rows' = Upserted(m, Merged(0, PerTrade))
        /\ fills' = [fills EXCEPT ![m] = Merged(IF open THEN @ ELSE 0, PerTrade)]
        /\ sold' = IF open THEN sold ELSE sold \ {m}
        /\ scans' = [scans EXCEPT ![s].pc = "choosing", ![s].coin = {}]
        /\ Disturb({"fill in a tick"}, InTick(m))
        /\ UNCHANGED <<realized, ticks, calm, resold, parked>>

(* buyToken after the send: mergeFill onto an open row, else a new basis;   *)
(* the upsert; addSpent.                                                    *)
BuyRecord(s, m) ==
    LET open == rows[m].status = "open"
        basis(prior) == Merged(IF open THEN prior ELSE 0, PerTrade)
    IN  /\ scans[s].pc = "sent" /\ scans[s].coin = {m}
        /\ rows' = Upserted(m, basis(rows[m].spent))
        /\ fills' = [fills EXCEPT ![m] = basis(@)]
        /\ sold' = IF open THEN sold ELSE sold \ {m}
        /\ scans' = [scans EXCEPT ![s].pc = "choosing", ![s].coin = {}]
        /\ Disturb({"fill in a tick"}, InTick(m))
        /\ UNCHANGED <<realized, ticks, calm, resold, parked>>

(* The feed is exhausted, or the wallet too small for another lot.          *)
ScanEnd(s) ==
    /\ scans[s].pc \in {"reading", "choosing"}
    /\ scans' = [scans EXCEPT ![s] = IdleScan]
    /\ UNCHANGED <<rows, realized, ticks, calm, fills, sold, resold, parked, disturbed>>

-----------------------------------------------------------------------------
(* A monitor tick: it carries a snapshot of every open row, and the row of  *)
(* the position it works on is the one in the snapshot.                     *)

Snapshot == [master : Masters, spent : 0..MaxCost]

\* The position p is done with, or is being sold; `rest` is still to look at.
Left(k, p) ==
    LET rest == ticks[k].queue \ {p}
    IN  IF rest = {} THEN IdleTick ELSE [pc |-> "pricing", queue |-> rest, at |-> {}]

TickStart(k) ==
    /\ ticks[k].pc = "idle"
    /\ ListOpen # {}
    /\ ticks' = [ticks EXCEPT ![k] =
           [pc |-> "pricing", at |-> {},
            queue |-> {[master |-> m, spent |-> rows[m].spent] : m \in ListOpen}]]
    /\ Disturb({"ticks overlap"}, \E j \in Monitors : ticks[j].pc # "idle")
    /\ UNCHANGED <<rows, realized, scans, calm, fills, sold, resold, parked>>

(* No usable quote: the position is left for the next tick. *)
Skip(k, p) ==
    /\ ticks[k].pc = "pricing" /\ p \in ticks[k].queue
    /\ ~calm
    /\ ticks' = [ticks EXCEPT ![k] = Left(k, p)]
    /\ UNCHANGED <<rows, realized, scans, calm, fills, sold, resold, parked, disturbed>>

Repriced(p) == Upserted(p.master, p.spent)

(* Mutant of Hold: the deadline does not count. *)
Hold_PastDeadline(k, p) ==
    /\ ticks[k].pc = "pricing" /\ p \in ticks[k].queue
    /\ rows' = Repriced(p)
    /\ ticks' = [ticks EXCEPT ![k] = Left(k, p)]
    /\ UNCHANGED <<realized, scans, calm, fills, sold, resold, parked, disturbed>>

(* monitorTick after its quotes, and decideExit holds: the reprice upsert   *)
(* writes the snapshot's status and cost back.                              *)
Hold(k, p) ==
    /\ ticks[k].pc = "pricing" /\ p \in ticks[k].queue
    /\ calm => ~rows[p.master].due
    /\ rows' = Repriced(p)
    /\ ticks' = [ticks EXCEPT ![k] = Left(k, p)]
    /\ UNCHANGED <<realized, scans, calm, fills, sold, resold, parked, disturbed>>

(* ... or decides to close: sellToken begins with the row just written.     *)
Close(k, p) ==
    /\ ticks[k].pc = "pricing" /\ p \in ticks[k].queue
    /\ rows' = Repriced(p)
    /\ ticks' = [ticks EXCEPT ![k] =
           [pc |-> "selling", queue |-> ticks[k].queue \ {p}, at |-> {p}]]
    /\ UNCHANGED <<realized, scans, calm, fills, sold, resold, parked, disturbed>>

(* sellToken: quote and payload succeed, the message is broadcast. *)
SellSend(k, p) ==
    /\ ticks[k].pc = "selling" /\ ticks[k].at = {p}
    /\ ticks' = [ticks EXCEPT ![k].pc = "sent"]
    /\ sold' = sold \cup {p.master}
    /\ resold' = resold \cup (sold \cap {p.master})
    /\ UNCHANGED <<rows, realized, scans, calm, fills, parked, disturbed>>

(* sellToken throws, before the broadcast or after it. *)
SellFails(k, p) ==
    /\ ticks[k].pc \in {"selling", "sent"} /\ ticks[k].at = {p}
    /\ ~calm
    /\ ticks' = [ticks EXCEPT ![k] = Left(k, p)]
    /\ Disturb({"answer lost"}, ticks[k].pc = "sent")
    /\ UNCHANGED <<rows, realized, scans, calm, fills, sold, resold, parked>>

(* Mutant of SellRecord: the row is left open. *)
SellRecord_LeavesOpen(k, p) ==
    /\ ticks[k].pc = "sent" /\ ticks[k].at = {p}
    /\ \E out \in SellQuotes :
           realized' = Within(realized + out - p.spent - Gas)
    /\ ticks' = [ticks EXCEPT ![k] = Left(k, p)]
    /\ UNCHANGED <<rows, scans, calm, fills, sold, resold, parked, disturbed>>

(* sellToken after the send: addRealized, net of gas, and the closing       *)
(* upsert, whose close_reason replaces whatever stood there.  Nothing reads *)
(* what a closed row cost.                                                  *)
SellRecord(k, p) ==
    /\ ticks[k].pc = "sent" /\ ticks[k].at = {p}
    /\ \E out \in SellQuotes :
           realized' = Within(realized + out - p.spent - Gas)
    /\ rows' = [rows EXCEPT ![p.master].status = "closed", ![p.master].spent = 0,
                            ![p.master].handoff = FALSE]
    /\ fills' = [fills EXCEPT ![p.master] = 0]
    /\ ticks' = [ticks EXCEPT ![k] = Left(k, p)]
    /\ UNCHANGED <<scans, calm, sold, resold, parked, disturbed>>

-----------------------------------------------------------------------------
(* Around the loops. *)

(* The operator closes the row by hand, naming the handoff as the reason:   *)
(* an open position taken over, or a token declared off-limits.             *)
Handoff(m) ==
    /\ rows[m].status # "none"
    /\ rows' = [rows EXCEPT ![m].status = "closed", ![m].spent = 0, ![m].handoff = TRUE]
    /\ parked' = parked \cup {n \in {m} :
           ~InTick(n) /\ \A s \in Scans : scans[s].pc \in {"idle", "reading"}}
    /\ Disturb({"handoff in a tick"}, InTick(m))
    /\ UNCHANGED <<realized, scans, ticks, calm, fills, sold, resold>>

(* SNIPER_MAX_HOLD_MS passes: entry_at, which no later fill moves, is now   *)
(* further back than that for every row there is.                           *)
HoldTimePasses ==
    /\ \E m \in ListOpen : ~rows[m].due
    /\ rows' = [m \in Masters |-> [rows[m] EXCEPT !.due = rows[m].status # "none"]]
    /\ UNCHANGED <<realized, scans, ticks, calm, fills, sold, resold, parked, disturbed>>

NewDay ==
    /\ realized' = 0
    /\ UNCHANGED <<rows, scans, ticks, calm, fills, sold, resold, parked, disturbed>>

MarketMoves ==
    /\ calm' = ~calm
    /\ UNCHANGED <<rows, realized, scans, ticks, fills, sold, resold, parked, disturbed>>

(* The process dies and boots again: the tables stay. *)
Crash ==
    /\ "crash" \notin disturbed    \* bound: the process dies once
    /\ scans' = [s \in Scans |-> IdleScan]
    /\ ticks' = [k \in Monitors |-> IdleTick]
    /\ Disturb({"crash"}, TRUE)
    /\ UNCHANGED <<rows, realized, calm, fills, sold, resold, parked>>

ScanStep(s) ==
    \/ ScanStart(s) \/ ScanReadHandoffs(s) \/ BuySend(s) \/ BuyFails(s) \/ ScanEnd(s)
    \/ \E m \in Masters : ScanPick(s, m) \/ BuyRecord(s, m)

TickStep(k) ==
    \/ TickStart(k)
    \/ \E p \in Snapshot :
           \/ Skip(k, p) \/ Hold(k, p) \/ Close(k, p)
           \/ SellSend(k, p) \/ SellFails(k, p) \/ SellRecord(k, p)

Next ==
    \/ \E s \in Scans : ScanStep(s)
    \/ \E k \in Monitors : TickStep(k)
    \/ \E m \in Masters : Handoff(m)
    \/ HoldTimePasses \/ NewDay \/ MarketMoves \/ Crash

(* The monitor's timer keeps firing, its HTTP clients time out, time passes. *)
Fairness == WF_vars(HoldTimePasses) /\ \A k \in Monitors : WF_vars(TickStep(k))

Spec == Init /\ [][Next]_vars
FairSpec == Spec /\ Fairness

-----------------------------------------------------------------------------
(* Properties *)

(* The variables have the shapes of the tables and of the passes' locals. *)
TypeOK ==
    /\ rows \in [Masters -> [status : {"none", "open", "closed"}, spent : 0..MaxCost,
                             handoff : BOOLEAN, due : BOOLEAN]]
    /\ realized \in -MaxLedger..MaxLedger
    /\ scans \in [Scans -> [pc : {"idle", "reading", "choosing", "buying", "sent"},
                            held : SUBSET Masters, off : SUBSET Masters, coin : SUBSET Masters]]
    /\ ticks \in [Monitors -> [pc : {"idle", "pricing", "selling", "sent"},
                               queue : SUBSET Snapshot, at : SUBSET Snapshot]]
    /\ calm \in BOOLEAN
    /\ fills \in [Masters -> 0..MaxCost] /\ sold \subseteq Masters /\ resold \subseteq Masters
    /\ parked \subseteq Masters /\ disturbed \subseteq Disturbances

Undisturbed(by) == disturbed \cap by = {}

(* SNIPER_MAX_OPEN_POSITIONS bounds the open rows although a pass judges it *)
(* by a snapshot, while the monitor closes and the operator parks: as long  *)
(* as no pass or tick outlives its timer and no row is parked under a tick. *)
ExposureBounded ==
    Undisturbed({"scans overlap", "ticks overlap", "handoff in a tick"}) =>
        Cardinality(ListOpen) <= MaxOpen

(* The daily breaker is read once per pass, and losses come in later: a day *)
(* never loses more than the limit and what was at stake when it tripped.   *)
DailyLossBounded ==
    Undisturbed({"scans overlap", "ticks overlap", "handoff in a tick"}) =>
        realized > -(LossLimit + MaxOpen * (PerTrade + Gas))

(* The row knows what its position cost, though two passes may buy the same *)
(* token at once: only a tick that carries an older copy of the row may     *)
(* lose a fill.                                                             *)
CostBasisKept ==
    Undisturbed({"ticks overlap", "fill in a tick"}) =>
        \A m \in ListOpen : rows[m].spent = fills[m]

(* A position is sold once, unless two ticks work on it, or the engine does *)
(* not learn that its sell went out.                                        *)
NoDoubleExit ==
    Undisturbed({"ticks overlap", "answer lost", "crash"}) => resold = {}

(* A token the operator parked between passes stays parked: no overlapping  *)
(* pass or tick, no restart and no new day trades it again.                 *)
ParkedStaysParked ==
    \A m \in parked :
        /\ rows[m].status = "closed"
        /\ \A s \in Scans : scans[s].coin # {m}
        /\ \A k \in Monitors : \A p \in ticks[k].at : p.master # m

(* The time stop: once the router answers and no shallow dip holds it, no   *)
(* position stays open for ever, through crashes, handoffs and new fills.   *)
PositionsEnd ==
    <>[]calm => \A m \in Masters : []<>(rows[m].status # "open")

(* What comments say, and the code does not do: *)

(* engine.ts:680-684: a row set to CLOSED by an operator handoff "must not  *)
(* be re-opened by the monitor's reprice upsert".                           *)
RepriceNeverReopens ==
    [][ \A m \in Masters : rows[m].status = "closed" /\ rows'[m].status = "open" =>
            \E s \in Scans : scans[s].pc = "sent" /\ scans[s].coin = {m} ]_vars
=============================================================================
