-------------------------- MODULE PositionMonitor --------------------------
(***************************************************************************)
(* The exits of swing positions, and their reconciliation at boot:         *)
(*   hotpath/position-monitor.ts    the tick, its overlap guard, the audit *)
(*                                  cache and baseline, pool subscriptions *)
(*   recovery/position-recovery.ts  reconcilePositionsAtBoot               *)
(*   storage/store.ts               positionsStore, dailyPnlStore          *)
(*   market/pool-monitor.ts         which pools are polled                 *)
(*   dex/router.ts                  getSwapQuote and its dead-pool cache    *)
(*   exit/rug-detector.ts           degraded audits, drained exit values   *)
(*   index.ts                       the order of the boot                  *)
(* A position holds one lot of its jetton in the wallet of its tier.  What *)
(* executeForTier does is abstracted to what SwapSettlement shows of it: an *)
(* ok means that the lot has left the wallet, and a failure means nothing. *)
(* Prices are abstracted to what they make the exit policy say.            *)
(***************************************************************************)
EXTENDS Integers, FiniteSets

CONSTANTS
    Positions,       \* rows of the positions table
    Jettons,
    Master,          \* the jetton of each position
    Tier,            \* the tier of each position
    Ticks,           \* firings of the interval timer that may overlap
    Confirm,         \* trendExitConfirmTicks
    Deep,            \* positions worth RUG_LIQUIDITY_MIN_BASE_TON or more at their best
    UpsertCompiles,  \* the statement of positionsStore.upsert matches its table
    HdLowWallet,     \* what loadKeyPairForTier("low") holds: "undeployed" or "empty"
    MaxTroubles      \* bound: kinds of trouble in one behaviour

ASSUME ShapesAssumption == Master \in [Positions -> Jettons] /\ Tier \in [Positions -> {"low", "mid", "high"}] /\ Deep \subseteq Positions
ASSUME SizesAssumption == Confirm \in Nat \ {0} /\ MaxTroubles \in Nat
ASSUME ModesAssumption == UpsertCompiles \in BOOLEAN /\ HdLowWallet \in {"undeployed", "empty"}
ASSUME ActorsAssumption == Positions # {} /\ IsFiniteSet(Positions) /\ Ticks # {}

VARIABLES
    row,       \* the status of each row, "none" before it is written
    held,      \* lots of a jetton in the wallet of a tier
    pending,   \* sells that were given up and may still land
    phase,     \* of the process: down, recovering, running
    toRecover, \* open rows that reconcilePositionsAtBoot has still to look at
    coord,     \* isCoordinatorStarted()
    killed,    \* isKillSwitchActive()
    inFlight,  \* monitorTickInFlight
    tick,      \* the firings of the timer
    trend,     \* consecutive bearish observations in trendTracker
    watched,   \* positions in positionPool
    refs,      \* poolSubs: holders of each pool
    polled,    \* pools that the pool monitor polls
    cache,     \* auditCache
    baseline,  \* auditBaselines
    best,      \* exitValueTracker: positions it has seen at their best value
    dead,      \* deadPoolCache: pools that are not asked for a quote
    market,    \* what a fresh quote would show
    audit,     \* what fullAudit answers, from the chain or its own cache
    trouble,   \* what goes wrong around the monitor
    \* History, not in the code:
    booked,    \* times the PnL of a position was added to the daily PnL
    leaked,    \* positions that an exit closed in the table and then could not book
    harmed     \* jettons that got worse while the monitor ran

memory == <<inFlight, tick, trend, watched, refs, polled, cache, baseline, best, dead>>
outside == <<market, audit, harmed>>
vars == <<row, held, pending, phase, toRecover, coord, killed, memory, outside, trouble, booked, leaked>>

(* Up; beyond the stop and bearish; and so low that more than the share    *)
(* RUG_LIQUIDITY_DROP_PCT of the best exit value is gone.                   *)
Market == {"up", "crash", "drained"}
Down(m) == market[m] # "up"

Troubles == {"rpc", "audit", "feeds", "store", "swap", "dry", "boot", "crash", "kill"}
Suffers(k) == k \in trouble
calm == trouble = {}

Purses == {<<Tier[p], Master[p]>> : p \in Positions}
Purse(p) == <<Tier[p], Master[p]>>
Open(p) == row[p] = "OPEN"
OpenRows == {p \in Positions : Open(p)}
InPurse(u) == {p \in OpenRows : Purse(p) = u}

Unmeasured == [verdict |-> "none", fresh |-> FALSE, crash |-> FALSE]
Idle == [pc |-> "idle", todo |-> {}, cur |-> CHOOSE p \in Positions : TRUE, end |-> "none"]

Init ==
    /\ row \in [Positions -> {"none", "OPEN"}]
    /\ held = [u \in Purses |-> Cardinality(InPurse(u))]
    /\ pending = [u \in Purses |-> 0]
    /\ phase = "down" /\ toRecover = {}
    /\ coord = FALSE /\ killed = FALSE
    /\ inFlight = FALSE /\ tick = [t \in Ticks |-> Idle]
    /\ trend = [p \in Positions |-> 0]
    /\ watched = {} /\ refs = [m \in Jettons |-> 0] /\ polled = {}
    /\ cache = [m \in Jettons |-> Unmeasured] /\ baseline = [m \in Jettons |-> "none"]
    /\ best = {} /\ dead = [m \in Jettons |-> FALSE]
    /\ market \in [Jettons -> {"up", "drained"}]
    /\ audit \in [Jettons -> {"safe", "rugged"}]
    /\ trouble \in {k \in SUBSET Troubles : Cardinality(k) <= MaxTroubles}
    /\ booked = [p \in Positions |-> 0]
    /\ leaked = {} /\ harmed = {}

-----------------------------------------------------------------------------
(* storage/store.ts *)

StoreThrows == Suffers("store")

(* positionsStore.upsert, with the status of the row it is given. *)
Upsert(p, status) == UpsertCompiles /\ row' = [row EXCEPT ![p] = status]
UpsertThrows == (~UpsertCompiles \/ StoreThrows) /\ UNCHANGED row

(* record_position after a delivered buy; a buy that is not recorded is the *)
(* subject of TradeExecution.                                               *)
RecordPosition(p) ==
    /\ phase = "running" /\ coord /\ ~killed
    /\ row[p] = "none"
    /\ Upsert(p, "OPEN")
    /\ held' = [held EXCEPT ![Purse(p)] = @ + 1]
    /\ UNCHANGED <<pending, phase, toRecover, coord, killed, memory, outside, trouble, booked, leaked>>

-----------------------------------------------------------------------------
(* index.ts and position-recovery.ts *)

Boot ==
    /\ phase = "down"
    /\ \E ok \in {TRUE} \cup (IF Suffers("boot") THEN {FALSE} ELSE {}) :
           /\ coord' = ok
           /\ toRecover' = IF ok THEN OpenRows ELSE {}
    /\ phase' = "recovering"
    /\ UNCHANGED <<row, held, pending, killed, memory, outside, trouble, booked, leaked>>

Unread == -1

(* The balance recovery reads, or that it throws.  For the LOW tier it opens *)
(* the wallet of loadKeyPairForTier, which is not the one that trades: its   *)
(* jetton wallet is not deployed, so that the getter throws, or it is empty. *)
Readings(p) ==
    (IF Suffers("rpc") THEN {Unread} ELSE {})
        \cup (IF Tier[p] # "low" THEN {held[Purse(p)]}
              ELSE IF HdLowWallet = "empty" THEN {0} ELSE {Unread})

(* Mutant of Closable: what could not be read counts as nothing held. *)
Closable_OnThrow(reading) == reading \in {0, Unread}
Closable(reading) == reading = 0

Recover(p) ==
    /\ phase = "recovering" /\ p \in toRecover
    /\ \E reading \in Readings(p) :
           IF Closable(reading) THEN Upsert(p, "CLOSED") \/ UpsertThrows ELSE UNCHANGED row
    /\ toRecover' = toRecover \ {p}
    /\ UNCHANGED <<held, pending, phase, coord, killed, memory, outside, trouble, booked, leaked>>

StartMonitor ==
    /\ phase = "recovering" /\ toRecover = {}
    /\ phase' = "running"
    /\ UNCHANGED <<row, held, pending, toRecover, coord, killed, memory, outside, trouble, booked, leaked>>

(* The process dies; a sell it was waiting for may land. *)
Crash ==
    /\ phase # "down" /\ Suffers("crash")
    /\ phase' = "down" /\ toRecover' = {} /\ coord' = FALSE
    /\ inFlight' = FALSE /\ tick' = [t \in Ticks |-> Idle]
    /\ trend' = [p \in Positions |-> 0]
    /\ watched' = {} /\ refs' = [m \in Jettons |-> 0] /\ polled' = {}
    /\ cache' = [m \in Jettons |-> Unmeasured] /\ baseline' = [m \in Jettons |-> "none"]
    /\ best' = {} /\ dead' = [m \in Jettons |-> FALSE]
    /\ pending' \in {pending} \cup
           {[pending EXCEPT ![Purse(tick[t].cur)] = @ + 1] : t \in {s \in Ticks : tick[s].pc = "sell"}}
    /\ \A u \in Purses : pending'[u] <= held[u]
    /\ UNCHANGED <<row, held, killed, outside, trouble, booked, leaked>>

-----------------------------------------------------------------------------
(* The tick.  Awaits between which nothing changes that matters later are   *)
(* not told apart.                                                          *)

(* continue: on to the next position of the snapshot. *)
Skip(t) == tick' = [tick EXCEPT ![t] = [Idle EXCEPT !.pc = "next", !.todo = tick[t].todo]]
Start(t) == tick' = [tick EXCEPT ![t].pc = "next", ![t].todo = OpenRows]
Stopped == (coord /\ killed) \/ (coord /\ Suffers("dry"))
Slot == CHOOSE t \in Ticks : tick[t].pc = "idle" \/ \A s \in Ticks : tick[s].pc # "idle"
Unfired == UNCHANGED <<row, held, pending, phase, toRecover, coord, killed, trend, watched, refs, polled,
                       cache, baseline, best, dead, outside, trouble, booked, leaked>>

(* Mutant of Fire: no overlap guard. *)
Fire_Overlapping(t) ==
    /\ phase = "running" /\ tick[t].pc = "idle" /\ t = Slot
    /\ ~Stopped
    /\ inFlight' = TRUE /\ Start(t)
    /\ Unfired

(* A firing while another is in flight, under the kill switch or with a dry *)
(* LOW wallet, which decides for every tier, returns.  Else listOpen().     *)
Fire(t) ==
    /\ phase = "running" /\ tick[t].pc = "idle" /\ t = Slot
    /\ ~inFlight /\ ~Stopped
    /\ inFlight' = TRUE /\ Start(t)
    /\ Unfired

(* finally *)
EndTick(t) ==
    /\ tick[t].pc = "next" /\ tick[t].todo = {}
    /\ tick' = [tick EXCEPT ![t] = Idle]
    /\ inFlight' = FALSE
    /\ Unfired

(* watchPositionPool *)
Watch(m) == refs' = [refs EXCEPT ![m] = @ + 1] /\ polled' = polled \cup {m}

(* resolvePool; the pool of a position is watched once. *)
Resolved(p) ==
    \/ p \notin watched /\ Watch(Master[p]) /\ watched' = watched \cup {p}
    \/ (p \in watched \/ Suffers("rpc")) /\ UNCHANGED <<watched, refs, polled>>

(* trendTracker.observe, with what is to be had on the market now. *)
Observed(p) ==
    IF ~Down(Master[p]) THEN 0
    ELSE IF trend[p] < Confirm THEN trend[p] + 1 ELSE Confirm

(* confirmedByFeeds: a confirmed flip counts when the feeds agree. *)
Flips(p) == IF Observed(p) < Confirm THEN {FALSE} ELSE IF Suffers("feeds") THEN BOOLEAN ELSE {TRUE}

Usable(c, crash) == c.verdict # "none" /\ c.fresh /\ ~(crash /\ ~c.crash)

(* Mutant of Gap: what could not be measured counts as unsafe. *)
Gap_Unsafe == "rugged"
Gap == "none"

(* resolveAuditVerdict: the verdict, and what becomes of the cache. *)
Verdicts(m) ==
    LET crash == Down(m)
    IN  IF Usable(cache[m], crash) THEN {<<cache[m].verdict, cache[m]>>}
        ELSE {<<audit[m], [verdict |-> audit[m], fresh |-> TRUE, crash |-> crash]>>}
                 \cup (IF Suffers("audit") THEN {<<Gap, cache[m]>>, <<"none", Unmeasured>>} ELSE {})

(* detectAuditDegradation: never without a measurement of now. *)
Degraded(base, now) == base = "safe" /\ now = "rugged"

(* evaluateExitPolicy: a rug, then the trend, then the stop. *)
Ending(rug, flip, crash) ==
    IF rug THEN "RUG_EXIT" ELSE IF flip THEN "CLOSED" ELSE IF crash THEN "STOPPED" ELSE "none"

(* detectLiquidityDrain: against the best value this process has quoted,    *)
(* and never without a quote of now.                                        *)
Drained(p, quoted) == p \in Deep /\ p \in best /\ quoted /\ market[Master[p]] = "drained"
(* exitValueTracker.observe *)
Valued(p, quoted) == IF quoted /\ ~Down(Master[p]) THEN best \cup {p} ELSE best

(* The verdict, the baseline, the exit value and the decision; the journal  *)
(* comes first.                                                             *)
Decide(t, p, quoted) ==
    LET m == Master[p]
    IN  \E v \in Verdicts(m), flip \in Flips(p) :
            LET base == IF baseline[m] = "none" THEN v[1] ELSE baseline[m]
                rug == Drained(p, quoted) \/ Degraded(base, v[1])
                end == Ending(rug, flip, Down(m))
            IN  /\ cache' = [cache EXCEPT ![m] = v[2]]
                /\ baseline' = [baseline EXCEPT ![m] = base]
                /\ best' = Valued(p, quoted)
                /\ \/ /\ end # "none"
                      /\ tick' = [tick EXCEPT ![t] = [pc |-> "guard", todo |-> @.todo \ {p}, cur |-> p, end |-> end]]
                   \/ (end = "none" \/ StoreThrows) /\ tick' = [tick EXCEPT ![t].todo = @ \ {p}]

(* getSwapQuote of a sale: whether it answers, and whether the pool counts   *)
(* as dead afterwards.  What fails marks the pool, what throws early does    *)
(* not; a dead pool is not asked, whichever position the quote is for.       *)
Quotes(m) ==
    IF dead[m] THEN {<<FALSE, TRUE>>}
    ELSE {<<TRUE, FALSE>>} \cup (IF Suffers("rpc") THEN {<<FALSE, TRUE>>, <<FALSE, FALSE>>} ELSE {})

(* One position: its pool, the probe quote or the USD fallback, the trend;  *)
(* the row is written back from the snapshot; then the decision.  What can   *)
(* be neither quoted nor priced is journalled and left for the next tick.    *)
Look(t, p) ==
    /\ tick[t].pc = "next" /\ p \in tick[t].todo
    /\ Resolved(p)
    /\ \E q \in Quotes(Master[p]) :
           /\ dead' = [dead EXCEPT ![Master[p]] = q[2]]
           /\ \/ /\ Upsert(p, "OPEN")
                 /\ trend' = [trend EXCEPT ![p] = Observed(p)]
                 /\ Decide(t, p, q[1])
              \/ /\ UpsertThrows
                 /\ trend' = [trend EXCEPT ![p] = Observed(p)]
                 /\ tick' = [tick EXCEPT ![t].todo = @ \ {p}]
                 /\ UNCHANGED <<cache, baseline, best>>
              \/ /\ ~q[1]
                 /\ tick' = [tick EXCEPT ![t].todo = @ \ {p}]
                 /\ UNCHANGED <<row, trend, cache, baseline, best>>
    /\ UNCHANGED <<held, pending, phase, toRecover, coord, killed, inFlight, outside, trouble, booked, leaked>>

(* Mutant of Unwatched: the subscription outlives its position. *)
Unwatched_Not(p) == UNCHANGED <<refs, polled>>
(* unwatchPositionPool *)
Unwatched(p) ==
    LET m == Master[p]
    IN  IF p \in watched
        THEN /\ refs' = [refs EXCEPT ![m] = @ - 1]
             /\ polled' = IF refs[m] <= 1 THEN polled \ {m} ELSE polled
        ELSE UNCHANGED <<refs, polled>>

(* forgetPosition: what is kept by jetton goes too, also for its siblings. *)
Forgotten(p) ==
    /\ trend' = [trend EXCEPT ![p] = 0]
    /\ cache' = [cache EXCEPT ![Master[p]] = Unmeasured]
    /\ baseline' = [baseline EXCEPT ![Master[p]] = "none"]
    /\ best' = best \ {p}
    /\ watched' = watched \ {p} /\ Unwatched(p)

Remembered == UNCHANGED <<trend, watched, refs, polled, cache, baseline, best>>

(* The phantom guard: a wallet without the jetton has nothing to sell.  No  *)
(* coordinator, no exit.                                                    *)
Guard(t) ==
    LET p == tick[t].cur
    IN  /\ tick[t].pc = "guard"
        /\ \E balance \in {held[Purse(p)]} \cup (IF Suffers("rpc") THEN {Unread} ELSE {}) :
               \/ coord /\ Closable(balance) /\ Upsert(p, "STOPPED") /\ Forgotten(p) /\ Skip(t)
               \/ coord /\ Closable(balance) /\ UpsertThrows /\ Remembered /\ Skip(t)
               \/ /\ coord /\ ~Closable(balance)
                  /\ tick' = [tick EXCEPT ![t].pc = "sell"]
                  /\ UNCHANGED row /\ Remembered
               \/ ~coord /\ Skip(t) /\ UNCHANGED row /\ Remembered
        /\ UNCHANGED <<held, pending, phase, toRecover, coord, killed, inFlight, dead, outside, trouble, booked, leaked>>

(* executeForTier with isExit: refused, for want of a quote to set the least *)
(* output by among others; executed; executed unnoticed; given up, to land   *)
(* later.  With nothing left to sell it is executed too.                     *)
Sell(t) ==
    LET u == Purse(tick[t].cur)
        m == Master[tick[t].cur]
        Refused == Skip(t) /\ UNCHANGED <<held, pending>>
        Executed ==
            \/ Suffers("swap") /\ Refused
            \/ /\ tick' = [tick EXCEPT ![t].pc = "book"]
               /\ held' = [held EXCEPT ![u] = IF @ > 0 THEN @ - 1 ELSE 0]
               /\ UNCHANGED pending
            \/ /\ (Suffers("swap") \/ StoreThrows) /\ held[u] > 0
               /\ held' = [held EXCEPT ![u] = @ - 1]
               /\ UNCHANGED pending /\ Skip(t)
            \/ /\ Suffers("swap") /\ pending[u] < held[u]
               /\ pending' = [pending EXCEPT ![u] = @ + 1]
               /\ UNCHANGED held /\ Skip(t)
    IN  /\ tick[t].pc = "sell"
        /\ \/ killed /\ Refused /\ UNCHANGED dead
           \/ /\ ~killed
              /\ \E q \in Quotes(m) :
                     /\ dead' = [dead EXCEPT ![m] = q[2]]
                     /\ IF q[1] THEN Executed ELSE Refused
        /\ UNCHANGED <<row, phase, toRecover, coord, killed, inFlight, trend, watched, refs, polled, cache,
                       baseline, best, outside, trouble, booked, leaked>>

(* The row is closed, the PnL of the day is written, and the position is    *)
(* forgotten; what throws in between leaves the rest undone.                *)
Book(t) ==
    LET p == tick[t].cur
    IN  /\ tick[t].pc = "book"
        /\ \/ /\ Upsert(p, tick[t].end) /\ Forgotten(p)
              /\ booked' = [booked EXCEPT ![p] = @ + 1] /\ UNCHANGED leaked
           \/ /\ Upsert(p, tick[t].end) /\ StoreThrows /\ Remembered
              /\ leaked' = leaked \cup {p} /\ UNCHANGED booked
           \/ UpsertThrows /\ Remembered /\ UNCHANGED <<booked, leaked>>
        /\ Skip(t)
        /\ UNCHANGED <<held, pending, phase, toRecover, coord, killed, inFlight, dead, outside, trouble>>

TickStep(t) ==
    \/ Fire(t) \/ EndTick(t) \/ Guard(t) \/ Sell(t) \/ Book(t)
    \/ \E p \in Positions : Look(t, p)

-----------------------------------------------------------------------------
(* The world around the monitor. *)

(* observePolledTrend: a polled price counts for every open holder. *)
PollTick(m) ==
    /\ phase = "running" /\ m \in polled
    /\ trend' = [p \in Positions |-> IF p \in watched /\ Open(p) /\ Master[p] = m
                                     THEN Observed(p) ELSE trend[p]]
    /\ UNCHANGED <<row, held, pending, phase, toRecover, coord, killed, inFlight, tick, watched, refs,
                   polled, cache, baseline, best, dead, outside, trouble, booked, leaked>>

(* AUDIT_TTL_MS passes. *)
CacheAges(m) ==
    /\ cache[m].fresh
    /\ cache' = [cache EXCEPT ![m].fresh = FALSE]
    /\ UNCHANGED <<row, held, pending, phase, toRecover, coord, killed, inFlight, tick, trend, watched, refs,
                   polled, baseline, best, dead, outside, trouble, booked, leaked>>

(* DEAD_POOL_TTL_MS passes. *)
PoolRevives(m) ==
    /\ dead[m]
    /\ dead' = [dead EXCEPT ![m] = FALSE]
    /\ UNCHANGED <<row, held, pending, phase, toRecover, coord, killed, inFlight, tick, trend, watched, refs,
                   polled, cache, baseline, best, outside, trouble, booked, leaked>>

(* For the history: jetton m got worse, and the monitor was there to see it. *)
Harms(m) == harmed' = IF phase = "running" THEN harmed \cup {m} ELSE harmed

MarketMoves(m) ==
    /\ \E v \in Market \ {market[m]} :
           /\ market' = [market EXCEPT ![m] = v]
           /\ IF v = "drained" THEN Harms(m) ELSE UNCHANGED harmed
    /\ UNCHANGED <<row, held, pending, phase, toRecover, coord, killed, memory, audit, trouble, booked, leaked>>

AuditTurns(m) ==
    /\ audit' = [audit EXCEPT ![m] = IF @ = "safe" THEN "rugged" ELSE "safe"]
    /\ IF audit[m] = "safe" THEN Harms(m) ELSE UNCHANGED harmed
    /\ UNCHANGED <<row, held, pending, phase, toRecover, coord, killed, memory, market, trouble, booked, leaked>>

(* checkLpLocked catches what the RPC throws and answers "not locked", which *)
(* fullAudit reports as data and keeps.                                      *)
AuditMisreads(m) ==
    /\ Suffers("rpc") /\ audit[m] = "safe"
    /\ audit' = [audit EXCEPT ![m] = "rugged"]
    /\ Harms(m)
    /\ UNCHANGED <<row, held, pending, phase, toRecover, coord, killed, memory, market, trouble, booked, leaked>>

(* A given-up sell lands after all, or expires. *)
LateSell(u) ==
    /\ pending[u] > 0
    /\ pending' = [pending EXCEPT ![u] = @ - 1]
    /\ \/ held[u] > 0 /\ held' = [held EXCEPT ![u] = @ - 1]
       \/ UNCHANGED held
    /\ UNCHANGED <<row, phase, toRecover, coord, killed, memory, outside, trouble, booked, leaked>>

(* Someone trips or lifts the kill switch; in calm it is lifted. *)
Toggle ==
    /\ Suffers("kill") /\ killed' = ~killed
    /\ UNCHANGED <<row, held, pending, phase, toRecover, coord, memory, outside, trouble, booked, leaked>>

Weather ==
    /\ ~calm
    /\ trouble' = {} /\ killed' = FALSE
    /\ UNCHANGED <<row, held, pending, phase, toRecover, coord, memory, outside, booked, leaked>>

Next ==
    \/ \E t \in Ticks : TickStep(t)
    \/ \E p \in Positions : RecordPosition(p) \/ Recover(p)
    \/ Boot \/ StartMonitor \/ Crash
    \/ \E m \in Jettons : PollTick(m) \/ CacheAges(m) \/ PoolRevives(m) \/ MarketMoves(m)
                          \/ AuditTurns(m) \/ AuditMisreads(m)
    \/ \E u \in Purses : LateSell(u)
    \/ Toggle \/ Weather

(* The timer fires, every call of a tick settles, a supervisor restarts the *)
(* process, and time passes.                                                *)
Fairness ==
    /\ WF_vars(\E t \in Ticks : TickStep(t))
    /\ WF_vars(Boot) /\ WF_vars(StartMonitor) /\ WF_vars(\E p \in Positions : Recover(p))
    /\ \A m \in Jettons : WF_vars(CacheAges(m)) /\ WF_vars(PoolRevives(m))

Spec == Init /\ [][Next]_vars
FairSpec == Spec /\ Fairness

-----------------------------------------------------------------------------
(* Properties *)

Ends == {"CLOSED", "STOPPED", "RUG_EXIT"}
Verdict == {"none", "safe", "rugged"}
Deciding == {"guard", "sell", "book"}
Local == [pc : {"idle", "next"} \cup Deciding, todo : SUBSET Positions, cur : Positions, end : {"none"} \cup Ends]

(* The variables have the types of the code's maps, rows and locals. *)
TypeOK ==
    /\ row \in [Positions -> {"none", "OPEN"} \cup Ends]
    /\ held \in [Purses -> Nat] /\ pending \in [Purses -> Nat]
    /\ phase \in {"down", "recovering", "running"} /\ toRecover \subseteq Positions
    /\ coord \in BOOLEAN /\ killed \in BOOLEAN /\ inFlight \in BOOLEAN
    /\ tick \in [Ticks -> Local]
    /\ trend \in [Positions -> 0..Confirm]
    /\ watched \subseteq Positions /\ refs \in [Jettons -> Int] /\ polled \subseteq Jettons
    /\ cache \in [Jettons -> [verdict : Verdict, fresh : BOOLEAN, crash : BOOLEAN]]
    /\ baseline \in [Jettons -> Verdict] /\ best \subseteq Positions /\ dead \in [Jettons -> BOOLEAN]
    /\ market \in [Jettons -> Market] /\ audit \in [Jettons -> {"safe", "rugged"}]
    /\ trouble \subseteq Troubles
    /\ booked \in [Positions -> Nat] /\ leaked \subseteq Positions /\ harmed \subseteq Jettons

(* However slow a tick is, whatever lands late and wherever the process     *)
(* dies: the result of a position enters the PnL of the day once.           *)
NoDoubleBooking == \A p \in Positions : booked[p] <= 1

(* A row is closed, by an exit, as a phantom or at boot, only when its lot  *)
(* has left the wallet: every lot still held is watched by an open row.     *)
NothingOrphaned == \A u \in Purses : held[u] <= Cardinality(InPurse(u))

(* An emergency exit follows a change for the worse while the monitor ran:  *)
(* an audit that went from safe to rugged, or an exit value that drained.   *)
(* Never an audit or a quote that failed or had no data, and never a jetton *)
(* that was like that when the process started.                             *)
RugNeedsDegradation == \A p \in Positions : row[p] = "RUG_EXIT" => Master[p] \in harmed

(* A pool is polled exactly while a watched position holds it, and what is  *)
(* watched is open: a close takes the feed from no sibling, and leaves one  *)
(* behind only when the row was closed and the booking after it threw.      *)
WatchersCounted ==
    /\ \A m \in Jettons : /\ refs[m] = Cardinality({p \in watched : Master[p] = m})
                          /\ m \in polled <=> refs[m] > 0
    /\ watched \subseteq OpenRows \cup leaked

(* "The static stop-loss stays the hard loss floor": once the surroundings  *)
(* are in order, a position whose stop is broken is closed.                 *)
StopsAreServed ==
    \A p \in Positions :
        <>[](calm /\ (phase = "running" => coord) /\ Down(Master[p]))
            => (Open(p) ~> ~Open(p))
=============================================================================
