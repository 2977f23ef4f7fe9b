----------------------------- MODULE MarketData -----------------------------
(***************************************************************************)
(* The feed of pool prices.                                                *)
(*   market/price-source.ts        the poller both sources share           *)
(*   market/stonfi-pool-source.ts  one request per watched pool            *)
(*   market/dedust-pool-source.ts  one request for all of them             *)
(*   market/pool-monitor.ts        the service and its latest states       *)
(* A reading is the number of times the pool's price has moved.  The       *)
(* back-off counter of the pollers is left out, as nothing reads it, and   *)
(* so is the archive in the database.                                      *)
(***************************************************************************)
EXTENDS Naturals, Sequences, FiniteSets, SequencesExt, OrderedSets

CONSTANTS
    StonfiPools, DedustPools,
    Listed,     \* DeDust pools that are always among the first 500 of its list
    Rounds,     \* numbers of the polls of one source that could be under way at a time
    MaxMoves,   \* bound: moves of the pools' prices
    MaxFaults   \* bound: requests that fail

ASSUME MarketAssumption == StonfiPools \cap DedustPools = {} /\ MaxMoves \in Nat /\ MaxFaults \in Nat
ASSUME RoundsAssumption == Rounds \subseteq Nat
ASSUME ListAssumption == Listed \subseteq DedustPools

Pools == StonfiPools \cup DedustPools
Sources == {"stonfi", "dedust"}
PoolsOf(d) == IF d = "stonfi" THEN StonfiPools ELSE DedustPools
Unread == 0

VARIABLES
    market,     \* what the pools are at; 1 before the first move
    isRunning,  \* PoolMonitorService
    watched,    \* pools a source watches, in the order they were added
    inFlight,   \* per source
    round,      \* polls: pools still to ask, and the answer on its way
    dead,       \* _deadPools of the STON.fi source
    states,     \* poolStates
    faults      \* faults so far

feed == <<isRunning, watched, inFlight, round, dead, states>>
feedVars == <<market, feed, faults>>

NoAnswer == [p \in {} |-> Unread]
Idle == [at |-> "idle", queue |-> << >>, got |-> NoAnswer]

InitFeed ==
    /\ market = [p \in Pools |-> 1]
    /\ isRunning = FALSE /\ watched = [d \in Sources |-> << >>]
    /\ inFlight = [d \in Sources |-> FALSE] /\ round = [d \in Sources |-> [i \in Rounds |-> Idle]]
    /\ dead = {} /\ states = [p \in Pools |-> Unread]
    /\ faults = 0

-----------------------------------------------------------------------------
(* The service *)

(* start: the archive may be unavailable, prices flow all the same. *)
Start ==
    /\ ~isRunning
    /\ isRunning' = TRUE
    /\ UNCHANGED <<market, watched, inFlight, round, dead, states, faults>>

(* subscribeToPool and the closure it returns; the poll it asks for is a    *)
(* BeginRound.                                                              *)
Subscribe(d, p) ==
    /\ p \notin ToSet(watched[d])
    /\ watched' = [watched EXCEPT ![d] = Append(@, p)]
    /\ UNCHANGED <<market, isRunning, inFlight, round, dead, states, faults>>
Unsubscribe(d, p) ==
    /\ p \in ToSet(watched[d])
    /\ watched' = [watched EXCEPT ![d] = Unlisted(@, {p})]
    /\ UNCHANGED <<market, isRunning, inFlight, round, dead, states, faults>>

-----------------------------------------------------------------------------
(* Polling *)

Advance(d, i, r) == round' = [round EXCEPT ![d][i] = r]
Fault == faults < MaxFaults /\ faults' = faults + 1

(* tick and pollNow: a round asks about the pools watched when it begins. *)
(* Mutant of Free: a poll that was asked for does not wait. *)
Free_Unguarded(d) == isRunning
Free(d) == isRunning /\ ~inFlight[d]
BeginRound(d, i) ==
    /\ Free(d)
    /\ round[d][i] = Idle /\ watched[d] # << >>
    /\ \A j \in Rounds : round[d][j] = Idle => i <= j      \* which number a round has is no matter
    /\ inFlight' = [inFlight EXCEPT ![d] = TRUE]
    /\ Advance(d, i, [Idle EXCEPT !.at = "asking", !.queue = watched[d]])
    /\ UNCHANGED <<market, isRunning, watched, dead, states, faults>>

Asking(d, i) == round[d][i].at = "asking" /\ round[d][i].queue # << >>
(* STON.fi is asked about one pool at a time, DeDust about all of them. *)
Asked(d, q) == IF d = "stonfi" THEN {Head(q)} ELSE ToSet(q)
Rest(d, q) == IF d = "stonfi" THEN Tail(q) ELSE << >>

(* DeDust is not asked about pools but for its list, cut off at 500: the    *)
(* watched pools that are not always in it may be missing.                  *)
Shown(d, q) == {S \in SUBSET Asked(d, q) : Asked(d, q) \cap (StonfiPools \cup Listed) \subseteq S}

(* The server reads the pools and sends its answer. *)
Read(d, i, S) == Advance(d, i, [round[d][i] EXCEPT !.at = "answered", !.got = [p \in S |-> market[p]]])
Answer(d, i) ==
    /\ Asking(d, i) /\ Head(round[d][i].queue) \notin dead
    /\ \E S \in Shown(d, round[d][i].queue) : Read(d, i, S)
    /\ UNCHANGED <<market, isRunning, watched, inFlight, dead, states, faults>>
(* A pool that DeDust lists without reserves is passed over.                *)
Omit(i) ==
    LET q == round["dedust"][i].queue
    IN  /\ Asking("dedust", i) /\ Fault
        /\ \E p \in ToSet(q), S \in Shown("dedust", q) : Read("dedust", i, S \ {p})
        /\ UNCHANGED <<market, isRunning, watched, inFlight, dead, states>>

(* deriveTick and upsertFromTick. *)
Emit(d, i) ==
    LET r == round[d][i]
    IN  /\ r.at = "answered"
        /\ states' = [p \in Pools |-> IF p \in DOMAIN r.got THEN r.got[p] ELSE states[p]]
        /\ Advance(d, i, [Idle EXCEPT !.at = "asking", !.queue = Rest(d, r.queue)])
        /\ UNCHANGED <<market, isRunning, watched, inFlight, dead, faults>>

(* A pool that is marked dead is not asked. *)
SkipDead(i) ==
    LET r == round["stonfi"][i]
    IN  /\ Asking("stonfi", i) /\ Head(r.queue) \in dead
        /\ Advance("stonfi", i, [r EXCEPT !.queue = Tail(@)])
        /\ UNCHANGED <<market, isRunning, watched, inFlight, dead, states, faults>>
(* A network error, or no reserves of a STON.fi pool: on with the next one. *)
(* A 400 (not indexed, or migrated) marks the pool dead as well.            *)
Lose(d, i) ==
    LET r == round[d][i]
    IN  /\ Asking(d, i) /\ Head(r.queue) \notin dead /\ Fault
        /\ Advance(d, i, [r EXCEPT !.queue = Rest(d, @)])
        /\ dead' \in IF d = "stonfi" THEN {dead, dead \cup {Head(r.queue)}} ELSE {dead}
        /\ UNCHANGED <<market, isRunning, watched, inFlight, states>>
(* DEAD_POOL_TTL_MS has passed. *)
Forget(p) ==
    /\ p \in dead
    /\ dead' = dead \ {p}
    /\ UNCHANGED <<market, isRunning, watched, inFlight, round, states, faults>>

(* Mutant of Release: a round that throws keeps its mark. *)
Release_Success(d) == inFlight' = inFlight
(* finally: also when the round throws. *)
Release(d) == inFlight' = [inFlight EXCEPT ![d] = FALSE]
EndRound(d, i) ==
    /\ round[d][i].at = "asking" /\ round[d][i].queue = << >>
    /\ inFlight' = [inFlight EXCEPT ![d] = FALSE]
    /\ Advance(d, i, Idle)
    /\ UNCHANGED <<market, isRunning, watched, dead, states, faults>>
(* 429 and 5xx: the pools behind this one are not asked in this round. *)
FailRound(d, i) ==
    /\ Asking(d, i) /\ Head(round[d][i].queue) \notin dead /\ Fault
    /\ Release(d)
    /\ Advance(d, i, Idle)
    /\ UNCHANGED <<market, isRunning, watched, dead, states>>

-----------------------------------------------------------------------------
Moves == FoldFunction(+, 0, market) - Cardinality(Pools)
Move(p) ==
    /\ Moves < MaxMoves
    /\ market' = [market EXCEPT ![p] = @ + 1]
    /\ UNCHANGED <<feed, faults>>

Poll(d, i) == BeginRound(d, i) \/ Answer(d, i) \/ Emit(d, i) \/ EndRound(d, i)
Disturb(d, i) == Lose(d, i) \/ FailRound(d, i)
NextFeed ==
    \/ Start
    \/ \E d \in Sources : \E p \in PoolsOf(d) : Subscribe(d, p) \/ Unsubscribe(d, p) \/ Move(p)
    \/ \E d \in Sources, i \in Rounds : Poll(d, i) \/ Disturb(d, i)
    \/ \E i \in Rounds : SkipDead(i) \/ Omit(i)
    \/ \E p \in StonfiPools : Forget(p)

FeedSpec == InitFeed /\ [][NextFeed]_feedVars
(* The timers fire and requests time out. *)
Timers ==
    /\ \A d \in Sources : WF_feedVars(\E i \in Rounds : Poll(d, i))
    /\ WF_feedVars(\E i \in Rounds : SkipDead(i))
    /\ \A p \in StonfiPools : WF_feedVars(Forget(p))
FairFeed == FeedSpec /\ Timers

-----------------------------------------------------------------------------
(* Properties *)

(* The latest state of a pool is never replaced by an earlier reading, by a *)
(* request that was overtaken, or by a round that began before the pool was *)
(* dropped and watched again.                                               *)
ReadingsNeverGoBack == [][\A p \in Pools : states'[p] >= states[p]]_feedVars

(* A pool that stays watched gets its current price once the faults cease:  *)
(* no failed round, dead mark or dropped request silences it for good, or   *)
(* the pools behind it.  Excepted are DeDust pools that are not always on   *)
(* the first page of its list: nothing else is asked about them.            *)
PricesArrive ==
    \A d \in Sources : \A p \in PoolsOf(d) \cap (StonfiPools \cup Listed) :
        <>[](isRunning /\ p \in ToSet(watched[d])) => <>[](states[p] = market[p])
=============================================================================
