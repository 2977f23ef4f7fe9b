----------------------------- MODULE RateLimit ------------------------------
(***************************************************************************)
(* One bucket of the shared request limiter (apps/agent/src/http/          *)
(* rate-limit.ts; http/tonapi.ts holds a copy with limits of its own).     *)
(* A caller queues for a slot, holds it for one request with its retries   *)
(* (HttpRequests), and gives it back.  Every attempt to hand out a slot is *)
(* made by an arriving caller or by a timer, and a timer carries the       *)
(* limits it was set with: those of the bucket when an acquire set it, and *)
(* those of the DeDust bucket when a release did, whichever bucket that    *)
(* was.                                                                    *)
(***************************************************************************)
EXTENDS Integers, Sequences, FiniteSets, Functions

CONSTANTS
    Requests,     \* requests that may be under way; one is reused when no timer is left of it
    Max, Gap,     \* MAX_CONCURRENT and MIN_GAP_MS of the bucket
    ReleaseMax, ReleaseGap   \* MAX_CONCURRENT_DEDUST and MIN_GAP_MS_DEDUST

ASSUME LimitsAssumption ==
    Max \in Nat \ {0} /\ Gap \in Nat /\ ReleaseMax \in Nat \ {0} /\ ReleaseGap \in 0..Gap

VARIABLES
    queue,      \* bucket.queue
    inflight,   \* bucket.inflight
    since,      \* time since bucket.lastRelease, as far as Gap tells it
    timers,     \* the pending setTimeout calls of _tryDrain
    holders     \* who is between its acquire and its release

bucketVars == <<queue, inflight, since, timers, holders>>

Timers == [by : Requests, kind : {"acquire", "release"}, left : 0..Gap]

MaxOf(kind) == IF kind = "acquire" THEN Max ELSE ReleaseMax
GapOf(kind) == IF kind = "acquire" THEN Gap ELSE ReleaseGap

Queued == Range(queue)

InitBucket ==
    /\ queue = <<>> /\ inflight = 0 /\ holders = {}
    /\ since = Gap
    /\ timers = {}

(* _tryDrain on the queue q, with the other timers `rest`, by an attempt    *)
(* that began as `kind`: nobody waits or no slot is free; or the gap is not *)
(* over, and the attempt is put off; or the first waiter gets the slot.     *)
Refused(q, rest, kind) ==
    /\ q = <<>> \/ inflight >= MaxOf(kind)
    /\ queue' = q /\ timers' = rest
    /\ UNCHANGED <<inflight, holders>>

PutOff(q, rest, kind, r) ==
    /\ q # <<>> /\ inflight < MaxOf(kind) /\ since < GapOf(kind)
    /\ queue' = q
    /\ timers' = rest \cup {[by |-> r, kind |-> kind, left |-> GapOf(kind) - since]}
    /\ UNCHANGED <<inflight, holders>>

Granted_Full(q, rest, kind) ==   \* mutant of Granted: <= for <
    /\ q # <<>> /\ inflight <= MaxOf(kind) /\ since >= GapOf(kind)
    /\ queue' = Tail(q) /\ timers' = rest
    /\ inflight' = inflight + 1 /\ holders' = holders \cup {Head(q)}

Granted(q, rest, kind) ==
    /\ q # <<>> /\ inflight < MaxOf(kind) /\ since >= GapOf(kind)
    /\ queue' = Tail(q) /\ timers' = rest
    /\ inflight' = inflight + 1 /\ holders' = holders \cup {Head(q)}

TryDrain(q, rest, kind, r) ==
    Refused(q, rest, kind) \/ PutOff(q, rest, kind, r) \/ Granted(q, rest, kind)

(* acquireDeDustSlot, acquireStonFiSlot: a request no timer is left of. *)
Acquire(r) ==
    /\ r \notin Queued \cup holders /\ \A t \in timers : t.by # r
    /\ TryDrain(Append(queue, r), timers, "acquire", r)
    /\ UNCHANGED since

Release_Silent(r) ==   \* mutant of Release: nobody is woken
    /\ r \in holders
    /\ holders' = holders \ {r} /\ inflight' = inflight - 1
    /\ since' = 0
    /\ UNCHANGED <<queue, timers>>

(* releaseDeDustSlot, releaseStonFiSlot, in the caller's finally. *)
Release(r) ==
    /\ r \in holders
    /\ holders' = holders \ {r} /\ inflight' = inflight - 1
    /\ since' = 0
    /\ timers' = timers \cup {[by |-> r, kind |-> "release", left |-> Gap]}
    /\ UNCHANGED queue

(* A timer that is due fires; timers due at the same time fire in any order, *)
(* since the event loop compares the rounded times at which they were set.   *)
Fire(t) ==
    /\ t \in timers /\ t.left = 0
    /\ TryDrain(queue, timers \ {t}, t.kind, t.by)
    /\ UNCHANGED since

(* Time passes; a busy event loop may leave a due timer waiting. *)
Tick ==
    /\ since < Gap \/ \E t \in timers : t.left > 0
    /\ since' = IF since < Gap THEN since + 1 ELSE since
    /\ timers' = {[t EXCEPT !.left = IF @ > 0 THEN @ - 1 ELSE 0] : t \in timers}
    /\ UNCHANGED <<queue, inflight, holders>>

NextBucket ==
    \/ \E r \in Requests : Acquire(r) \/ Release(r)
    \/ \E t \in timers : Fire(t)
    \/ Tick

(* Requests time out, timers fire, time passes; nobody has to come. *)
BucketFairness ==
    /\ WF_bucketVars(Tick)
    /\ \A r \in Requests : WF_bucketVars(Release(r))
    /\ \A t \in Timers : WF_bucketVars(Fire(t))

LimiterSpec == InitBucket /\ [][NextBucket]_bucketVars
FairLimiter == LimiterSpec /\ BucketFairness

-----------------------------------------------------------------------------
(* Properties *)

(* The bucket's counter is what its callers hold, and nobody waits twice or *)
(* waits for what it has.                                                   *)
BucketTypeOK ==
    /\ queue \in Seq(Requests) /\ IsInjective(queue)
    /\ holders \subseteq Requests /\ Queued \cap holders = {}
    /\ inflight = Cardinality(holders)
    /\ since \in 0..Gap
    /\ timers \subseteq Timers
    /\ \A t, u \in timers : t.by = u.by /\ t.kind = u.kind => t = u

(* "a global concurrency cap": whichever attempts come together, never more *)
(* requests than the widest cap that one of them carries.  For the buckets  *)
(* of DeDust and TONAPI that is their own.  STON.fi's own cap is 1 and its  *)
(* releases carry DeDust's 3: it does exceed its own, and keeps the wider.  *)
WidestCap == IF ReleaseMax > Max THEN ReleaseMax ELSE Max
CapKept == inflight <= WidestCap

(* A slot that is free while somebody waits is on its way: there are enough *)
(* pending attempts to hand out every free slot, or to serve every waiter,  *)
(* though attempts are dropped, put off and overtaken.                      *)
NoSlotStranded ==
    \/ inflight + Cardinality(timers) >= Max
    \/ Cardinality(timers) >= Len(queue)

(* Everyone who queues for a slot gets one. *)
WaitersServed == \A r \in Requests : (r \in Queued) ~> (r \in holders)
=============================================================================
