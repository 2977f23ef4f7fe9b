---------------------------- MODULE HttpRequests ----------------------------
(***************************************************************************)
(* The requests that go through a bucket of RateLimit:                     *)
(*   sniper/x1000-client.ts   post and get, with the DeDust bucket         *)
(*   http/tonapi.ts           tonapiGet, with a bucket of its own          *)
(* A request keeps its slot while it is repeated and while it backs off in  *)
(* between.  How long a backoff lasts is left open: TONAPI may name it.     *)
(***************************************************************************)
EXTENDS RateLimit

CONSTANTS MaxAttempts   \* 5 attempts at DeDust, maxAttempts at TONAPI

ASSUME AttemptsAssumption == MaxAttempts \in Nat \ {0}

VARIABLES attempt   \* the attempt a request is at, 0 when it is not under way

Statuses == {"ok", "refused", "limited", "server", "none"}
(* shouldRetryStatus *)
Retriable(status) == status \in {"limited", "server", "none"}

InitRequests == InitBucket /\ attempt = [r \in Requests |-> 0]

Ask(r) == Acquire(r) /\ attempt' = [attempt EXCEPT ![r] = 1]

(* Mutant of Repeat: the attempts are not counted. *)
Repeat_Uncounted(r, status) ==
    /\ r \in holders /\ Retriable(status)
    /\ attempt' = [attempt EXCEPT ![r] = IF @ = 1 THEN 2 ELSE 1]
    /\ UNCHANGED bucketVars

(* The attempt failed in a way that may pass: back off and try again.       *)
Repeat(r, status) ==
    /\ r \in holders /\ Retriable(status) /\ attempt[r] < MaxAttempts
    /\ attempt' = [attempt EXCEPT ![r] = @ + 1]
    /\ UNCHANGED bucketVars

(* An answer, a failure that would repeat itself, or the last attempt: the  *)
(* slot is given back in finally, whether the caller gets data or an error. *)
Settle(r, status) ==
    /\ ~Retriable(status) \/ attempt[r] >= MaxAttempts
    /\ Release(r)
    /\ attempt' = [attempt EXCEPT ![r] = 0]

(* axios answers or times out. *)
Answered(r) == \E status \in Statuses : Repeat(r, status) \/ Settle(r, status)

Background == (Tick \/ \E t \in timers : Fire(t)) /\ UNCHANGED attempt

NextRequests == Background \/ \E r \in Requests : Ask(r) \/ Answered(r)

allVars == <<bucketVars, attempt>>

(* Every attempt is answered or times out, timers fire, and time passes;    *)
(* that no answer is ever good is left open.                                *)
RequestsSpec ==
    /\ InitRequests /\ [][NextRequests]_allVars
    /\ \A r \in Requests : WF_allVars(Answered(r))
    /\ WF_allVars(Tick /\ UNCHANGED attempt)
    /\ \A t \in Timers : WF_allVars(Fire(t) /\ UNCHANGED attempt)

-----------------------------------------------------------------------------
(* Properties *)

(* The requests behave as users of the limiter: whatever fails and however  *)
(* often it is repeated, every slot is given back, so that the limiter's    *)
(* promises hold of them.                                                   *)
ImplementsLimiter == FairLimiter
=============================================================================
