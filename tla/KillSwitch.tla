----------------------------- MODULE KillSwitch -----------------------------
(***************************************************************************)
(* The coordinator's emergency brake (apps/agent/src/core/coordinator.ts): *)
(* the process-local flag killSwitchActive, written by a 30 s poller of a  *)
(* remote endpoint and by the operator's POST /api/kill.  A poll is two    *)
(* steps of the code, before and after `await axios.get`, and the answer   *)
(* is formed in between, on the other side of the network; the axios       *)
(* timeout (5 s) is shorter than the interval, so at most one poll is in   *)
(* flight.                                                                 *)
(***************************************************************************)
EXTENDS Naturals

CONSTANTS
    MaxMisses,    \* KILL_SWITCH_MAX_MISSES
    MissBound,    \* bound: the counters stop here (the code only compares with MaxMisses)
    Urls,         \* kinds of KILL_SWITCH_URL the process may be started with
    MaxRestarts   \* bound: how often the process is restarted

Kinds == {"unset", "insecure", "secure"}
\* What a successful answer's body says: `kill` truthy, `kill` false, or no `kill` at all.
\* The dashboard's GET /api/kill-state answers with `engaged`, whatever its table holds
\* and also when it cannot read it.
DashboardAnswers == {"other"}
Answers == {"kill", "clear"} \cup DashboardAnswers

ASSUME MissesAssumption == MaxMisses \in Nat \ {0} /\ MissBound \in Nat /\ MissBound >= MaxMisses
ASSUME UrlsAssumption == Urls \subseteq Kinds
ASSUME RestartsAssumption == MaxRestarts \in Nat

VARIABLES
    url,           \* process.env.KILL_SWITCH_URL, fixed while the process runs
    active,        \* state.killSwitchActive
    autoTripped,   \* state.killSwitchAutoTripped
    misses,        \* state.killSwitchMisses
    poll,          \* the poll in flight: "idle", "sent", or the answer on its way back
    endpoint,      \* what the remote endpoint would answer now
    restarts,
    \* History, not in the code:
    silence,       \* failed polls since the last answer, operator lift or start
    operatorHalt   \* the operator halted trading and has not lifted it since

brake == <<active, autoTripped, misses>>
vars == <<url, active, autoTripped, misses, poll, endpoint, restarts, silence, operatorHalt>>

Bump(n) == IF n < MissBound THEN n + 1 ELSE n

Init ==
    /\ url \in Urls
    /\ active = FALSE /\ autoTripped = FALSE /\ misses = 0
    /\ poll = "idle"
    /\ endpoint \in Answers \cup {"down"}
    /\ restarts = 0
    /\ silence = 0
    /\ operatorHalt = FALSE

-----------------------------------------------------------------------------

(* registerKillSwitchMiss: trip once the grace window is used up.           *)
RegisterMiss ==
    LET trip == Bump(misses) >= MaxMisses /\ ~active
    IN  /\ misses' = Bump(misses)
        /\ active' = (active \/ trip)
        /\ autoTripped' = (autoTripped \/ trip)
        /\ silence' = Bump(silence)
        /\ UNCHANGED operatorHalt

(* pollKillSwitch with no URL configured: the flag is cleared, whoever set it. *)
PollUnset ==
    /\ url = "unset"
    /\ active' = FALSE
    /\ autoTripped' = (autoTripped /\ ~active)
    /\ misses' = 0
    /\ silence' = 0
    /\ UNCHANGED <<url, poll, endpoint, restarts, operatorHalt>>

(* pollKillSwitch refuses a cleartext URL and counts the poll as a miss. *)
PollInsecure ==
    /\ url = "insecure"
    /\ RegisterMiss
    /\ UNCHANGED <<url, poll, endpoint, restarts>>

(* pollKillSwitch up to `await axios.get`. *)
PollSend ==
    /\ url = "secure" /\ poll = "idle"
    /\ poll' = "sent"
    /\ UNCHANGED <<url, brake, endpoint, restarts, silence, operatorHalt>>

(* pollKillSwitch after the await: any answer resets the miss counter, a    *)
(* truthy `kill` engages the brake, and every other body lifts it.          *)
PollReceive ==
    LET kill == poll = "kill"
    IN  /\ poll \in Answers
        /\ poll' = "idle"
        /\ misses' = 0
        /\ silence' = 0
        /\ active' = kill
        /\ autoTripped' = (autoTripped /\ (active <=> kill))
        /\ UNCHANGED <<url, endpoint, restarts, operatorHalt>>

(* Mutant of PollFail: the catch logs and forgets to count the miss. *)
PollFail_Uncounted ==
    /\ poll # "idle"
    /\ poll' = "idle"
    /\ UNCHANGED <<url, brake, endpoint, restarts, silence, operatorHalt>>

(* pollKillSwitch's catch: timeout, refused connection, non-2xx status. *)
PollFail ==
    /\ poll # "idle"
    /\ poll' = "idle"
    /\ RegisterMiss
    /\ UNCHANGED <<url, endpoint, restarts>>

(* Mutant of SetKillSwitch: the resets outside the test for a change. *)
SetKillSwitch_AlwaysResets(on) ==
    /\ active' = on
    /\ autoTripped' = FALSE /\ misses' = 0
    /\ silence' = IF active /\ ~on THEN 0 ELSE silence
    /\ operatorHalt' = on
    /\ UNCHANGED <<url, poll, endpoint, restarts>>

(* setKillSwitch: acts only on a change. *)
SetKillSwitch(on) ==
    /\ active' = on
    /\ IF on = active THEN UNCHANGED <<autoTripped, misses>>
                      ELSE autoTripped' = FALSE /\ misses' = 0
    /\ silence' = IF active /\ ~on THEN 0 ELSE silence
    /\ operatorHalt' = on
    /\ UNCHANGED <<url, poll, endpoint, restarts>>

(* POST /api/kill: any body whose `engaged` is not a boolean is refused. *)
PostKill == \E engaged \in BOOLEAN : SetKillSwitch(engaged)

(* The process dies and boots again: nothing of the brake is stored. *)
Restart ==
    /\ restarts < MaxRestarts
    /\ restarts' = restarts + 1
    /\ active' = FALSE /\ autoTripped' = FALSE /\ misses' = 0
    /\ poll' = "idle"
    /\ silence' = 0
    /\ operatorHalt' = FALSE
    /\ UNCHANGED <<url, endpoint>>

-----------------------------------------------------------------------------
(* The remote side: it changes its mind or goes down, and answers a request *)
(* with what it thinks at that moment.                                      *)
EndpointChange ==
    /\ endpoint' \in Answers \cup {"down"}
    /\ UNCHANGED <<url, brake, poll, restarts, silence, operatorHalt>>

EndpointAnswer ==
    /\ poll = "sent" /\ endpoint # "down"
    /\ poll' = endpoint
    /\ UNCHANGED <<url, brake, endpoint, restarts, silence, operatorHalt>>

Next ==
    \/ PollUnset \/ PollInsecure \/ PollSend \/ PollReceive \/ PollFail
    \/ PostKill \/ Restart
    \/ EndpointChange \/ EndpointAnswer

(* The interval timer keeps firing, and the axios timeout ends every poll. *)
Fairness ==
    /\ WF_vars(PollInsecure)
    /\ WF_vars(PollSend)
    /\ WF_vars(PollReceive \/ PollFail)

Spec == Init /\ [][Next]_vars
FairSpec == Spec /\ Fairness

-----------------------------------------------------------------------------
(* Properties *)

(* The variables have the shapes the code gives them. *)
TypeOK ==
    /\ url \in Urls
    /\ active \in BOOLEAN /\ autoTripped \in BOOLEAN
    /\ misses \in 0..MissBound /\ silence \in 0..MissBound
    /\ poll \in Answers \cup {"idle", "sent"}
    /\ endpoint \in Answers \cup {"down"}
    /\ restarts \in 0..MaxRestarts
    /\ operatorHalt \in BOOLEAN

(* The grace window: the agent never trades on after MaxMisses polls in a   *)
(* row went unanswered, whatever the operator and a late answer did in      *)
(* between: setKillSwitch resets the miss counter, and only a lift or an    *)
(* answer may start a new window.                                           *)
NoTradingInSilence == silence >= MaxMisses => active

(* A brake that is off is never marked as self-imposed: a later halt by the *)
(* operator or by the endpoint must not be taken for a grace-window trip.   *)
AutoTripOnlyWhileActive == autoTripped => active

(* A halt the grace window imposed ends by contact: the endpoint answered,  *)
(* the operator lifted it, the process restarted, or polling is switched    *)
(* off; a failed poll never lifts it.                                       *)
FailedPollNeverLifts ==
    [][ (active /\ ~active') =>
            \/ poll \in Answers /\ poll' = "idle" /\ silence' = 0
            \/ ~operatorHalt' /\ silence' = 0
            \/ url = "unset" ]_vars

(* An endpoint that keeps saying kill, or keeps being down, or flaps between *)
(* the two, halts the agent and halts it again after every operator lift;    *)
(* and so does a URL the poller refuses.                                     *)
Stubborn == url = "secure" /\ endpoint \in {"kill", "down"}
HaltsEventually ==
    (url = "insecure" \/ <>[]Stubborn) => []<>active
=============================================================================
