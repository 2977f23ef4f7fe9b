----------------------------- MODULE TokenAudit -----------------------------
(***************************************************************************)
(* What the agent knows of a token, and how old that knowledge is.         *)
(*   security/pool-resolver.ts   where the token trades (cached 24 h)      *)
(*   security/audit.ts           fullAudit (15 min) over getJetton (10)    *)
(*   hotpath/position-monitor.ts resolveAuditVerdict (1 min) over both     *)
(*   radar/scanner.ts, skills/trade-plan, skills/token-scout, mcp/tools.ts *)
(* Nothing serialises the callers: a call is cut at its awaits and every   *)
(* caller writes the caches.  Left out: how deep a pool is beyond whether  *)
(* the figure can be read, and the honeypot simulation, which runs in an   *)
(* empty sandbox and finds neither the pool nor the token there.           *)
(***************************************************************************)
EXTENDS Scoring, FiniteSets

CONSTANTS
    Tokens,
    Monitor, Seekers,                          \* the callers
    JettonTtl, AuditTtl, PoolTtl, VerdictTtl,  \* lifetimes of the four caches
    MaxChanges, MaxFaults, MaxPlans            \* bounds: changes on the chain, failed requests, calls of the seekers

ASSUME AuditAssumption == {JettonTtl, AuditTtl, PoolTtl, VerdictTtl} \subseteq Nat \ {0}

Callers == {Monitor} \cup Seekers
Dexes == {"stonfi", "dedust"}
NoPool == [dex |-> "none", depth |-> "unknown"]
NoEntry == [age |-> -1]
NoVerdict == [renounced |-> FALSE, lp |-> "undetermined", adminAge |-> 0, lpAge |-> 0]
Idle == [at |-> "idle", token |-> "none", pool |-> NoPool, stonfi |-> NoPool, verdict |-> NoVerdict, waited |-> 0]

VARIABLES
    admin, \* tokens whose admin may still mint
    lp,    \* per token and DEX: no pool, or one whose LP tokens are burnt or not
    pools, jettons, audits, verdicts, \* the caches
    call,  \* the callers
    seen,  \* SEEN of the radar
    changes, faults, plans

caches == <<pools, jettons, audits, verdicts>>
chain == <<admin, lp, changes>>
auditVars == <<chain, caches, call, seen, faults, plans>>

InitAudits ==
    /\ admin = Tokens
    /\ lp = [t \in Tokens |-> [d \in Dexes |-> "absent"]]
    /\ pools = [t \in Tokens |-> NoEntry] /\ jettons = [t \in Tokens |-> NoEntry]
    /\ audits = [k \in Tokens \X (Dexes \cup {"none"}) |-> NoEntry]
    /\ verdicts = [t \in Tokens |-> NoEntry]
    /\ call = [c \in Callers |-> Idle]
    /\ seen = {} /\ changes = 0 /\ faults = 0 /\ plans = 0

-----------------------------------------------------------------------------
(* cacheGet: an entry that has expired is none. *)
(* Mutant of Expires: the age of an entry is not looked at. *)
Expires_Never(age, ttl) == FALSE
Expires(age, ttl) == age + 1 >= ttl
Fresh(entry) == entry # NoEntry

Goes(c, new) == call' = [call EXCEPT ![c] = new]
Fault == faults < MaxFaults /\ faults' = faults + 1
NoFault == UNCHANGED faults
Count == plans < MaxPlans /\ plans' = plans + 1

(* The monitor asks for the pool of every open position, on every tick. *)
Watch(t) ==
    /\ call[Monitor].at = "idle"
    /\ Goes(Monitor, [Idle EXCEPT !.at = "resolve", !.token = t])
    /\ UNCHANGED <<chain, caches, seen, plans, faults>>
(* The radar and the scout mark a token as seen and audit it without pool. *)
Scan(c, t) ==
    /\ call[c].at = "idle" /\ t \notin seen
    /\ seen' = seen \cup {t} /\ Count
    /\ Goes(c, [Idle EXCEPT !.at = "audit", !.token = t])
    /\ UNCHANGED <<chain, caches, faults>>
(* A planner asks get_jetton_meta for the pool, or leaves it out. *)
Plan(c, t) ==
    /\ call[c].at = "idle" /\ Count
    /\ \E at \in {"resolve", "audit"} : Goes(c, [Idle EXCEPT !.at = at, !.token = t])
    /\ UNCHANGED <<chain, caches, seen, faults>>

-----------------------------------------------------------------------------
(* resolvePool *)

Resolved(c, pool) == Goes(c, [call[c] EXCEPT !.at = "audit", !.pool = pool, !.stonfi = NoPool, !.waited = 0])
(* What is cached; no pool at all is not. *)
Remember(t, pool) == pools' = [pools EXCEPT ![t] = [pool |-> pool, age |-> 0]]

Lookup(c) ==
    LET t == call[c].token
    IN  /\ call[c].at = "resolve"
        /\ IF Fresh(pools[t]) THEN Resolved(c, pools[t].pool)
           ELSE Goes(c, [call[c] EXCEPT !.at = "stonfi"])
        /\ UNCHANGED <<chain, caches, seen, faults, plans>>

(* resolveStonfi: the address comes from the router, whatever is deployed   *)
(* there; the depth needs a pool, and an answer.                            *)
Measured(t) == lp[t]["stonfi"] # "absent"
(* Mutant of Accepted: a hit without a depth is good enough. *)
Accepted_Depthless(pool) == pool # NoPool
Accepted(pool) == pool.depth = "known"
AskStonfi(c) ==
    LET t == call[c].token
        hit(depth) == [dex |-> "stonfi", depth |-> depth]
    IN  /\ call[c].at = "stonfi"
        /\ \E pool \in {hit("known"), hit("unknown"), NoPool} :
              /\ IF pool = hit("known") THEN Measured(t) /\ NoFault
                 ELSE IF pool = hit("unknown") /\ ~Measured(t) THEN NoFault ELSE Fault
              /\ IF Accepted(pool)
                 THEN Resolved(c, pool) /\ Remember(t, pool)
                 ELSE Goes(c, [call[c] EXCEPT !.at = "dedust", !.stonfi = pool]) /\ UNCHANGED pools
        /\ UNCHANGED <<chain, jettons, audits, verdicts, seen, plans>>

(* resolveDeDust: only a pool that is ready is a hit; failing that, the     *)
(* address at STON.fi.                                                      *)
AskDedust(c) ==
    LET t == call[c].token
    IN  /\ call[c].at = "dedust"
        /\ \/ /\ lp[t]["dedust"] # "absent" /\ NoFault
              /\ LET pool == [dex |-> "dedust", depth |-> "known"] IN Resolved(c, pool) /\ Remember(t, pool)
           \/ /\ IF lp[t]["dedust"] = "absent" THEN NoFault ELSE Fault
              /\ Resolved(c, call[c].stonfi)
              /\ IF call[c].stonfi = NoPool THEN UNCHANGED pools ELSE Remember(t, call[c].stonfi)
        /\ UNCHANGED <<chain, jettons, audits, verdicts, seen, plans>>

-----------------------------------------------------------------------------
(* resolveAuditVerdict and fullAudit *)

(* The monitor's own copy serves unless the price has dropped sharply. *)
Recall(c) ==
    LET t == call[c].token
    IN  /\ call[c].at = "audit" /\ c = Monitor /\ Fresh(verdicts[t])
        /\ Goes(c, [call[c] EXCEPT !.at = "done", !.verdict = verdicts[t].verdict])
        /\ UNCHANGED <<chain, caches, seen, faults, plans>>

Key(c) == <<call[c].token, call[c].pool.dex>>
(* A report that lacks data is no verdict: the monitor keeps what it had    *)
(* and returns nothing.  Its copy is dated from before the audit.           *)
(* Mutant of Answer: the monitor falls back on what it had. *)
Answer_Stale(c, v) ==
    IF v.lp = "undetermined" /\ verdicts[call[c].token] # NoEntry THEN verdicts[call[c].token].verdict ELSE v
Answer(c, v) == v
Reported(c, v) ==
    /\ Goes(c, [call[c] EXCEPT !.at = "done", !.verdict = Answer(c, v)])
    /\ verdicts' = IF c = Monitor /\ v.lp # "undetermined"
                   THEN [verdicts EXCEPT ![call[c].token] = [verdict |-> v, age |-> call[c].waited]] ELSE verdicts

(* fullAudit: its own copy first, also for a monitor that saw a sharp drop. *)
Consult(c) ==
    LET entry == audits[Key(c)]
    IN  /\ call[c].at = "audit"
        /\ IF Fresh(entry) THEN Reported(c, entry.verdict)
           ELSE Goes(c, [call[c] EXCEPT !.at = "admin"]) /\ UNCHANGED verdicts
        /\ UNCHANGED <<chain, pools, jettons, audits, seen, faults, plans>>

(* getJetton: only an answer is kept. *)
KeepMeta(t) == jettons' = [jettons EXCEPT ![t] = [renounced |-> t \notin admin, age |-> 0]]
(* checkRenounced: the cached answer, a new one, or the       *)
(* contract itself; when all fail the token counts as not renounced.        *)
ReadAdmin(c) ==
    LET t == call[c].token
        learnt(renounced, age) ==
            Goes(c, [call[c] EXCEPT !.at = "lp", !.verdict.renounced = renounced, !.verdict.adminAge = age])
    IN  /\ call[c].at = "admin"
        /\ \/ /\ Fresh(jettons[t]) /\ NoFault
              /\ learnt(jettons[t].renounced, jettons[t].age) /\ UNCHANGED jettons
           \/ /\ ~Fresh(jettons[t]) /\ NoFault
              /\ learnt(t \notin admin, 0)
              /\ KeepMeta(t)
           \/ /\ ~Fresh(jettons[t]) /\ Fault
              /\ learnt(t \notin admin, 0) \/ learnt(FALSE, 0)
              /\ UNCHANGED jettons
        /\ UNCHANGED <<chain, pools, audits, verdicts, seen, plans>>

(* checkLpLocked: an error says unlocked, as a pool that is not there does. *)
ReadLp(c) ==
    LET t == call[c].token
        d == call[c].pool.dex
    IN  /\ call[c].at = "lp"
        /\ \E state \in {"locked", "unlocked", "undetermined"} :
              /\ (state = "undetermined") <=> (d = "none")
              /\ IF d = "none" \/ (state = "locked" <=> lp[t][d] = "locked") THEN NoFault ELSE state = "unlocked" /\ Fault
              /\ LET v == [call[c].verdict EXCEPT !.lp = state, !.lpAge = 0]
                 IN  /\ Reported(c, v)
                     /\ audits' = [audits EXCEPT ![Key(c)] = [verdict |-> v, age |-> 0]]
        /\ UNCHANGED <<chain, pools, jettons, seen, plans>>

Ok(v) == v.renounced /\ v.lp = "locked"
(* The caller has its report: the monitor compares it with its baseline,    *)
(* the planner buys if it is good, the radar skips the token if it is not.  *)
Use(c) ==
    /\ call[c].at = "done"
    /\ Goes(c, Idle)
    /\ UNCHANGED <<chain, caches, seen, faults, plans>>

-----------------------------------------------------------------------------
(* A minute or so passes.  The requests have timeouts: no call outlasts     *)
(* more than one of these in either of its halves.                          *)
Oldest == JettonTtl + AuditTtl + VerdictTtl + 2
Older(n) == IF n < Oldest THEN n + 1 ELSE n
AgedVerdict(v) == [v EXCEPT !.adminAge = Older(@), !.lpAge = Older(@)]
Aged(entry, ttl) == IF entry = NoEntry \/ Expires(entry.age, ttl) THEN NoEntry ELSE [entry EXCEPT !.age = Older(@)]
AgedReport(entry, ttl) ==
    LET e == Aged(entry, ttl) IN IF e = NoEntry THEN e ELSE [e EXCEPT !.verdict = AgedVerdict(@)]
Minute ==
    /\ \A c \in Callers : call[c].at = "idle" \/ (call[c].at # "done" /\ call[c].waited = 0)
    /\ pools' = [t \in Tokens |-> Aged(pools[t], PoolTtl)]
    /\ jettons' = [t \in Tokens |-> Aged(jettons[t], JettonTtl)]
    /\ audits' = [k \in DOMAIN audits |-> AgedReport(audits[k], AuditTtl)]
    /\ verdicts' = [t \in Tokens |-> AgedReport(verdicts[t], VerdictTtl)]
    /\ call' = [c \in Callers |->
          IF call[c].at = "idle" THEN Idle
          ELSE [call[c] EXCEPT !.waited = 1, !.verdict.adminAge = IF call[c].at = "lp" THEN Older(@) ELSE @]]
    /\ UNCHANGED <<chain, seen, faults, plans>>

(* Admins are given up for good; pools appear, and their LP tokens are      *)
(* burnt or minted.                                                         *)
Change ==
    /\ changes < MaxChanges /\ changes' = changes + 1
    /\ \E t \in Tokens :
          \/ t \in admin /\ admin' = admin \ {t} /\ UNCHANGED lp
          \/ \E d \in Dexes, s \in {"locked", "unlocked"} :
                lp[t][d] # s /\ lp' = [lp EXCEPT ![t][d] = s] /\ UNCHANGED admin
    /\ UNCHANGED <<caches, call, seen, faults, plans>>

Proceed(c) == Lookup(c) \/ AskStonfi(c) \/ AskDedust(c) \/ Recall(c) \/ Consult(c) \/ ReadAdmin(c) \/ ReadLp(c) \/ Use(c)
NextAudits ==
    \/ \E t \in Tokens : Watch(t) \/ \E c \in Seekers : Scan(c, t) \/ Plan(c, t)
    \/ \E c \in Callers : Proceed(c)
    \/ Minute \/ Change

AuditSpec == InitAudits /\ [][NextAudits]_auditVars
(* Requests time out, and time goes on between the ticks of the monitor. *)
FairAudits == AuditSpec /\ SF_auditVars(Minute) /\ \A c \in Callers : WF_auditVars(Proceed(c))

-----------------------------------------------------------------------------
(* Properties *)

(* A report that is acted on was read from the chain no longer ago than the *)
(* caches together may keep it: each lies behind the next, so that their    *)
(* lifetimes add up, however the callers overlap and requests fail.         *)
EvidenceIsRecent ==
    \A c \in Callers : call[c].at = "done" =>
        LET held == AuditTtl + (IF c = Monitor THEN VerdictTtl ELSE 0)
        IN  call[c].verdict.lpAge < held /\ call[c].verdict.adminAge < held + JettonTtl

(* A report that comes with fewer holders, hours or TON, or with one of     *)
(* these unknown, gets no higher score and no easier way past the gate.     *)
RiskOnlyLowersConfidence ==
    \A c \in Callers : call[c].at = "done" =>
        <<call[c].verdict.renounced, call[c].verdict.lp = "locked">> \notin Misjudged

(* Once the requests stop failing, a token whose admin is gone and whose    *)
(* pools are all locked is good to the monitor on every tick: no cache      *)
(* keeps an unlucky answer for good, and no pool that cannot be measured    *)
(* hides one that can.                                                      *)
Clean(t) == t \notin admin /\ (\E d \in Dexes : lp[t][d] = "locked") /\ \A d \in Dexes : lp[t][d] # "unlocked"
FaultsAreForgotten ==
    \A t \in Tokens :
        <>[]Clean(t) => <>[](call[Monitor].at = "done" /\ call[Monitor].token = t => Ok(call[Monitor].verdict))
=============================================================================
