-------------------------- MODULE FastPath_proofs --------------------------
(***************************************************************************)
(* Proofs about FastPath, for any number of signals, policies, templates   *)
(* and any capacity and lifetime of the cache, and about the feed of       *)
(* prices it reads (MarketData), for any pools, rounds and faults.         *)
(***************************************************************************)
EXTENDS FastPath, MarketData, Recursion_proofs, FiniteSetTheorems, TLAPS

Policies == [version : Nat, blocked : SUBSET Tokens, dexes : SUBSET Dexes]
Messages == [recipient : Tiers \cup {"none"}, version : Nat, amount : Signals \cup {"none"}]
Templates == [wallet : Tiers \cup {"none"}, version : Nat, at : Nat, used : Nat]
States == {"unborn", "raised", "broadcast", "cold", "done"}
Records == [state : States, token : Tokens \cup {"none"}, side : Sides \cup {"none"},
            tier : Tiers \cup {"none"}, producer : {"none", "radar", "other"},
            version : Nat, under : Policies, dex : Dexes \cup {"none"}, boc : Messages]

Counters == [received : Nat, executions : Nat, fallbacks : Nat]

Shape ==
    /\ policy \in Policies /\ known \in Policies /\ now \in Nat
    /\ sig \in [Signals -> Records]
    /\ \A k \in DOMAIN templates : templates[k] \in Templates
    /\ metrics \in Counters

(* What the engine knows is the policy in force, or an older one it kept    *)
(* while it was off; no template is newer than that.                        *)
Informed ==
    /\ subscribed = enabled
    /\ enabled => known = policy
    /\ policy = NoPolicy => known = NoPolicy
    /\ known.version <= policy.version
    /\ \A k \in DOMAIN templates : templates[k].version <= known.version

(* A signal that is on its way was admitted by the policy it was formed     *)
(* under.                                                                   *)
Judged(s) ==
    InFlight(s) =>
        /\ sig[s].under.version = sig[s].version /\ sig[s].token \notin sig[s].under.blocked
        /\ sig[s].dex \in sig[s].under.dexes
        /\ sig[s].boc # NoMessage => sig[s].boc.version \in {sig[s].version - 1, sig[s].version}

(* No message is composed for a signal that is not admitted.                *)
Unsent(s) == sig[s].state \in {"unborn", "raised"} => sig[s].boc = NoMessage

PathInv == Shape /\ Informed /\ \A s \in Signals : Judged(s) /\ Unsent(s)

-----------------------------------------------------------------------------
LEMMA Defaults ==
    /\ NoPolicy \in Policies /\ NoMessage \in Messages /\ Unborn \in Records
    /\ NoPolicy.version = 0 /\ Unborn.state = "unborn"
    /\ Unborn.boc = NoMessage
BY DEF NoPolicy, Policies, NoMessage, Messages, Unborn, Records, States

(* getCurrentPolicy keeps what is known informed.                           *)
LEMMA ConsultedFacts ==
    ASSUME PathInv
    PROVE  /\ Consulted \in Policies /\ known.version <= Consulted.version
           /\ Consulted.version <= policy.version
           /\ enabled => Consulted = policy
           /\ policy = NoPolicy => Consulted = NoPolicy
<1>1. policy \in Policies /\ known \in Policies /\ Informed
  BY DEF PathInv, Shape
<1>2. policy.version \in Nat /\ known.version \in Nat
  BY <1>1 DEF Policies
<1> QED BY <1>1, <1>2, Defaults DEF Consulted, Informed

(* A signal that is answered is unborn again, but for its state.            *)
LEMMA AnsweredFacts == Answered \in Records /\ Answered.state = "done"
BY Defaults DEF Answered, Records, States

LEMMA RaiseFacts ==
    ASSUME PathInv, NEW s \in Signals, NEW j \in Jobs, Raise(s, j)
    PROVE  /\ sig' \in [Signals -> Records] /\ sig[s].state = "unborn" /\ sig'[s].state = "raised"
           /\ sig'[s].boc = NoMessage
           /\ \A r \in Signals : r # s => sig'[r] = sig[r]
<1>1. sig \in [Signals -> Records] /\ policy.version \in Nat
  BY DEF PathInv, Shape, Policies
<1> DEFINE new == [Unborn EXCEPT !.state = "raised", !.token = j.token, !.side = j.side,
                                 !.tier = j.tier, !.producer = j.producer, !.version = policy.version]
<1>2. sig' = [sig EXCEPT ![s] = new] /\ sig[s].state = "unborn"
  BY DEF Raise
<1>3. new \in Records /\ new.state = "raised" /\ new.boc = NoMessage
  BY <1>1, Defaults DEF Jobs, Records, States
<1> HIDE DEF new
<1> QED BY <1>1, <1>2, <1>3

LEMMA RefuseFacts ==
    ASSUME PathInv, NEW s \in Signals, Refuse(s)
    PROVE  /\ sig' \in [Signals -> Records] /\ sig[s].state = "raised" /\ sig'[s].state = "done"
           /\ \A r \in Signals : r # s => sig'[r] = sig[r]
<1>1. sig \in [Signals -> Records]
  BY DEF PathInv, Shape
<1>2. sig' = [sig EXCEPT ![s] = Answered] /\ sig[s].state = "raised"
  BY DEF Refuse
<1> QED BY <1>1, <1>2, AnsweredFacts

LEMMA BroadcastFacts ==
    ASSUME PathInv, NEW s \in Signals, Broadcast(s)
    PROVE  /\ sig' \in [Signals -> Records] /\ sig[s].state = "broadcast" /\ sig'[s].state = "cold"
           /\ sig'[s].token = sig[s].token /\ sig'[s].version = sig[s].version
           /\ sig'[s].under = sig[s].under /\ sig'[s].dex = sig[s].dex /\ sig'[s].boc = sig[s].boc
           /\ \A r \in Signals : r # s => sig'[r] = sig[r]
           /\ UNCHANGED metrics
<1>1. sig \in [Signals -> Records] /\ sig[s] \in Records
  BY DEF PathInv, Shape
<1> DEFINE new == [sig[s] EXCEPT !.state = "cold"]
<1>2. sig' = [sig EXCEPT ![s] = new] /\ UNCHANGED metrics /\ sig[s].state = "broadcast"
  BY DEF Broadcast
<1>3. /\ new \in Records /\ new.state = "cold"
      /\ new.token = sig[s].token /\ new.version = sig[s].version /\ new.under = sig[s].under
      /\ new.dex = sig[s].dex /\ new.boc = sig[s].boc
  BY <1>1 DEF Records, States
<1> HIDE DEF new
<1> QED BY <1>1, <1>2, <1>3

LEMMA ColdFacts ==
    ASSUME PathInv, NEW s \in Signals, ColdSwap(s)
    PROVE  /\ sig' \in [Signals -> Records] /\ sig[s].state = "cold" /\ sig'[s].state = "done"
           /\ \A r \in Signals : r # s => sig'[r] = sig[r]
<1>1. sig \in [Signals -> Records]
  BY DEF PathInv, Shape
<1>2. sig' = [sig EXCEPT ![s] = Answered] /\ sig[s].state = "cold"
  BY DEF ColdSwap
<1> QED BY <1>1, <1>2, AnsweredFacts

(* What a signal takes along when it is admitted, and what the cache keeps. *)
LEMMA AdmitFacts ==
    ASSUME PathInv, NEW s \in Signals, Admit(s)
    PROVE  /\ sig' \in [Signals -> Records] /\ sig[s].state = "raised" /\ sig'[s].state \in {"broadcast", "cold"}
           /\ \A r \in Signals : r # s => sig'[r] = sig[r]
           /\ Judged(s)'
<1>0. /\ sig \in [Signals -> Records] /\ sig[s] \in Records /\ Informed
      /\ \A k \in DOMAIN templates : templates[k] \in Templates
  BY DEF PathInv, Shape
<1> DEFINE dex == SelectDex(Consulted)
           key == <<dex, sig[s].token, sig[s].side>>
<1>1. /\ sig[s].state = "raised" /\ dex # "none"
      /\ Consulted.version = sig[s].version /\ sig[s].token \notin Consulted.blocked
  BY DEF Admit, Admissible, PolicyAllows, IsPolicyFresh
<1>2. dex \in Dexes /\ dex \in Consulted.dexes
  BY <1>1, ConsultedFacts DEF SelectDex, Dexes, Policies
<1>3. Consulted \in Policies /\ known.version <= Consulted.version
      /\ Consulted.version \in Nat /\ known.version \in Nat
  BY ConsultedFacts DEF Policies, PathInv, Shape
<1> HIDE DEF dex
<1>4. ASSUME NEW st \in {"broadcast", "cold"}, NEW b \in Messages,
             sig' = [sig EXCEPT ![s].state = st, ![s].under = Consulted, ![s].dex = dex, ![s].boc = b],
             b # NoMessage => b.version \in {sig[s].version - 1, sig[s].version}
      PROVE  /\ sig' \in [Signals -> Records] /\ sig'[s].state \in {"broadcast", "cold"}
             /\ \A r \in Signals : r # s => sig'[r] = sig[r]
             /\ Judged(s)'
  <2> DEFINE new == [sig[s] EXCEPT !.state = st, !.under = Consulted, !.dex = dex, !.boc = b]
  <2>1. sig' = [sig EXCEPT ![s] = new]
    BY <1>4
  <2>2. /\ new \in Records /\ new.state = st
        /\ new.under = Consulted /\ new.dex = dex /\ new.boc = b
        /\ new.token = sig[s].token /\ new.version = sig[s].version
    BY <1>0, <1>2, <1>3, <1>4 DEF Records, States
  <2> HIDE DEF new
  <2>3. /\ sig'[s] = new /\ sig' \in [Signals -> Records]
        /\ \A r \in Signals : r # s => sig'[r] = sig[r]
    BY <1>0, <2>1, <2>2
  <2>4. Judged(s)'
    BY <1>1, <1>2, <1>4, <2>2, <2>3 DEF Judged
  <2> QED BY <1>4, <2>2, <2>3, <2>4
<1>5. CASE /\ Hit(key, Consulted.version)
           /\ sig' = [sig EXCEPT ![s].state = IF dex = "dedust" THEN "broadcast" ELSE "cold",
                                 ![s].under = Consulted, ![s].dex = dex,
                                 ![s].boc = IF dex = "dedust" THEN Rebuilt(templates[key], s) ELSE NoMessage]
  <2>1. /\ templates[key] \in Templates /\ templates[key].version \in Nat
        /\ templates[key].version >= Consulted.version - 1
        /\ templates[key].version <= known.version
    BY <1>0, <1>5 DEF Hit, Valid, Informed, Templates
  <2>2. templates[key].version \in {sig[s].version - 1, sig[s].version}
    BY <1>1, <1>3, <2>1
  <2>3. Rebuilt(templates[key], s) \in Messages /\ Rebuilt(templates[key], s).version = templates[key].version
    BY <2>1 DEF Rebuilt, Messages, Templates
  <2> DEFINE st == IF dex = "dedust" THEN "broadcast" ELSE "cold"
             b == IF dex = "dedust" THEN Rebuilt(templates[key], s) ELSE NoMessage
  <2>4. st \in {"broadcast", "cold"}
    OBVIOUS
  <2>5. b \in Messages /\ (b # NoMessage => b.version \in {sig[s].version - 1, sig[s].version})
    BY <2>2, <2>3, Defaults
  <2>6. sig' = [sig EXCEPT ![s].state = st, ![s].under = Consulted, ![s].dex = dex, ![s].boc = b]
    BY <1>5
  <2> HIDE DEF st, b
  <2> QED BY <1>1, <1>4, <2>4, <2>5, <2>6
<1>6. CASE sig' = [sig EXCEPT ![s].state = "cold", ![s].under = Consulted, ![s].dex = dex]
  <2> DEFINE new == [sig[s] EXCEPT !.state = "cold", !.under = Consulted, !.dex = dex]
  <2>1. sig' = [sig EXCEPT ![s] = new]
    BY <1>6
  <2>2. /\ new \in Records /\ new.state = "cold"
        /\ new.under = Consulted /\ new.dex = dex /\ new.boc = sig[s].boc
        /\ new.token = sig[s].token /\ new.version = sig[s].version
    BY <1>0, <1>2, <1>3 DEF Records, States
  <2> HIDE DEF new
  <2>3. /\ sig'[s] = new /\ sig' \in [Signals -> Records]
        /\ \A r \in Signals : r # s => sig'[r] = sig[r]
    BY <1>0, <2>1, <2>2
  <2>4. sig[s].boc = NoMessage
    BY <1>1 DEF PathInv, Unsent
  <2>5. Judged(s)'
    BY <1>1, <1>2, <2>2, <2>3, <2>4 DEF Judged
  <2> QED BY <1>1, <2>2, <2>3, <2>5
<1> QED BY <1>1, <1>5, <1>6 DEF Admit, dex

(* A step that moves one signal leaves the others as they were judged.      *)
LEMMA OthersStay ==
    ASSUME PathInv, NEW s \in Signals,
           \A r \in Signals : r # s => sig'[r] = sig[r],
           Judged(s)', Unsent(s)'
    PROVE  \A r \in Signals : Judged(r)' /\ Unsent(r)'
<1> SUFFICES ASSUME NEW r \in Signals, r # s  PROVE Judged(r)' /\ Unsent(r)'
  OBVIOUS
<1>1. Judged(r) /\ Unsent(r) /\ sig'[r] = sig[r]
  BY DEF PathInv
<1> QED BY <1>1 DEF Judged, Unsent, InFlight

(* A step that moves no signal leaves all of them as they were judged.      *)
LEMMA AllStay ==
    ASSUME PathInv, UNCHANGED sig
    PROVE  \A r \in Signals : Judged(r)' /\ Unsent(r)'
BY DEF PathInv, Judged, Unsent, InFlight

LEMMA MetricsShape ==
    ASSUME NEW m \in Counters
    PROVE  /\ Counted(m, "received") \in Counters /\ Finished(m) \in Counters
           /\ Counted(m, "received").received = m.received + 1
           /\ Counted(m, "received").fallbacks = m.fallbacks
           /\ Finished(m).received = m.received
           /\ Finished(m).fallbacks = m.fallbacks + 1
<1>1. Counted(m, "received") = [m EXCEPT !.received = m.received + 1]
  BY DEF Counted
<1>2. Finished(m) = [m EXCEPT !.executions = m.executions + 1, !.fallbacks = m.fallbacks + 1]
  BY DEF Finished
<1> DEFINE a == m.received + 1
           e == m.executions + 1
           k == m.fallbacks + 1
<1>3. a \in Nat /\ e \in Nat /\ k \in Nat
  BY DEF Counters
<1> HIDE DEF a, e, k
<1>4. LET f == [m EXCEPT !.received = a]
      IN  f \in Counters /\ f.received = a /\ f.fallbacks = m.fallbacks
  BY <1>3 DEF Counters
<1>5. LET f == [m EXCEPT !.executions = e, !.fallbacks = k]
      IN  f \in Counters /\ f.received = m.received /\ f.fallbacks = k
  BY <1>3 DEF Counters
<1> QED BY <1>1, <1>2, <1>4, <1>5 DEF a, e, k

(* The cache keeps templates no newer than the version that was asked for.  *)
LEMMA CacheFacts ==
    ASSUME PathInv, NEW s \in Signals, Admit(s)
    PROVE  \A k \in DOMAIN templates' : templates'[k] \in Templates /\ templates'[k].version <= Consulted.version
<1> DEFINE dex == SelectDex(Consulted)
           key == <<dex, sig[s].token, sig[s].side>>
           v == Consulted.version
<1>1. /\ \A k \in DOMAIN templates : templates[k] \in Templates /\ templates[k].version <= known.version
      /\ now \in Nat /\ sig[s] \in Records /\ known.version \in Nat
  BY DEF PathInv, Shape, Informed, Policies
<1>2. v \in Nat /\ known.version <= v
  BY ConsultedFacts DEF Policies
<1>3. \A k \in DOMAIN templates : templates[k] \in Templates /\ templates[k].version <= v
  BY <1>1, <1>2 DEF Templates
<1>4. sig[s].state = "raised" /\ ((Hit(key, v) /\ Touched(key)) \/ Compiled(key, sig[s].tier, v))
  BY DEF Admit
<1> HIDE DEF v, key
<1>5. CASE Hit(key, v) /\ Touched(key)
  <2>1. key \in DOMAIN templates /\ templates[key] \in Templates /\ templates[key].version <= v
    BY <1>3, <1>5 DEF Hit
  <2>2. templates' = [templates EXCEPT ![key].used = now]
    BY <1>5 DEF Touched
  <2>3. DOMAIN templates' = DOMAIN templates
    BY <2>2
  <2>4. templates'[key] = [templates[key] EXCEPT !.used = now]
    BY <2>1, <2>2
  <2>5. templates'[key] \in Templates /\ templates'[key].version <= v
    BY <1>1, <2>1, <2>4 DEF Templates
  <2>6. \A k \in DOMAIN templates : k # key => templates'[k] = templates[k]
    BY <2>2
  <2> QED BY <1>3, <2>3, <2>5, <2>6 DEF v
<1>6. CASE Compiled(key, sig[s].tier, v)
  <2> DEFINE kept == Without(key)
  <2>1. Template(sig[s].tier, v) \in Templates /\ Template(sig[s].tier, v).version = v
    BY <1>1, <1>2 DEF Template, Templates, Records
  <2>2. PICK W : templates' = [k \in (DOMAIN kept \ W) \cup {key} |-> IF k = key THEN Template(sig[s].tier, v) ELSE kept[k]]
    BY <1>6 DEF Compiled
  <2>3. \A k \in DOMAIN kept : k \in DOMAIN templates /\ kept[k] = templates[k]
    BY DEF Without
  <2> HIDE DEF kept
  <2>4. \A k \in DOMAIN templates' : templates'[k] = IF k = key THEN Template(sig[s].tier, v) ELSE kept[k]
    BY <2>2
  <2>5. \A k \in DOMAIN templates' : k = key \/ k \in DOMAIN kept
    BY <2>2
  <2> QED BY <1>2, <1>3, <2>1, <2>3, <2>4, <2>5 DEF v
<1> QED BY <1>4, <1>5, <1>6

-----------------------------------------------------------------------------
(* The invariant, action by action *)

LEMMA InitPath == Init => PathInv
<1> SUFFICES ASSUME Init PROVE PathInv
  OBVIOUS
<1>1. /\ policy = NoPolicy /\ known = NoPolicy /\ subscribed = enabled /\ DOMAIN templates = {} /\ now = 0
      /\ \A s \in Signals : sig[s] = Unborn
      /\ sig \in [Signals -> Records] /\ metrics \in Counters
  BY Defaults DEF Init, Counters
<1>2. \A s \in Signals : Judged(s) /\ Unsent(s)
  BY <1>1, Defaults DEF Judged, Unsent, InFlight
<1>3. Shape /\ Informed
  BY <1>1, Defaults DEF Shape, Informed
<1> QED BY <1>2, <1>3 DEF PathInv

(* What is published and what is switched leaves the signals alone.         *)
LEMMA PolicyKeeps ==
    ASSUME PathInv, NEW r \in Rules, UpdatePolicy(r)
    PROVE  PathInv'
<1> DEFINE p == [version |-> policy.version + 1, blocked |-> r.blocked, dexes |-> r.dexes]
<1>1. /\ Shape /\ Informed /\ policy \in Policies /\ known \in Policies
      /\ policy.version \in Nat /\ known.version \in Nat
      /\ \A k \in DOMAIN templates : templates[k] \in Templates /\ templates[k].version <= known.version
  BY DEF PathInv, Shape, Informed, Policies
<1>2. /\ p \in Policies /\ p.version = policy.version + 1 /\ p # NoPolicy
  BY <1>1, RulesAssumption, Defaults DEF Policies
<1>3. /\ policy' = p /\ known' = (IF subscribed THEN p ELSE known)
      /\ UNCHANGED <<enabled, subscribed, templates, sig, metrics, now>>
  BY DEF UpdatePolicy, Push
<1> HIDE DEF p
<1>4. Shape'
  BY <1>1, <1>2, <1>3 DEF Shape
<1>5. \A k \in DOMAIN templates : templates[k].version \in Nat
  BY <1>1 DEF Templates
<1>6. Informed'
  BY <1>1, <1>2, <1>3, <1>5 DEF Informed
<1> QED BY <1>3, <1>4, <1>6, AllStay DEF PathInv

LEMMA EnabledKeeps ==
    ASSUME PathInv, NEW b \in BOOLEAN, SetEnabled(b)
    PROVE  PathInv'
<1>1. /\ Shape /\ Informed /\ policy.version \in Nat /\ known.version \in Nat
      /\ \A k \in DOMAIN templates : templates[k] \in Templates /\ templates[k].version \in Nat
  BY DEF PathInv, Shape, Informed, Policies, Templates
<1>2. /\ enabled' = b /\ subscribed' = b /\ UNCHANGED <<policy, templates, sig, metrics, now>>
      /\ known' = Refreshed(b /\ ~subscribed)
  BY DEF SetEnabled
<1>3. known' = (IF b /\ ~subscribed /\ policy # NoPolicy THEN policy ELSE known)
  BY <1>2 DEF Refreshed, Notified
<1>4. Shape'
  BY <1>1, <1>2, <1>3 DEF Shape
<1>5. known' \in {policy, known} /\ known.version <= known'.version /\ known'.version <= policy.version
  BY <1>1, <1>3 DEF Informed
<1>6. b => known' = policy
  BY <1>1, <1>3 DEF Informed
<1>7. policy = NoPolicy => known' = NoPolicy
  BY <1>1, <1>3 DEF Informed
<1>8. \A k \in DOMAIN templates : templates[k].version <= known'.version
  BY <1>1, <1>5 DEF Informed
<1>9. Informed'
  BY <1>2, <1>5, <1>6, <1>7, <1>8 DEF Informed
<1> QED BY <1>2, <1>4, <1>9, AllStay DEF PathInv

LEMMA CleanupKeeps ==
    ASSUME PathInv, Cleanup
    PROVE  PathInv'
<1>1. PICK old : templates' = [k \in DOMAIN templates \ old |-> templates[k]]
  BY DEF Cleanup
<1>2. /\ UNCHANGED <<policy, known, enabled, subscribed, sig, metrics, now>>
      /\ \A k \in DOMAIN templates' : k \in DOMAIN templates /\ templates'[k] = templates[k]
  BY <1>1 DEF Cleanup
<1>3. Shape' /\ Informed'
  BY <1>2 DEF PathInv, Shape, Informed
<1> QED BY <1>2, <1>3, AllStay DEF PathInv

LEMMA ClockKeeps ==
    ASSUME PathInv, KillSwitch \/ Tick \/ UNCHANGED vars
    PROVE  PathInv'
<1>1. /\ UNCHANGED <<policy, known, enabled, subscribed, templates, sig, metrics>>
      /\ now \in Nat /\ now' \in Nat
  BY DEF PathInv, Shape, KillSwitch, Tick, vars
<1>2. Shape' /\ Informed'
  BY <1>1 DEF PathInv, Shape, Informed
<1> QED BY <1>1, <1>2, AllStay DEF PathInv

(* A call of processSignal consults the policy first, which leaves it       *)
(* informed, and then moves its own signal.                                 *)
LEMMA ConsultingKeeps ==
    ASSUME PathInv, known' = Consulted, UNCHANGED <<policy, enabled, subscribed>>,
           \A k \in DOMAIN templates' : templates'[k] \in Templates /\ templates'[k].version <= Consulted.version
    PROVE  Informed'
<1>1. Informed /\ Consulted \in Policies
  BY ConsultedFacts DEF PathInv
<1> QED BY <1>1, ConsultedFacts DEF Informed

LEMMA RaiseKeeps ==
    ASSUME PathInv, NEW s \in Signals, NEW j \in Jobs, Raise(s, j)
    PROVE  PathInv'
<1>1. UNCHANGED <<policy, known, enabled, subscribed, templates, metrics, now>>
  BY DEF Raise
<1>2. Judged(s)' /\ Unsent(s)'
  BY RaiseFacts DEF Judged, Unsent, InFlight
<1>3. Shape' /\ Informed'
  BY <1>1, RaiseFacts DEF PathInv, Shape, Informed
<1> QED BY <1>2, <1>3, RaiseFacts, OthersStay DEF PathInv

LEMMA RefuseKeeps ==
    ASSUME PathInv, NEW s \in Signals, Refuse(s)
    PROVE  PathInv'
<1>1. /\ known' = Consulted /\ UNCHANGED <<policy, enabled, subscribed, templates, now>>
      /\ metrics' = Finished(Counted(metrics, "received"))
  BY DEF Refuse
<1>2. Judged(s)' /\ Unsent(s)'
  BY RefuseFacts DEF Judged, Unsent, InFlight
<1>3. metrics' \in Counters
  BY <1>1, MetricsShape DEF PathInv, Shape
<1>4. Shape'
  BY <1>1, <1>3, RefuseFacts, ConsultedFacts DEF PathInv, Shape
<1>5. \A k \in DOMAIN templates : templates[k] \in Templates /\ templates[k].version <= Consulted.version
  <2>1. /\ \A k \in DOMAIN templates : templates[k] \in Templates /\ templates[k].version <= known.version
        /\ known.version \in Nat /\ Consulted.version \in Nat /\ known.version <= Consulted.version
    BY ConsultedFacts DEF PathInv, Shape, Informed, Policies
  <2> QED BY <2>1 DEF Templates
<1>6. Informed'
  BY <1>1, <1>5, ConsultingKeeps
<1> QED BY <1>2, <1>4, <1>6, RefuseFacts, OthersStay DEF PathInv

LEMMA AdmitKeeps ==
    ASSUME PathInv, NEW s \in Signals, Admit(s)
    PROVE  PathInv'
<1>1. /\ known' = Consulted /\ UNCHANGED <<policy, enabled, subscribed, now>>
      /\ metrics' = Counted(metrics, "received")
  BY DEF Admit
<1>2. Unsent(s)'
  BY AdmitFacts DEF PathInv, Unsent
<1>3. metrics' \in Counters
  BY <1>1, MetricsShape DEF PathInv, Shape
<1>4. Shape'
  BY <1>1, <1>3, AdmitFacts, CacheFacts, ConsultedFacts DEF PathInv, Shape
<1>5. Informed'
  BY <1>1, CacheFacts, ConsultingKeeps
<1> QED BY <1>2, <1>4, <1>5, AdmitFacts, OthersStay DEF PathInv

LEMMA BroadcastKeeps ==
    ASSUME PathInv, NEW s \in Signals, Broadcast(s)
    PROVE  PathInv'
<1>1. UNCHANGED <<policy, known, enabled, subscribed, templates, now>>
  BY DEF Broadcast
<1>2. Judged(s) /\ Unsent(s)
  BY DEF PathInv
<1>3. Judged(s)' /\ Unsent(s)'
  BY <1>2, BroadcastFacts DEF Judged, Unsent, InFlight
<1>4. Shape' /\ Informed'
  BY <1>1, BroadcastFacts DEF PathInv, Shape, Informed
<1> QED BY <1>3, <1>4, BroadcastFacts, OthersStay DEF PathInv

LEMMA ColdKeeps ==
    ASSUME PathInv, NEW s \in Signals, ColdSwap(s)
    PROVE  PathInv'
<1>1. /\ UNCHANGED <<policy, known, enabled, subscribed, templates, now>>
      /\ metrics' = Finished(metrics)
  BY DEF ColdSwap
<1>2. Judged(s)' /\ Unsent(s)'
  BY ColdFacts DEF Judged, Unsent, InFlight
<1>3. metrics' \in Counters
  BY <1>1, MetricsShape DEF PathInv, Shape
<1>4. Shape' /\ Informed'
  BY <1>1, <1>3, ColdFacts DEF PathInv, Shape, Informed
<1> QED BY <1>2, <1>4, ColdFacts, OthersStay DEF PathInv

LEMMA StepPath == PathInv /\ [Next]_vars => PathInv'
<1> SUFFICES ASSUME PathInv, [Next]_vars PROVE PathInv'
  OBVIOUS
<1>1. CASE \E r \in Rules : UpdatePolicy(r)
  BY <1>1, PolicyKeeps
<1>2. CASE \E b \in BOOLEAN : SetEnabled(b)
  BY <1>2, EnabledKeeps
<1>3. CASE \E s \in Signals, j \in Jobs : Raise(s, j)
  BY <1>3, RaiseKeeps
<1>4. CASE \E s \in Signals : Process(s)
  BY <1>4, RefuseKeeps, AdmitKeeps, BroadcastKeeps, ColdKeeps DEF Process
<1>5. CASE Cleanup \/ KillSwitch \/ Tick \/ UNCHANGED vars
  BY <1>5, CleanupKeeps, ClockKeeps
<1> QED BY <1>1, <1>2, <1>3, <1>4, <1>5 DEF Next

LEMMA PathHolds == Spec => []PathInv
BY InitPath, StepPath, PTL DEF Spec

(* A signal is executed under the policy version it was formed under, for a *)
(* token that version does not block, on a DEX it allows and from a         *)
(* template at most one version older.                                      *)
THEOREM PolicyBinds == Spec => []JudgedByItsPolicy
<1>1. PathInv => JudgedByItsPolicy
  BY DEF PathInv, Informed, Judged, JudgedByItsPolicy
<1> QED BY <1>1, PathHolds, PTL

-----------------------------------------------------------------------------
(* The counters *)

Taken == {s \in Signals : sig[s].state \in {"broadcast", "cold", "done"}}
Ended == {s \in Signals : sig[s].state = "done"}
CountInv == metrics.received = Cardinality(Taken) /\ metrics.fallbacks = Cardinality(Ended)

LEMMA OneMore ==
    ASSUME NEW S \in SUBSET Signals, NEW s \in Signals \ S
    PROVE  Cardinality(S \cup {s}) = Cardinality(S) + 1
BY ActorsAssumption, FS_Subset, FS_AddElement

LEMMA CountsHold == PathInv /\ CountInv /\ [Next]_vars => CountInv'
<1> SUFFICES ASSUME PathInv, CountInv, [Next]_vars PROVE CountInv'
  OBVIOUS
<1>1. metrics \in Counters
  BY DEF PathInv, Shape
<1>2. ASSUME UNCHANGED <<sig, metrics>> PROVE CountInv'
  BY <1>2 DEF CountInv, Taken, Ended
<1>3. ASSUME NEW s \in Signals, NEW j \in Jobs, Raise(s, j) PROVE CountInv'
  <2>1. Taken' = Taken /\ Ended' = Ended /\ UNCHANGED metrics
    BY <1>3, RaiseFacts DEF Taken, Ended, Raise
  <2> QED BY <2>1 DEF CountInv
<1>4. ASSUME NEW s \in Signals, Refuse(s) PROVE CountInv'
  <2>1. /\ Taken' = Taken \cup {s} /\ Ended' = Ended \cup {s} /\ s \notin Taken /\ s \notin Ended
    BY <1>4, RefuseFacts DEF Taken, Ended
  <2>2. Taken \in SUBSET Signals /\ Ended \in SUBSET Signals
    BY DEF Taken, Ended
  <2>3. Cardinality(Taken') = Cardinality(Taken) + 1 /\ Cardinality(Ended') = Cardinality(Ended) + 1
    BY <2>1, <2>2, OneMore
  <2> DEFINE m == Counted(metrics, "received")
  <2>4. /\ m \in Counters /\ m.received = metrics.received + 1
        /\ m.fallbacks = metrics.fallbacks
    BY <1>1, MetricsShape
  <2>5. metrics' = Finished(m)
    BY <1>4 DEF Refuse
  <2> HIDE DEF m
  <2>6. /\ metrics'.received = m.received /\ metrics'.fallbacks = m.fallbacks + 1
    BY <2>4, <2>5, MetricsShape
  <2> QED BY <2>3, <2>4, <2>6 DEF CountInv
<1>5. ASSUME NEW s \in Signals, Admit(s) PROVE CountInv'
  <2>1. /\ Taken' = Taken \cup {s} /\ Ended' = Ended /\ s \notin Taken
    BY <1>5, AdmitFacts DEF Taken, Ended
  <2>2. Cardinality(Taken') = Cardinality(Taken) + 1
    BY <2>1, OneMore DEF Taken
  <2>3. metrics' = Counted(metrics, "received")
    BY <1>5 DEF Admit
  <2>4. /\ metrics'.received = metrics.received + 1
        /\ metrics'.fallbacks = metrics.fallbacks
    BY <1>1, <2>3, MetricsShape
  <2> QED BY <2>1, <2>2, <2>4 DEF CountInv
<1>6. ASSUME NEW s \in Signals, Broadcast(s) PROVE CountInv'
  <2>1. Taken' = Taken /\ Ended' = Ended /\ UNCHANGED metrics
    BY <1>6, BroadcastFacts DEF Taken, Ended
  <2> QED BY <2>1 DEF CountInv
<1>7. ASSUME NEW s \in Signals, ColdSwap(s) PROVE CountInv'
  <2>1. /\ Taken' = Taken /\ Ended' = Ended \cup {s} /\ s \notin Ended
    BY <1>7, ColdFacts DEF Taken, Ended
  <2>2. Cardinality(Ended') = Cardinality(Ended) + 1
    BY <2>1, OneMore DEF Ended
  <2>3. metrics' = Finished(metrics)
    BY <1>7 DEF ColdSwap
  <2>4. /\ metrics'.received = metrics.received
        /\ metrics'.fallbacks = metrics.fallbacks + 1
    BY <1>1, <2>3, MetricsShape
  <2> QED BY <2>1, <2>2, <2>4 DEF CountInv
<1>8. CASE \/ \E r \in Rules : UpdatePolicy(r)
           \/ \E b \in BOOLEAN : SetEnabled(b)
           \/ Cleanup \/ KillSwitch \/ Tick \/ UNCHANGED vars
  BY <1>2, <1>8 DEF UpdatePolicy, SetEnabled, Cleanup, KillSwitch, Tick, vars
<1> QED BY <1>3, <1>4, <1>5, <1>6, <1>7, <1>8 DEF Next, Process

LEMMA InitCount == Init => CountInv
<1> SUFFICES ASSUME Init PROVE CountInv
  OBVIOUS
<1>1. Taken = {} /\ Ended = {}
  BY Defaults DEF Init, Taken, Ended
<1> QED BY <1>1, FS_EmptySet DEF Init, CountInv

(* Between what was received and what fell back are the signals in flight   *)
(* and no other, for any number of signals in any order.                    *)
THEOREM EverySignalIsCounted == Spec => []SignalsAreCounted
<1>1. PathInv /\ CountInv => SignalsAreCounted
  <2> SUFFICES ASSUME PathInv, CountInv PROVE SignalsAreCounted
    OBVIOUS
  <2> DEFINE Flying == {s \in Signals : InFlight(s)}
  <2>1. Flying = Taken \ Ended /\ Ended = Taken \cap Ended
    BY DEF InFlight, Taken, Ended
  <2>2. IsFiniteSet(Taken)
    BY ActorsAssumption, FS_Subset DEF Taken
  <2>3. Cardinality(Taken \ Ended) = Cardinality(Taken) - Cardinality(Taken \cap Ended)
    BY <2>2, FS_Difference
  <2>4. Cardinality(Taken) \in Nat /\ Cardinality(Ended) \in Nat
    BY <2>1, <2>2, FS_Intersection, FS_CardinalityType
  <2> QED BY <2>1, <2>3, <2>4 DEF SignalsAreCounted, CountInv, Ended
<1>2. Spec => []CountInv
  BY InitCount, PathHolds, CountsHold, PTL DEF Spec
<1> QED BY <1>1, <1>2, PathHolds, PTL

-----------------------------------------------------------------------------
(* The list of templates *)

(* q is s without what is in old, in the same order: at[n] is the place in  *)
(* the first i of s where the n-th of q was.                                *)
Places(s, old, q, i, at) ==
    /\ at \in [1..Len(q) -> 1..i]
    /\ \A m, n \in 1..Len(q) : m < n => at[m] < at[n]
    /\ \A n \in 1..Len(q) : q[n] = s[at[n]] /\ s[at[n]] \notin old
    /\ \A j \in 1..i : s[j] \notin old => \E n \in 1..Len(q) : at[n] = j
Leaves(s, old, q, i) == \E at : Places(s, old, q, i, at)

(* One entry more that is deleted. *)
LEMMA LeavesLess ==
    ASSUME NEW D, NEW s \in Seq(D), NEW old, NEW q \in Seq(D), NEW i \in 1..Len(s),
           Leaves(s, old, q, i - 1), s[i] \in old
    PROVE  Leaves(s, old, q, i)
<1>1. PICK at : Places(s, old, q, i - 1, at)
    BY DEF Leaves
<1>2. i \in Nat /\ i - 1 \in Nat /\ 1..(i - 1) \subseteq 1..i /\ \A j \in 1..i : j \in 1..(i - 1) \/ j = i
    OBVIOUS
<1>3. at \in [1..Len(q) -> 1..i]
    BY <1>1, <1>2 DEF Places
<1>4. \A j \in 1..i : s[j] \notin old => \E n \in 1..Len(q) : at[n] = j
    BY <1>1, <1>2 DEF Places
<1>5. Places(s, old, q, i, at)
    BY <1>1, <1>3, <1>4 DEF Places
<1> QED
    BY <1>5 DEF Leaves

(* One entry more that stays. *)
LEMMA LeavesMore ==
    ASSUME NEW D, NEW s \in Seq(D), NEW old, NEW q \in Seq(D), NEW i \in 1..Len(s),
           Leaves(s, old, q, i - 1), s[i] \notin old
    PROVE  Leaves(s, old, Append(q, s[i]), i)
<1>1. PICK at : Places(s, old, q, i - 1, at)
    BY DEF Leaves
<1> DEFINE l == Len(q)
           r == Append(q, s[i])
           new == [n \in 1..(l + 1) |-> IF n = l + 1 THEN i ELSE at[n]]
<1>2. l \in Nat /\ i \in Nat /\ s[i] \in D
    OBVIOUS
<1>3. Len(r) = l + 1 /\ r[l + 1] = s[i] /\ \A n \in 1..l : r[n] = q[n]
    BY <1>2
<1>4. \A n \in 1..(l + 1) : n = l + 1 \/ n \in 1..l
    BY <1>2
<1>5. \A n \in 1..l : at[n] \in 1..(i - 1) /\ new[n] = at[n] /\ n # l + 1
    BY <1>1, <1>2 DEF Places
<1>6. new[l + 1] = i /\ l + 1 \in 1..(l + 1) /\ i \in 1..i
    BY <1>2
<1>7. new \in [1..(l + 1) -> 1..i]
    <2>1. ASSUME NEW n \in 1..(l + 1) PROVE new[n] \in 1..i
        <3>1. 1..(i - 1) \subseteq 1..i
            BY <1>2
        <3> HIDE DEF new, l
        <3> QED
            BY <1>4, <1>5, <1>6, <3>1
    <2> HIDE DEF l
    <2> QED
        BY <2>1
<1> HIDE DEF l, r, new
<1>8. ASSUME NEW m \in 1..(l + 1), NEW n \in 1..(l + 1), m < n PROVE new[m] < new[n]
    <2>1. m \in 1..l
        BY <1>2, <1>8
    <2>2. CASE n = l + 1
        BY <1>2, <1>5, <1>6, <2>1, <2>2
    <2>3. CASE n \in 1..l
        <3>1. at[m] < at[n]
            BY <1>1, <1>8, <2>1, <2>3 DEF Places, l
        <3> QED
            BY <1>5, <2>1, <2>3, <3>1
    <2> QED
        BY <1>4, <2>2, <2>3
<1>9. ASSUME NEW n \in 1..(l + 1) PROVE r[n] = s[new[n]] /\ s[new[n]] \notin old
    <2>1. CASE n = l + 1
        BY <1>3, <1>6, <2>1
    <2>2. CASE n \in 1..l
        <3>1. q[n] = s[at[n]] /\ s[at[n]] \notin old
            BY <1>1, <2>2 DEF Places, l
        <3> QED
            BY <1>3, <1>5, <2>2, <3>1
    <2> QED
        BY <1>4, <2>1, <2>2
<1>10. ASSUME NEW j \in 1..i, s[j] \notin old PROVE \E n \in 1..(l + 1) : new[n] = j
    <2>1. CASE j = i
        BY <1>6, <2>1
    <2>2. CASE j # i
        <3>1. j \in 1..(i - 1)
            BY <1>2, <2>2
        <3>2. PICK n \in 1..l : at[n] = j
            BY <1>1, <1>10, <3>1 DEF Places, l
        <3>3. n \in 1..(l + 1)
            BY <1>2
        <3> QED
            BY <1>5, <3>2, <3>3
    <2> QED
        BY <2>1, <2>2
<1>11. Places(s, old, r, i, new)
    BY <1>3, <1>7, <1>8, <1>9, <1>10 DEF Places
<1> QED
    BY <1>11 DEF Leaves, r

(* Deleting keeps the order of the rest, and all of it. *)
LEMMA UnlistedLeaves ==
    ASSUME NEW D, NEW s \in Seq(D), NEW old
    PROVE  Unlisted(s, old) \in Seq(D) /\ Leaves(s, old, Unlisted(s, old), Len(s))
<1> DEFINE L == Len(s)
           Q == Seq(D)
           Step(g, i) == IF i = 0 THEN << >> ELSE IF s[i] \in old THEN g[i - 1] ELSE Append(g[i - 1], s[i])
           Body(i, q) == IF s[i] \in old THEN q ELSE Append(q, s[i])
           G == [z \in Nat \X Q |-> IF z[1] \in 1..L THEN Body(z[1], z[2]) ELSE z[2]]
           kept == CHOOSE g : g = [i \in 0..L |-> Step(g, i)]
<1>1. L \in Nat /\ << >> \in Q /\ \A i \in 1..L : s[i] \in D
    OBVIOUS
<1>2. ASSUME NEW i \in 1..L, NEW q \in Q PROVE Body(i, q) \in Q
    <2>1. Append(q, s[i]) \in Q
        BY <1>1
    <2> QED
        BY <2>1
<1>3. G \in [Nat \X Q -> Q]
    <2> HIDE DEF Body, Q
    <2> QED
        BY <1>2
<1>4. PICK g \in [0..L -> Q] : \A i \in 0..L : g[i] = IF i = 0 THEN << >> ELSE G[<<i, g[i - 1]>>]
    <2>1. 0 \in Nat /\ 0 <= L
        BY <1>1
    <2> HIDE DEF G, L, Q
    <2>2. Recursion(Q, << >>, 0, G, L)
        BY <1>1, <1>3, <2>1, RecursionExists
    <2> QED
        BY <2>2 DEF Recursion
<1>5. g = [i \in 0..L |-> Step(g, i)]
    <2>1. ASSUME NEW i \in 0..L PROVE g[i] = Step(g, i)
        <3>1. CASE i = 0
            BY <1>4, <3>1
        <3>2. CASE i # 0
            <4>1. i - 1 \in 0..L /\ i \in 1..L /\ i \in Nat
                BY <1>1, <3>2
            <4>2. g[i - 1] \in Q /\ g[i] = G[<<i, g[i - 1]>>]
                BY <1>4, <3>2, <4>1
            <4>3. G[<<i, g[i - 1]>>] = Body(i, g[i - 1])
                <5> HIDE DEF Body, Q
                <5> QED
                    BY <4>1, <4>2
            <4> QED
                BY <3>2, <4>2, <4>3, Zenon
        <3> QED
            BY <3>1, <3>2
    <2> HIDE DEF Step, Q
    <2> QED
        BY <1>4, <2>1
<1>6. kept = [i \in 0..L |-> Step(kept, i)]
    <2> HIDE DEF Step
    <2> QED
        BY <1>5
<1>7. Unlisted(s, old) = kept[L]
    BY DEF Unlisted
<1> HIDE DEF kept
<1>8. \A i \in 0..L : kept[i] = Step(kept, i)
    <2> HIDE DEF Step, L
    <2> QED
        BY <1>6
<1> DEFINE Good(i) == kept[i] \in Q /\ Leaves(s, old, kept[i], i)
           good == [i \in 0..L |-> IF Good(i) THEN 1 ELSE 0]
<1>9. Good(0)
    <2>1. kept[0] = << >>
        <3>1. 0 \in 0..L /\ Step(kept, 0) = << >>
            BY <1>1
        <3> HIDE DEF Step
        <3> QED
            BY <1>8, <3>1
    <2>2. Places(s, old, << >>, 0, << >>)
        <3>1. Len(<< >>) = 0 /\ 1..0 = {} /\ << >> \in [{} -> {}]
            OBVIOUS
        <3> QED
            BY <3>1 DEF Places
    <2> QED
        BY <1>1, <2>1, <2>2 DEF Leaves
<1>10. ASSUME NEW i \in 1..L, Good(i - 1) PROVE Good(i)
    <2> DEFINE q == kept[i - 1]
    <2>1. q \in Q /\ Leaves(s, old, q, i - 1) /\ i \in 0..L /\ i # 0
        BY <1>10
    <2>2. kept[i] = IF s[i] \in old THEN q ELSE Append(q, s[i])
        BY <1>8, <2>1
    <2> HIDE DEF q
    <2>3. CASE s[i] \in old
        <3>1. Leaves(s, old, q, i)
            BY <2>1, <2>3, LeavesLess
        <3> QED
            BY <2>1, <2>2, <2>3, <3>1
    <2>4. CASE s[i] \notin old
        <3>1. Leaves(s, old, Append(q, s[i]), i)
            BY <2>1, <2>4, LeavesMore
        <3>2. Append(q, s[i]) \in Q
            BY <1>1, <2>1
        <3> QED
            BY <2>2, <2>4, <3>1, <3>2
    <2> QED
        BY <2>3, <2>4
<1>11. \A i \in 0..L : good[i] \in {1}
    <2>1. \A i \in 0..L : i # 0 /\ good[i - 1] \in {1} => good[i] \in {1}
        <3> SUFFICES ASSUME NEW i \in 0..L, i # 0, good[i - 1] \in {1} PROVE good[i] \in {1}
            OBVIOUS
        <3>1. i - 1 \in 0..L /\ i \in 1..L
            BY <1>1
        <3>2. Good(i - 1)
            <4> HIDE DEF Good
            <4> QED
                BY <3>1
        <3>3. Good(i)
            BY <1>10, <3>1, <3>2
        <3> HIDE DEF Good
        <3> QED
            BY <3>3
    <2>2. 0 <= L => good[0] \in {1}
        <3>1. 0 \in 0..L
            BY <1>1
        <3> HIDE DEF Good
        <3> QED
            BY <1>9, <3>1
    <2>3. 0 \in Nat /\ L \in Int
        BY <1>1
    <2> HIDE DEF good, L
    <2> QED
        BY <2>1, <2>2, <2>3, AlongRange, Zenon
<1>12. Good(L)
    <2>1. L \in 0..L
        BY <1>1
    <2> HIDE DEF Good, L
    <2> QED
        BY <1>11, <2>1
<1> QED
    BY <1>7, <1>12

(* A list of D names each of its members once; it is sorted when what is    *)
(* further back was used no earlier.                                        *)
Lists(s, D) ==
    /\ s \in Seq(D)
    /\ \A m, n \in 1..Len(s) : m < n => s[m] # s[n]
    /\ \A d \in D : \E n \in 1..Len(s) : s[n] = d
Sorted(s, f) == \A m, n \in 1..Len(s) : m < n => f[s[m]].used <= f[s[n]].used

LEMMA ListsLength ==
    ASSUME NEW D, NEW s, Lists(s, D)
    PROVE  IsFiniteSet(D) /\ Len(s) = Cardinality(D) /\ Len(s) \in Nat
<1>1. s \in Seq(D) /\ Len(s) \in Nat /\ s \in [1..Len(s) -> D]
    BY DEF Lists
<1>2. s \in Bijection(1..Len(s), D)
    <2>1. s \in Surjection(1..Len(s), D)
        BY <1>1 DEF Lists, Surjection
    <2>2. s \in Injection(1..Len(s), D)
        <3> SUFFICES ASSUME NEW m \in 1..Len(s), NEW n \in 1..Len(s), m # n PROVE s[m] # s[n]
            BY <1>1 DEF Injection, IsInjective
        <3>1. m < n \/ n < m
            BY <1>1
        <3> QED
            BY <3>1 DEF Lists
    <2> QED
        BY <2>1, <2>2 DEF Bijection
<1>3. IsFiniteSet(1..Len(s)) /\ Cardinality(1..Len(s)) = Len(s)
    <2> DEFINE l == Len(s)
    <2>1. l \in Nat
        BY <1>1
    <2> HIDE DEF l
    <2>2. IsFiniteSet(1..l) /\ Cardinality(1..l) = l
        BY <2>1, FS_Interval
    <2> QED
        BY <2>2 DEF l
<1>4. ExistsBijection(1..Len(s), D)
    BY <1>2 DEF ExistsBijection
<1> QED
    BY <1>1, <1>3, <1>4, FS_Bijection, Zenon

(* Deleting from a list leaves one of what is not deleted, as sorted as it was. *)
LEMMA UnlistedLists ==
    ASSUME NEW D, NEW s, Lists(s, D), NEW f, Sorted(s, f), NEW old
    PROVE  /\ Lists(Unlisted(s, old), D \ old) /\ Sorted(Unlisted(s, old), f)
           /\ Len(Unlisted(s, old)) <= Len(s)
<1> DEFINE q == Unlisted(s, old)
<1>1. s \in Seq(D) /\ Len(s) \in Nat
    BY DEF Lists
<1>2. q \in Seq(D) /\ Leaves(s, old, q, Len(s))
    BY <1>1, UnlistedLeaves
<1> HIDE DEF q
<1>3. PICK at : Places(s, old, q, Len(s), at)
    BY <1>2 DEF Leaves
<1>4. \A n \in 1..Len(q) : at[n] \in 1..Len(s) /\ q[n] = s[at[n]] /\ q[n] \in D \ old
    BY <1>1, <1>3 DEF Places
<1>5. q \in Seq(D \ old)
    <2>1. Len(q) \in Nat /\ q \in [1..Len(q) -> D]
        BY <1>2
    <2>2. q \in [1..Len(q) -> D \ old]
        BY <1>4, <2>1
    <2> QED
        BY <2>1, <2>2
<1>6. \A m, n \in 1..Len(q) : m < n => q[m] # q[n] /\ f[q[m]].used <= f[q[n]].used
    <2> SUFFICES ASSUME NEW m \in 1..Len(q), NEW n \in 1..Len(q), m < n
                 PROVE  q[m] # q[n] /\ f[q[m]].used <= f[q[n]].used
        OBVIOUS
    <2>1. at[m] < at[n] /\ at[m] \in 1..Len(s) /\ at[n] \in 1..Len(s)
        BY <1>3, <1>4 DEF Places
    <2>2. s[at[m]] # s[at[n]] /\ f[s[at[m]]].used <= f[s[at[n]]].used
        BY <2>1 DEF Lists, Sorted
    <2> QED
        BY <1>4, <2>2
<1>7. ASSUME NEW d \in D \ old PROVE \E n \in 1..Len(q) : q[n] = d
    <2>1. PICK j \in 1..Len(s) : s[j] = d
        BY DEF Lists
    <2>2. PICK n \in 1..Len(q) : at[n] = j
        BY <1>3, <2>1 DEF Places
    <2> QED
        BY <1>4, <2>1, <2>2
<1>8. Lists(q, D \ old) /\ Sorted(q, f)
    BY <1>5, <1>6, <1>7 DEF Lists, Sorted
<1>9. Len(q) <= Len(s)
    <2>1. IsFiniteSet(D) /\ Len(s) = Cardinality(D)
        BY ListsLength
    <2>2. Len(q) = Cardinality(D \ old)
        BY <1>8, ListsLength
    <2>3. Cardinality(D \ old) <= Cardinality(D)
        BY <2>1, FS_Subset
    <2> QED
        BY <2>1, <2>2, <2>3
<1> QED
    BY <1>8, <1>9 DEF q

(* What was used last goes to the end. *)
LEMMA AppendLists ==
    ASSUME NEW D, NEW s, Lists(s, D), NEW f, Sorted(s, f), NEW k, k \notin D,
           \A d \in D : f[d].used <= f[k].used
    PROVE  Lists(Append(s, k), D \cup {k}) /\ Sorted(Append(s, k), f)
<1> DEFINE a == Append(s, k)
           l == Len(s)
<1>1. s \in Seq(D) /\ l \in Nat /\ \A n \in 1..l : s[n] \in D
    BY DEF Lists
<1>2. s \in Seq(D \cup {k})
    <2>1. s \in [1..l -> D]
        BY <1>1
    <2>2. s \in [1..l -> D \cup {k}]
        BY <2>1
    <2> QED
        BY <1>1, <2>2
<1>3. a \in Seq(D \cup {k}) /\ Len(a) = l + 1 /\ a[l + 1] = k /\ \A n \in 1..l : a[n] = s[n]
    BY <1>1, <1>2
<1> HIDE DEF a, l
<1>4. \A n \in 1..(l + 1) : n \in 1..l \/ n = l + 1
    BY <1>1
<1>5. \A m, n \in 1..(l + 1) : m < n => m \in 1..l
    BY <1>1
<1>6. \A m, n \in 1..(l + 1) : m < n => a[m] # a[n] /\ f[a[m]].used <= f[a[n]].used
    <2> SUFFICES ASSUME NEW m \in 1..(l + 1), NEW n \in 1..(l + 1), m < n
                 PROVE  a[m] # a[n] /\ f[a[m]].used <= f[a[n]].used
        OBVIOUS
    <2>1. m \in 1..l /\ a[m] = s[m] /\ s[m] \in D
        BY <1>1, <1>3, <1>5
    <2>2. CASE n = l + 1
        BY <1>3, <2>1, <2>2
    <2>3. CASE n \in 1..l
        BY <1>3, <2>1, <2>3 DEF Lists, Sorted, l
    <2> QED
        BY <1>4, <2>2, <2>3
<1>7. ASSUME NEW d \in D \cup {k} PROVE \E n \in 1..(l + 1) : a[n] = d
    <2>1. CASE d = k
        BY <1>1, <1>3, <2>1
    <2>2. CASE d \in D
        <3>1. PICK n \in 1..l : s[n] = d
            BY <2>2 DEF Lists, l
        <3>2. n \in 1..(l + 1)
            BY <1>1
        <3> QED
            BY <1>3, <3>1, <3>2
    <2> QED
        BY <2>1, <2>2
<1>8. Lists(a, D \cup {k}) /\ Sorted(a, f)
    BY <1>3, <1>6, <1>7 DEF Lists, Sorted
<1> QED
    BY <1>8 DEF a

(* The least recently used leaves from the front. *)
LEMMA TailLists ==
    ASSUME NEW D, NEW s, Lists(s, D), NEW f, Sorted(s, f), s # << >>
    PROVE  /\ Lists(Tail(s), D \ {Head(s)}) /\ Sorted(Tail(s), f)
           /\ Len(Tail(s)) = Len(s) - 1 /\ Head(s) \in D
<1> DEFINE q == Tail(s)
           l == Len(s)
<1>1. s \in Seq(D) /\ l \in Nat \ {0} /\ Head(s) = s[1] /\ \A n \in 1..l : s[n] \in D
    BY DEF Lists
<1>2. q \in Seq(D) /\ Len(q) = l - 1 /\ \A n \in 1..(l - 1) : q[n] = s[n + 1]
    BY <1>1
<1> HIDE DEF q, l
<1>3. \A n \in 1..(l - 1) : n + 1 \in 1..l /\ 1 \in 1..l /\ 1 < n + 1
    BY <1>1
<1>4. \A n \in 1..(l - 1) : q[n] \in D \ {Head(s)}
    <2> SUFFICES ASSUME NEW n \in 1..(l - 1) PROVE s[n + 1] \in D /\ s[n + 1] # s[1]
        BY <1>1, <1>2
    <2>1. s[1] # s[n + 1]
        BY <1>3 DEF Lists, l
    <2> QED
        BY <1>1, <1>3, <2>1
<1>5. q \in Seq(D \ {Head(s)})
    <2>1. Len(q) \in Nat /\ q \in [1..Len(q) -> D]
        BY <1>2
    <2>2. q \in [1..Len(q) -> D \ {Head(s)}]
        BY <1>2, <1>4, <2>1
    <2> QED
        BY <2>1, <2>2
<1>6. \A m, n \in 1..(l - 1) : m < n => q[m] # q[n] /\ f[q[m]].used <= f[q[n]].used
    <2> SUFFICES ASSUME NEW m \in 1..(l - 1), NEW n \in 1..(l - 1), m < n
                 PROVE  s[m + 1] # s[n + 1] /\ f[s[m + 1]].used <= f[s[n + 1]].used
        BY <1>2
    <2>1. m + 1 \in 1..l /\ n + 1 \in 1..l /\ m + 1 < n + 1
        BY <1>1
    <2> QED
        BY <2>1 DEF Lists, Sorted, l
<1>7. ASSUME NEW d \in D \ {Head(s)} PROVE \E n \in 1..(l - 1) : q[n] = d
    <2>1. PICK n \in 1..l : s[n] = d
        BY DEF Lists, l
    <2>2. n # 1
        BY <1>1, <2>1
    <2>3. n - 1 \in 1..(l - 1) /\ (n - 1) + 1 = n
        BY <1>1, <2>2
    <2> QED
        BY <1>2, <2>1, <2>3
<1>8. Lists(q, D \ {Head(s)}) /\ Sorted(q, f)
    BY <1>2, <1>5, <1>6, <1>7 DEF Lists, Sorted
<1>9. Head(s) \in D
    <2>1. 1 \in 1..l
        BY <1>1
    <2> QED
        BY <1>1, <2>1
<1> QED
    BY <1>2, <1>8, <1>9 DEF q, l

(* Only the uses of what is listed matter. *)
LEMMA SortedAlike ==
    ASSUME NEW D, NEW s, Lists(s, D), NEW f, Sorted(s, f), NEW g, \A d \in D : g[d].used = f[d].used
    PROVE  Sorted(s, g)
<1>1. \A n \in 1..Len(s) : s[n] \in D
    BY DEF Lists
<1> QED
    BY <1>1 DEF Sorted

(* The list holds what the map holds, sorted by use, and nothing was used   *)
(* in the future: so what is used or compiled now belongs at the end.       *)
Cached ==
    /\ Lists(order, DOMAIN templates) /\ Sorted(order, templates) /\ Len(order) <= MaxTemplates
    /\ \A k \in DOMAIN templates : templates[k].used <= now

LEMMA UsesAreTimes ==
    ASSUME PathInv
    PROVE  now \in Nat /\ \A k \in DOMAIN templates : templates[k].used \in Nat
<1>1. now \in Nat /\ \A k \in DOMAIN templates : templates[k] \in Templates
    BY DEF PathInv, Shape
<1> QED
    BY <1>1 DEF Templates

(* A hit moves to the end. *)
LEMMA TouchedKeeps ==
    ASSUME PathInv, Cached, NEW key \in DOMAIN templates, Touched(key), UNCHANGED now
    PROVE  Cached'
<1> DEFINE D == DOMAIN templates
           q == Unlisted(order, {key})
<1>1. /\ DOMAIN templates' = D /\ templates'[key].used = now
      /\ \A d \in D \ {key} : templates'[d].used = templates[d].used
    <2>1. templates' = [templates EXCEPT ![key].used = now]
        BY DEF Touched
    <2>2. templates'[key] = [templates[key] EXCEPT !.used = now] /\ templates[key] \in Templates
        BY <2>1 DEF PathInv, Shape
    <2>3. templates'[key].used = now
        BY <2>2 DEF Templates
    <2> QED
        BY <2>1, <2>3
<1>2. Lists(order, D) /\ Sorted(order, templates) /\ \A d \in D : templates[d].used <= now
    BY DEF Cached
<1>3. order' = Append(q, key)
    BY DEF Touched
<1> HIDE DEF D, q
<1>4. Lists(q, D \ {key}) /\ Sorted(q, templates)
    BY <1>2, UnlistedLists DEF q
<1>5. Sorted(q, templates')
    BY <1>1, <1>4, SortedAlike
<1>6. \A d \in D \ {key} : templates'[d].used <= templates'[key].used
    BY <1>1, <1>2
<1>7. (D \ {key}) \cup {key} = D
    BY DEF D
<1>8. Lists(order', D) /\ Sorted(order', templates')
    <2>1. Lists(Append(q, key), (D \ {key}) \cup {key}) /\ Sorted(Append(q, key), templates')
        BY <1>4, <1>5, <1>6, AppendLists
    <2> QED
        BY <1>3, <1>7, <2>1
<1>9. Len(order') = Len(order)
    BY <1>2, <1>8, ListsLength
<1>10. \A d \in D : templates'[d].used <= now
    <2>1. now \in Nat
        BY UsesAreTimes
    <2> QED
        BY <1>1, <1>2, <2>1
<1> QED
    BY <1>1, <1>8, <1>9, <1>10 DEF Cached

(* What is compiled goes to the end, after the least recently used made     *)
(* room for it when there was none.                                         *)
LEMMA CompiledKeeps ==
    ASSUME PathInv, Cached, NEW key, NEW wallet, NEW version, Compiled(key, wallet, version), UNCHANGED now
    PROVE  Cached'
<1> DEFINE D == DOMAIN templates \ {key}
           queue == Unlisted(order, {key})
           full == Cardinality(D) >= MaxTemplates
           victims == IF full /\ queue # << >> THEN {Head(queue)} ELSE {}
           rest == IF victims = {} THEN queue ELSE Tail(queue)
           t == Template(wallet, version)
<1>1. /\ templates' = [k \in (D \ victims) \cup {key} |-> IF k = key THEN t ELSE Without(key)[k]]
      /\ order' = Append(rest, key)
    <2>1. DOMAIN Without(key) = D
        BY DEF Without
    <2> QED
        BY <2>1 DEF Compiled
<1>2. \A k \in D : Without(key)[k] = templates[k]
    BY DEF Without
<1>3. t.used = now
    BY DEF Template
<1>4. Lists(queue, D) /\ Sorted(queue, templates)
    BY UnlistedLists DEF Cached
<1>5. key \notin D /\ \A k \in D : templates[k].used <= now /\ templates[k].used \in Nat
    BY UsesAreTimes DEF Cached
<1>6. now \in Nat /\ MaxTemplates \in Nat \ {0}
    BY UsesAreTimes, FastPathAssumption
<1> HIDE DEF D, queue, t
<1>7. Len(queue) = Cardinality(D) /\ Len(queue) \in Nat
    BY <1>4, ListsLength
<1>8. \/ Len(queue) # 0 /\ victims = {Head(queue)} /\ rest = Tail(queue)
      \/ Cardinality(D) < MaxTemplates /\ victims = {} /\ rest = queue
    <2>1. CASE full
        <3>1. Len(queue) # 0 /\ queue # << >>
            BY <1>6, <1>7, <2>1
        <3>2. victims = {Head(queue)} /\ rest = Tail(queue)
            BY <2>1, <3>1
        <3> QED
            BY <3>1, <3>2
    <2>2. CASE ~full
        <3>1. Cardinality(D) < MaxTemplates
            BY <1>6, <1>7, <2>2
        <3>2. victims = {} /\ rest = queue
            BY <2>2
        <3> QED
            BY <3>1, <3>2
    <2> QED
        BY <2>1, <2>2
<1> HIDE DEF victims, rest
<1>9. Lists(rest, D \ victims) /\ Sorted(rest, templates) /\ Len(rest) \in Nat /\ Len(rest) + 1 <= MaxTemplates
    <2>1. CASE Len(queue) # 0 /\ victims = {Head(queue)} /\ rest = Tail(queue)
        <3>1. queue # << >>
            BY <2>1
        <3>2. /\ Lists(Tail(queue), D \ {Head(queue)}) /\ Sorted(Tail(queue), templates)
              /\ Len(Tail(queue)) = Len(queue) - 1
            BY <1>4, <3>1, TailLists
        <3>3. Len(order) <= MaxTemplates /\ Len(queue) <= Len(order) /\ Len(order) \in Nat
            BY UnlistedLists, ListsLength DEF Cached, queue
        <3>4. Lists(rest, D \ victims) /\ Sorted(rest, templates) /\ Len(rest) = Len(queue) - 1
            BY <2>1, <3>2, Zenon
        <3>5. Len(rest) \in Nat /\ Len(rest) + 1 <= MaxTemplates
            BY <1>6, <1>7, <2>1, <3>3, <3>4
        <3> QED
            BY <3>4, <3>5
    <2>2. CASE Cardinality(D) < MaxTemplates /\ victims = {} /\ rest = queue
        <3>1. D \ victims = D
            BY <2>2
        <3>2. Len(queue) + 1 <= MaxTemplates
            BY <1>6, <1>7, <2>2
        <3> QED
            BY <1>4, <1>7, <2>2, <3>1, <3>2
    <2> QED
        BY <1>8, <2>1, <2>2
<1>10. /\ DOMAIN templates' = (D \ victims) \cup {key} /\ templates'[key].used = now
      /\ \A d \in D \ victims : templates'[d].used = templates[d].used
    BY <1>1, <1>2, <1>3, <1>5
<1>11. Sorted(rest, templates')
    BY <1>9, <1>10, SortedAlike
<1>12. \A d \in D \ victims : templates'[d].used <= templates'[key].used
    BY <1>5, <1>10
<1>13. Lists(order', DOMAIN templates') /\ Sorted(order', templates')
    <2>1. key \notin D \ victims
        BY <1>5
    <2>2. Lists(Append(rest, key), (D \ victims) \cup {key}) /\ Sorted(Append(rest, key), templates')
        BY <1>9, <1>11, <1>12, <2>1, AppendLists
    <2> QED
        BY <1>1, <1>10, <2>2
<1>14. Len(order') <= MaxTemplates
    <2>1. rest \in Seq(D \ victims)
        BY <1>9 DEF Lists
    <2>2. Len(Append(rest, key)) = Len(rest) + 1
        BY <2>1
    <2> QED
        BY <1>1, <1>9, <2>2
<1>15. \A k \in DOMAIN templates' : templates'[k].used <= now
    BY <1>5, <1>6, <1>10
<1> QED
    BY <1>13, <1>14, <1>15 DEF Cached

LEMMA AdmitCaches ==
    ASSUME PathInv, Cached, NEW s \in Signals, Admit(s)
    PROVE  Cached'
<1> DEFINE key == <<SelectDex(Consulted), sig[s].token, sig[s].side>>
           v == Consulted.version
<1>1. (Hit(key, v) /\ Touched(key)) \/ Compiled(key, sig[s].tier, v)
    BY DEF Admit
<1>2. UNCHANGED now
    BY DEF Admit
<1> HIDE DEF key, v
<1>3. CASE Hit(key, v) /\ Touched(key)
    <2>1. key \in DOMAIN templates
        BY <1>3 DEF Hit
    <2> QED
        BY <1>2, <1>3, <2>1, TouchedKeeps
<1>4. CASE Compiled(key, sig[s].tier, v)
    BY <1>2, <1>4, CompiledKeeps
<1> QED
    BY <1>1, <1>3, <1>4

LEMMA CleanupCaches ==
    ASSUME PathInv, Cached, Cleanup
    PROVE  Cached'
<1> DEFINE old == {k \in DOMAIN templates : now - templates[k].at > Ttl}
           D == DOMAIN templates
           q == Unlisted(order, old)
<1>1. templates' = [k \in D \ old |-> templates[k]] /\ order' = q /\ UNCHANGED now
    BY DEF Cleanup
<1> HIDE DEF old, D, q
<1>2. DOMAIN templates' = D \ old /\ \A d \in D \ old : templates'[d] = templates[d]
    BY <1>1
<1>3. Lists(q, D \ old) /\ Sorted(q, templates) /\ Len(q) <= Len(order)
    BY UnlistedLists DEF Cached, D, q
<1>4. Sorted(q, templates')
    BY <1>2, <1>3, SortedAlike
<1>5. Len(q) <= MaxTemplates
    <2>1. Len(q) \in Nat /\ Len(order) \in Nat /\ Len(order) <= MaxTemplates
        BY <1>3, ListsLength DEF Cached
    <2> QED
        BY <1>3, <2>1, FastPathAssumption
<1> QED
    BY <1>1, <1>2, <1>3, <1>4, <1>5 DEF Cached, D

LEMMA CachedStep == PathInv /\ Cached /\ [Next]_vars => Cached'
<1> SUFFICES ASSUME PathInv, Cached, [Next]_vars PROVE Cached'
    OBVIOUS
<1>1. CASE UNCHANGED <<templates, order, now>>
    BY <1>1 DEF Cached
<1>2. CASE \E r \in Rules : UpdatePolicy(r)
    BY <1>1, <1>2 DEF UpdatePolicy
<1>3. CASE \E b \in BOOLEAN : SetEnabled(b)
    BY <1>1, <1>3 DEF SetEnabled
<1>4. CASE \E s \in Signals, j \in Jobs : Raise(s, j)
    BY <1>1, <1>4 DEF Raise
<1>5. ASSUME NEW s \in Signals, Process(s) PROVE Cached'
    <2>1. CASE Admit(s)
        BY <2>1, AdmitCaches
    <2>2. CASE Refuse(s)
        BY <1>1, <2>2 DEF Refuse
    <2>3. CASE Broadcast(s)
        BY <1>1, <2>3 DEF Broadcast
    <2>4. CASE ColdSwap(s)
        BY <1>1, <2>4 DEF ColdSwap
    <2> QED
        BY <1>5, <2>1, <2>2, <2>3, <2>4 DEF Process
<1>6. CASE Tick
    <2>1. UNCHANGED <<templates, order>> /\ now' = now + 1
        BY <1>6 DEF Tick
    <2>2. \A k \in DOMAIN templates : templates[k].used <= now'
        <3>1. \A k \in DOMAIN templates : templates[k].used <= now /\ templates[k].used \in Nat
            BY UsesAreTimes DEF Cached
        <3> QED
            BY <2>1, <3>1, UsesAreTimes
    <2> QED
        BY <2>1, <2>2 DEF Cached
<1>7. CASE KillSwitch \/ UNCHANGED vars
    BY <1>1, <1>7 DEF KillSwitch, vars
<1> QED
    BY <1>2, <1>3, <1>4, <1>5, <1>6, <1>7, CleanupCaches DEF Next

LEMMA InitCached == Init => Cached
<1> SUFFICES ASSUME Init PROVE Cached
    OBVIOUS
<1>1. order = << >> /\ DOMAIN templates = {} /\ Len(order) = 0
    BY DEF Init
<1>2. order \in Seq({}) /\ 1..Len(order) = {}
    BY <1>1
<1> QED
    BY <1>1, <1>2, FastPathAssumption DEF Cached, Lists, Sorted

(* The rest of TypeOK: a raised signal is about a token and has a side, so  *)
(* that what is compiled for it has a key.                                  *)
Typed ==
    /\ policy.version <= MaxVersion /\ known.version <= MaxVersion
    /\ enabled \in BOOLEAN /\ halted \in BOOLEAN /\ now <= Horizon
    /\ DOMAIN templates \subseteq Keys
    /\ \A s \in Signals : sig[s].state = "raised" => sig[s].token \in Tokens /\ sig[s].side \in Sides

LEMMA ProcessTyped ==
    ASSUME PathInv, Typed, NEW s \in Signals, Process(s)
    PROVE  Typed'
<1>1. UNCHANGED <<policy, enabled, halted, now>>
    BY DEF Process, Refuse, Admit, Broadcast, ColdSwap
<1>2. sig'[s].state # "raised" /\ \A r \in Signals : r # s => sig'[r] = sig[r]
    BY RefuseFacts, AdmitFacts, BroadcastFacts, ColdFacts DEF Process
<1>3. \A r \in Signals : sig'[r].state = "raised" => sig'[r].token \in Tokens /\ sig'[r].side \in Sides
    BY <1>2 DEF Typed
<1>4. known'.version <= MaxVersion
    <2>1. known' \in {known, Consulted}
        BY DEF Process, Refuse, Admit, Broadcast, ColdSwap
    <2>2. Consulted \in {policy, known}
        BY DEF Consulted
    <2> QED
        BY <2>1, <2>2 DEF Typed
<1>5. DOMAIN templates' \subseteq Keys
    <2>1. CASE Admit(s)
        <3> DEFINE key == <<SelectDex(Consulted), sig[s].token, sig[s].side>>
        <3>1. key \in Keys
            <4>1. SelectDex(Consulted) # "none" /\ sig[s].state = "raised"
                BY <2>1 DEF Admit
            <4>2. SelectDex(Consulted) \in Dexes
                BY <4>1 DEF SelectDex, Dexes
            <4> QED
                BY <4>1, <4>2 DEF Typed, Keys
        <3>2. DOMAIN templates' \subseteq DOMAIN templates \cup {key}
            <4>1. Touched(key) \/ Compiled(key, sig[s].tier, Consulted.version)
                BY <2>1 DEF Admit
            <4> HIDE DEF key
            <4> QED
                BY <4>1 DEF Touched, Compiled, Without
        <3> HIDE DEF key
        <3> QED
            BY <3>1, <3>2 DEF Typed
    <2>2. CASE Refuse(s) \/ Broadcast(s) \/ ColdSwap(s)
        BY <2>2 DEF Refuse, Broadcast, ColdSwap, Typed
    <2> QED
        BY <2>1, <2>2 DEF Process
<1> QED
    BY <1>1, <1>3, <1>4, <1>5 DEF Typed

LEMMA TypedStep == PathInv /\ Typed /\ [Next]_vars => Typed'
<1> SUFFICES ASSUME PathInv, Typed, [Next]_vars PROVE Typed'
    OBVIOUS
<1>1. policy.version \in Nat /\ known.version \in Nat
    BY DEF PathInv, Shape, Policies
<1>2. ASSUME NEW r \in Rules, UpdatePolicy(r) PROVE Typed'
    <2> DEFINE p == [version |-> policy.version + 1, blocked |-> r.blocked, dexes |-> r.dexes]
    <2>1. policy' = p /\ known' \in {p, known} /\ policy.version < MaxVersion
          /\ UNCHANGED <<enabled, templates, sig, halted, now>>
        BY <1>2 DEF UpdatePolicy, Push
    <2>2. p.version = policy.version + 1
        OBVIOUS
    <2>3. p.version <= MaxVersion
        BY <1>1, <2>1, <2>2, FastPathAssumption
    <2> HIDE DEF p
    <2> QED
        BY <2>1, <2>3 DEF Typed
<1>3. ASSUME NEW b \in BOOLEAN, SetEnabled(b) PROVE Typed'
    <2>1. enabled' = b /\ known' \in {policy, known} /\ UNCHANGED <<policy, templates, sig, halted, now>>
        BY <1>3 DEF SetEnabled, Refreshed, Notified
    <2> QED
        BY <2>1 DEF Typed
<1>4. ASSUME NEW s \in Signals, NEW j \in Jobs, Raise(s, j) PROVE Typed'
    <2>1. UNCHANGED <<policy, known, enabled, templates, halted, now>>
        BY <1>4 DEF Raise
    <2>2. sig'[s].token = j.token /\ sig'[s].side = j.side
        <3>1. sig \in [Signals -> Records]
            BY DEF PathInv, Shape
        <3> DEFINE new == [Unborn EXCEPT !.state = "raised", !.token = j.token, !.side = j.side,
                                         !.tier = j.tier, !.producer = j.producer, !.version = policy.version]
        <3>2. sig' = [sig EXCEPT ![s] = new]
            BY <1>4 DEF Raise
        <3>3. new.token = j.token /\ new.side = j.side
            BY DEF Unborn
        <3> HIDE DEF new
        <3> QED
            BY <3>1, <3>2, <3>3
    <2>3. j.token \in Tokens /\ j.side \in Sides
        BY DEF Jobs
    <2>4. \A r \in Signals : r # s => sig'[r] = sig[r]
        BY <1>4, RaiseFacts
    <2> QED
        BY <2>1, <2>2, <2>3, <2>4 DEF Typed
<1>5. CASE Cleanup
    <2>1. UNCHANGED <<policy, known, enabled, sig, halted, now>> /\ DOMAIN templates' \subseteq DOMAIN templates
        BY <1>5 DEF Cleanup
    <2> QED
        BY <2>1 DEF Typed
<1>6. CASE KillSwitch
    <2>1. halted' \in BOOLEAN /\ UNCHANGED <<policy, known, enabled, templates, sig, now>>
        BY <1>6 DEF KillSwitch
    <2> QED
        BY <2>1 DEF Typed
<1>7. CASE Tick
    <2>1. now' <= Horizon
        BY <1>7, FastPathAssumption DEF Tick, PathInv, Shape
    <2>2. UNCHANGED <<policy, known, enabled, templates, sig, halted>>
        BY <1>7 DEF Tick
    <2> QED
        BY <2>1, <2>2 DEF Typed
<1>8. CASE UNCHANGED vars
    BY <1>8 DEF vars, Typed
<1> QED
    BY <1>2, <1>3, <1>4, <1>5, <1>6, <1>7, <1>8, ProcessTyped DEF Next

LEMMA InitTyped == Init => Typed
<1> SUFFICES ASSUME Init PROVE Typed
    OBVIOUS
<1>1. /\ policy.version = 0 /\ known.version = 0 /\ enabled \in BOOLEAN /\ halted = FALSE /\ now = 0
      /\ DOMAIN templates = {} /\ \A s \in Signals : sig[s].state = "unborn"
    BY Defaults DEF Init
<1>2. policy.version <= MaxVersion /\ known.version <= MaxVersion /\ now <= Horizon
    BY <1>1, FastPathAssumption
<1>3. halted \in BOOLEAN /\ DOMAIN templates \subseteq Keys
    BY <1>1
<1>4. \A s \in Signals : sig[s].state # "raised"
    BY <1>1
<1> QED
    BY <1>1, <1>2, <1>3, <1>4, Zenon DEF Typed

(* Policies, templates and signals are what they are taken for; the access  *)
(* list is one of keys, since it lists what is cached.                      *)
THEOREM TypeCorrect == Spec => []TypeOK
<1>1. PathInv /\ Cached /\ Typed => TypeOK
    <2> SUFFICES ASSUME PathInv, Cached, Typed PROVE TypeOK
        OBVIOUS
    <2>1. order \in Seq(Keys)
        <3>1. order \in Seq(DOMAIN templates) /\ DOMAIN templates \subseteq Keys
            BY DEF Cached, Lists, Typed
        <3>2. Len(order) \in Nat /\ order \in [1..Len(order) -> DOMAIN templates]
            BY <3>1
        <3>3. order \in [1..Len(order) -> Keys]
            BY <3>1, <3>2
        <3> QED
            BY <3>2, <3>3
    <2>2. policy.version \in 0..MaxVersion /\ known.version \in 0..MaxVersion /\ now \in 0..Horizon
        BY FastPathAssumption DEF PathInv, Shape, Policies, Typed
    <2>3. /\ policy.blocked \subseteq Tokens /\ policy.dexes \subseteq Dexes
          /\ known.blocked \subseteq Tokens /\ known.dexes \subseteq Dexes
        BY DEF PathInv, Shape, Policies
    <2>4. enabled \in BOOLEAN /\ subscribed \in BOOLEAN /\ halted \in BOOLEAN
        BY DEF PathInv, Informed, Typed
    <2>5. \A s \in Signals : sig[s].state \in States
        BY DEF PathInv, Shape, Records
    <2>6. DOMAIN templates \subseteq Keys
        BY DEF Typed
    <2>7. \A p \in {policy, known} : p.version \in 0..MaxVersion /\ p.blocked \subseteq Tokens /\ p.dexes \subseteq Dexes
        BY <2>2, <2>3
    <2> QED
        BY <2>1, <2>2, <2>4, <2>5, <2>6, <2>7 DEF TypeOK, States
<1> QED
    BY PathHolds, InitCached, CachedStep, InitTyped, TypedStep, <1>1, PTL DEF Spec

(* The access list names exactly the cached templates, each once, from the  *)
(* least to the most recently used, and the cache never holds more than its *)
(* capacity, however hits, recompilations, evictions and cleanups follow    *)
(* one another.                                                             *)
THEOREM TemplatesKeepOrder == Spec => []TemplatesInOrder
<1>1. Cached => TemplatesInOrder
    <2> SUFFICES ASSUME Cached PROVE TemplatesInOrder
        OBVIOUS
    <2>1. Lists(order, DOMAIN templates) /\ Sorted(order, templates) /\ Len(order) <= MaxTemplates
        BY DEF Cached
    <2>2. Len(order) = Cardinality(DOMAIN templates)
        BY <2>1, ListsLength
    <2>3. DOMAIN order = 1..Len(order)
        BY <2>1 DEF Lists
    <2>4. ToSet(order) = DOMAIN templates
        <3>1. \A n \in 1..Len(order) : order[n] \in DOMAIN templates
            BY <2>1 DEF Lists
        <3>2. \A d \in DOMAIN templates : \E n \in 1..Len(order) : order[n] = d
            BY <2>1 DEF Lists
        <3> QED
            BY <2>3, <3>1, <3>2 DEF ToSet
    <2> QED
        BY <2>1, <2>2, <2>3, <2>4 DEF TemplatesInOrder, Sorted
<1> QED
    BY PathHolds, InitCached, CachedStep, <1>1, PTL DEF Spec

-----------------------------------------------------------------------------
(* The price feed.  A source has one round at a time; what the round has    *)
(* been answered lies between what is shown and what the pools are at, so   *)
(* that showing it never goes back.                                         *)
Stages == {"idle", "asking", "answered"}
Readings == UNION {[S -> Nat] : S \in SUBSET Pools}
Polls == [at : Stages, queue : Seq(Pools), got : Readings]

(* r is a poll of d: it is about pools of d, under way only while d is      *)
(* marked, and its answer is no older than what is shown of these pools.    *)
PollGood(d, r, flying, shown, actual) ==
    /\ r \in Polls
    /\ r.queue \in Seq(PoolsOf(d)) /\ DOMAIN r.got \subseteq PoolsOf(d)
    /\ r.at = "answered" => r.queue # << >>
    /\ r.at # "idle" => /\ flying[d]
                        /\ \A p \in DOMAIN r.got : shown[p] <= r.got[p] /\ r.got[p] <= actual[p]

ReadingsTrue ==
    /\ market \in [Pools -> Nat] /\ states \in [Pools -> Nat]
    /\ \A p \in Pools : states[p] <= market[p]
WatchedKnown ==
    /\ watched \in [Sources -> Seq(Pools)]
    /\ \A d \in Sources : watched[d] \in Seq(PoolsOf(d))
Busy(d, i) == round[d][i].at # "idle"
PollsGood ==
    /\ inFlight \in [Sources -> BOOLEAN] /\ round \in [Sources -> [Rounds -> Polls]]
    /\ \A d \in Sources, i \in Rounds : PollGood(d, round[d][i], inFlight, states, market)
OneRound == \A d \in Sources : \A i, j \in Rounds : Busy(d, i) /\ Busy(d, j) => i = j

FeedInv == ReadingsTrue /\ WatchedKnown /\ PollsGood /\ OneRound

LEMMA FeedPools ==
    /\ \A d \in Sources : PoolsOf(d) \subseteq Pools
    /\ \A d, e \in Sources : d # e => PoolsOf(d) \cap PoolsOf(e) = {}
BY MarketAssumption DEF Sources, PoolsOf, Pools

LEMMA IdlePoll ==
    /\ Idle \in Polls /\ Idle.at = "idle" /\ Idle.queue = << >> /\ DOMAIN Idle.got = {}
    /\ \A d, flying, shown, actual : PollGood(d, Idle, flying, shown, actual)
<1>1. NoAnswer \in Readings /\ DOMAIN NoAnswer = {}
    <2>1. {} \in SUBSET Pools /\ NoAnswer \in [{} -> Nat]
        BY DEF NoAnswer
    <2> QED
        BY <2>1 DEF Readings, NoAnswer
<1>2. Idle \in Polls /\ Idle.at = "idle" /\ Idle.queue = << >> /\ DOMAIN Idle.got = {}
    BY <1>1 DEF Idle, Polls, Stages
<1> QED
    BY <1>2 DEF PollGood

LEMMA PollFacts ==
    ASSUME FeedInv, NEW d \in Sources, NEW i \in Rounds
    PROVE  /\ round[d][i] \in Polls /\ round[d][i].queue \in Seq(PoolsOf(d))
           /\ PollGood(d, round[d][i], inFlight, states, market)
BY DEF FeedInv, PollsGood, PollGood

(* What a round holds is a sequence of pools to ask and an answer. *)
LEMMA AskingPoll ==
    ASSUME FeedInv, NEW d \in Sources, NEW q \in Seq(PoolsOf(d)), NEW flying, flying[d], NEW shown, NEW actual
    PROVE  /\ PollGood(d, [Idle EXCEPT !.at = "asking", !.queue = q], flying, shown, actual)
           /\ [Idle EXCEPT !.at = "asking", !.queue = q].at = "asking"
<1>1. q \in Seq(Pools)
    BY FeedPools
<1> DEFINE r == [Idle EXCEPT !.at = "asking", !.queue = q]
<1>2. r \in Polls /\ r.at = "asking" /\ r.queue = q /\ DOMAIN r.got = {}
    BY <1>1, IdlePoll DEF Polls, Stages
<1> HIDE DEF r
<1> QED
    BY <1>2 DEF PollGood, r

LEMMA RestOf ==
    ASSUME NEW d \in Sources, NEW q \in Seq(PoolsOf(d)), q # << >>
    PROVE  /\ Rest(d, q) \in Seq(PoolsOf(d)) /\ Head(q) \in PoolsOf(d) /\ Tail(q) \in Seq(PoolsOf(d))
           /\ Asked(d, q) \subseteq PoolsOf(d)
<1>1. Head(q) \in PoolsOf(d) /\ Tail(q) \in Seq(PoolsOf(d)) /\ << >> \in Seq(PoolsOf(d))
    OBVIOUS
<1>2. ToSet(q) \subseteq PoolsOf(d)
    BY DEF ToSet
<1> QED
    BY <1>1, <1>2 DEF Rest, Asked

(* One round moves on, while its source has no other. *)
LEMMA AdvanceKeeps ==
    ASSUME FeedInv, NEW d \in Sources, NEW i \in Rounds, NEW r, Advance(d, i, r),
           UNCHANGED market, inFlight' \in [Sources -> BOOLEAN],
           \A e \in Sources \ {d} : inFlight'[e] = inFlight[e] /\ \A p \in PoolsOf(e) : states'[p] = states[p],
           PollGood(d, r, inFlight', states', market),
           \A j \in Rounds \ {i} : ~Busy(d, j)
    PROVE  PollsGood' /\ OneRound'
<1>1. r \in Polls /\ round \in [Sources -> [Rounds -> Polls]] /\ round' = [round EXCEPT ![d][i] = r]
    BY DEF FeedInv, PollsGood, PollGood, Advance
<1>2. /\ round' \in [Sources -> [Rounds -> Polls]] /\ round'[d][i] = r
      /\ \A j \in Rounds \ {i} : round'[d][j] = round[d][j]
      /\ \A e \in Sources \ {d} : round'[e] = round[e]
    BY <1>1
<1>3. ASSUME NEW e \in Sources, NEW j \in Rounds
      PROVE  PollGood(e, round'[e][j], inFlight', states', market')
    <2> DEFINE k == round[e][j]
    <2>1. PollGood(e, k, inFlight, states, market)
        BY PollFacts
    <2>2. CASE e = d /\ j = i
        BY <1>2, <2>2
    <2>3. CASE e = d /\ j # i
        <3>1. round'[e][j] = k /\ k.at = "idle"
            BY <1>2, <2>3 DEF Busy
        <3> QED
            BY <2>1, <3>1 DEF PollGood
    <2>4. CASE e # d
        <3>1. round'[e][j] = k /\ inFlight'[e] = inFlight[e] /\ \A p \in PoolsOf(e) : states'[p] = states[p]
            BY <1>2, <2>4
        <3> QED
            BY <2>1, <3>1 DEF PollGood
    <2> QED
        BY <2>2, <2>3, <2>4
<1>4. PollsGood'
    BY <1>2, <1>3 DEF PollsGood
<1>5. ASSUME NEW e \in Sources, NEW j \in Rounds, NEW l \in Rounds, round'[e][j].at # "idle", round'[e][l].at # "idle"
      PROVE  j = l
    <2>1. CASE e = d
        BY <1>2, <1>5, <2>1 DEF Busy
    <2>2. CASE e # d
        BY <1>2, <1>5, <2>2 DEF FeedInv, OneRound, Busy
    <2> QED
        BY <2>1, <2>2
<1>6. OneRound'
    BY <1>5 DEF OneRound, Busy
<1> QED
    BY <1>4, <1>6

LEMMA OthersRest ==
    ASSUME FeedInv, NEW d \in Sources, NEW i \in Rounds, Busy(d, i) \/ ~inFlight[d]
    PROVE  \A j \in Rounds \ {i} : ~Busy(d, j)
BY PollFacts DEF FeedInv, OneRound, PollGood, Busy

-----------------------------------------------------------------------------
LEMMA BeginKeeps ==
    ASSUME FeedInv, NEW d \in Sources, NEW i \in Rounds, BeginRound(d, i)
    PROVE  FeedInv'
<1>1. /\ ~inFlight[d] /\ inFlight' = [inFlight EXCEPT ![d] = TRUE] /\ UNCHANGED <<market, states, watched>>
      /\ Advance(d, i, [Idle EXCEPT !.at = "asking", !.queue = watched[d]])
    BY DEF BeginRound, Free
<1>2. inFlight' \in [Sources -> BOOLEAN] /\ inFlight'[d] /\ \A e \in Sources \ {d} : inFlight'[e] = inFlight[e]
    BY <1>1 DEF FeedInv, PollsGood
<1>3. watched[d] \in Seq(PoolsOf(d))
    BY DEF FeedInv, WatchedKnown
<1> DEFINE r == [Idle EXCEPT !.at = "asking", !.queue = watched[d]]
<1>4. PollGood(d, r, inFlight', states', market)
    BY <1>2, <1>3, AskingPoll
<1>5. Advance(d, i, r)
    BY <1>1
<1> HIDE DEF r
<1>6. PollsGood' /\ OneRound'
    BY <1>1, <1>2, <1>4, <1>5, OthersRest, AdvanceKeeps
<1> QED
    BY <1>1, <1>6 DEF FeedInv, ReadingsTrue, WatchedKnown

(* An answer says of some of the pools that were asked about what they are  *)
(* at now.                                                                  *)
LEMMA ReadKeeps ==
    ASSUME FeedInv, NEW d \in Sources, NEW i \in Rounds, Asking(d, i),
           NEW S \in SUBSET Asked(d, round[d][i].queue), Read(d, i, S),
           UNCHANGED <<market, watched, inFlight, states>>
    PROVE  FeedInv'
<1> DEFINE r == round[d][i]
           got == [p \in S |-> market[p]]
           k == [r EXCEPT !.at = "answered", !.got = got]
<1>1. /\ r.at = "asking" /\ r.queue # << >> /\ Advance(d, i, k)
      /\ UNCHANGED <<market, watched, inFlight, states>>
    BY DEF Asking, Read
<1>2. r \in Polls /\ r.queue \in Seq(PoolsOf(d)) /\ PollGood(d, r, inFlight, states, market)
    BY PollFacts
<1>3. S \subseteq PoolsOf(d) /\ S \subseteq Pools
    BY <1>1, <1>2, RestOf, FeedPools
<1>4. got \in Readings /\ DOMAIN got = S /\ \A p \in S : got[p] = market[p] /\ states[p] <= market[p] /\ market[p] \in Nat
    <2>1. market \in [Pools -> Nat] /\ \A p \in Pools : states[p] <= market[p]
        BY DEF FeedInv, ReadingsTrue
    <2>2. got \in [S -> Nat] /\ S \in SUBSET Pools
        BY <1>3, <2>1
    <2> QED
        BY <1>3, <2>1, <2>2 DEF Readings
<1> HIDE DEF got
<1>5. k \in Polls /\ k.at = "answered" /\ k.queue = r.queue /\ k.got = got
    BY <1>2, <1>4 DEF Polls, Stages
<1>6. inFlight[d] /\ Busy(d, i)
    BY <1>1, <1>2 DEF PollGood, Busy
<1> HIDE DEF k
<1>7. PollGood(d, k, inFlight', states', market)
    <2>1. \A p \in DOMAIN k.got : states[p] <= k.got[p] /\ k.got[p] <= market[p]
        BY <1>4, <1>5
    <2> QED
        BY <1>1, <1>2, <1>3, <1>4, <1>5, <1>6, <2>1 DEF PollGood
<1>8. inFlight' \in [Sources -> BOOLEAN]
    BY <1>1 DEF FeedInv, PollsGood
<1>9. PollsGood' /\ OneRound'
    BY <1>1, <1>6, <1>7, <1>8, OthersRest, AdvanceKeeps
<1> QED
    BY <1>1, <1>9 DEF FeedInv, ReadingsTrue, WatchedKnown

LEMMA AnswerKeeps ==
    ASSUME FeedInv, NEW d \in Sources, NEW i \in Rounds, Answer(d, i)
    PROVE  FeedInv'
<1>1. PICK S \in Shown(d, round[d][i].queue) : Read(d, i, S)
    BY DEF Answer
<1>2. Asking(d, i) /\ S \in SUBSET Asked(d, round[d][i].queue) /\ UNCHANGED <<market, watched, inFlight, states>>
    BY DEF Answer, Shown
<1> QED
    BY <1>1, <1>2, ReadKeeps

LEMMA OmitKeeps ==
    ASSUME FeedInv, NEW i \in Rounds, Omit(i)
    PROVE  FeedInv'
<1> DEFINE d == "dedust"
<1>1. PICK p \in ToSet(round[d][i].queue), S \in Shown(d, round[d][i].queue) : Read(d, i, S \ {p})
    BY DEF Omit
<1>2. Asking(d, i) /\ S \ {p} \in SUBSET Asked(d, round[d][i].queue) /\ UNCHANGED <<market, watched, inFlight, states>>
    BY DEF Omit, Shown
<1>3. d \in Sources
    BY DEF Sources
<1> QED
    BY <1>1, <1>2, <1>3, ReadKeeps

(* What an answer says of a pool is no older than what is shown. *)
LEMMA EmitShows ==
    ASSUME FeedInv, NEW d \in Sources, NEW i \in Rounds, Emit(d, i)
    PROVE  /\ states' \in [Pools -> Nat]
           /\ \A p \in Pools : states[p] <= states'[p] /\ states'[p] <= market[p]
           /\ \A e \in Sources \ {d} : \A p \in PoolsOf(e) : states'[p] = states[p]
<1> DEFINE got == round[d][i].got
<1>1. /\ round[d][i].at = "answered"
      /\ states' = [p \in Pools |-> IF p \in DOMAIN got THEN got[p] ELSE states[p]]
    BY DEF Emit
<1>2. /\ round[d][i] \in Polls /\ DOMAIN got \subseteq PoolsOf(d) /\ PoolsOf(d) \subseteq Pools
      /\ \A p \in DOMAIN got : states[p] <= got[p] /\ got[p] <= market[p]
    BY <1>1, PollFacts, FeedPools DEF PollGood
<1>3. got \in Readings
    BY <1>2 DEF Polls
<1>4. \A p \in DOMAIN got : got[p] \in Nat
    BY <1>3 DEF Readings
<1> HIDE DEF got
<1>5. market \in [Pools -> Nat] /\ states \in [Pools -> Nat] /\ \A p \in Pools : states[p] <= market[p]
    BY DEF FeedInv, ReadingsTrue
<1>6. states' \in [Pools -> Nat] /\ \A p \in Pools : states[p] <= states'[p] /\ states'[p] <= market[p]
    BY <1>1, <1>2, <1>4, <1>5
<1>7. ASSUME NEW e \in Sources \ {d}, NEW p \in PoolsOf(e) PROVE states'[p] = states[p]
    <2>1. p \in Pools /\ p \notin PoolsOf(d)
        BY FeedPools
    <2> QED
        BY <1>1, <1>2, <2>1
<1> QED
    BY <1>6, <1>7

LEMMA EmitKeeps ==
    ASSUME FeedInv, NEW d \in Sources, NEW i \in Rounds, Emit(d, i)
    PROVE  FeedInv'
<1> DEFINE q == Rest(d, round[d][i].queue)
           r == [Idle EXCEPT !.at = "asking", !.queue = q]
<1>1. round[d][i].at = "answered" /\ Advance(d, i, r) /\ UNCHANGED <<market, watched, inFlight>>
    BY DEF Emit
<1>2. PollGood(d, round[d][i], inFlight, states, market) /\ round[d][i].queue \in Seq(PoolsOf(d))
    BY PollFacts
<1>3. q \in Seq(PoolsOf(d))
    <2>1. round[d][i].queue # << >>
        BY <1>1, <1>2 DEF PollGood
    <2> QED
        BY <1>2, <2>1, RestOf
<1> HIDE DEF q
<1>4. inFlight'[d] /\ inFlight' \in [Sources -> BOOLEAN] /\ Busy(d, i)
    BY <1>1, <1>2 DEF PollGood, Busy, FeedInv, PollsGood
<1>5. PollGood(d, r, inFlight', states', market)
    BY <1>3, <1>4, AskingPoll
<1> HIDE DEF r
<1>6. PollsGood' /\ OneRound'
    BY <1>1, <1>4, <1>5, EmitShows, OthersRest, AdvanceKeeps
<1>7. ReadingsTrue'
    BY <1>1, EmitShows DEF FeedInv, ReadingsTrue
<1> QED
    BY <1>1, <1>6, <1>7 DEF FeedInv, WatchedKnown

LEMMA SkipKeeps ==
    ASSUME FeedInv, NEW i \in Rounds, SkipDead(i)
    PROVE  FeedInv'
<1> DEFINE r == round["stonfi"][i]
           k == [r EXCEPT !.queue = Tail(@)]
<1>1. /\ r.at = "asking" /\ r.queue # << >> /\ Advance("stonfi", i, k)
      /\ UNCHANGED <<market, watched, inFlight, states>> /\ "stonfi" \in Sources
    BY DEF SkipDead, Asking, Sources
<1>2. PollGood("stonfi", r, inFlight, states, market) /\ r \in Polls /\ Busy("stonfi", i)
    BY <1>1, PollFacts DEF Busy
<1>3. Tail(r.queue) \in Seq(PoolsOf("stonfi")) /\ Tail(r.queue) \in Seq(Pools)
    BY <1>1, <1>2, FeedPools DEF PollGood
<1>4. k \in Polls /\ k.at = "asking" /\ k.queue = Tail(r.queue) /\ k.got = r.got
    BY <1>1, <1>2, <1>3 DEF Polls
<1> HIDE DEF k
<1>5. PollGood("stonfi", k, inFlight', states', market)
    BY <1>1, <1>2, <1>3, <1>4 DEF PollGood
<1>6. inFlight' \in [Sources -> BOOLEAN]
    BY <1>1 DEF FeedInv, PollsGood
<1>7. PollsGood' /\ OneRound'
    BY <1>1, <1>2, <1>5, <1>6, OthersRest, AdvanceKeeps
<1> QED
    BY <1>1, <1>7 DEF FeedInv, ReadingsTrue, WatchedKnown

LEMMA LoseKeeps ==
    ASSUME FeedInv, NEW d \in Sources, NEW i \in Rounds, Lose(d, i)
    PROVE  FeedInv'
<1> DEFINE r == round[d][i]
           q == Rest(d, r.queue)
           k == [r EXCEPT !.queue = Rest(d, @)]
<1>1. /\ r.at = "asking" /\ r.queue # << >> /\ Advance(d, i, k)
      /\ UNCHANGED <<market, watched, inFlight, states>>
    BY DEF Lose, Asking
<1>2. PollGood(d, r, inFlight, states, market) /\ r \in Polls /\ Busy(d, i) /\ r.queue \in Seq(PoolsOf(d))
    BY <1>1, PollFacts DEF Busy
<1>3. q \in Seq(PoolsOf(d)) /\ q \in Seq(Pools)
    <2>1. q \in Seq(PoolsOf(d))
        BY <1>1, <1>2, RestOf
    <2> HIDE DEF q
    <2> QED
        BY <2>1, FeedPools
<1>4. k = [r EXCEPT !.queue = q]
    BY <1>2 DEF Polls
<1> HIDE DEF q, k
<1>5. k \in Polls /\ k.at = "asking" /\ k.queue = q /\ k.got = r.got
    BY <1>1, <1>2, <1>3, <1>4 DEF Polls
<1>6. PollGood(d, k, inFlight', states', market)
    BY <1>1, <1>2, <1>3, <1>5 DEF PollGood
<1>7. inFlight' \in [Sources -> BOOLEAN]
    BY <1>1 DEF FeedInv, PollsGood
<1>8. PollsGood' /\ OneRound'
    BY <1>1, <1>2, <1>6, <1>7, OthersRest, AdvanceKeeps
<1> QED
    BY <1>1, <1>8 DEF FeedInv, ReadingsTrue, WatchedKnown

(* A round is over, or given up. *)
LEMMA EndKeeps ==
    ASSUME FeedInv, NEW d \in Sources, NEW i \in Rounds, EndRound(d, i) \/ FailRound(d, i)
    PROVE  FeedInv'
<1>1. /\ round[d][i].at = "asking" /\ Advance(d, i, Idle) /\ inFlight' = [inFlight EXCEPT ![d] = FALSE]
      /\ UNCHANGED <<market, watched, states>>
    BY DEF EndRound, FailRound, Asking, Release
<1>2. inFlight' \in [Sources -> BOOLEAN] /\ \A e \in Sources \ {d} : inFlight'[e] = inFlight[e]
    BY <1>1 DEF FeedInv, PollsGood
<1>3. PollGood(d, Idle, inFlight', states', market)
    BY IdlePoll
<1>4. PollsGood' /\ OneRound'
    BY <1>1, <1>2, <1>3, OthersRest, AdvanceKeeps DEF Busy
<1> QED
    BY <1>1, <1>4 DEF FeedInv, ReadingsTrue, WatchedKnown

LEMMA WatchingKeeps ==
    ASSUME FeedInv, NEW d \in Sources, NEW p \in PoolsOf(d), Subscribe(d, p) \/ Unsubscribe(d, p)
    PROVE  FeedInv'
<1>1. UNCHANGED <<market, states, inFlight, round>>
    BY DEF Subscribe, Unsubscribe
<1>2. watched \in [Sources -> Seq(Pools)] /\ \A e \in Sources : watched[e] \in Seq(PoolsOf(e))
    BY DEF FeedInv, WatchedKnown
<1>3. PICK q \in Seq(PoolsOf(d)) : watched' = [watched EXCEPT ![d] = q]
    <2>1. Append(watched[d], p) \in Seq(PoolsOf(d))
        BY <1>2
    <2>2. Unlisted(watched[d], {p}) \in Seq(PoolsOf(d))
        BY <1>2, UnlistedLeaves
    <2>3. \/ watched' = [watched EXCEPT ![d] = Append(watched[d], p)]
          \/ watched' = [watched EXCEPT ![d] = Unlisted(watched[d], {p})]
        BY DEF Subscribe, Unsubscribe
    <2> QED
        BY <2>1, <2>2, <2>3
<1>4. q \in Seq(Pools)
    BY FeedPools
<1>5. WatchedKnown'
    BY <1>2, <1>3, <1>4 DEF WatchedKnown
<1> QED
    BY <1>1, <1>5 DEF FeedInv, ReadingsTrue, PollsGood, OneRound, Busy

LEMMA MoveKeeps ==
    ASSUME FeedInv, NEW p \in Pools, Move(p)
    PROVE  FeedInv'
<1>1. market' = [market EXCEPT ![p] = @ + 1] /\ UNCHANGED <<states, inFlight, round, watched>>
    BY DEF Move, feed
<1>2. market \in [Pools -> Nat] /\ states \in [Pools -> Nat] /\ \A q \in Pools : states[q] <= market[q]
    BY DEF FeedInv, ReadingsTrue
<1>3. market' \in [Pools -> Nat] /\ \A q \in Pools : market[q] <= market'[q]
    BY <1>1, <1>2
<1>4. ReadingsTrue'
    BY <1>1, <1>2, <1>3 DEF ReadingsTrue
<1>5. ASSUME NEW d \in Sources, NEW i \in Rounds
      PROVE  PollGood(d, round'[d][i], inFlight', states', market')
    <2> DEFINE r == round[d][i]
    <2>1. PollGood(d, r, inFlight, states, market) /\ r \in Polls
        BY PollFacts
    <2>2. \A q \in DOMAIN r.got : q \in Pools /\ r.got[q] \in Nat
        BY <2>1 DEF Polls, Readings
    <2> HIDE DEF r
    <2>3. ASSUME r.at # "idle", NEW q \in DOMAIN r.got PROVE states[q] <= r.got[q] /\ r.got[q] <= market'[q]
        <3>1. q \in Pools /\ r.got[q] \in Nat /\ market[q] \in Nat /\ market'[q] \in Nat
            BY <1>2, <1>3, <2>2
        <3> QED
            BY <1>3, <2>1, <2>3, <3>1 DEF PollGood
    <2>4. PollGood(d, r, inFlight, states, market')
        BY <2>1, <2>3 DEF PollGood
    <2> QED
        BY <1>1, <2>4 DEF r
<1>6. PollsGood'
    BY <1>1, <1>5 DEF FeedInv, PollsGood
<1> QED
    BY <1>1, <1>4, <1>6 DEF FeedInv, WatchedKnown, OneRound, Busy

LEMMA FeedBegins ==
    ASSUME InitFeed
    PROVE  FeedInv
<1>1. /\ market = [p \in Pools |-> 1] /\ states = [p \in Pools |-> 0]
      /\ watched = [d \in Sources |-> << >>] /\ inFlight = [d \in Sources |-> FALSE]
      /\ round = [d \in Sources |-> [i \in Rounds |-> Idle]]
    BY DEF InitFeed, Unread
<1>2. ReadingsTrue
    BY <1>1 DEF ReadingsTrue
<1>3. WatchedKnown
    BY <1>1 DEF WatchedKnown
<1>4. PollsGood /\ OneRound
    BY <1>1, IdlePoll DEF PollsGood, OneRound, Busy
<1> QED
    BY <1>2, <1>3, <1>4 DEF FeedInv

LEMMA FeedStep ==
    ASSUME FeedInv, [NextFeed]_feedVars
    PROVE  FeedInv'
<1>1. ASSUME UNCHANGED <<market, states, watched, inFlight, round>> PROVE FeedInv'
    BY <1>1 DEF FeedInv, ReadingsTrue, WatchedKnown, PollsGood, OneRound, Busy
<1>2. CASE Start \/ (\E p \in StonfiPools : Forget(p)) \/ UNCHANGED feedVars
    BY <1>1, <1>2 DEF Start, Forget, feedVars, feed
<1>3. CASE \E d \in Sources : \E p \in PoolsOf(d) : Subscribe(d, p) \/ Unsubscribe(d, p) \/ Move(p)
    BY <1>3, WatchingKeeps, MoveKeeps, FeedPools
<1>4. CASE \E d \in Sources, i \in Rounds : Poll(d, i) \/ Disturb(d, i)
    BY <1>4, BeginKeeps, AnswerKeeps, EmitKeeps, EndKeeps, LoseKeeps DEF Poll, Disturb
<1>5. CASE \E i \in Rounds : SkipDead(i) \/ Omit(i)
    BY <1>5, SkipKeeps, OmitKeeps
<1> QED
    BY <1>2, <1>3, <1>4, <1>5 DEF NextFeed

(* One round per source; what it was answered, it was answered after what   *)
(* is shown.                                                                *)
THEOREM RoundsAreSerial == FeedSpec => []FeedInv
<1>1. InitFeed => FeedInv
    BY FeedBegins
<1>2. FeedInv /\ [NextFeed]_feedVars => FeedInv'
    BY FeedStep
<1> QED
    BY <1>1, <1>2, PTL DEF FeedSpec

(* ReadingsNeverGoBack: whatever is dropped, delayed, watched again or      *)
(* marked dead meanwhile, what is shown of a pool is replaced only by a     *)
(* reading at least as recent.                                              *)
THEOREM NewestIsShown == FeedSpec => ReadingsNeverGoBack
<1>1. FeedInv /\ [NextFeed]_feedVars => [\A p \in Pools : states'[p] >= states[p]]_feedVars
    <2> SUFFICES ASSUME FeedInv, [NextFeed]_feedVars, NEW p \in Pools PROVE states'[p] >= states[p]
        OBVIOUS
    <2>1. states \in [Pools -> Nat]
        BY DEF FeedInv, ReadingsTrue
    <2>2. CASE \E d \in Sources, i \in Rounds : Emit(d, i)
        <3>1. states' \in [Pools -> Nat] /\ states[p] <= states'[p]
            BY <2>2, EmitShows
        <3> QED
            BY <2>1, <3>1
    <2>3. CASE ~\E d \in Sources, i \in Rounds : Emit(d, i)
        <3>1. UNCHANGED states
            BY <2>3 DEF NextFeed, Start, Subscribe, Unsubscribe, Move, Poll, Disturb, BeginRound, Answer, EndRound,
                        Omit, Lose, FailRound, SkipDead, Forget, feedVars, feed
        <3> QED
            BY <2>1, <3>1
    <2> QED
        BY <2>2, <2>3
<1> QED
    BY <1>1, RoundsAreSerial, PTL DEF FeedSpec, ReadingsNeverGoBack
=============================================================================
