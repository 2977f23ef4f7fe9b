------------------------------ MODULE FastPath ------------------------------
(***************************************************************************)
(* The fast path: signals that were approved in advance are traded without *)
(* the reasoning loop, from transaction templates compiled beforehand.     *)
(*   core/policy-manager.ts, core/policy-transport.ts   the shared policy  *)
(*   core/boc-template-cache.ts   templates (LRU), the policy subscription *)
(*   core/boc-template.ts         what a template fixes, and a rebuild     *)
(*   core/fastpath-engine.ts      processSignal, cut at its awaits         *)
(*   core/fastpath-metrics.ts     the counters                             *)
(* Nothing in the repository publishes a policy yet: the model drives that *)
(* operation as the tests do.  Whether the pool of a token is in the cache *)
(* of pool states is an input; amounts and minimum outputs are left out.   *)
(***************************************************************************)
EXTENDS Integers, Sequences, FiniteSets, SequencesExt, OrderedSets

CONSTANTS
    Signals,      \* calls of processFastPathSignal
    Tiers,        \* each trades from a wallet of its own
    Tokens,
    Rules,        \* what a policy may say: [blocked, dexes]
    MaxTemplates, \* capacity of bocTemplateCache
    Ttl,          \* lifetime of a template
    MaxVersion,   \* bound: policies published
    Horizon       \* bound: the clock

ASSUME FastPathAssumption ==
    /\ MaxTemplates \in Nat \ {0} /\ Ttl \in Nat
    /\ MaxVersion \in Nat /\ Horizon \in Nat
ASSUME ActorsAssumption == IsFiniteSet(Signals)

Dexes == {"stonfi", "dedust"}
Sides == {"buy", "sell"}
ASSUME RulesAssumption == Rules \subseteq [blocked : SUBSET Tokens, dexes : SUBSET Dexes]
Keys == Dexes \X Tokens \X Sides
Jobs == [token : Tokens, side : Sides, tier : Tiers, producer : {"radar", "other"}]

VARIABLES
    policy,    \* policyTransport: the policy last pushed
    known,     \* fastPathPolicySubscription.currentPolicy
    enabled, subscribed,
    templates, \* bocTemplateCache.cache
    order,     \* its accessOrder
    sig,       \* signals, and how far processSignal is with each
    metrics,   \* signalsReceived, fastPathExecutions, coldPathFallbacks
    halted,    \* the coordinator's kill switch
    now

vars == <<policy, known, enabled, subscribed, templates, order, sig, metrics, halted, now>>

NoPolicy == [version |-> 0, blocked |-> {}, dexes |-> {}]
NoMessage == [recipient |-> "none", version |-> 0, amount |-> "none"]
Unborn == [state |-> "unborn", token |-> "none", side |-> "none", tier |-> "none",
           producer |-> "none", version |-> 0, under |-> NoPolicy, dex |-> "none",
           boc |-> NoMessage]

Init ==
    /\ policy = NoPolicy /\ known = NoPolicy
    /\ enabled \in BOOLEAN /\ subscribed = enabled
    /\ templates = << >> /\ order = << >>
    /\ sig = [s \in Signals |-> Unborn]
    /\ metrics = [received |-> 0, executions |-> 0, fallbacks |-> 0]
    /\ halted = FALSE /\ now = 0

-----------------------------------------------------------------------------
(* The policy *)

(* push: the subscriber has the policy before the call returns. *)
Push(p) ==
    /\ policy' = p
    /\ known' = IF subscribed THEN p ELSE known
(* updatePolicy numbers it. *)
UpdatePolicy(r) ==
    /\ policy.version < MaxVersion
    /\ Push([version |-> policy.version + 1, blocked |-> r.blocked, dexes |-> r.dexes])
    /\ UNCHANGED <<enabled, subscribed, templates, order, sig, metrics, halted, now>>

(* Whoever subscribes is called back at once when there is a policy. *)
Notified == IF policy # NoPolicy THEN policy ELSE known
(* Mutant of Refreshed: a subscription waits for the next policy. *)
Refreshed_Later(subscribing) == known
(* Unsubscribing keeps what was known. *)
Refreshed(subscribing) == IF subscribing THEN Notified ELSE known
SetEnabled(b) ==
    /\ enabled' = b /\ subscribed' = b
    /\ known' = Refreshed(b /\ ~subscribed)
    /\ UNCHANGED <<policy, templates, order, sig, metrics, halted, now>>

(* getCurrentPolicy: asks the transport only while nothing is known. *)
Consulted == IF known = NoPolicy THEN policy ELSE known
IsPolicyFresh(v) == Consulted # NoPolicy /\ Consulted.version = v

-----------------------------------------------------------------------------
(* The templates *)

Without(key) == [k \in DOMAIN templates \ {key} |-> templates[k]]
(* A template may lag one version behind; its age is bounded. *)
Valid(t, version) == now - t.at <= Ttl /\ t.version >= version - 1
Hit(key, version) == key \in DOMAIN templates /\ Valid(templates[key], version)

(* get: a hit is marked as used and moves to the end of the list. *)
(* Mutant of Touched: the list is left as it is. *)
Touched_InPlace(key) ==
    /\ templates' = [templates EXCEPT ![key].used = now]
    /\ order' = order
Touched(key) ==
    /\ templates' = [templates EXCEPT ![key].used = now]
    /\ order' = Append(Unlisted(order, {key}), key)

(* compileBocTemplate: a template fixes the pool, the side and the wallet   *)
(* that receives; amount, limit and query are filled in later.              *)
Template(wallet, version) == [wallet |-> wallet, version |-> version, at |-> now, used |-> now]

(* delete and set on a miss: the least recently used entry makes room. *)
Compiled(key, wallet, version) ==
    LET kept    == Without(key)
        queue   == Unlisted(order, {key})
        full    == Cardinality(DOMAIN kept) >= MaxTemplates
        victims == IF full /\ queue # << >> THEN {Head(queue)} ELSE {}
    IN  /\ templates' = [k \in (DOMAIN kept \ victims) \cup {key} |-> IF k = key THEN Template(wallet, version) ELSE kept[k]]
        /\ order' = Append(IF victims = {} THEN queue ELSE Tail(queue), key)

(* cleanup *)
Cleanup ==
    LET old == {k \in DOMAIN templates : now - templates[k].at > Ttl}
    IN  /\ old # {}
        /\ templates' = [k \in DOMAIN templates \ old |-> templates[k]]
        /\ order' = Unlisted(order, old)
        /\ UNCHANGED <<policy, known, enabled, subscribed, sig, metrics, halted, now>>

-----------------------------------------------------------------------------
SelectDex(rules) ==
    IF "stonfi" \in rules.dexes THEN "stonfi" ELSE IF "dedust" \in rules.dexes THEN "dedust" ELSE "none"

-----------------------------------------------------------------------------
(* processSignal *)

Counted(m, event) == [m EXCEPT ![event] = @ + 1]
(* recordFastPathExecution, which every answer goes through.                *)
Finished(m) == [m EXCEPT !.executions = @ + 1, !.fallbacks = @ + 1]

(* rebuildDedustNativeBuyLeaf, rebuildDedustJettonSellLeaf: the signal's    *)
(* amount goes in, everything under the references stays.                   *)
Rebuilt(t, s) == [recipient |-> t.wallet, version |-> t.version, amount |-> s]

(* What is left of a signal once its call returned, with a fallback.        *)
Answered == [Unborn EXCEPT !.state = "done"]

(* The producer forms a signal under the policy in force. *)
Raise(s, job) ==
    /\ sig[s].state = "unborn" /\ policy # NoPolicy
    /\ sig' = [sig EXCEPT ![s] =
           [Unborn EXCEPT !.state = "raised", !.token = job.token, !.side = job.side,
                          !.tier = job.tier, !.producer = job.producer, !.version = policy.version]]
    /\ UNCHANGED <<policy, known, enabled, subscribed, templates, order, metrics, halted, now>>

(* validateSignalPolicy: only the block list, not the list of DEXes. *)
PolicyAllows(token) == token \notin Consulted.blocked

(* The checks up to the gate, in any order: each refusal has the same effect. *)
Admissible(s) ==
    /\ enabled
    /\ sig[s].producer = "radar"
    /\ IsPolicyFresh(sig[s].version)
    /\ PolicyAllows(sig[s].token)
    /\ ~halted

(* Mutant of Refuse: the early return leaves its answer unrecorded. *)
Refuse_Unrecorded(s) ==
    /\ sig[s].state = "raised"
    /\ known' = Consulted
    /\ sig' = [sig EXCEPT ![s] = Answered]
    /\ metrics' = Counted(metrics, "received")
    /\ UNCHANGED <<policy, enabled, subscribed, templates, order, halted, now>>

(* fallbackResult.  The gate can also refuse for the bankroll or the day's  *)
(* loss, which TradeExecution covers, and no pool of the token may be known. *)
Refuse(s) ==
    /\ sig[s].state = "raised"
    /\ known' = Consulted
    /\ sig' = [sig EXCEPT ![s] = Answered]
    /\ metrics' = Finished(Counted(metrics, "received"))
    /\ UNCHANGED <<policy, enabled, subscribed, templates, order, halted, now>>

(* The rest of the first stretch: pool, template, rebuilt leaf.  A template *)
(* for STON.fi cannot be rebuilt yet; a missing one is compiled for the     *)
(* next signal and this one goes the cold path.                             *)
Admit(s) ==
    LET dex == SelectDex(Consulted)
        key == <<dex, sig[s].token, sig[s].side>>
    IN  /\ sig[s].state = "raised" /\ Admissible(s)
        /\ dex # "none"
        /\ known' = Consulted
        /\ metrics' = Counted(metrics, "received")
        /\ \/ /\ Hit(key, Consulted.version)
              /\ Touched(key)
              /\ sig' = [sig EXCEPT ![s].state = IF dex = "dedust" THEN "broadcast" ELSE "cold",
                                    ![s].under = Consulted, ![s].dex = dex, ![s].boc = IF dex = "dedust" THEN Rebuilt(templates[key], s) ELSE NoMessage]
           \/ /\ ~Hit(key, Consulted.version)
              /\ Compiled(key, sig[s].tier, Consulted.version)
              /\ sig' = [sig EXCEPT ![s].state = "cold", ![s].under = Consulted, ![s].dex = dex]
        /\ UNCHANGED <<policy, enabled, subscribed, halted, now>>

(* broadcastBoc reads the seqno and then parses its placeholder recipient,  *)
(* which is 45 characters and no address: it throws, and nothing is ever    *)
(* sent from here.                                                          *)
Broadcast(s) ==
    /\ sig[s].state = "broadcast"
    /\ sig' = [sig EXCEPT ![s].state = "cold"]
    /\ UNCHANGED <<policy, known, enabled, subscribed, templates, order, metrics, halted, now>>

(* executeSwap, whatever comes of it. *)
ColdSwap(s) ==
    /\ sig[s].state = "cold"
    /\ sig' = [sig EXCEPT ![s] = Answered]
    /\ metrics' = Finished(metrics)
    /\ UNCHANGED <<policy, known, enabled, subscribed, templates, order, halted, now>>

KillSwitch ==
    /\ halted' = ~halted
    /\ UNCHANGED <<policy, known, enabled, subscribed, templates, order, sig, metrics, now>>
Tick ==
    /\ now < Horizon
    /\ now' = now + 1
    /\ UNCHANGED <<policy, known, enabled, subscribed, templates, order, sig, metrics, halted>>

Process(s) == Refuse(s) \/ Admit(s) \/ Broadcast(s) \/ ColdSwap(s)
Next ==
    \/ \E r \in Rules : UpdatePolicy(r)
    \/ \E b \in BOOLEAN : SetEnabled(b)
    \/ \E s \in Signals, j \in Jobs : Raise(s, j)
    \/ \E s \in Signals : Process(s)
    \/ Cleanup
    \/ KillSwitch
    \/ Tick

Spec == Init /\ [][Next]_vars
(* Every await of processSignal has a timeout or a bounded loop. *)
FairSpec == Spec /\ \A s \in Signals : WF_vars(Process(s))

-----------------------------------------------------------------------------
(* Properties *)

InFlight(s) == sig[s].state \in {"broadcast", "cold"}

TypeOK ==
    /\ \A p \in {policy, known} : p.version \in 0..MaxVersion /\ p.blocked \subseteq Tokens /\ p.dexes \subseteq Dexes
    /\ enabled \in BOOLEAN /\ subscribed \in BOOLEAN /\ halted \in BOOLEAN
    /\ DOMAIN templates \subseteq Keys
    /\ order \in Seq(Keys) /\ now \in 0..Horizon
    /\ \A s \in Signals : sig[s].state \in {"unborn", "raised", "broadcast", "cold", "done"}

(* The list accessOrder and the map it orders are two structures: they name *)
(* the same templates, each once and from the least to the most recently    *)
(* used, and there are never more than the cache may hold.                  *)
TemplatesInOrder ==
    /\ Len(order) = Cardinality(DOMAIN templates) /\ ToSet(order) = DOMAIN templates
    /\ Len(order) <= MaxTemplates
    /\ \A i, j \in DOMAIN order : i < j => templates[order[i]].used <= templates[order[j]].used

(* While the path is on, what it knows is the policy in force; a signal is  *)
(* executed under the version it was formed under, for a token that version *)
(* does not block, on a DEX it allows, and from a template at most one      *)
(* version older, whatever was published, expired or toggled before.        *)
JudgedByItsPolicy ==
    /\ enabled => known = policy
    /\ \A s \in Signals : InFlight(s) =>
          /\ sig[s].under.version = sig[s].version /\ sig[s].token \notin sig[s].under.blocked
          /\ sig[s].dex \in sig[s].under.dexes
          /\ sig[s].boc # NoMessage => sig[s].boc.version \in {sig[s].version - 1, sig[s].version}

(* Between what the counters say was received and what they say fell back   *)
(* to the cold path are the signals in flight and no other, whether they    *)
(* were refused at once, failed to broadcast or found no template.  Of the  *)
(* executions nothing is said: the code counts every answer as one.         *)
SignalsAreCounted ==
    /\ metrics.fallbacks = Cardinality({s \in Signals : sig[s].state = "done"})
    /\ metrics.received - metrics.fallbacks = Cardinality({s \in Signals : InFlight(s)})
=============================================================================
