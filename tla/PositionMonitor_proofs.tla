----------------------- MODULE PositionMonitor_proofs -----------------------
(***************************************************************************)
(* The safety properties of PositionMonitor, for any number of positions,  *)
(* jettons, wallets and firings of the timer, and under any combination of *)
(* troubles.                                                               *)
(***************************************************************************)
EXTENDS PositionMonitor, FiniteSetTheorems, TLAPS

-----------------------------------------------------------------------------
(* Types *)

LEMMA BumpType ==
    ASSUME NEW S, NEW f \in [S -> Nat], NEW u \in S
    PROVE  [f EXCEPT ![u] = @ + 1] \in [S -> Nat]
OBVIOUS

LEMMA DropType ==
    ASSUME NEW S, NEW f \in [S -> Nat], NEW u \in S, f[u] > 0
    PROVE  [f EXCEPT ![u] = @ - 1] \in [S -> Nat]
OBVIOUS

LEMMA IdleType == Idle \in Local
<1>1. (CHOOSE p \in Positions : TRUE) \in Positions
  BY ActorsAssumption
<1> QED BY <1>1 DEF Idle, Local

LEMMA PurseType == \A p \in Positions : Purse(p) \in Purses /\ Master[p] \in Jettons
BY ShapesAssumption DEF Purse, Purses

LEMMA ObservedType ==
    ASSUME TypeOK, NEW p \in Positions
    PROVE  Observed(p) \in 0..Confirm
BY SizesAssumption DEF TypeOK, Observed

LEMMA QuotesType ==
    ASSUME TypeOK, NEW m \in Jettons, NEW q \in Quotes(m)
    PROVE  q[1] \in BOOLEAN /\ q[2] \in BOOLEAN
<1>1. q = <<FALSE, TRUE>> \/ q = <<TRUE, FALSE>> \/ q = <<FALSE, FALSE>>
  BY Zenon DEF Quotes
<1>2. CASE q = <<FALSE, TRUE>>
  BY <1>2
<1>3. CASE q = <<TRUE, FALSE>>
  BY <1>3
<1>4. CASE q = <<FALSE, FALSE>>
  BY <1>4
<1> QED BY <1>1, <1>2, <1>3, <1>4

LEMMA EntryType ==
    ASSUME NEW a \in Verdict, NEW b \in BOOLEAN, NEW c \in BOOLEAN
    PROVE  [verdict |-> a, fresh |-> b, crash |-> c] \in [verdict : Verdict, fresh : BOOLEAN, crash : BOOLEAN]
OBVIOUS

LEMMA VerdictsType ==
    ASSUME TypeOK, NEW m \in Jettons, NEW v \in Verdicts(m)
    PROVE  /\ v[1] \in Verdict
           /\ v[2] \in [verdict : Verdict, fresh : BOOLEAN, crash : BOOLEAN]
<1>1. \/ v = <<cache[m].verdict, cache[m]>>
      \/ v = <<audit[m], [verdict |-> audit[m], fresh |-> TRUE, crash |-> Down(m)]>>
      \/ v = <<Gap, cache[m]>> \/ v = <<"none", Unmeasured>>
  BY Zenon DEF Verdicts
<1>2. cache[m] \in [verdict : Verdict, fresh : BOOLEAN, crash : BOOLEAN] /\ audit[m] \in {"safe", "rugged"}
  BY DEF TypeOK
<1>3. CASE v = <<cache[m].verdict, cache[m]>>
  BY <1>2, <1>3 DEF Verdict
<1>4. CASE v = <<audit[m], [verdict |-> audit[m], fresh |-> TRUE, crash |-> Down(m)]>>
  <2>1. Down(m) \in BOOLEAN /\ audit[m] \in Verdict
    BY <1>2 DEF Verdict, Down
  <2>2. v[1] = audit[m]
    BY <1>4
  <2>3. [verdict |-> audit[m], fresh |-> TRUE, crash |-> Down(m)]
           \in [verdict : Verdict, fresh : BOOLEAN, crash : BOOLEAN]
    BY <2>1, EntryType
  <2>4. v[2] \in [verdict : Verdict, fresh : BOOLEAN, crash : BOOLEAN]
    <3> DEFINE e == [verdict |-> audit[m], fresh |-> TRUE, crash |-> Down(m)]
    <3>1. v = <<audit[m], e>> /\ e \in [verdict : Verdict, fresh : BOOLEAN, crash : BOOLEAN]
      BY <1>4, <2>3
    <3> HIDE DEF e
    <3>2. v[2] = e
      BY <3>1
    <3> QED BY <3>1, <3>2
  <2> QED BY <2>1, <2>2, <2>4
<1>5. CASE v = <<Gap, cache[m]>>
  BY <1>2, <1>5 DEF Verdict, Gap
<1>6. CASE v = <<"none", Unmeasured>>
  <2>1. Unmeasured \in [verdict : Verdict, fresh : BOOLEAN, crash : BOOLEAN]
    BY DEF Unmeasured, Verdict
  <2> QED BY <1>6, <2>1 DEF Verdict
<1> QED BY <1>1, <1>3, <1>4, <1>5, <1>6

LEMMA InitTypeOK == Init => TypeOK
<1> SUFFICES ASSUME Init PROVE TypeOK
  OBVIOUS
<1>1. held \in [Purses -> Nat]
  <2>1. \A u \in Purses : IsFiniteSet(InPurse(u))
    BY ActorsAssumption, FS_Subset DEF InPurse, OpenRows
  <2> QED BY <2>1, FS_CardinalityType DEF Init
<1>2. tick \in [Ticks -> Local]
  BY IdleType DEF Init
<1>3. trend \in [Positions -> 0..Confirm]
  BY SizesAssumption DEF Init
<1>4. trouble \subseteq Troubles
  BY Zenon DEF Init
<1>5. cache \in [Jettons -> [verdict : Verdict, fresh : BOOLEAN, crash : BOOLEAN]] /\ baseline \in [Jettons -> Verdict]
  BY DEF Init, Unmeasured, Verdict
<1>6. row \in [Positions -> {"none", "OPEN"} \cup Ends] /\ pending \in [Purses -> Nat] /\ booked \in [Positions -> Nat]
  BY DEF Init
<1>7. /\ audit \in [Jettons -> {"safe", "rugged"}] /\ market \in [Jettons -> Market]
      /\ dead \in [Jettons -> BOOLEAN] /\ harmed \subseteq Jettons
      /\ best \subseteq Positions /\ leaked \subseteq Positions
      /\ refs \in [Jettons -> Int] /\ watched \subseteq Positions /\ polled \subseteq Jettons
  BY DEF Init, Market
<1> QED BY <1>1, <1>2, <1>3, <1>4, <1>5, <1>6, <1>7 DEF Init, TypeOK

(* What a step of a tick writes into its own locals. *)
LEMMA LocalType ==
    ASSUME TypeOK, NEW t \in Ticks, NEW l \in Local, tick' = [tick EXCEPT ![t] = l]
    PROVE  tick' \in [Ticks -> Local]
BY DEF TypeOK

LEMMA SkipType ==
    ASSUME TypeOK, NEW t \in Ticks, Skip(t)
    PROVE  tick' \in [Ticks -> Local]
<1>1. [Idle EXCEPT !.pc = "next", !.todo = tick[t].todo] \in Local
  BY IdleType DEF TypeOK, Local
<1> QED BY <1>1, LocalType DEF Skip

LEMMA UpsertType ==
    ASSUME TypeOK, NEW p \in Positions, NEW e \in {"none", "OPEN"} \cup Ends, Upsert(p, e) \/ UpsertThrows
    PROVE  row' \in [Positions -> {"none", "OPEN"} \cup Ends]
BY DEF TypeOK, Upsert, UpsertThrows

LEMMA ForgottenType ==
    ASSUME TypeOK, NEW p \in Positions, Forgotten(p) \/ Remembered
    PROVE  /\ trend' \in [Positions -> 0..Confirm]
           /\ watched' \subseteq Positions /\ refs' \in [Jettons -> Int] /\ polled' \subseteq Jettons
           /\ cache' \in [Jettons -> [verdict : Verdict, fresh : BOOLEAN, crash : BOOLEAN]]
           /\ baseline' \in [Jettons -> Verdict] /\ best' \subseteq Positions
<1>1. CASE Remembered
  BY <1>1 DEF TypeOK, Remembered
<1>2. CASE Forgotten(p)
  <2>1. Unmeasured \in [verdict : Verdict, fresh : BOOLEAN, crash : BOOLEAN] /\ "none" \in Verdict
    BY DEF Unmeasured, Verdict
  <2>2. cache' \in [Jettons -> [verdict : Verdict, fresh : BOOLEAN, crash : BOOLEAN]]
    BY <1>2, <2>1 DEF Forgotten, TypeOK
  <2>3. baseline' \in [Jettons -> Verdict]
    BY <1>2, <2>1 DEF Forgotten, TypeOK
  <2>5. trend' \in [Positions -> 0..Confirm]
    <3>1. 0 \in 0..Confirm
      BY SizesAssumption
    <3> QED BY <1>2, <3>1, Zenon DEF Forgotten, TypeOK
  <2>4. /\ watched' \subseteq Positions /\ refs' \in [Jettons -> Int] /\ polled' \subseteq Jettons
        /\ best' \subseteq Positions
    BY <1>2 DEF Forgotten, Unwatched, TypeOK
  <2> QED BY <2>2, <2>3, <2>4, <2>5
<1> QED BY <1>1, <1>2

-----------------------------------------------------------------------------
(* Every action keeps the types. *)

LEMMA BootTypes ==
    ASSUME TypeOK, Boot \/ StartMonitor \/ Crash \/ (\E p \in Positions : RecordPosition(p) \/ Recover(p))
    PROVE  TypeOK'
<1>1. CASE Boot
  BY <1>1 DEF Boot, TypeOK, OpenRows, memory, outside
<1>2. CASE StartMonitor
  BY <1>2 DEF StartMonitor, TypeOK, memory, outside
<1>3. CASE Crash
  <2>1. tick' \in [Ticks -> Local]
    BY <1>3, IdleType DEF Crash
  <2>2. pending' \in [Purses -> Nat]
    <3>1. \A t \in Ticks : [pending EXCEPT ![Purse(tick[t].cur)] = @ + 1] \in [Purses -> Nat]
      <4> TAKE t \in Ticks
      <4>1. tick[t].cur \in Positions
        BY DEF TypeOK, Local
      <4>2. Purse(tick[t].cur) \in Purses
        BY <4>1, PurseType
      <4> QED BY <4>2, BumpType DEF TypeOK
    <3> QED BY <1>3, <3>1 DEF Crash, TypeOK
  <2>3. cache' \in [Jettons -> [verdict : Verdict, fresh : BOOLEAN, crash : BOOLEAN]] /\ baseline' \in [Jettons -> Verdict]
    BY <1>3 DEF Crash, Unmeasured, Verdict
  <2>4. trend' \in [Positions -> 0..Confirm] /\ refs' \in [Jettons -> Int] /\ dead' \in [Jettons -> BOOLEAN]
    BY <1>3, SizesAssumption DEF Crash
  <2> QED BY <1>3, <2>1, <2>2, <2>3, <2>4 DEF Crash, TypeOK, outside
<1>4. ASSUME NEW p \in Positions, RecordPosition(p)
      PROVE  TypeOK'
  <2>1. row' \in [Positions -> {"none", "OPEN"} \cup Ends]
    BY <1>4, UpsertType DEF RecordPosition
  <2>2. held' \in [Purses -> Nat]
    BY <1>4, PurseType, BumpType DEF RecordPosition, TypeOK
  <2> QED BY <1>4, <2>1, <2>2 DEF RecordPosition, TypeOK, memory, outside
<1>5. ASSUME NEW p \in Positions, Recover(p)
      PROVE  TypeOK'
  <2>1. row' \in [Positions -> {"none", "OPEN"} \cup Ends]
    <3>1. (Upsert(p, "CLOSED") \/ UpsertThrows) \/ UNCHANGED row
      BY <1>5 DEF Recover
    <3>2. "CLOSED" \in {"none", "OPEN"} \cup Ends
      BY DEF Ends
    <3> QED BY <3>1, <3>2, UpsertType DEF TypeOK
  <2> QED BY <1>5, <2>1 DEF Recover, TypeOK, memory, outside
<1> QED BY <1>1, <1>2, <1>3, <1>4, <1>5

LEMMA LocalExcept ==
    ASSUME NEW l \in Local
    PROVE  /\ \A s \in SUBSET Positions : [l EXCEPT !.todo = s] \in Local
           /\ \A c \in {"idle", "next"} \cup Deciding : [l EXCEPT !.pc = c] \in Local
BY DEF Local

LEMMA TodoType ==
    ASSUME TypeOK, NEW t \in Ticks, NEW p \in Positions, tick' = [tick EXCEPT ![t].todo = @ \ {p}]
    PROVE  tick' \in [Ticks -> Local]
<1>0. tick[t] \in Local /\ tick[t].todo \ {p} \in SUBSET Positions
  BY DEF TypeOK, Local
<1>1. [tick[t] EXCEPT !.todo = tick[t].todo \ {p}] \in Local
  BY <1>0, LocalExcept
<1>2. tick' = [tick EXCEPT ![t] = [tick[t] EXCEPT !.todo = tick[t].todo \ {p}]]
  OBVIOUS
<1> QED BY <1>1, <1>2, LocalType

LEMMA PcType ==
    ASSUME TypeOK, NEW t \in Ticks, NEW c \in Deciding, tick' = [tick EXCEPT ![t].pc = c]
    PROVE  tick' \in [Ticks -> Local]
<1>1. [tick[t] EXCEPT !.pc = c] \in Local
  BY LocalExcept DEF TypeOK
<1>2. tick' = [tick EXCEPT ![t] = [tick[t] EXCEPT !.pc = c]]
  OBVIOUS
<1> QED BY <1>1, <1>2, LocalType

LEMMA EndingType ==
    ASSUME NEW rug \in BOOLEAN, NEW flip \in BOOLEAN, NEW crash \in BOOLEAN
    PROVE  Ending(rug, flip, crash) \in {"none"} \cup Ends
BY DEF Ending, Ends

LEMMA DecideType ==
    ASSUME TypeOK, NEW t \in Ticks, NEW p \in Positions, NEW quoted, Decide(t, p, quoted)
    PROVE  /\ tick' \in [Ticks -> Local]
           /\ cache' \in [Jettons -> [verdict : Verdict, fresh : BOOLEAN, crash : BOOLEAN]]
           /\ baseline' \in [Jettons -> Verdict] /\ best' \subseteq Positions
<1> DEFINE m == Master[p]
           Then(v, flip) == IF baseline[m] = "none" THEN v[1] ELSE baseline[m]
           End(v, flip) == Ending(Drained(p, quoted) \/ Degraded(Then(v, flip), v[1]), flip, Down(m))
<1>1. m \in Jettons
  BY PurseType
<1>2. PICK v \in Verdicts(m), flip \in Flips(p) :
          /\ cache' = [cache EXCEPT ![m] = v[2]]
          /\ baseline' = [baseline EXCEPT ![m] = Then(v, flip)]
          /\ best' = Valued(p, quoted)
          /\ \/ /\ End(v, flip) # "none"
                /\ tick' = [tick EXCEPT ![t] = [pc |-> "guard", todo |-> @.todo \ {p}, cur |-> p, end |-> End(v, flip)]]
             \/ (End(v, flip) = "none" \/ StoreThrows) /\ tick' = [tick EXCEPT ![t].todo = @ \ {p}]
  BY Zenon DEF Decide
<1> HIDE DEF m
<1>3. v[1] \in Verdict /\ v[2] \in [verdict : Verdict, fresh : BOOLEAN, crash : BOOLEAN]
  BY <1>1, VerdictsType
<1>4. flip \in BOOLEAN
  BY DEF Flips
<1>5. Then(v, flip) \in Verdict
  BY <1>1, <1>3 DEF TypeOK
<1>6. End(v, flip) \in {"none"} \cup Ends
  <2>1. (Drained(p, quoted) \/ Degraded(Then(v, flip), v[1])) \in BOOLEAN /\ Down(m) \in BOOLEAN
    BY Zenon DEF Down
  <2> QED BY <2>1, <1>4, EndingType
<1>7. cache' \in [Jettons -> [verdict : Verdict, fresh : BOOLEAN, crash : BOOLEAN]]
  BY <1>2, <1>3 DEF TypeOK
<1>8. baseline' \in [Jettons -> Verdict]
  BY <1>2, <1>5 DEF TypeOK
<1>9. tick' \in [Ticks -> Local]
  <2> HIDE DEF Then, End
  <2>1. CASE tick' = [tick EXCEPT ![t] = [pc |-> "guard", todo |-> @.todo \ {p}, cur |-> p, end |-> End(v, flip)]]
    <3>1. [pc |-> "guard", todo |-> tick[t].todo \ {p}, cur |-> p, end |-> End(v, flip)] \in Local
      BY <1>6 DEF TypeOK, Local, Deciding
    <3> QED BY <2>1, <3>1, LocalType
  <2>2. CASE tick' = [tick EXCEPT ![t].todo = @ \ {p}]
    BY <2>2, TodoType
  <2> QED BY <1>2, <2>1, <2>2
<1>10. best' \subseteq Positions
  BY <1>2 DEF Valued, TypeOK
<1> QED BY <1>7, <1>8, <1>9, <1>10

LEMMA ResolvedType ==
    ASSUME TypeOK, NEW p \in Positions, Resolved(p)
    PROVE  watched' \subseteq Positions /\ refs' \in [Jettons -> Int] /\ polled' \subseteq Jettons
BY PurseType DEF Resolved, Watch, TypeOK

LEMMA LookTypes ==
    ASSUME TypeOK, NEW t \in Ticks, NEW p \in Positions, Look(t, p)
    PROVE  TypeOK'
<1>1. PICK q \in Quotes(Master[p]) :
           /\ dead' = [dead EXCEPT ![Master[p]] = q[2]]
           /\ \/ /\ Upsert(p, "OPEN")
                 /\ trend' = [trend EXCEPT ![p] = Observed(p)]
                 /\ Decide(t, p, q[1])
              \/ /\ UpsertThrows
                 /\ trend' = [trend EXCEPT ![p] = Observed(p)]
                 /\ tick' = [tick EXCEPT ![t].todo = @ \ {p}]
                 /\ UNCHANGED <<cache, baseline, best>>
              \/ /\ ~q[1]
                 /\ tick' = [tick EXCEPT ![t].todo = @ \ {p}]
                 /\ UNCHANGED <<row, trend, cache, baseline, best>>
  BY Zenon DEF Look
<1>2. dead' \in [Jettons -> BOOLEAN]
  BY <1>1, PurseType, QuotesType DEF TypeOK
<1>3. trend' \in [Positions -> 0..Confirm]
  <2>1. [trend EXCEPT ![p] = Observed(p)] \in [Positions -> 0..Confirm]
    BY ObservedType, Zenon DEF TypeOK
  <2>2. trend \in [Positions -> 0..Confirm]
    BY Zenon DEF TypeOK
  <2> QED BY <1>1, <2>1, <2>2, Zenon
<1>4. row' \in [Positions -> {"none", "OPEN"} \cup Ends]
  BY <1>1 DEF TypeOK, Upsert, UpsertThrows
<1>5. /\ tick' \in [Ticks -> Local]
      /\ cache' \in [Jettons -> [verdict : Verdict, fresh : BOOLEAN, crash : BOOLEAN]]
      /\ baseline' \in [Jettons -> Verdict] /\ best' \subseteq Positions
  <2>1. CASE Decide(t, p, q[1])
    BY <2>1, DecideType
  <2>2. CASE tick' = [tick EXCEPT ![t].todo = @ \ {p}] /\ UNCHANGED <<cache, baseline, best>>
    BY <2>2, TodoType DEF TypeOK
  <2> QED BY <1>1, <2>1, <2>2
<1>6. watched' \subseteq Positions /\ refs' \in [Jettons -> Int] /\ polled' \subseteq Jettons
  BY ResolvedType DEF Look
<1> QED BY <1>2, <1>3, <1>4, <1>5, <1>6 DEF Look, TypeOK, outside

LEMMA GuardTypes ==
    ASSUME TypeOK, NEW t \in Ticks, Guard(t)
    PROVE  TypeOK'
<1> DEFINE p == tick[t].cur
<1>0. p \in Positions
  BY DEF TypeOK, Local
<1>1. \/ (Upsert(p, "STOPPED") \/ UpsertThrows) /\ (Forgotten(p) \/ Remembered) /\ Skip(t)
      \/ tick' = [tick EXCEPT ![t].pc = "sell"] /\ UNCHANGED row /\ Remembered
      \/ Skip(t) /\ UNCHANGED row /\ Remembered
  BY Zenon DEF Guard
<1>2. UNCHANGED <<held, pending, phase, toRecover, coord, killed, inFlight, dead, outside, trouble, booked, leaked>>
  BY Zenon DEF Guard
<1> HIDE DEF p
<1>3. row' \in [Positions -> {"none", "OPEN"} \cup Ends]
  <2>1. "STOPPED" \in {"none", "OPEN"} \cup Ends
    BY DEF Ends
  <2> QED BY <1>0, <1>1, <2>1, UpsertType DEF TypeOK
<1>4. tick' \in [Ticks -> Local]
  <2>1. "sell" \in Deciding
    BY DEF Deciding
  <2> QED BY <1>1, <2>1, SkipType, PcType
<1>5. Forgotten(p) \/ Remembered
  BY <1>1, Zenon
<1> QED BY <1>0, <1>2, <1>3, <1>4, <1>5, ForgottenType DEF TypeOK, outside

LEMMA SellTypes ==
    ASSUME TypeOK, NEW t \in Ticks, Sell(t)
    PROVE  TypeOK'
<1> DEFINE u == Purse(tick[t].cur)
           m == Master[tick[t].cur]
<1>0. u \in Purses /\ m \in Jettons
  BY PurseType DEF TypeOK, Local
<1>1. /\ \/ Skip(t)
         \/ tick' = [tick EXCEPT ![t].pc = "book"]
      /\ \/ UNCHANGED held
         \/ held' = [held EXCEPT ![u] = IF @ > 0 THEN @ - 1 ELSE 0]
         \/ held[u] > 0 /\ held' = [held EXCEPT ![u] = @ - 1]
      /\ \/ UNCHANGED pending
         \/ pending' = [pending EXCEPT ![u] = @ + 1]
      /\ \/ UNCHANGED dead
         \/ \E q \in Quotes(m) : dead' = [dead EXCEPT ![m] = q[2]]
  BY Zenon DEF Sell
<1>2. UNCHANGED <<row, phase, toRecover, coord, killed, inFlight, trend, watched, refs, polled, cache,
                  baseline, best, outside, trouble, booked, leaked>>
  BY Zenon DEF Sell
<1> HIDE DEF u, m
<1>3. tick' \in [Ticks -> Local]
  <2>1. "book" \in Deciding
    BY DEF Deciding
  <2> QED BY <1>1, <2>1, SkipType, PcType
<1>4. held' \in [Purses -> Nat]
  BY <1>0, <1>1 DEF TypeOK
<1>5. pending' \in [Purses -> Nat]
  BY <1>0, <1>1, BumpType DEF TypeOK
<1>6. dead' \in [Jettons -> BOOLEAN]
  <2>1. ASSUME NEW q \in Quotes(m), dead' = [dead EXCEPT ![m] = q[2]]
        PROVE  dead' \in [Jettons -> BOOLEAN]
    BY <1>0, <2>1, QuotesType DEF TypeOK
  <2>2. CASE UNCHANGED dead
    BY <2>2 DEF TypeOK
  <2> QED BY <1>1, <2>1, <2>2
<1> QED BY <1>2, <1>3, <1>4, <1>5, <1>6 DEF TypeOK, outside

LEMMA BookTypes ==
    ASSUME TypeOK, NEW t \in Ticks, Book(t)
    PROVE  TypeOK'
<1> DEFINE p == tick[t].cur
           e == tick[t].end
<1>0. p \in Positions /\ e \in {"none", "OPEN"} \cup Ends
  BY DEF TypeOK, Local
<1>1. /\ Upsert(p, e) \/ UpsertThrows
      /\ booked' = [booked EXCEPT ![p] = @ + 1] \/ UNCHANGED booked
      /\ leaked' = leaked \cup {p} \/ UNCHANGED leaked
      /\ Forgotten(p) \/ Remembered
      /\ Skip(t)
  BY Zenon DEF Book
<1>2. UNCHANGED <<held, pending, phase, toRecover, coord, killed, inFlight, dead, outside, trouble>>
  BY Zenon DEF Book
<1> HIDE DEF p, e
<1>3. row' \in [Positions -> {"none", "OPEN"} \cup Ends]
  BY <1>0, <1>1, UpsertType
<1>4. booked' \in [Positions -> Nat]
  BY <1>0, <1>1, BumpType DEF TypeOK
<1>5. leaked' \subseteq Positions
  BY <1>0, <1>1 DEF TypeOK
<1> QED BY <1>0, <1>1, <1>2, <1>3, <1>4, <1>5, SkipType, ForgottenType DEF TypeOK, outside

LEMMA TickTypes ==
    ASSUME TypeOK, NEW t \in Ticks, TickStep(t)
    PROVE  TypeOK'
<1>1. CASE Fire(t)
  <2>1. tick' \in [Ticks -> Local]
    <3>0. tick[t] \in Local /\ OpenRows \in SUBSET Positions
      BY DEF OpenRows, TypeOK
    <3>1. [tick[t] EXCEPT !.pc = "next", !.todo = OpenRows] \in Local
      BY <3>0 DEF Local
    <3>2. tick' = [tick EXCEPT ![t] = [tick[t] EXCEPT !.pc = "next", !.todo = OpenRows]]
      BY <1>1 DEF Fire, Start, TypeOK
    <3> QED BY <3>1, <3>2, LocalType
  <2> QED BY <1>1, <2>1 DEF Fire, Unfired, TypeOK, outside
<1>2. CASE EndTick(t)
  <2>1. tick' \in [Ticks -> Local]
    BY <1>2, IdleType, LocalType DEF EndTick
  <2> QED BY <1>2, <2>1 DEF EndTick, Unfired, TypeOK, outside
<1> QED BY <1>1, <1>2, GuardTypes, SellTypes, BookTypes, LookTypes DEF TickStep

LEMMA WorldTypes ==
    ASSUME TypeOK,
           \/ \E m \in Jettons : \/ PollTick(m) \/ CacheAges(m) \/ PoolRevives(m) \/ MarketMoves(m)
                                 \/ AuditTurns(m) \/ AuditMisreads(m)
           \/ \E u \in Purses : LateSell(u)
           \/ Toggle \/ Weather
    PROVE  TypeOK'
<1>1. ASSUME NEW m \in Jettons, PollTick(m)
      PROVE  TypeOK'
  <2>1. trend' \in [Positions -> 0..Confirm]
    BY <1>1, ObservedType DEF PollTick, TypeOK
  <2> QED BY <1>1, <2>1 DEF PollTick, TypeOK, outside
<1>2. ASSUME NEW m \in Jettons, CacheAges(m)
      PROVE  TypeOK'
  <2>1. cache' \in [Jettons -> [verdict : Verdict, fresh : BOOLEAN, crash : BOOLEAN]]
    BY <1>2 DEF CacheAges, TypeOK
  <2> QED BY <1>2, <2>1 DEF CacheAges, TypeOK, outside
<1>3. ASSUME NEW m \in Jettons, PoolRevives(m)
      PROVE  TypeOK'
  BY <1>3 DEF PoolRevives, TypeOK, outside
<1>4. ASSUME NEW m \in Jettons, MarketMoves(m)
      PROVE  TypeOK'
  BY <1>4 DEF MarketMoves, Harms, TypeOK, memory
<1>5. ASSUME NEW m \in Jettons, AuditTurns(m)
      PROVE  TypeOK'
  BY <1>5 DEF AuditTurns, Harms, TypeOK, memory
<1>6. ASSUME NEW m \in Jettons, AuditMisreads(m)
      PROVE  TypeOK'
  BY <1>6 DEF AuditMisreads, Harms, TypeOK, memory
<1>7. ASSUME NEW u \in Purses, LateSell(u)
      PROVE  TypeOK'
  <2>1. pending' \in [Purses -> Nat] /\ held' \in [Purses -> Nat]
    BY <1>7 DEF LateSell, TypeOK
  <2> QED BY <1>7, <2>1 DEF LateSell, TypeOK, memory, outside
<1>8. CASE Toggle
  BY <1>8 DEF Toggle, TypeOK, memory, outside
<1>9. CASE Weather
  BY <1>9 DEF Weather, TypeOK, memory, outside
<1> QED BY <1>1, <1>2, <1>3, <1>4, <1>5, <1>6, <1>7, <1>8, <1>9

LEMMA TypesKept == TypeOK /\ [Next]_vars => TypeOK'
<1> SUFFICES ASSUME TypeOK, [Next]_vars PROVE TypeOK'
  OBVIOUS
<1>1. CASE UNCHANGED vars
  BY <1>1 DEF vars, memory, outside, TypeOK
<1>2. CASE Next
  BY <1>2, TickTypes, BootTypes, WorldTypes DEF Next
<1> QED BY <1>1, <1>2

(* Every variable keeps the type of the row, map or local of the code that  *)
(* it stands for, through every tick, fault and restart.                    *)
THEOREM TypeCorrect == Spec => []TypeOK
BY InitTypeOK, TypesKept, PTL DEF Spec

-----------------------------------------------------------------------------
(* One tick at a time, over open rows *)

(* inFlight keeps all firings but one idle; what that one has still to look *)
(* at, and what it is deciding about, are open rows, because nothing else   *)
(* closes a row while it runs.                                              *)
Alone ==
    /\ \A t \in Ticks : tick[t].pc # "idle" => inFlight /\ phase = "running"
    /\ \A t, s \in Ticks : tick[t].pc # "idle" /\ tick[s].pc # "idle" => t = s
OverOpenRows ==
    \A t \in Ticks :
        /\ \A p \in tick[t].todo : Open(p)
        /\ tick[t].pc = "idle" => tick[t].todo = {}
        /\ tick[t].pc \in Deciding => /\ Open(tick[t].cur) /\ tick[t].cur \notin tick[t].todo
                                      /\ tick[t].end \in Ends
BookedWhenClosed == \A p \in Positions : booked[p] = 0 \/ (booked[p] = 1 /\ row[p] \in Ends)
Shape == TypeOK /\ Alone /\ OverOpenRows /\ BookedWhenClosed

LEMMA Others ==
    ASSUME Shape, NEW t \in Ticks, tick[t].pc # "idle"
    PROVE  \A s \in Ticks : s # t => tick[s].pc = "idle" /\ tick[s].todo = {}
BY DEF Shape, Alone, OverOpenRows

(* What Skip leaves of a tick. *)
LEMMA SkipFacts ==
    ASSUME TypeOK, NEW t \in Ticks, Skip(t)
    PROVE  /\ tick'[t].pc = "next" /\ tick'[t].todo = tick[t].todo
           /\ \A s \in Ticks : s # t => tick'[s] = tick[s]
<1>1. tick' = [tick EXCEPT ![t] = [Idle EXCEPT !.pc = "next", !.todo = tick[t].todo]]
  BY DEF Skip
<1>2. tick'[t] = [Idle EXCEPT !.pc = "next", !.todo = tick[t].todo]
  BY <1>1 DEF TypeOK
<1> QED BY <1>1, <1>2, IdleType DEF TypeOK, Idle

(* What each step of a running tick does to rows, locals and wallets. *)

LEMMA LookFacts ==
    ASSUME Shape, NEW t \in Ticks, NEW p \in Positions, Look(t, p)
    PROVE  /\ tick[t].pc = "next" /\ p \in tick[t].todo /\ row' = row
           /\ \A s \in Ticks : s # t => tick'[s] = tick[s]
           /\ tick'[t].todo = tick[t].todo \ {p}
           /\ \/ tick'[t].pc = "next"
              \/ /\ tick'[t].pc = "guard" /\ tick'[t].cur = p /\ tick'[t].end \in Ends
                 /\ \E q : Decide(t, p, q)
<1>1. tick[t].pc = "next" /\ p \in tick[t].todo /\ Open(p) /\ TypeOK
  BY Zenon DEF Look, Shape, OverOpenRows
<1>2. row' = row
  <2>1. row' = row \/ row' = [row EXCEPT ![p] = "OPEN"]
    BY Zenon DEF Look, Upsert, UpsertThrows
  <2>2. [row EXCEPT ![p] = "OPEN"] = row
    BY <1>1 DEF Open, TypeOK
  <2> QED BY <2>1, <2>2
<1>3. CASE tick' = [tick EXCEPT ![t].todo = @ \ {p}]
  BY <1>1, <1>2, <1>3 DEF TypeOK, Local
<1>4. CASE tick' # [tick EXCEPT ![t].todo = @ \ {p}]
  <2>1. PICK q : Decide(t, p, q)
    BY <1>4, Zenon DEF Look
  <2>2. PICK e : /\ e # "none"
                 /\ tick' = [tick EXCEPT ![t] = [pc |-> "guard", todo |-> @.todo \ {p}, cur |-> p, end |-> e]]
    BY <1>4, <2>1, Zenon DEF Decide
  <2>3. tick'[t] = [pc |-> "guard", todo |-> tick[t].todo \ {p}, cur |-> p, end |-> e]
    BY <1>1, <2>2 DEF TypeOK
  <2>4. tick' \in [Ticks -> Local]
    BY <1>1, <2>1, DecideType
  <2>5. e \in Ends
    BY <2>2, <2>3, <2>4 DEF Local
  <2>6. \A s \in Ticks : s # t => tick'[s] = tick[s]
    BY <1>1, <2>2 DEF TypeOK
  <2> QED BY <1>1, <1>2, <2>1, <2>3, <2>5, <2>6
<1> QED BY <1>3, <1>4

LEMMA GuardFacts ==
    ASSUME Shape, NEW t \in Ticks, Guard(t)
    PROVE  /\ tick[t].pc = "guard" /\ Open(tick[t].cur)
           /\ \A s \in Ticks : s # t => tick'[s] = tick[s]
           /\ tick'[t].todo = tick[t].todo
           /\ \/ row' = row
              \/ /\ row' = [row EXCEPT ![tick[t].cur] = "STOPPED"] /\ held[Purse(tick[t].cur)] = 0
                 /\ tick'[t].pc = "next"
           /\ \/ tick'[t].pc = "next"
              \/ tick'[t].pc = "sell" /\ tick'[t].cur = tick[t].cur /\ tick'[t].end = tick[t].end
<1> DEFINE p == tick[t].cur
<1>1. tick[t].pc = "guard" /\ Open(p) /\ TypeOK
  BY DEF Guard, Shape, OverOpenRows, Deciding
<1>2. /\ \/ row' = row
         \/ row' = [row EXCEPT ![p] = "STOPPED"] /\ held[Purse(p)] = 0 /\ Skip(t)
      /\ Skip(t) \/ tick' = [tick EXCEPT ![t].pc = "sell"]
  <2>1. PICK balance \in {held[Purse(p)], Unread} :
            \/ Closable(balance) /\ Upsert(p, "STOPPED") /\ Skip(t)
            \/ UNCHANGED row /\ Skip(t)
            \/ UNCHANGED row /\ tick' = [tick EXCEPT ![t].pc = "sell"]
    BY Zenon DEF Guard, UpsertThrows
  <2>2. Closable(balance) => held[Purse(p)] = 0
    BY DEF Closable, Unread
  <2> QED BY <2>1, <2>2 DEF Upsert
<1>3. CASE Skip(t)
  BY <1>1, <1>2, <1>3, SkipFacts
<1>4. CASE tick' = [tick EXCEPT ![t].pc = "sell"] /\ ~Skip(t)
  BY <1>1, <1>2, <1>4 DEF TypeOK, Local
<1> QED BY <1>2, <1>3, <1>4

LEMMA SellFacts ==
    ASSUME Shape, NEW t \in Ticks, Sell(t)
    PROVE  /\ tick[t].pc = "sell" /\ Open(tick[t].cur) /\ row' = row
           /\ \A s \in Ticks : s # t => tick'[s] = tick[s]
           /\ tick'[t].todo = tick[t].todo
           /\ LET u == Purse(tick[t].cur)
              IN  \/ /\ tick'[t].pc = "next"
                     /\ held' = held \/ (held[u] > 0 /\ held' = [held EXCEPT ![u] = @ - 1])
                  \/ /\ tick'[t].pc = "book" /\ tick'[t].cur = tick[t].cur /\ tick'[t].end = tick[t].end
                     /\ held' = [held EXCEPT ![u] = IF @ > 0 THEN @ - 1 ELSE 0]
<1> DEFINE u == Purse(tick[t].cur)
<1>1. tick[t].pc = "sell" /\ Open(tick[t].cur) /\ row' = row /\ TypeOK
  BY DEF Sell, Shape, OverOpenRows, Deciding
<1>2. \/ /\ Skip(t)
         /\ held' = held \/ (held[u] > 0 /\ held' = [held EXCEPT ![u] = @ - 1])
      \/ /\ tick' = [tick EXCEPT ![t].pc = "book"]
         /\ held' = [held EXCEPT ![u] = IF @ > 0 THEN @ - 1 ELSE 0]
  <2>1. \/ Skip(t) /\ held' = held
        \/ tick' = [tick EXCEPT ![t].pc = "book"] /\ held' = [held EXCEPT ![u] = IF @ > 0 THEN @ - 1 ELSE 0]
        \/ Skip(t) /\ held[u] > 0 /\ held' = [held EXCEPT ![u] = @ - 1]
    BY Zenon DEF Sell
  <2> QED BY <2>1, Zenon
<1> HIDE DEF u
<1>3. CASE /\ Skip(t)
           /\ held' = held \/ (held[u] > 0 /\ held' = [held EXCEPT ![u] = @ - 1])
  BY <1>1, <1>3, SkipFacts DEF u
<1>4. CASE /\ tick' = [tick EXCEPT ![t].pc = "book"]
           /\ held' = [held EXCEPT ![u] = IF @ > 0 THEN @ - 1 ELSE 0]
  <2>1. /\ \A s \in Ticks : s # t => tick'[s] = tick[s]
        /\ tick'[t].todo = tick[t].todo
        /\ tick'[t].pc = "book" /\ tick'[t].cur = tick[t].cur /\ tick'[t].end = tick[t].end
    BY <1>1, <1>4 DEF TypeOK, Local
  <2> QED BY <1>1, <1>4, <2>1 DEF u
<1> QED BY <1>2, <1>3, <1>4

LEMMA BookFacts ==
    ASSUME Shape, NEW t \in Ticks, Book(t)
    PROVE  /\ tick[t].pc = "book" /\ Open(tick[t].cur) /\ tick[t].end \in Ends
           /\ \A s \in Ticks : s # t => tick'[s] = tick[s]
           /\ tick'[t].todo = tick[t].todo /\ tick'[t].pc = "next"
           /\ \/ row' = row /\ booked' = booked
              \/ /\ row' = [row EXCEPT ![tick[t].cur] = tick[t].end]
                 /\ booked' = booked \/ booked' = [booked EXCEPT ![tick[t].cur] = @ + 1]
<1>1. tick[t].pc = "book" /\ Open(tick[t].cur) /\ tick[t].end \in Ends /\ TypeOK
  BY DEF Book, Shape, OverOpenRows, Deciding
<1>2. Skip(t)
  BY DEF Book
<1>3. \/ row' = row /\ booked' = booked
      \/ /\ row' = [row EXCEPT ![tick[t].cur] = tick[t].end]
         /\ booked' = booked \/ booked' = [booked EXCEPT ![tick[t].cur] = @ + 1]
  BY Zenon DEF Book, Upsert, UpsertThrows
<1> QED BY <1>1, <1>2, <1>3, SkipFacts

LEMMA OneMoves ==
    ASSUME Shape, NEW t \in Ticks, tick[t].pc # "idle",
           UNCHANGED <<phase, inFlight>>, \A s \in Ticks : s # t => tick'[s] = tick[s],
           tick'[t].pc # "idle", tick'[t].todo \subseteq tick[t].todo,
           \A p \in tick'[t].todo : row'[p] = row[p],
           tick'[t].pc \in Deciding => /\ row'[tick'[t].cur] = "OPEN" /\ tick'[t].cur \notin tick'[t].todo
                                       /\ tick'[t].end \in Ends
    PROVE  Alone' /\ OverOpenRows'
<1>1. Alone'
  BY DEF Shape, Alone
<1>2. ASSUME NEW s \in Ticks
      PROVE  /\ \A p \in tick'[s].todo : row'[p] = "OPEN"
             /\ tick'[s].pc = "idle" => tick'[s].todo = {}
             /\ tick'[s].pc \in Deciding => /\ row'[tick'[s].cur] = "OPEN" /\ tick'[s].cur \notin tick'[s].todo
                                            /\ tick'[s].end \in Ends
  <2>1. CASE s = t
    BY <2>1 DEF Shape, OverOpenRows, Open
  <2>2. CASE s # t
    <3>1. tick'[s].pc = "idle" /\ tick'[s].todo = {}
      BY <2>2, Others
    <3> QED BY <3>1 DEF Deciding
  <2> QED BY <2>1, <2>2
<1> QED BY <1>1, <1>2 DEF OverOpenRows, Open

LEMMA TickShape ==
    ASSUME Shape, NEW t \in Ticks, TickStep(t)
    PROVE  Alone' /\ OverOpenRows' /\ BookedWhenClosed'
<1>0. TypeOK /\ tick[t] \in Local
  BY DEF Shape, TypeOK
<1>1. CASE Fire(t)
  <2>1. UNCHANGED <<row, booked, phase>> /\ inFlight' /\ ~inFlight /\ phase = "running"
    BY <1>1 DEF Fire, Unfired
  <2>2. /\ tick'[t].pc = "next" /\ tick'[t].todo = OpenRows
        /\ \A s \in Ticks : s # t => tick'[s] = tick[s]
    BY <1>0, <1>1 DEF Fire, Start, TypeOK, Local
  <2>3. \A s \in Ticks : tick[s].pc = "idle" /\ tick[s].todo = {}
    BY <2>1 DEF Shape, Alone, OverOpenRows
  <2>4. Alone'
    BY <2>1, <2>2, <2>3 DEF Alone
  <2>5. OverOpenRows'
    BY <2>1, <2>2, <2>3 DEF OverOpenRows, Open, OpenRows, Deciding
  <2> QED BY <2>1, <2>4, <2>5 DEF Shape, BookedWhenClosed
<1>2. CASE EndTick(t)
  <2>1. UNCHANGED <<row, booked, phase>> /\ tick[t].pc # "idle"
    BY <1>2 DEF EndTick, Unfired
  <2>2. tick'[t] = Idle /\ \A s \in Ticks : s # t => tick'[s] = tick[s]
    BY <1>0, <1>2 DEF EndTick, TypeOK
  <2>3. \A s \in Ticks : tick'[s].pc = "idle" /\ tick'[s].todo = {}
    BY <2>1, <2>2, Others DEF Idle
  <2> QED BY <2>1, <2>3 DEF Shape, BookedWhenClosed, Alone, OverOpenRows, Deciding
<1>3. CASE Guard(t)
  <2>1. UNCHANGED <<booked, phase, inFlight>>
    BY <1>3 DEF Guard
  <2>2. tick[t].cur \notin tick[t].todo /\ tick[t].end \in Ends /\ Open(tick[t].cur)
    BY <1>3 DEF Guard, Shape, OverOpenRows, Deciding
  <2>3. \A p \in tick'[t].todo : row'[p] = row[p]
    BY <1>0, <1>3, <2>2, GuardFacts DEF TypeOK, Local
  <2>4. Alone' /\ OverOpenRows'
    BY <1>3, <2>1, <2>2, <2>3, GuardFacts, OneMoves DEF Open, Deciding
  <2>5. BookedWhenClosed'
    BY <1>0, <1>3, <2>1, GuardFacts DEF Shape, BookedWhenClosed, TypeOK, Ends, Open
  <2> QED BY <2>4, <2>5
<1>4. CASE Sell(t)
  <2>1. UNCHANGED <<booked, phase, inFlight>>
    BY <1>4 DEF Sell
  <2>2. tick[t].cur \notin tick[t].todo /\ tick[t].end \in Ends /\ Open(tick[t].cur)
    BY <1>4 DEF Sell, Shape, OverOpenRows, Deciding
  <2>3. Alone' /\ OverOpenRows'
    BY <1>4, <2>1, <2>2, SellFacts, OneMoves DEF Open, Deciding
  <2>4. BookedWhenClosed'
    BY <1>4, <2>1, SellFacts DEF Shape, BookedWhenClosed
  <2> QED BY <2>3, <2>4
<1>5. CASE Book(t)
  <2> DEFINE p == tick[t].cur
  <2>1. UNCHANGED <<phase, inFlight>>
    BY <1>5 DEF Book
  <2>2. p \notin tick[t].todo /\ p \in Positions
    BY <1>0, <1>5 DEF Book, Shape, OverOpenRows, Deciding, Local
  <2>3. \A q \in tick'[t].todo : row'[q] = row[q]
    BY <1>0, <1>5, <2>2, BookFacts DEF TypeOK, Local
  <2>4. Alone' /\ OverOpenRows'
    BY <1>5, <2>1, <2>2, <2>3, BookFacts, OneMoves DEF Deciding
  <2>5. BookedWhenClosed'
    <3>1. booked[p] = 0
      BY <1>5, <2>2, BookFacts DEF Shape, BookedWhenClosed, Open, Ends
    <3>2. ASSUME NEW q \in Positions
          PROVE  booked'[q] = 0 \/ (booked'[q] = 1 /\ row'[q] \in Ends)
      <4>1. CASE q = p
        BY <1>0, <1>5, <2>2, <3>1, <4>1, BookFacts DEF TypeOK
      <4>2. CASE q # p
        BY <1>0, <1>5, <2>2, <4>2, BookFacts DEF TypeOK, Shape, BookedWhenClosed
      <4> QED BY <4>1, <4>2
    <3> QED BY <3>2 DEF BookedWhenClosed
  <2> QED BY <2>4, <2>5
<1>6. ASSUME NEW p \in Positions, Look(t, p)
      PROVE  Alone' /\ OverOpenRows' /\ BookedWhenClosed'
  <2>1. UNCHANGED <<booked, phase, inFlight>>
    BY <1>6 DEF Look
  <2>2. Open(p)
    BY <1>6 DEF Look, Shape, OverOpenRows
  <2>3. Alone' /\ OverOpenRows'
    BY <1>6, <2>1, <2>2, LookFacts, OneMoves DEF Open, Deciding
  <2>4. BookedWhenClosed'
    BY <1>6, <2>1, LookFacts DEF Shape, BookedWhenClosed
  <2> QED BY <2>3, <2>4
<1> QED BY <1>1, <1>2, <1>3, <1>4, <1>5, <1>6 DEF TickStep

LEMMA IdleShape ==
    ASSUME Shape, \A t \in Ticks : tick'[t].pc = "idle" /\ tick'[t].todo = {}
    PROVE  Alone' /\ OverOpenRows'
BY DEF Alone, OverOpenRows, Deciding

(* Outside the ticks, rows change only before the monitor runs or from      *)
(* "none" to "OPEN".                                                        *)
LEMMA RestShape ==
    ASSUME Shape, UNCHANGED <<tick, inFlight, phase, booked>>,
           \A p \in Positions : row'[p] = row[p] \/ (row[p] = "none" /\ row'[p] = "OPEN")
    PROVE  Alone' /\ OverOpenRows' /\ BookedWhenClosed'
<1>1. Alone'
  BY DEF Shape, Alone
<1>2. \A t \in Ticks : tick[t].todo \subseteq Positions /\ tick[t].cur \in Positions
  BY DEF Shape, TypeOK, Local
<1>3. OverOpenRows'
  BY <1>2 DEF Shape, OverOpenRows, Open
<1>4. BookedWhenClosed'
  BY DEF Shape, BookedWhenClosed, Ends
<1> QED BY <1>1, <1>3, <1>4

LEMMA NextShape ==
    ASSUME Shape, [Next]_vars
    PROVE  Alone' /\ OverOpenRows' /\ BookedWhenClosed'
<1>0. TypeOK
  BY DEF Shape
<1>a. phase # "running" => \A t \in Ticks : tick[t].pc = "idle" /\ tick[t].todo = {}
  BY DEF Shape, Alone, OverOpenRows
<1>b. ASSUME UNCHANGED <<row, tick, inFlight, phase, booked>>
      PROVE  Alone' /\ OverOpenRows' /\ BookedWhenClosed'
  <2>1. \A p \in Positions : row'[p] = row[p] \/ (row[p] = "none" /\ row'[p] = "OPEN")
    BY <1>b
  <2> QED BY <1>b, <2>1, RestShape
<1>c. ASSUME UNCHANGED <<row, booked>>
      PROVE  BookedWhenClosed'
  BY <1>c DEF Shape, BookedWhenClosed
<1>1. ASSUME NEW t \in Ticks, TickStep(t)
      PROVE  Alone' /\ OverOpenRows' /\ BookedWhenClosed'
  BY <1>1, TickShape
<1>2. ASSUME NEW p \in Positions, RecordPosition(p)
      PROVE  Alone' /\ OverOpenRows' /\ BookedWhenClosed'
  <2>1. \A q \in Positions : row'[q] = row[q] \/ (row[q] = "none" /\ row'[q] = "OPEN")
    BY <1>0, <1>2 DEF RecordPosition, Upsert, TypeOK
  <2> QED BY <1>2, <2>1, RestShape DEF RecordPosition, memory
<1>3. ASSUME NEW p \in Positions, Recover(p)
      PROVE  Alone' /\ OverOpenRows' /\ BookedWhenClosed'
  <2>1. row' = row \/ row' = [row EXCEPT ![p] = "CLOSED"]
    BY <1>3, Zenon DEF Recover, Upsert, UpsertThrows
  <2>2. UNCHANGED <<tick, booked>> /\ phase # "running"
    BY <1>3 DEF Recover, memory
  <2>3. Alone' /\ OverOpenRows'
    BY <1>a, <2>2, IdleShape
  <2>4. BookedWhenClosed'
    BY <1>0, <2>1, <2>2 DEF Shape, BookedWhenClosed, TypeOK, Ends
  <2> QED BY <2>3, <2>4
<1>4. CASE Boot \/ StartMonitor
  <2>1. UNCHANGED <<tick, booked, row>> /\ phase # "running"
    BY <1>4 DEF Boot, StartMonitor, memory
  <2>2. Alone' /\ OverOpenRows'
    BY <1>a, <2>1, IdleShape
  <2> QED BY <1>c, <2>1, <2>2
<1>5. CASE Crash
  <2>1. UNCHANGED <<booked, row>> /\ \A t \in Ticks : tick'[t] = Idle
    BY <1>5 DEF Crash
  <2>2. Alone' /\ OverOpenRows'
    <3>1. \A t \in Ticks : tick'[t].pc = "idle" /\ tick'[t].todo = {}
      <4>1. Idle.pc = "idle" /\ Idle.todo = {}
        BY DEF Idle
      <4> QED BY <2>1, <4>1
    <3> QED BY <3>1, IdleShape
  <2> QED BY <1>c, <2>1, <2>2
<1>6. ASSUME NEW m \in Jettons,
             PollTick(m) \/ CacheAges(m) \/ PoolRevives(m) \/ MarketMoves(m) \/ AuditTurns(m) \/ AuditMisreads(m)
      PROVE  Alone' /\ OverOpenRows' /\ BookedWhenClosed'
  <2>1. UNCHANGED <<row, tick, inFlight, phase, booked>>
    BY <1>6 DEF PollTick, CacheAges, PoolRevives, MarketMoves, AuditTurns, AuditMisreads, memory
  <2> QED BY <1>b, <2>1
<1>7. CASE (\E u \in Purses : LateSell(u)) \/ Toggle \/ Weather
  <2>1. UNCHANGED <<row, tick, inFlight, phase, booked>>
    BY <1>7 DEF LateSell, Toggle, Weather, memory
  <2> QED BY <1>b, <2>1
<1>8. CASE UNCHANGED vars
  <2>1. UNCHANGED <<row, tick, inFlight, phase, booked>>
    BY <1>8 DEF vars, memory
  <2> QED BY <1>b, <2>1
<1> QED BY <1>1, <1>2, <1>3, <1>4, <1>5, <1>6, <1>7, <1>8 DEF Next

LEMMA ShapeStep == Shape /\ [Next]_vars => Shape'
<1> SUFFICES ASSUME Shape, [Next]_vars PROVE Shape'
  OBVIOUS
<1>1. TypeOK'
  BY TypesKept DEF Shape
<1> QED BY <1>1, NextShape DEF Shape

LEMMA InitShape == Init => Shape
<1> SUFFICES ASSUME Init PROVE Shape
  OBVIOUS
<1>1. TypeOK
  BY InitTypeOK
<1>2. \A t \in Ticks : tick[t].pc = "idle" /\ tick[t].todo = {}
  BY DEF Init, Idle
<1>3. \A p \in Positions : booked[p] = 0
  BY DEF Init
<1> QED BY <1>1, <1>2, <1>3 DEF Shape, Alone, OverOpenRows, BookedWhenClosed, Deciding

THEOREM TicksAlone == Spec => []Shape
BY InitShape, ShapeStep, PTL DEF Spec

(* The result of a position enters the PnL of the day once: a tick books    *)
(* only a row that is still open, and a booked row is closed.               *)
THEOREM BookedOnce == Spec => []NoDoubleBooking
<1>1. Shape => NoDoubleBooking
  BY DEF Shape, BookedWhenClosed, NoDoubleBooking
<1> QED BY <1>1, TicksAlone, PTL

-----------------------------------------------------------------------------
(* What the monitor remembers dies with the process *)

Amnesia ==
    phase # "running" => /\ watched = {} /\ best = {}
                         /\ \A m \in Jettons : baseline[m] = "none" /\ cache[m].verdict = "none"

LEMMA TickRuns ==
    ASSUME Shape, NEW t \in Ticks, TickStep(t)
    PROVE  phase = "running" /\ phase' = "running"
<1>1. CASE Fire(t)
  BY <1>1 DEF Fire, Unfired
<1>2. ASSUME tick[t].pc # "idle" PROVE phase = "running"
  BY <1>2 DEF Shape, Alone
<1>3. CASE EndTick(t)
  BY <1>2, <1>3 DEF EndTick, Unfired
<1>4. CASE Guard(t)
  BY <1>2, <1>4 DEF Guard
<1>5. CASE Sell(t)
  BY <1>2, <1>5 DEF Sell
<1>6. CASE Book(t)
  BY <1>2, <1>6 DEF Book
<1>7. CASE \E p \in Positions : Look(t, p)
  BY <1>2, <1>7 DEF Look
<1> QED BY <1>1, <1>3, <1>4, <1>5, <1>6, <1>7 DEF TickStep

LEMMA AmnesiaStep == Shape /\ Amnesia /\ [Next]_vars => Amnesia'
<1> SUFFICES ASSUME Shape, Amnesia, [Next]_vars PROVE Amnesia'
  OBVIOUS
<1>a. ASSUME UNCHANGED <<watched, best, baseline, cache>>, phase' # "running" => phase # "running"
      PROVE  Amnesia'
  BY <1>a DEF Amnesia
<1>1. CASE \E t \in Ticks : TickStep(t)
  BY <1>1, TickRuns DEF Amnesia
<1>2. CASE (\E p \in Positions : RecordPosition(p) \/ Recover(p)) \/ StartMonitor
  <2>1. UNCHANGED <<watched, best, baseline, cache>> /\ (phase' # "running" => phase # "running")
    BY <1>2 DEF RecordPosition, Recover, StartMonitor, memory
  <2> QED BY <1>a, <2>1
<1>3. CASE Boot
  <2>1. UNCHANGED <<watched, best, baseline, cache>> /\ phase # "running"
    BY <1>3 DEF Boot, memory
  <2> QED BY <1>a, <2>1
<1>4. CASE Crash
  BY <1>4 DEF Crash, Amnesia, Unmeasured
<1>5. ASSUME NEW m \in Jettons, PollTick(m) \/ PoolRevives(m) \/ MarketMoves(m) \/ AuditTurns(m) \/ AuditMisreads(m)
      PROVE  Amnesia'
  <2>1. UNCHANGED <<watched, best, baseline, cache, phase>>
    BY <1>5 DEF PollTick, PoolRevives, MarketMoves, AuditTurns, AuditMisreads, memory
  <2> QED BY <1>a, <2>1
<1>6. ASSUME NEW m \in Jettons, CacheAges(m)
      PROVE  Amnesia'
  <2>1. UNCHANGED <<watched, best, baseline, phase>> /\ cache' = [cache EXCEPT ![m].fresh = FALSE]
    BY <1>6 DEF CacheAges
  <2>2. \A n \in Jettons : cache'[n].verdict = cache[n].verdict
    BY <2>1 DEF Shape, TypeOK
  <2> QED BY <2>1, <2>2 DEF Amnesia
<1>7. CASE (\E u \in Purses : LateSell(u)) \/ Toggle \/ Weather \/ UNCHANGED vars
  <2>1. UNCHANGED <<watched, best, baseline, cache, phase>>
    BY <1>7 DEF LateSell, Toggle, Weather, vars, memory
  <2> QED BY <1>a, <2>1
<1> QED BY <1>1, <1>2, <1>3, <1>4, <1>5, <1>6, <1>7 DEF Next

LEMMA MemoryDies == Spec => []Amnesia
<1>1. Init => Amnesia
  BY DEF Init, Amnesia, Unmeasured
<1> QED BY <1>1, AmnesiaStep, TicksAlone, PTL DEF Spec

-----------------------------------------------------------------------------
(* Emergency exits *)

(* As long as a jetton has not got worse under the eyes of the monitor: a   *)
(* safe baseline means that the answer is safe and that the cache does not  *)
(* say otherwise, a safe cache that the answer is safe, and an exit value   *)
(* seen at its best that it has not drained.                                *)
Sound(m) ==
    /\ baseline[m] = "safe" => audit[m] = "safe" /\ cache[m].verdict # "rugged"
    /\ cache[m].verdict = "safe" => audit[m] = "safe"
Untouched ==
    /\ \A m \in Jettons : m \notin harmed => Sound(m)
    /\ \A p \in best : Master[p] \notin harmed => market[Master[p]] # "drained"
RugDecided ==
    \A t \in Ticks : tick[t].pc \in Deciding /\ tick[t].end = "RUG_EXIT" => Master[tick[t].cur] \in harmed
Measured == Untouched /\ RugDecided /\ RugNeedsDegradation

(* An answer or a best value is only ever dropped. *)
LEMMA AnswersKept ==
    ASSUME TypeOK, Untouched, UNCHANGED outside, best' \subseteq best,
           \A m \in Jettons : \/ cache'[m].verdict = cache[m].verdict /\ baseline'[m] = baseline[m]
                              \/ cache'[m].verdict = "none" /\ baseline'[m] \in {"none", baseline[m]}
    PROVE  Untouched'
BY DEF Untouched, Sound, outside

LEMMA ForgottenAnswers ==
    ASSUME TypeOK, Untouched, UNCHANGED outside, NEW p \in Positions, Forgotten(p) \/ Remembered
    PROVE  Untouched'
<1>1. CASE Remembered
  BY <1>1, AnswersKept DEF Remembered
<1>2. CASE Forgotten(p)
  <2>1. /\ cache' = [cache EXCEPT ![Master[p]] = Unmeasured]
        /\ baseline' = [baseline EXCEPT ![Master[p]] = "none"]
        /\ best' \subseteq best
    BY <1>2 DEF Forgotten
  <2>2. \A m \in Jettons : \/ cache'[m].verdict = cache[m].verdict /\ baseline'[m] = baseline[m]
                           \/ cache'[m].verdict = "none" /\ baseline'[m] \in {"none", baseline[m]}
    BY <2>1 DEF TypeOK, Unmeasured
  <2> QED BY <2>1, <2>2, AnswersKept
<1> QED BY <1>1, <1>2

(* The rows and the decisions that a step leaves as they are. *)
LEMMA DecisionsKept ==
    ASSUME Shape, RugDecided, RugNeedsDegradation,
           harmed \subseteq harmed',
           \A p \in Positions : row'[p] = "RUG_EXIT" => row[p] = "RUG_EXIT",
           \A s \in Ticks : tick'[s].pc \in Deciding =>
               /\ tick[s].pc \in Deciding
               /\ tick'[s].cur = tick[s].cur /\ tick'[s].end = tick[s].end
    PROVE  RugDecided' /\ RugNeedsDegradation'
<1>1. /\ \A p \in Positions : Master[p] \in Jettons
      /\ \A t \in Ticks : tick[t].cur \in Positions
  BY PurseType DEF Shape, TypeOK, Local
<1> QED BY <1>1 DEF RugDecided, RugNeedsDegradation

LEMMA LookMeasured ==
    ASSUME Shape, Measured, NEW t \in Ticks, NEW p \in Positions, Look(t, p)
    PROVE  Measured'
<1> DEFINE m == Master[p]
           Then(v) == IF baseline[m] = "none" THEN v[1] ELSE baseline[m]
           End(v, flip, q) == Ending(Drained(p, q) \/ Degraded(Then(v), v[1]), flip, Down(m))
<1>0. TypeOK /\ m \in Jettons /\ UNCHANGED <<market, audit, harmed>>
  BY PurseType DEF Shape, Look, outside
<1>u. \A n \in Jettons : n \notin harmed => Sound(n)
  BY Zenon DEF Measured, Untouched, Sound
<1>1. ASSUME NEW q, Decide(t, p, q)
      PROVE  Measured'
  <2>1. PICK v \in Verdicts(m), flip \in Flips(p) :
            /\ cache' = [cache EXCEPT ![m] = v[2]]
            /\ baseline' = [baseline EXCEPT ![m] = Then(v)]
            /\ best' = Valued(p, q)
            /\ \/ /\ End(v, flip, q) # "none"
                  /\ tick' = [tick EXCEPT ![t] = [pc |-> "guard", todo |-> @.todo \ {p}, cur |-> p, end |-> End(v, flip, q)]]
               \/ tick' = [tick EXCEPT ![t].todo = @ \ {p}]
    BY <1>1, Zenon DEF Decide
  <2> HIDE DEF m
  <2>2. /\ v[1] \in {"none", v[2].verdict}
        /\ v[2].verdict \in {"none", cache[m].verdict, audit[m]}
        /\ v[2].verdict = "none" => v[1] = "none"
    <3>1. \/ v = <<cache[m].verdict, cache[m]>>
          \/ v = <<audit[m], [verdict |-> audit[m], fresh |-> TRUE, crash |-> Down(m)]>>
          \/ v = <<Gap, cache[m]>> \/ v = <<"none", Unmeasured>>
      BY Zenon DEF Verdicts
    <3>2. CASE v = <<cache[m].verdict, cache[m]>>
      BY <3>2
    <3>3. CASE v = <<audit[m], [verdict |-> audit[m], fresh |-> TRUE, crash |-> Down(m)]>>
      <4> DEFINE c == Down(m)
      <4>1. v = <<audit[m], [verdict |-> audit[m], fresh |-> TRUE, crash |-> c]>>
        BY <3>3
      <4> HIDE DEF c
      <4> QED BY <4>1
    <3>4. CASE v = <<Gap, cache[m]>>
      BY <3>4 DEF Gap
    <3>5. CASE v = <<"none", Unmeasured>>
      BY <3>5 DEF Unmeasured
    <3> QED BY <3>1, <3>2, <3>3, <3>4, <3>5
  <2>3. Untouched'
    <3>1. cache'[m] = v[2] /\ baseline'[m] = Then(v)
      BY <1>0, <2>1 DEF TypeOK
    <3>2. \A n \in Jettons : n # m => cache'[n] = cache[n] /\ baseline'[n] = baseline[n]
      BY <1>0, <2>1 DEF TypeOK
    <3>3. audit[m] \in {"safe", "rugged"} /\ harmed' = harmed /\ audit' = audit /\ market' = market
      BY <1>0 DEF TypeOK
    <3>4. ASSUME m \notin harmed
          PROVE  /\ Then(v) = "safe" => audit[m] = "safe" /\ v[2].verdict # "rugged"
                 /\ v[2].verdict = "safe" => audit[m] = "safe"
      <4>1. Sound(m)
        BY <1>0, <1>u, <3>4
      <4> QED BY <2>2, <3>3, <4>1 DEF Sound
    <3>5. \A o \in best' : o \in best \/ (o = p /\ market[m] # "drained")
      <4>1. best' = best \/ (best' = best \cup {p} /\ ~Down(m))
        BY <2>1, Zenon DEF Valued, m
      <4>2. ~Down(m) => market[m] # "drained"
        BY DEF Down
      <4> QED BY <4>1, <4>2
    <3>6. \A o \in best' : Master[o] \notin harmed' => market'[Master[o]] # "drained"
      BY <3>3, <3>5 DEF Measured, Untouched, Sound, m
    <3>7. ASSUME NEW n \in Jettons, n \notin harmed'
          PROVE  Sound(n)'
      <4> HIDE DEF Then
      <4>1. CASE n = m
        BY <3>1, <3>3, <3>4, <3>7, <4>1 DEF Sound
      <4>2. CASE n # m
        <5>1. Sound(n)
          BY <1>u, <3>3, <3>7
        <5> QED BY <3>2, <3>3, <4>2, <5>1 DEF Sound
      <4> QED BY <4>1, <4>2
    <3> QED BY <3>6, <3>7 DEF Untouched
  <2>4. End(v, flip, q) = "RUG_EXIT" => m \in harmed
    <3>1. End(v, flip, q) = "RUG_EXIT" => Drained(p, q) \/ (Then(v) = "safe" /\ v[1] = "rugged")
      BY DEF Ending, Degraded
    <3>2. Drained(p, q) => m \in harmed
      BY DEF Drained, Measured, Untouched, m
    <3>3. ASSUME Then(v) = "safe", v[1] = "rugged"
          PROVE  m \in harmed
      <4>1. SUFFICES ASSUME m \notin harmed PROVE FALSE
        OBVIOUS
      <4>2. Sound(m)
        BY <1>0, <1>u, <4>1
      <4> QED BY <1>0, <2>2, <3>3, <4>2 DEF Sound, TypeOK
    <3> HIDE DEF End, Then
    <3> QED BY <3>1, <3>2, <3>3, Zenon
  <2>5. RugDecided'
    <3>1. CASE tick' = [tick EXCEPT ![t].todo = @ \ {p}]
      BY <1>0, <3>1 DEF TypeOK, Local, Measured, RugDecided
    <3>2. CASE tick' = [tick EXCEPT ![t] = [pc |-> "guard", todo |-> @.todo \ {p}, cur |-> p, end |-> End(v, flip, q)]]
      <4> HIDE DEF End
      <4>1. tick'[t].cur = p /\ tick'[t].end = End(v, flip, q) /\ \A s \in Ticks : s # t => tick'[s] = tick[s]
        BY <1>0, <3>2 DEF TypeOK
      <4> QED BY <1>0, <2>4, <4>1 DEF Measured, RugDecided, m
    <3> QED BY <2>1, <3>1, <3>2
  <2>6. RugNeedsDegradation'
    BY <1>0, LookFacts DEF Measured, RugNeedsDegradation
  <2> QED BY <2>3, <2>5, <2>6 DEF Measured
<1>2. CASE tick' = [tick EXCEPT ![t].todo = @ \ {p}] /\ UNCHANGED <<cache, baseline, best>>
  <2>1. Untouched'
    BY <1>0, <1>2 DEF Measured, Untouched, Sound
  <2>2. RugDecided'
    BY <1>0, <1>2 DEF TypeOK, Local, Measured, RugDecided
  <2>3. RugNeedsDegradation'
    BY <1>0, LookFacts DEF Measured, RugNeedsDegradation
  <2> QED BY <2>1, <2>2, <2>3 DEF Measured
<1> QED BY <1>1, <1>2, Zenon DEF Look

LEMMA TickMeasured ==
    ASSUME Shape, Measured, NEW t \in Ticks, TickStep(t)
    PROVE  Measured'
<1>0. TypeOK /\ \A s \in Ticks : tick[s].cur \in Positions
  BY DEF Shape, TypeOK, Local
<1>1. CASE Fire(t) \/ EndTick(t)
  <2>1. UNCHANGED <<row, cache, baseline, best, market, audit, harmed>>
    BY <1>1 DEF Fire, EndTick, Unfired, outside
  <2>2. \A s \in Ticks : tick'[s] = tick[s] \/ tick'[s].pc \in {"idle", "next"}
    <3>1. CASE Fire(t)
      BY <1>0, <3>1 DEF Fire, Start, TypeOK, Local
    <3>2. CASE EndTick(t)
      BY <1>0, <3>2 DEF EndTick, Idle, TypeOK
    <3> QED BY <1>1, <3>1, <3>2
  <2>3. \A s \in Ticks : tick'[s].pc \in Deciding => tick'[s] = tick[s]
    BY <2>2 DEF Deciding
  <2>4. RugDecided' /\ RugNeedsDegradation'
    BY <2>1, <2>3, DecisionsKept DEF Measured
  <2>5. Untouched'
    BY <2>1 DEF Measured, Untouched, Sound
  <2> QED BY <2>4, <2>5 DEF Measured
<1>2. CASE Guard(t)
  <2>1. UNCHANGED outside /\ (Forgotten(tick[t].cur) \/ Remembered)
    BY <1>2, Zenon DEF Guard
  <2>2. Untouched'
    BY <1>0, <2>1, ForgottenAnswers DEF Measured
  <2>3. \A p \in Positions : row'[p] = "RUG_EXIT" => row[p] = "RUG_EXIT"
    BY <1>0, <1>2, GuardFacts DEF TypeOK
  <2>4. \A s \in Ticks : tick'[s].pc \in Deciding =>
            tick[s].pc \in Deciding /\ tick'[s].cur = tick[s].cur /\ tick'[s].end = tick[s].end
    BY <1>2, GuardFacts DEF Deciding
  <2> QED BY <2>1, <2>2, <2>3, <2>4, DecisionsKept DEF Measured, outside
<1>3. CASE Sell(t)
  <2>1. UNCHANGED <<cache, baseline, best, market, audit, harmed>>
    BY <1>3 DEF Sell, outside
  <2>2. Untouched'
    BY <2>1 DEF Measured, Untouched, Sound
  <2>3. \A s \in Ticks : tick'[s].pc \in Deciding =>
            tick[s].pc \in Deciding /\ tick'[s].cur = tick[s].cur /\ tick'[s].end = tick[s].end
    BY <1>3, SellFacts DEF Deciding
  <2>4. row' = row
    BY <1>3, SellFacts
  <2> QED BY <2>1, <2>2, <2>3, <2>4, DecisionsKept DEF Measured
<1>4. CASE Book(t)
  <2> DEFINE p == tick[t].cur
  <2>1. UNCHANGED outside /\ (Forgotten(p) \/ Remembered)
    BY <1>4, Zenon DEF Book
  <2>2. Untouched'
    BY <1>0, <2>1, ForgottenAnswers DEF Measured
  <2>3. tick[t].pc \in Deciding /\ row' \in {row, [row EXCEPT ![p] = tick[t].end]}
    BY <1>4, BookFacts DEF Deciding
  <2>4. RugNeedsDegradation'
    BY <1>0, <2>1, <2>3 DEF Measured, RugDecided, RugNeedsDegradation, TypeOK, outside
  <2>5. \A s \in Ticks : tick'[s].pc \in Deciding => tick'[s] = tick[s]
    BY <1>4, BookFacts DEF Deciding
  <2>6. RugDecided'
    BY <2>1, <2>5 DEF Measured, RugDecided, outside
  <2> QED BY <2>2, <2>4, <2>6 DEF Measured
<1> QED BY <1>1, <1>2, <1>3, <1>4, LookMeasured DEF TickStep

LEMMA MeasuredStep == Shape /\ Amnesia /\ Measured /\ [Next]_vars => Measured'
<1> SUFFICES ASSUME Shape, Amnesia, Measured, [Next]_vars PROVE Measured'
  OBVIOUS
<1>0. TypeOK
  BY DEF Shape
<1>a. ASSUME UNCHANGED <<tick, harmed>>, \A p \in Positions : row'[p] = "RUG_EXIT" => row[p] = "RUG_EXIT"
      PROVE  RugDecided' /\ RugNeedsDegradation'
  BY <1>a DEF Measured, RugDecided, RugNeedsDegradation
<1>b. ASSUME UNCHANGED <<tick, row, cache, baseline, best, market, audit, harmed>>
      PROVE  Measured'
  BY <1>b DEF Measured, Untouched, Sound, RugDecided, RugNeedsDegradation
<1>1. CASE \E t \in Ticks : TickStep(t)
  BY <1>1, TickMeasured
<1>2. ASSUME NEW p \in Positions, RecordPosition(p) \/ Recover(p)
      PROVE  Measured'
  <2>1. UNCHANGED <<tick, cache, baseline, best, market, audit, harmed>>
    BY <1>2 DEF RecordPosition, Recover, memory, outside
  <2>2. row' = row \/ row' = [row EXCEPT ![p] = "OPEN"] \/ row' = [row EXCEPT ![p] = "CLOSED"]
    BY <1>2, Zenon DEF RecordPosition, Recover, Upsert, UpsertThrows
  <2>3. \A q \in Positions : row'[q] = "RUG_EXIT" => row[q] = "RUG_EXIT"
    BY <1>0, <2>2 DEF TypeOK
  <2>4. RugDecided' /\ RugNeedsDegradation'
    BY <1>a, <2>1, <2>3
  <2>5. Untouched'
    BY <2>1 DEF Measured, Untouched, Sound
  <2> QED BY <2>4, <2>5 DEF Measured
<1>3. CASE Boot \/ StartMonitor \/ (\E u \in Purses : LateSell(u)) \/ Toggle \/ Weather \/ UNCHANGED vars
  <2>1. UNCHANGED <<tick, row, cache, baseline, best, market, audit, harmed>>
    BY <1>3 DEF Boot, StartMonitor, LateSell, Toggle, Weather, vars, memory, outside
  <2> QED BY <1>b, <2>1
<1>4. CASE Crash
  <2>1. UNCHANGED <<harmed, row, audit>> /\ best' = {}
    BY <1>4 DEF Crash, outside
  <2>2. \A m \in Jettons : cache'[m].verdict = "none" /\ baseline'[m] = "none"
    BY <1>4 DEF Crash, Unmeasured
  <2>3. \A s \in Ticks : tick'[s].pc = "idle"
    BY <1>4 DEF Crash, Idle
  <2> QED BY <2>1, <2>2, <2>3 DEF Measured, Untouched, Sound, RugDecided, RugNeedsDegradation, Deciding
<1>5. ASSUME NEW m \in Jettons, PollTick(m) \/ PoolRevives(m)
      PROVE  Measured'
  <2>1. UNCHANGED <<tick, row, cache, baseline, best, market, audit, harmed>>
    BY <1>5 DEF PollTick, PoolRevives, memory, outside
  <2> QED BY <1>b, <2>1
<1>6. ASSUME NEW m \in Jettons, CacheAges(m)
      PROVE  Measured'
  <2>1. UNCHANGED <<tick, row, baseline, best, market, audit, harmed>> /\ cache' = [cache EXCEPT ![m].fresh = FALSE]
    BY <1>6 DEF CacheAges, outside
  <2>2. \A n \in Jettons : cache'[n].verdict = cache[n].verdict
    BY <1>0, <2>1 DEF TypeOK
  <2>3. RugDecided' /\ RugNeedsDegradation'
    BY <1>a, <2>1
  <2>4. Untouched'
    BY <2>1, <2>2 DEF Measured, Untouched, Sound
  <2> QED BY <2>3, <2>4 DEF Measured
<1>7. ASSUME NEW m \in Jettons, AuditTurns(m) \/ AuditMisreads(m)
      PROVE  Measured'
  <2>1. UNCHANGED <<tick, row, cache, baseline, best, market>>
    BY <1>7 DEF AuditTurns, AuditMisreads, memory
  <2>2. /\ harmed \subseteq harmed'
        /\ phase = "running" => \A n \in Jettons : n \notin harmed' /\ audit[n] = "safe" => audit'[n] = "safe"
    BY <1>0, <1>7 DEF AuditTurns, AuditMisreads, Harms, TypeOK
  <2>3. RugDecided' /\ RugNeedsDegradation'
    BY <2>1, <2>2, DecisionsKept DEF Measured
  <2>4. Untouched'
    BY <2>1, <2>2 DEF Measured, Untouched, Sound, Amnesia
  <2> QED BY <2>3, <2>4 DEF Measured
<1>8. ASSUME NEW m \in Jettons, MarketMoves(m)
      PROVE  Measured'
  <2>1. UNCHANGED <<tick, row, cache, baseline, best, audit>>
    BY <1>8 DEF MarketMoves, memory
  <2>2. /\ harmed \subseteq harmed'
        /\ phase = "running" => \A n \in Jettons : n \notin harmed' /\ market'[n] = "drained" => market[n] = "drained"
    BY <1>0, <1>8 DEF MarketMoves, Harms, TypeOK
  <2>3. RugDecided' /\ RugNeedsDegradation'
    BY <2>1, <2>2, DecisionsKept DEF Measured
  <2>4. \A p \in best : Master[p] \in Jettons
    BY <1>0, PurseType DEF TypeOK
  <2>5. Untouched'
    BY <2>1, <2>2, <2>4 DEF Measured, Untouched, Sound, Amnesia
  <2> QED BY <2>3, <2>5 DEF Measured
<1> QED BY <1>1, <1>2, <1>3, <1>4, <1>5, <1>6, <1>7, <1>8 DEF Next

(* An emergency exit follows an audit that went from safe to rugged or an   *)
(* exit value that drained while the monitor ran, whatever was cached,      *)
(* forgotten, shared, restarted or misread in between.                      *)
THEOREM RugsAreMeasured == Spec => []RugNeedsDegradation
<1>1. Init => Measured
  <2> SUFFICES ASSUME Init PROVE Measured
    OBVIOUS
  <2>1. \A m \in Jettons : cache[m].verdict = "none" /\ baseline[m] = "none"
    BY DEF Init, Unmeasured
  <2>2. \A t \in Ticks : tick[t].pc = "idle"
    BY DEF Init, Idle
  <2>3. best = {} /\ \A p \in Positions : row[p] # "RUG_EXIT"
    BY DEF Init
  <2> QED BY <2>1, <2>2, <2>3 DEF Measured, Untouched, Sound, RugDecided, RugNeedsDegradation, Deciding
<1>2. Measured => RugNeedsDegradation
  BY DEF Measured
<1> QED BY <1>1, <1>2, MeasuredStep, MemoryDies, TicksAlone, PTL DEF Spec

-----------------------------------------------------------------------------
(* Pool subscriptions *)

Holders(w, m) == {p \in w : Master[p] = m}

LEMMA HoldersFinite ==
    ASSUME NEW w \in SUBSET Positions, NEW m
    PROVE  IsFiniteSet(Holders(w, m)) /\ Cardinality(Holders(w, m)) \in Nat
BY ActorsAssumption, FS_Subset, FS_CardinalityType DEF Holders

LEMMA HolderJoins ==
    ASSUME NEW w \in SUBSET Positions, NEW p \in Positions \ w, NEW m \in Jettons
    PROVE  Cardinality(Holders(w \cup {p}, m)) = Cardinality(Holders(w, m)) + (IF m = Master[p] THEN 1 ELSE 0)
<1>1. CASE m = Master[p]
  <2>1. Holders(w \cup {p}, m) = Holders(w, m) \cup {p} /\ p \notin Holders(w, m)
    BY <1>1 DEF Holders
  <2> QED BY <1>1, <2>1, HoldersFinite, FS_AddElement
<1>2. CASE m # Master[p]
  <2>1. Holders(w \cup {p}, m) = Holders(w, m)
    BY <1>2 DEF Holders
  <2> QED BY <1>2, <2>1, HoldersFinite
<1> QED BY <1>1, <1>2

LEMMA HolderLeaves ==
    ASSUME NEW w \in SUBSET Positions, NEW p \in w, NEW m \in Jettons
    PROVE  /\ Cardinality(Holders(w \ {p}, m)) = Cardinality(Holders(w, m)) - (IF m = Master[p] THEN 1 ELSE 0)
           /\ m = Master[p] => Cardinality(Holders(w, m)) > 0
<1> DEFINE v == w \ {p}
<1>1. v \in SUBSET Positions /\ p \in Positions \ v /\ w = v \cup {p}
  OBVIOUS
<1>2. Cardinality(Holders(v, m)) \in Nat
  BY <1>1, HoldersFinite
<1>3. Cardinality(Holders(v \cup {p}, m)) = Cardinality(Holders(v, m)) + (IF m = Master[p] THEN 1 ELSE 0)
  BY <1>1, HolderJoins
<1> HIDE DEF v
<1>4. Cardinality(Holders(w, m)) = Cardinality(Holders(v, m)) + (IF m = Master[p] THEN 1 ELSE 0)
  BY <1>1, <1>3
<1>5. Cardinality(Holders(v, m)) = Cardinality(Holders(w, m)) - (IF m = Master[p] THEN 1 ELSE 0)
  BY <1>2, <1>4
<1>6. m = Master[p] => Cardinality(Holders(w, m)) > 0
  BY <1>2, <1>4
<1> QED BY <1>5, <1>6 DEF v

(* The two halves of WatchersCounted. *)
Counted ==
    \A m \in Jettons : /\ refs[m] = Cardinality({p \in watched : Master[p] = m})
                       /\ m \in polled <=> refs[m] > 0
LeftBehind == watched \subseteq OpenRows \cup leaked

LEMMA JoinCounted ==
    ASSUME TypeOK, Counted, NEW p \in Positions, Resolved(p)
    PROVE  Counted'
<1>0. \A m \in Jettons : refs[m] = Cardinality(Holders(watched, m)) /\ (m \in polled <=> refs[m] > 0)
  BY DEF Counted, Holders
<1>1. CASE p \notin watched /\ Watch(Master[p]) /\ watched' = watched \cup {p}
  <2>1. SUFFICES ASSUME NEW m \in Jettons
                 PROVE  refs'[m] = Cardinality(Holders(watched', m)) /\ (m \in polled' <=> refs'[m] > 0)
    BY DEF Counted, Holders
  <2>2. refs'[m] = refs[m] + (IF m = Master[p] THEN 1 ELSE 0) /\ refs[m] \in Int
    BY <1>1 DEF Watch, TypeOK
  <2>3. Cardinality(Holders(watched', m)) = Cardinality(Holders(watched, m)) + (IF m = Master[p] THEN 1 ELSE 0)
    BY <1>1, HolderJoins DEF TypeOK
  <2>4. polled' = polled \cup {Master[p]}
    BY <1>1 DEF Watch
  <2>5. Cardinality(Holders(watched, m)) \in Nat
    BY HoldersFinite DEF TypeOK
  <2> QED BY <1>0, <2>2, <2>3, <2>4, <2>5
<1>2. CASE UNCHANGED <<watched, refs, polled>>
  BY <1>2 DEF Counted
<1> QED BY <1>1, <1>2 DEF Resolved

LEMMA LeaveCounted ==
    ASSUME TypeOK, Counted, NEW p \in Positions, Forgotten(p)
    PROVE  Counted'
<1>0. \A m \in Jettons : refs[m] = Cardinality(Holders(watched, m)) /\ (m \in polled <=> refs[m] > 0)
  BY DEF Counted, Holders
<1>1. CASE p \in watched
  <2>1. SUFFICES ASSUME NEW m \in Jettons
                 PROVE  refs'[m] = Cardinality(Holders(watched', m)) /\ (m \in polled' <=> refs'[m] > 0)
    BY DEF Counted, Holders
  <2>2. refs'[m] = refs[m] - (IF m = Master[p] THEN 1 ELSE 0) /\ refs[m] \in Int
    BY <1>1 DEF Forgotten, Unwatched, TypeOK
  <2>3. /\ Cardinality(Holders(watched', m)) = Cardinality(Holders(watched, m)) - (IF m = Master[p] THEN 1 ELSE 0)
        /\ m = Master[p] => Cardinality(Holders(watched, m)) > 0
    BY <1>1, HolderLeaves DEF Forgotten, TypeOK
  <2>4. polled' = IF refs[Master[p]] <= 1 THEN polled \ {Master[p]} ELSE polled
    BY <1>1 DEF Forgotten, Unwatched
  <2>5. refs'[m] = Cardinality(Holders(watched', m))
    BY <1>0, <2>2, <2>3
  <2>6. m \in polled' <=> refs'[m] > 0
    <3>1. CASE m = Master[p]
      BY <1>0, <2>2, <2>3, <2>4, <3>1
    <3>2. CASE m # Master[p]
      BY <1>0, <2>2, <2>4, <3>2
    <3> QED BY <3>1, <3>2
  <2> QED BY <2>5, <2>6
<1>2. CASE p \notin watched
  <2>1. watched' = watched /\ refs' = refs /\ polled' = polled
    BY <1>2 DEF Forgotten, Unwatched
  <2> QED BY <2>1 DEF Counted
<1> QED BY <1>1, <1>2

LEMMA CountedStep == TypeOK /\ Counted /\ [Next]_vars => Counted'
<1> SUFFICES ASSUME TypeOK, Counted, [Next]_vars PROVE Counted'
  OBVIOUS
<1>0. ASSUME UNCHANGED <<watched, refs, polled>>
      PROVE  Counted'
  BY <1>0 DEF Counted
<1>1. ASSUME NEW t \in Ticks, TickStep(t)
      PROVE  Counted'
  <2>1. tick[t].cur \in Positions
    BY DEF TypeOK, Local
  <2>2. \/ UNCHANGED <<watched, refs, polled>>
        \/ Forgotten(tick[t].cur)
        \/ \E p \in Positions : Resolved(p)
    <3>1. CASE Fire(t) \/ EndTick(t)
      BY <3>1 DEF Fire, EndTick, Unfired
    <3>2. CASE Guard(t) \/ Book(t)
      BY <3>2, Zenon DEF Guard, Book, Remembered
    <3>3. CASE Sell(t)
      BY <3>3 DEF Sell
    <3>4. CASE \E p \in Positions : Look(t, p)
      BY <3>4, Zenon DEF Look
    <3> QED BY <1>1, <3>1, <3>2, <3>3, <3>4 DEF TickStep
  <2> QED BY <1>0, <2>1, <2>2, LeaveCounted, JoinCounted
<1>2. CASE Crash
  <2>1. \A m \in Jettons : {p \in watched' : Master[p] = m} = {} /\ refs'[m] = 0 /\ m \notin polled'
    BY <1>2 DEF Crash
  <2> QED BY <2>1, FS_EmptySet DEF Counted
<1>3. CASE Boot \/ StartMonitor \/ \E p \in Positions : RecordPosition(p) \/ Recover(p)
  <2>1. UNCHANGED <<watched, refs, polled>>
    BY <1>3 DEF Boot, StartMonitor, RecordPosition, Recover, memory
  <2> QED BY <1>0, <2>1
<1>4. ASSUME NEW m \in Jettons,
             PollTick(m) \/ CacheAges(m) \/ PoolRevives(m) \/ MarketMoves(m) \/ AuditTurns(m) \/ AuditMisreads(m)
      PROVE  Counted'
  <2>1. UNCHANGED <<watched, refs, polled>>
    BY <1>4 DEF PollTick, CacheAges, PoolRevives, MarketMoves, AuditTurns, AuditMisreads, memory
  <2> QED BY <1>0, <2>1
<1>5. CASE (\E u \in Purses : LateSell(u)) \/ Toggle \/ Weather \/ UNCHANGED vars
  <2>1. UNCHANGED <<watched, refs, polled>>
    BY <1>5 DEF LateSell, Toggle, Weather, vars, memory
  <2> QED BY <1>0, <2>1
<1> QED BY <1>1, <1>2, <1>3, <1>4, <1>5 DEF Next

(* What a step adds to the watched positions is open, and what it closes it *)
(* forgets, unless the booking throws.                                      *)
LEMMA LeaksTick ==
    ASSUME Shape, LeftBehind, NEW t \in Ticks, TickStep(t)
    PROVE  LeftBehind'
<1>0. TypeOK /\ tick[t].cur \in Positions
  BY DEF Shape, TypeOK, Local
<1>1. ASSUME UNCHANGED <<row, watched, leaked>>
      PROVE  LeftBehind'
  BY <1>1 DEF LeftBehind, OpenRows, Open
<1>2. ASSUME NEW e, row' = [row EXCEPT ![tick[t].cur] = e],
             \/ watched' = watched \ {tick[t].cur} /\ leaked' = leaked
             \/ watched' = watched /\ leaked' = leaked \cup {tick[t].cur}
      PROVE  LeftBehind'
  BY <1>0, <1>2 DEF LeftBehind, OpenRows, Open, TypeOK
<1>3. CASE Fire(t) \/ EndTick(t)
  BY <1>1, <1>3 DEF Fire, EndTick, Unfired
<1>4. CASE Guard(t)
  <2>1. \/ UNCHANGED <<row, watched, leaked>>
        \/ /\ row' = [row EXCEPT ![tick[t].cur] = "STOPPED"]
           /\ watched' = watched \ {tick[t].cur} /\ leaked' = leaked
    BY <1>4, Zenon DEF Guard, Upsert, UpsertThrows, Forgotten, Remembered
  <2> QED BY <1>1, <1>2, <2>1
<1>5. CASE Sell(t)
  BY <1>1, <1>5 DEF Sell
<1>6. CASE Book(t)
  <2>1. \/ UNCHANGED <<row, watched, leaked>>
        \/ /\ row' = [row EXCEPT ![tick[t].cur] = tick[t].end]
           /\ \/ watched' = watched \ {tick[t].cur} /\ leaked' = leaked
              \/ watched' = watched /\ leaked' = leaked \cup {tick[t].cur}
    BY <1>6, Zenon DEF Book, Upsert, UpsertThrows, Forgotten, Remembered
  <2> QED BY <1>1, <1>2, <2>1
<1>7. ASSUME NEW p \in Positions, Look(t, p)
      PROVE  LeftBehind'
  <2>1. Open(p) /\ row' = row
    BY <1>7, LookFacts DEF Shape, OverOpenRows
  <2>2. leaked' = leaked /\ watched' \in {watched, watched \cup {p}}
    BY <1>7, Zenon DEF Look, Resolved
  <2> QED BY <2>1, <2>2 DEF LeftBehind, OpenRows, Open
<1> QED BY <1>3, <1>4, <1>5, <1>6, <1>7 DEF TickStep

LEMMA LeaksStep == Shape /\ Amnesia /\ LeftBehind /\ [Next]_vars => LeftBehind'
<1> SUFFICES ASSUME Shape, Amnesia, LeftBehind, [Next]_vars PROVE LeftBehind'
  OBVIOUS
<1>1. CASE \E t \in Ticks : TickStep(t)
  BY <1>1, LeaksTick
<1>2. ASSUME UNCHANGED <<row, watched, leaked>>
      PROVE  LeftBehind'
  BY <1>2 DEF LeftBehind, OpenRows, Open
<1>3. ASSUME NEW p \in Positions, RecordPosition(p)
      PROVE  LeftBehind'
  BY <1>3 DEF RecordPosition, Upsert, memory, LeftBehind, OpenRows, Open, Shape, TypeOK
<1>4. ASSUME NEW p \in Positions, Recover(p)
      PROVE  LeftBehind'
  <2>1. watched' = {}
    BY <1>4 DEF Recover, Amnesia, memory
  <2> QED BY <2>1 DEF LeftBehind
<1>5. CASE Crash
  BY <1>5 DEF Crash, LeftBehind
<1>6. CASE Boot \/ StartMonitor \/ (\E u \in Purses : LateSell(u)) \/ Toggle \/ Weather \/ UNCHANGED vars
  BY <1>2, <1>6 DEF Boot, StartMonitor, LateSell, Toggle, Weather, vars, memory
<1>7. ASSUME NEW m \in Jettons,
             PollTick(m) \/ CacheAges(m) \/ PoolRevives(m) \/ MarketMoves(m) \/ AuditTurns(m) \/ AuditMisreads(m)
      PROVE  LeftBehind'
  BY <1>2, <1>7 DEF PollTick, CacheAges, PoolRevives, MarketMoves, AuditTurns, AuditMisreads, memory
<1> QED BY <1>1, <1>3, <1>4, <1>5, <1>6, <1>7 DEF Next

(* A pool is polled exactly while a watched position holds it, and what is  *)
(* watched has an open row or was closed by an exit whose booking threw.    *)
THEOREM PoolsAreHeld == Spec => []WatchersCounted
<1>1. Init => Counted /\ LeftBehind
  <2> SUFFICES ASSUME Init PROVE Counted /\ LeftBehind
    OBVIOUS
  <2>1. /\ watched = {}
        /\ \A m \in Jettons : {p \in watched : Master[p] = m} = {} /\ refs[m] = 0 /\ m \notin polled
    BY DEF Init
  <2> QED BY <2>1, FS_EmptySet DEF Counted, LeftBehind
<1>2. Counted /\ LeftBehind => WatchersCounted
  BY DEF Counted, LeftBehind, WatchersCounted
<1> QED BY <1>1, <1>2, CountedStep, LeaksStep, TypeCorrect, TicksAlone, MemoryDies, PTL DEF Spec

-----------------------------------------------------------------------------
(* Lots and rows *)

RowsOf(r, u) == {p \in Positions : r[p] = "OPEN" /\ Purse(p) = u}

(* Each lot in a wallet is watched by an open row, and a delivered sell has *)
(* one row more, which it is about to close.                                *)
LotsWatched ==
    /\ \A u \in Purses : held[u] <= Cardinality(RowsOf(row, u))
    /\ \A t \in Ticks : tick[t].pc = "book" =>
           held[Purse(tick[t].cur)] + 1 <= Cardinality(RowsOf(row, Purse(tick[t].cur)))

LEMMA RowsFinite == \A u : IsFiniteSet(RowsOf(row, u)) /\ Cardinality(RowsOf(row, u)) \in Nat
BY ActorsAssumption, FS_Subset, FS_CardinalityType DEF RowsOf

LEMMA RowCloses ==
    ASSUME TypeOK, NEW p \in Positions, NEW e, e # "OPEN", Open(p), row' = [row EXCEPT ![p] = e], NEW u \in Purses
    PROVE  /\ Cardinality(RowsOf(row', u)) = Cardinality(RowsOf(row, u)) - (IF u = Purse(p) THEN 1 ELSE 0)
           /\ u = Purse(p) => Cardinality(RowsOf(row, u)) > 0
<1>0. IsFiniteSet(RowsOf(row, u)) /\ Cardinality(RowsOf(row, u)) \in Nat
  BY RowsFinite
<1>1. CASE u = Purse(p)
  <2>1. RowsOf(row', u) = RowsOf(row, u) \ {p} /\ p \in RowsOf(row, u)
    BY <1>1 DEF RowsOf, Open, TypeOK
  <2>2. Cardinality(RowsOf(row', u)) = Cardinality(RowsOf(row, u)) - 1
    BY <1>0, <2>1, FS_RemoveElement
  <2>3. Cardinality(RowsOf(row, u)) # 0
    BY <1>0, <2>1, FS_EmptySet
  <2> QED BY <1>0, <1>1, <2>2, <2>3
<1>2. CASE u # Purse(p)
  <2>1. RowsOf(row', u) = RowsOf(row, u)
    BY <1>2 DEF RowsOf, TypeOK
  <2> QED BY <1>0, <1>2, <2>1
<1> QED BY <1>1, <1>2

LEMMA RowOpens ==
    ASSUME TypeOK, NEW p \in Positions, ~Open(p), row' = [row EXCEPT ![p] = "OPEN"], NEW u \in Purses
    PROVE  Cardinality(RowsOf(row', u)) = Cardinality(RowsOf(row, u)) + (IF u = Purse(p) THEN 1 ELSE 0)
<1>0. IsFiniteSet(RowsOf(row, u)) /\ Cardinality(RowsOf(row, u)) \in Nat
  BY RowsFinite
<1>1. CASE u = Purse(p)
  <2>1. RowsOf(row', u) = RowsOf(row, u) \cup {p} /\ p \notin RowsOf(row, u)
    BY <1>1 DEF RowsOf, Open, TypeOK
  <2> QED BY <1>0, <1>1, <2>1, FS_AddElement
<1>2. CASE u # Purse(p)
  <2>1. RowsOf(row', u) = RowsOf(row, u)
    BY <1>2 DEF RowsOf, TypeOK
  <2> QED BY <1>0, <1>2, <2>1
<1> QED BY <1>1, <1>2

(* Fewer lots over the same rows. *)
LEMMA LotsLeave ==
    ASSUME TypeOK, LotsWatched, UNCHANGED row,
           \A u \in Purses : held'[u] \in Nat /\ held'[u] <= held[u],
           \A t \in Ticks : tick'[t].pc = "book" => tick[t].pc = "book" /\ tick'[t].cur = tick[t].cur
    PROVE  LotsWatched'
<1>1. \A t \in Ticks : Purse(tick[t].cur) \in Purses
  BY PurseType DEF TypeOK, Local
<1>2. \A u \in Purses : held[u] \in Nat
  BY DEF TypeOK
<1>3. \A u \in Purses : held'[u] <= Cardinality(RowsOf(row, u))
  BY <1>2, RowsFinite DEF LotsWatched
<1>4. ASSUME NEW t \in Ticks, tick'[t].pc = "book"
      PROVE  held'[Purse(tick[t].cur)] + 1 <= Cardinality(RowsOf(row, Purse(tick[t].cur)))
  <2>1. held[Purse(tick[t].cur)] + 1 <= Cardinality(RowsOf(row, Purse(tick[t].cur)))
    BY <1>4 DEF LotsWatched
  <2>2. held[Purse(tick[t].cur)] \in Nat /\ Cardinality(RowsOf(row, Purse(tick[t].cur))) \in Nat
    BY <1>1, <1>2, RowsFinite
  <2> QED BY <1>1, <2>1, <2>2
<1> QED BY <1>3, <1>4 DEF LotsWatched

(* One position leaves the table, with no lot of its own behind it. *)
LEMMA RowLeaves ==
    ASSUME TypeOK, LotsWatched, UNCHANGED held, NEW p \in Positions, NEW e, e # "OPEN", Open(p),
           row' = [row EXCEPT ![p] = e],
           held[Purse(p)] + 1 <= Cardinality(RowsOf(row, Purse(p))) \/ held[Purse(p)] = 0,
           \A t \in Ticks : tick'[t].pc # "book"
    PROVE  LotsWatched'
<1>1. ASSUME NEW u \in Purses
      PROVE  held[u] <= Cardinality(RowsOf(row', u))
  <2>1. /\ Cardinality(RowsOf(row', u)) = Cardinality(RowsOf(row, u)) - (IF u = Purse(p) THEN 1 ELSE 0)
        /\ u = Purse(p) => Cardinality(RowsOf(row, u)) > 0
    BY RowCloses
  <2>2. held[u] \in Nat /\ Cardinality(RowsOf(row, u)) \in Nat /\ held[u] <= Cardinality(RowsOf(row, u))
    BY RowsFinite DEF TypeOK, LotsWatched
  <2>3. CASE u = Purse(p)
    BY <2>1, <2>2, <2>3
  <2>4. CASE u # Purse(p)
    BY <2>1, <2>2, <2>4
  <2> QED BY <2>3, <2>4
<1> QED BY <1>1 DEF LotsWatched

LEMMA TickWatched ==
    ASSUME Shape, LotsWatched, NEW t \in Ticks, TickStep(t)
    PROVE  LotsWatched'
<1>0. /\ TypeOK /\ \A u \in Purses : held[u] \in Nat
      /\ tick[t].cur \in Positions /\ Purse(tick[t].cur) \in Purses
  BY PurseType DEF Shape, TypeOK, Local
<1>1. ASSUME UNCHANGED <<row, held>>, \A s \in Ticks : s # t => tick'[s] = tick[s], tick'[t].pc # "book"
      PROVE  LotsWatched'
  <2>1. \A u \in Purses : held'[u] \in Nat /\ held'[u] <= held[u]
    BY <1>0, <1>1
  <2>2. \A s \in Ticks : tick'[s].pc = "book" => tick[s].pc = "book" /\ tick'[s].cur = tick[s].cur
    BY <1>1
  <2> QED BY <1>0, <1>1, <2>1, <2>2, LotsLeave
<1>2. CASE Fire(t)
  BY <1>0, <1>1, <1>2 DEF Fire, Start, Unfired, TypeOK, Local
<1>3. CASE EndTick(t)
  BY <1>0, <1>1, <1>3 DEF EndTick, Idle, Unfired, TypeOK
<1>4. CASE Guard(t)
  <2> DEFINE p == tick[t].cur
  <2>1. UNCHANGED held
    BY <1>4 DEF Guard
  <2>2. tick[t].pc # "idle" /\ Open(p) /\ tick'[t].pc # "book" /\ \A s \in Ticks : s # t => tick'[s] = tick[s]
    BY <1>4, GuardFacts
  <2>3. CASE row' = row
    BY <1>1, <2>1, <2>2, <2>3
  <2>4. CASE row' = [row EXCEPT ![p] = "STOPPED"] /\ held[Purse(p)] = 0
    <3>1. \A s \in Ticks : tick'[s].pc # "book"
      BY <2>2, Others
    <3> QED BY <1>0, <2>1, <2>2, <2>4, <3>1, RowLeaves
  <2> QED BY <1>4, <2>3, <2>4, GuardFacts
<1>5. CASE Sell(t)
  <2> DEFINE u == Purse(tick[t].cur)
  <2>1. /\ tick[t].pc # "idle" /\ Open(tick[t].cur) /\ row' = row
        /\ \A s \in Ticks : s # t => tick'[s] = tick[s]
    BY <1>5, SellFacts
  <2>2. CASE /\ tick'[t].pc = "next"
             /\ held' = held \/ (held[u] > 0 /\ held' = [held EXCEPT ![u] = @ - 1])
    <3>1. \A w \in Purses : held'[w] \in Nat /\ held'[w] <= held[w]
      BY <1>0, <2>2 DEF TypeOK
    <3>2. \A s \in Ticks : tick'[s].pc = "book" => tick[s].pc = "book" /\ tick'[s].cur = tick[s].cur
      BY <2>1, <2>2
    <3> QED BY <1>0, <2>1, <3>1, <3>2, LotsLeave
  <2>3. CASE /\ tick'[t].pc = "book" /\ tick'[t].cur = tick[t].cur
             /\ held' = [held EXCEPT ![u] = IF @ > 0 THEN @ - 1 ELSE 0]
    <3>1. \A w \in Purses : held'[w] \in Nat /\ held'[w] <= held[w] /\ Cardinality(RowsOf(row, w)) \in Nat
      BY <1>0, <2>3, RowsFinite DEF TypeOK
    <3>2. held'[u] + 1 <= Cardinality(RowsOf(row, u))
      <4>1. tick[t].cur \in RowsOf(row, u)
        BY <1>0, <2>1 DEF RowsOf, Open
      <4>2. Cardinality(RowsOf(row, u)) # 0
        BY <4>1, RowsFinite, FS_EmptySet
      <4>3. held'[u] = IF held[u] > 0 THEN held[u] - 1 ELSE 0
        BY <1>0, <2>3 DEF TypeOK
      <4>4. held[u] <= Cardinality(RowsOf(row, u))
        BY <1>0 DEF LotsWatched
      <4> HIDE DEF u
      <4> QED BY <1>0, <3>1, <4>2, <4>3, <4>4 DEF u
    <3>3. \A w \in Purses : held'[w] <= Cardinality(RowsOf(row, w))
      BY <1>0, <3>1 DEF LotsWatched
    <3>4. \A s \in Ticks : tick'[s].pc = "book" => s = t
      BY <2>1, Others
    <3> QED BY <2>1, <2>3, <3>2, <3>3, <3>4 DEF LotsWatched
  <2> QED BY <1>5, <2>2, <2>3, SellFacts
<1>6. CASE Book(t)
  <2> DEFINE p == tick[t].cur
  <2>1. UNCHANGED held
    BY <1>6 DEF Book
  <2>2. /\ tick[t].pc = "book" /\ Open(p) /\ tick[t].end # "OPEN" /\ tick'[t].pc # "book"
        /\ \A s \in Ticks : s # t => tick'[s] = tick[s]
        /\ row' = row \/ row' = [row EXCEPT ![p] = tick[t].end]
    BY <1>6, BookFacts DEF Ends
  <2>3. CASE row' = row
    BY <1>1, <2>1, <2>2, <2>3
  <2>4. CASE row' = [row EXCEPT ![p] = tick[t].end]
    <3>1. \A s \in Ticks : tick'[s].pc # "book"
      BY <2>2, Others
    <3>2. held[Purse(p)] + 1 <= Cardinality(RowsOf(row, Purse(p)))
      BY <2>2 DEF LotsWatched
    <3> QED BY <1>0, <2>1, <2>2, <2>4, <3>1, <3>2, RowLeaves
  <2> QED BY <2>2, <2>3, <2>4
<1>7. ASSUME NEW p \in Positions, Look(t, p)
      PROVE  LotsWatched'
  <2>1. UNCHANGED held
    BY <1>7 DEF Look
  <2> QED BY <1>1, <1>7, <2>1, LookFacts
<1> QED BY <1>2, <1>3, <1>4, <1>5, <1>6, <1>7 DEF TickStep

LEMMA WatchedStep ==
    ASSUME HdLowWallet = "undeployed", Shape, LotsWatched, [Next]_vars
    PROVE  LotsWatched'
<1>0. /\ TypeOK /\ \A u \in Purses : held[u] \in Nat
      /\ \A t \in Ticks : tick[t].cur \in Positions /\ Purse(tick[t].cur) \in Purses
  BY PurseType DEF Shape, TypeOK, Local
<1>1. ASSUME UNCHANGED <<row, tick>>, \A u \in Purses : held'[u] \in Nat /\ held'[u] <= held[u]
      PROVE  LotsWatched'
  BY <1>0, <1>1, LotsLeave
<1>2. ASSUME UNCHANGED <<row, tick, held>>
      PROVE  LotsWatched'
  BY <1>0, <1>1, <1>2
<1>3. CASE \E t \in Ticks : TickStep(t)
  BY <1>3, TickWatched
<1>4. ASSUME NEW p \in Positions, RecordPosition(p)
      PROVE  LotsWatched'
  <2>1. /\ ~Open(p) /\ row' = [row EXCEPT ![p] = "OPEN"] /\ tick' = tick
        /\ held' = [held EXCEPT ![Purse(p)] = @ + 1] /\ Purse(p) \in Purses
    BY <1>4, PurseType DEF RecordPosition, Upsert, Open, memory
  <2>2. ASSUME NEW u \in Purses
        PROVE  /\ Cardinality(RowsOf(row', u)) = Cardinality(RowsOf(row, u)) + (IF u = Purse(p) THEN 1 ELSE 0)
               /\ held'[u] = held[u] + (IF u = Purse(p) THEN 1 ELSE 0)
               /\ Cardinality(RowsOf(row, u)) \in Nat /\ held[u] \in Nat
    <3>1. Cardinality(RowsOf(row', u)) = Cardinality(RowsOf(row, u)) + (IF u = Purse(p) THEN 1 ELSE 0)
      BY <1>0, <2>1, RowOpens
    <3>2. held'[u] = held[u] + (IF u = Purse(p) THEN 1 ELSE 0)
      <4> HIDE DEF Purse
      <4> QED BY <1>0, <2>1 DEF TypeOK
    <3> QED BY <1>0, <3>1, <3>2, RowsFinite
  <2>3. \A u \in Purses : held'[u] <= Cardinality(RowsOf(row', u))
    BY <2>2 DEF LotsWatched
  <2>4. ASSUME NEW t \in Ticks, tick'[t].pc = "book"
        PROVE  held'[Purse(tick'[t].cur)] + 1 <= Cardinality(RowsOf(row', Purse(tick'[t].cur)))
    <3> DEFINE u == Purse(tick[t].cur)
    <3>1. held[u] + 1 <= Cardinality(RowsOf(row, u)) /\ u \in Purses
      BY <1>0, <2>1, <2>4 DEF LotsWatched
    <3> HIDE DEF u
    <3>2. held'[u] + 1 <= Cardinality(RowsOf(row', u))
      BY <2>2, <3>1
    <3> QED BY <2>1, <3>2 DEF u
  <2> QED BY <2>3, <2>4 DEF LotsWatched
<1>5. ASSUME NEW p \in Positions, Recover(p)
      PROVE  LotsWatched'
  <2>1. PICK reading \in Readings(p) :
            IF Closable(reading) THEN Upsert(p, "CLOSED") \/ UpsertThrows ELSE UNCHANGED row
    BY <1>5 DEF Recover
  <2>2. UNCHANGED <<held, tick>> /\ phase # "running"
    BY <1>5 DEF Recover, memory
  <2>3. CASE row' = row
    BY <1>2, <2>2, <2>3
  <2>4. CASE row' # row
    <3>1. reading = 0 /\ row' = [row EXCEPT ![p] = "CLOSED"]
      BY <2>1, <2>4 DEF Closable, Upsert, UpsertThrows
    <3>2. held[Purse(p)] = 0
      BY <3>1 DEF Readings, Unread
    <3>3. \A t \in Ticks : tick'[t].pc # "book"
      BY <2>2 DEF Shape, Alone
    <3>4. CASE Open(p)
      BY <1>0, <2>2, <3>1, <3>2, <3>3, <3>4, RowLeaves
    <3>5. CASE ~Open(p)
      <4>1. \A u \in Purses : RowsOf(row', u) = RowsOf(row, u)
        BY <1>0, <3>1, <3>5 DEF RowsOf, Open, TypeOK
      <4> QED BY <2>2, <3>3, <4>1 DEF LotsWatched
    <3> QED BY <3>4, <3>5
  <2> QED BY <2>3, <2>4
<1>6. CASE Boot \/ StartMonitor \/ Toggle \/ Weather \/ UNCHANGED vars
  <2>1. UNCHANGED <<row, tick, held>>
    BY <1>6 DEF Boot, StartMonitor, Toggle, Weather, vars, memory
  <2> QED BY <1>2, <2>1
<1>7. CASE Crash
  <2>1. UNCHANGED <<row, held>> /\ \A t \in Ticks : tick'[t].pc # "book"
    <3>1. \A t \in Ticks : tick'[t] = Idle
      BY <1>7 DEF Crash
    <3>2. Idle.pc # "book"
      BY DEF Idle
    <3> QED BY <1>7, <3>1, <3>2 DEF Crash
  <2> QED BY <2>1 DEF LotsWatched
<1>8. ASSUME NEW m \in Jettons,
             PollTick(m) \/ CacheAges(m) \/ PoolRevives(m) \/ MarketMoves(m) \/ AuditTurns(m) \/ AuditMisreads(m)
      PROVE  LotsWatched'
  <2>1. UNCHANGED <<row, tick, held>>
    BY <1>8 DEF PollTick, CacheAges, PoolRevives, MarketMoves, AuditTurns, AuditMisreads, memory
  <2> QED BY <1>2, <2>1
<1>9. ASSUME NEW u \in Purses, LateSell(u)
      PROVE  LotsWatched'
  <2>1. UNCHANGED <<row, tick>>
    BY <1>9 DEF LateSell, memory
  <2>2. \A w \in Purses : held'[w] \in Nat /\ held'[w] <= held[w]
    BY <1>0, <1>9 DEF LateSell, TypeOK
  <2> QED BY <1>1, <2>1, <2>2
<1> QED BY <1>3, <1>4, <1>5, <1>6, <1>7, <1>8, <1>9 DEF Next

(* As long as the wallet that recovery derives for the LOW tier cannot be   *)
(* read, and so never looks empty: no row is closed, by an exit, as a       *)
(* phantom or at boot, while its lot is still held.                         *)
THEOREM LotsAreWatched ==
    ASSUME HdLowWallet = "undeployed"
    PROVE  Spec => []NothingOrphaned
<1>1. Init => LotsWatched
  <2> SUFFICES ASSUME Init PROVE LotsWatched
    OBVIOUS
  <2>1. \A u \in Purses : InPurse(u) = RowsOf(row, u)
    BY DEF InPurse, OpenRows, Open, RowsOf
  <2>2. \A u \in Purses : held[u] = Cardinality(RowsOf(row, u))
    BY <2>1 DEF Init
  <2>3. \A t \in Ticks : tick[t].pc # "book"
    BY DEF Init, Idle
  <2> QED BY <2>2, <2>3, RowsFinite DEF LotsWatched
<1>2. Shape /\ LotsWatched /\ [Next]_vars => LotsWatched'
  BY WatchedStep
<1>3. LotsWatched => NothingOrphaned
  <2>1. \A u \in Purses : InPurse(u) = RowsOf(row, u)
    BY DEF InPurse, OpenRows, Open, RowsOf
  <2> QED BY <2>1 DEF LotsWatched, NothingOrphaned
<1> QED BY <1>1, <1>2, <1>3, TicksAlone, PTL DEF Spec
=============================================================================
