------------------------ MODULE SniperEngine_proofs ------------------------
(***************************************************************************)
(* Proofs about SniperEngine, for any number of tokens, scan passes and    *)
(* monitor ticks, and any combination of disturbances.                     *)
(***************************************************************************)
EXTENDS SniperEngine, FiniteSetTheorems, TLAPS

ScanPcs == {"idle", "reading", "choosing", "buying", "sent"}
TickPcs == {"idle", "pricing", "selling", "sent"}
ScanLocals == [pc : ScanPcs, held : SUBSET Masters, off : SUBSET Masters, coin : SUBSET Masters]
TickLocals == [pc : TickPcs, queue : SUBSET Snapshot, at : SUBSET Snapshot]
Row == [status : {"none", "open", "closed"}, spent : 0..MaxCost, handoff : BOOLEAN, due : BOOLEAN]

-----------------------------------------------------------------------------
(* The clamps stay within their bounds. *)
LEMMA ClampsBound ==
    /\ \A n \in Nat : AtMost(n, MaxCost) \in 0..MaxCost
    /\ \A n \in Int : Within(n) \in -MaxLedger..MaxLedger
BY BoundsAssumption DEF AtMost, Within

(* A tick that lets go of a position still has locals of the right shape. *)
LEMMA LeftTyped ==
    ASSUME NEW k \in Monitors, NEW p \in Snapshot, ticks \in [Monitors -> TickLocals]
    PROVE  Left(k, p) \in TickLocals
<1>1. ticks[k] \in TickLocals
  OBVIOUS
<1>2. ticks[k].queue \ {p} \in SUBSET Snapshot
  BY <1>1 DEF TickLocals
<1>3. IdleTick \in TickLocals
  BY DEF IdleTick, TickLocals, TickPcs
<1> DEFINE rest == ticks[k].queue \ {p}
<1>4. [pc |-> "pricing", queue |-> rest, at |-> {}] \in TickLocals
  BY <1>2 DEF TickLocals, TickPcs
<1> QED BY <1>3, <1>4 DEF Left

(* Writing a snapshot back leaves the table well typed. *)
LEMMA RepricedTyped ==
    ASSUME NEW p \in Snapshot, rows \in [Masters -> Row]
    PROVE  Repriced(p) \in [Masters -> Row]
BY DEF Repriced, Upserted, Snapshot, Row

(* So does writing a status, a cost and a mark. *)
LEMMA RowWritten ==
    ASSUME rows \in [Masters -> Row], NEW m \in Masters,
           NEW st \in {"open", "closed"}, NEW b \in 0..MaxCost, NEW h \in BOOLEAN
    PROVE  /\ [rows EXCEPT ![m].status = st, ![m].spent = b] \in [Masters -> Row]
           /\ [rows EXCEPT ![m].status = st, ![m].spent = b, ![m].handoff = h]
                  \in [Masters -> Row]
<1>1. rows[m] \in Row
  OBVIOUS
<1>2. /\ [rows[m] EXCEPT !.status = st, !.spent = b] \in Row
      /\ [rows[m] EXCEPT !.status = st, !.spent = b, !.handoff = h] \in Row
  BY <1>1 DEF Row
<1>3. /\ [rows EXCEPT ![m].status = st, ![m].spent = b]
            = [rows EXCEPT ![m] = [rows[m] EXCEPT !.status = st, !.spent = b]]
      /\ [rows EXCEPT ![m].status = st, ![m].spent = b, ![m].handoff = h]
            = [rows EXCEPT ![m] = [rows[m] EXCEPT !.status = st, !.spent = b, !.handoff = h]]
  OBVIOUS
<1> QED BY <1>2, <1>3

(* What a pass remembers after each of its steps. *)
LEMMA ScanMoved ==
    ASSUME scans \in [Scans -> ScanLocals], NEW s \in Scans, NEW pc \in ScanPcs,
           NEW X \in SUBSET Masters, NEW Y \in SUBSET Masters
    PROVE  /\ [scans EXCEPT ![s].pc = pc] \in [Scans -> ScanLocals]
           /\ [scans EXCEPT ![s].pc = pc, ![s].off = X] \in [Scans -> ScanLocals]
           /\ [scans EXCEPT ![s].pc = pc, ![s].coin = X] \in [Scans -> ScanLocals]
           /\ [scans EXCEPT ![s].pc = pc, ![s].coin = X, ![s].held = Y] \in [Scans -> ScanLocals]
           /\ [scans EXCEPT ![s].pc = pc, ![s].held = Y, ![s].coin = X] \in [Scans -> ScanLocals]
BY DEF ScanLocals

LEMMA TypeUnfolds ==
    TypeOK <=>
        /\ rows \in [Masters -> Row]
        /\ realized \in -MaxLedger..MaxLedger
        /\ scans \in [Scans -> ScanLocals]
        /\ ticks \in [Monitors -> TickLocals]
        /\ calm \in BOOLEAN
        /\ fills \in [Masters -> 0..MaxCost]
        /\ sold \subseteq Masters /\ resold \subseteq Masters
        /\ parked \subseteq Masters /\ disturbed \subseteq Disturbances
BY DEF TypeOK, Row, ScanLocals, ScanPcs, TickLocals, TickPcs

-----------------------------------------------------------------------------
(* Every action keeps the types. *)
LEMMA TypeStep == TypeOK /\ [Next]_vars => TypeOK'
<1> SUFFICES ASSUME TypeOK, [Next]_vars PROVE TypeOK'
  OBVIOUS
<1>0. /\ rows \in [Masters -> Row]
      /\ realized \in -MaxLedger..MaxLedger
      /\ scans \in [Scans -> ScanLocals]
      /\ ticks \in [Monitors -> TickLocals]
      /\ calm \in BOOLEAN
      /\ fills \in [Masters -> 0..MaxCost]
      /\ sold \subseteq Masters /\ resold \subseteq Masters
      /\ parked \subseteq Masters /\ disturbed \subseteq Disturbances
  BY TypeUnfolds
<1> USE <1>0
<1> SUFFICES /\ (rows \in [Masters -> Row])'
             /\ (realized \in -MaxLedger..MaxLedger)'
             /\ (scans \in [Scans -> ScanLocals])'
             /\ (ticks \in [Monitors -> TickLocals])'
             /\ (calm \in BOOLEAN)'
             /\ (fills \in [Masters -> 0..MaxCost])'
             /\ (sold \subseteq Masters)' /\ (resold \subseteq Masters)'
             /\ (parked \subseteq Masters)' /\ (disturbed \subseteq Disturbances)'
  BY DEF TypeOK, Row, ScanLocals, ScanPcs, TickLocals, TickPcs
<1>1. ASSUME NEW s \in Scans, ScanStart(s)
      PROVE  /\ scans' \in [Scans -> ScanLocals] /\ disturbed' \subseteq Disturbances
             /\ UNCHANGED <<rows, realized, ticks, calm, fills, sold, resold, parked>>
  <2>1. [IdleScan EXCEPT !.pc = "reading", !.held = ListOpen] \in ScanLocals
    BY DEF IdleScan, ScanLocals, ScanPcs, ListOpen
  <2> QED BY <1>1, <2>1 DEF ScanStart, Disturb, Disturbances
<1>2. ASSUME NEW s \in Scans, ScanReadHandoffs(s)
      PROVE  /\ scans' \in [Scans -> ScanLocals]
             /\ UNCHANGED <<rows, realized, ticks, calm, fills, sold, resold, parked, disturbed>>
  <2>1. HandoffMasters \in SUBSET Masters /\ "choosing" \in ScanPcs
    BY DEF HandoffMasters, ScanPcs
  <2> QED BY <1>2, <2>1, ScanMoved DEF ScanReadHandoffs
<1>3. ASSUME NEW s \in Scans, NEW m \in Masters, ScanPick(s, m)
      PROVE  /\ scans' \in [Scans -> ScanLocals]
             /\ UNCHANGED <<rows, realized, ticks, calm, fills, sold, resold, parked, disturbed>>
  <2>1. {m} \in SUBSET Masters /\ scans[s].held \cup {m} \in SUBSET Masters
    BY DEF ScanLocals
  <2>2. scans' = [scans EXCEPT ![s].pc = "buying", ![s].coin = {m},
                               ![s].held = scans[s].held \cup {m}]
    BY <1>3 DEF ScanPick
  <2>3. "buying" \in ScanPcs
    BY DEF ScanPcs
  <2>4. scans' \in [Scans -> ScanLocals]
    BY <2>1, <2>2, <2>3, ScanMoved
  <2> QED BY <1>3, <2>4 DEF ScanPick
<1>4. ASSUME NEW s \in Scans, BuySend(s)
      PROVE  /\ scans' \in [Scans -> ScanLocals]
             /\ UNCHANGED <<rows, realized, ticks, calm, fills, sold, resold, parked, disturbed>>
  <2>1. "sent" \in ScanPcs
    BY DEF ScanPcs
  <2> QED BY <1>4, <2>1, ScanMoved DEF BuySend
<1>5. ASSUME NEW s \in Scans, BuyFails(s)
      PROVE  /\ scans' \in [Scans -> ScanLocals] /\ disturbed' \subseteq Disturbances
             /\ UNCHANGED <<rows, realized, ticks, calm, fills, sold, resold, parked>>
  <2>1. scans[s].held \ scans[s].coin \in SUBSET Masters
    BY DEF ScanLocals
  <2>2. scans' = [scans EXCEPT ![s].pc = "choosing",
                               ![s].held = scans[s].held \ scans[s].coin, ![s].coin = {}]
    BY <1>5 DEF BuyFails
  <2>3. "choosing" \in ScanPcs /\ {} \in SUBSET Masters
    BY DEF ScanPcs
  <2>4. scans' \in [Scans -> ScanLocals]
    BY <2>1, <2>2, <2>3, ScanMoved
  <2>5. disturbed' \subseteq Disturbances
    BY <1>5 DEF BuyFails, Disturb, Disturbances
  <2> QED BY <1>5, <2>4, <2>5 DEF BuyFails
<1>6. ASSUME NEW s \in Scans, NEW m \in Masters, BuyRecord(s, m)
      PROVE  /\ rows' \in [Masters -> Row] /\ scans' \in [Scans -> ScanLocals]
             /\ fills' \in [Masters -> 0..MaxCost] /\ sold' \subseteq Masters
             /\ disturbed' \subseteq Disturbances
             /\ UNCHANGED <<realized, ticks, calm, resold, parked>>
  <2> DEFINE basis(prior) == Merged(IF rows[m].status = "open" THEN prior ELSE 0, PerTrade)
  <2>1. \A n \in 0..MaxCost : basis(n) \in 0..MaxCost
    BY ClampsBound, LimitsAssumption, BoundsAssumption DEF Merged
  <2>2. rows[m].spent \in 0..MaxCost /\ fills[m] \in 0..MaxCost
    BY DEF Row
  <2>3. /\ rows' = [rows EXCEPT ![m].status = "open", ![m].spent = basis(rows[m].spent)]
        /\ fills' = [fills EXCEPT ![m] = basis(fills[m])]
    BY <1>6 DEF BuyRecord, Upserted
  <2>4. rows' \in [Masters -> Row] /\ fills' \in [Masters -> 0..MaxCost]
    <3> HIDE DEF basis
    <3> QED BY <2>1, <2>2, <2>3, RowWritten
  <2>5. "choosing" \in ScanPcs /\ {} \in SUBSET Masters
    BY DEF ScanPcs
  <2>6. scans' \in [Scans -> ScanLocals]
    BY <1>6, <2>5, ScanMoved DEF BuyRecord
  <2>7. sold' \subseteq Masters /\ disturbed' \subseteq Disturbances
    BY <1>6 DEF BuyRecord, Disturb, Disturbances
  <2> QED BY <1>6, <2>4, <2>6, <2>7 DEF BuyRecord
<1>7. ASSUME NEW s \in Scans, ScanEnd(s)
      PROVE  /\ scans' \in [Scans -> ScanLocals]
             /\ UNCHANGED <<rows, realized, ticks, calm, fills, sold, resold, parked, disturbed>>
  BY <1>7 DEF ScanEnd, IdleScan, ScanLocals, ScanPcs
<1>8. ASSUME NEW k \in Monitors, TickStart(k)
      PROVE  /\ ticks' \in [Monitors -> TickLocals] /\ disturbed' \subseteq Disturbances
             /\ UNCHANGED <<rows, realized, scans, calm, fills, sold, resold, parked>>
  <2> DEFINE copies == {[master |-> m, spent |-> rows[m].spent] : m \in ListOpen}
  <2>1. copies \in SUBSET Snapshot
    BY DEF Snapshot, ListOpen, Row
  <2>2. [pc |-> "pricing", at |-> {}, queue |-> copies] \in TickLocals
    BY <2>1 DEF TickLocals, TickPcs
  <2> QED BY <1>8, <2>2 DEF TickStart, Disturb, Disturbances
<1>9. ASSUME NEW k \in Monitors, NEW p \in Snapshot, Skip(k, p)
      PROVE  /\ ticks' \in [Monitors -> TickLocals]
             /\ UNCHANGED <<rows, realized, scans, calm, fills, sold, resold, parked, disturbed>>
  BY <1>9, LeftTyped DEF Skip
<1>10. ASSUME NEW k \in Monitors, NEW p \in Snapshot, Hold(k, p)
       PROVE  /\ rows' \in [Masters -> Row] /\ ticks' \in [Monitors -> TickLocals]
              /\ UNCHANGED <<realized, scans, calm, fills, sold, resold, parked, disturbed>>
  BY <1>10, LeftTyped, RepricedTyped DEF Hold
<1>11. ASSUME NEW k \in Monitors, NEW p \in Snapshot, Close(k, p)
       PROVE  /\ rows' \in [Masters -> Row] /\ ticks' \in [Monitors -> TickLocals]
              /\ UNCHANGED <<realized, scans, calm, fills, sold, resold, parked, disturbed>>
  <2>1. [pc |-> "selling", queue |-> ticks[k].queue \ {p}, at |-> {p}] \in TickLocals
    BY DEF TickLocals, TickPcs
  <2> QED BY <1>11, <2>1, RepricedTyped DEF Close
<1>12. ASSUME NEW k \in Monitors, NEW p \in Snapshot, SellSend(k, p)
       PROVE  /\ ticks' \in [Monitors -> TickLocals]
              /\ sold' \subseteq Masters /\ resold' \subseteq Masters
              /\ UNCHANGED <<rows, realized, scans, calm, fills, parked, disturbed>>
  <2>1. p.master \in Masters
    BY DEF Snapshot
  <2>2. ticks' \in [Monitors -> TickLocals]
    BY <1>12 DEF SellSend, TickLocals, TickPcs
  <2> QED BY <1>12, <2>1, <2>2 DEF SellSend
<1>13. ASSUME NEW k \in Monitors, NEW p \in Snapshot, SellFails(k, p)
       PROVE  /\ ticks' \in [Monitors -> TickLocals] /\ disturbed' \subseteq Disturbances
              /\ UNCHANGED <<rows, realized, scans, calm, fills, sold, resold, parked>>
  BY <1>13, LeftTyped DEF SellFails, Disturb, Disturbances
<1>14. ASSUME NEW k \in Monitors, NEW p \in Snapshot, SellRecord(k, p)
       PROVE  /\ rows' \in [Masters -> Row] /\ realized' \in -MaxLedger..MaxLedger
              /\ ticks' \in [Monitors -> TickLocals] /\ fills' \in [Masters -> 0..MaxCost]
              /\ UNCHANGED <<scans, calm, sold, resold, parked, disturbed>>
  <2>1. realized' \in -MaxLedger..MaxLedger
    <3>1. PICK out \in SellQuotes : realized' = Within(realized + out - p.spent - Gas)
      BY <1>14 DEF SellRecord
    <3>2. out \in Int /\ p.spent \in Int /\ Gas \in Int /\ realized \in Int
      BY LimitsAssumption, BoundsAssumption DEF Snapshot
    <3>3. realized + out - p.spent - Gas \in Int
      BY <3>2
    <3> QED BY <3>1, <3>3, ClampsBound
  <2>2. 0 \in 0..MaxCost
    BY BoundsAssumption
  <2>3. p.master \in Masters
    BY DEF Snapshot
  <2>4. rows' \in [Masters -> Row] /\ fills' \in [Masters -> 0..MaxCost]
    BY <1>14, <2>2, <2>3, RowWritten DEF SellRecord
  <2> QED BY <1>14, <2>1, <2>4, LeftTyped DEF SellRecord
<1>15. ASSUME NEW m \in Masters, Handoff(m)
       PROVE  /\ rows' \in [Masters -> Row] /\ parked' \subseteq Masters
              /\ disturbed' \subseteq Disturbances
              /\ UNCHANGED <<realized, scans, ticks, calm, fills, sold, resold>>
  <2>1. 0 \in 0..MaxCost
    BY BoundsAssumption
  <2>2. rows' \in [Masters -> Row]
    BY <1>15, <2>1, RowWritten DEF Handoff
  <2> QED BY <1>15, <2>2 DEF Handoff, Disturb, Disturbances
<1>16. CASE HoldTimePasses
  <2>1. ASSUME NEW m \in Masters
        PROVE  [rows[m] EXCEPT !.due = rows[m].status # "none"] \in Row
    BY DEF Row
  <2>2. rows' \in [Masters -> Row]
    BY <1>16, <2>1 DEF HoldTimePasses
  <2> QED BY <1>16, <2>2 DEF HoldTimePasses
<1>17. CASE NewDay
  BY <1>17, BoundsAssumption DEF NewDay
<1>18. CASE MarketMoves
  BY <1>18 DEF MarketMoves
<1>19. CASE Crash
  <2>1. IdleScan \in ScanLocals /\ IdleTick \in TickLocals
    BY DEF IdleScan, ScanLocals, ScanPcs, IdleTick, TickLocals, TickPcs
  <2>2. disturbed' \subseteq Disturbances
    BY <1>19 DEF Crash, Disturb, Disturbances
  <2> QED BY <1>19, <2>1, <2>2 DEF Crash
<1>20. CASE UNCHANGED vars
  BY <1>20 DEF vars
<1>21. CASE \E s \in Scans : ScanStep(s)
  BY <1>21, <1>1, <1>2, <1>3, <1>4, <1>5, <1>6, <1>7 DEF ScanStep
<1>22. CASE \E k \in Monitors : TickStep(k)
  BY <1>22, <1>8, <1>9, <1>10, <1>11, <1>12, <1>13, <1>14 DEF TickStep
<1>23. CASE \E m \in Masters : Handoff(m)
  BY <1>23, <1>15
<1> QED BY <1>16, <1>17, <1>18, <1>19, <1>20, <1>21, <1>22, <1>23 DEF Next

(* TypeOK: the table, the ledger and the passes' locals keep their shapes. *)
THEOREM TypeCorrect == Spec => []TypeOK
<1>1. Init => TypeOK
  BY BoundsAssumption DEF Init, TypeOK, NoRow, IdleScan, IdleTick, Snapshot, Disturbances
<1> QED BY <1>1, TypeStep, PTL DEF Spec
-----------------------------------------------------------------------------
(* Tokens off-limits.  A parked token's row keeps its mark because nobody   *)
(* who could write the row has it in hand, and every pass that got past the *)
(* handoff guard has it on its list.                                        *)
InHand(k) == ticks[k].queue \cup ticks[k].at

ParkedInv ==
    /\ \A s \in Scans : scans[s].pc \in {"idle", "reading"} => scans[s].coin = {}
    /\ \A m \in parked :
           /\ rows[m].status = "closed" /\ rows[m].handoff
           /\ \A k \in Monitors : \A p \in InHand(k) : p.master # m
           /\ \A s \in Scans :
                  /\ scans[s].pc \notin {"idle", "reading"} => m \in scans[s].off
                  /\ scans[s].coin # {m}

(* Letting go of a position leaves no other in hand. *)
LEMMA LeftHolds ==
    ASSUME NEW k \in Monitors, NEW p \in Snapshot, ticks \in [Monitors -> TickLocals],
           ticks' = [ticks EXCEPT ![k] = Left(k, p)]
    PROVE  \A j \in Monitors : InHand(j)' \subseteq InHand(j)
<1>1. Left(k, p).queue \cup Left(k, p).at \subseteq InHand(k)
  BY DEF Left, InHand, IdleTick
<1> QED BY <1>1 DEF InHand

LEMMA ParkedStep == TypeOK /\ ParkedInv /\ [Next]_vars => ParkedInv'
<1> SUFFICES ASSUME TypeOK, ParkedInv, [Next]_vars PROVE ParkedInv'
  OBVIOUS
<1>0. /\ rows \in [Masters -> Row]
      /\ scans \in [Scans -> ScanLocals]
      /\ ticks \in [Monitors -> TickLocals]
      /\ parked \subseteq Masters
  BY TypeUnfolds
<1> USE <1>0
<1> DEFINE Safe(m) == /\ rows[m].status = "closed" /\ rows[m].handoff
                      /\ \A k \in Monitors : \A p \in InHand(k) : p.master # m
<1>a. ASSUME UNCHANGED <<rows, ticks, parked>>
      PROVE  \A m \in parked' : Safe(m)'
  BY <1>a DEF ParkedInv, InHand
<1>b. ASSUME UNCHANGED <<scans, parked>>, \A m \in parked' : Safe(m)'
      PROVE  ParkedInv'
  BY <1>b DEF ParkedInv
<1>d. ASSUME NEW s \in Scans, UNCHANGED parked, \A m \in parked' : Safe(m)',
             \A r \in Scans : r # s => scans'[r] = scans[r],
             scans[s].pc \notin {"idle", "reading"}, scans'[s].pc \notin {"idle", "reading"},
             scans'[s].off = scans[s].off,
             \A n \in parked : scans'[s].coin # {n}
      PROVE  ParkedInv'
  BY <1>d DEF ParkedInv
<1>1. ASSUME NEW s \in Scans, ScanStart(s)
      PROVE  ParkedInv'
  <2>1. \A r \in Scans : scans'[r] = IF r = s THEN [IdleScan EXCEPT !.pc = "reading", !.held = ListOpen]
                                              ELSE scans[r]
    BY <1>1 DEF ScanStart
  <2> QED BY <1>1, <1>a, <2>1 DEF ScanStart, ParkedInv, IdleScan
<1>2. ASSUME NEW s \in Scans, ScanReadHandoffs(s)
      PROVE  ParkedInv'
  <2>1. \A m \in parked : m \in HandoffMasters
    BY DEF ParkedInv, HandoffMasters
  <2>2. \A r \in Scans : r # s => scans'[r] = scans[r]
    BY <1>2 DEF ScanReadHandoffs
  <2>3. /\ scans'[s].pc = "choosing" /\ scans'[s].off = HandoffMasters
        /\ scans'[s].coin = scans[s].coin
    BY <1>2 DEF ScanReadHandoffs, ScanLocals
  <2> QED BY <1>2, <1>a, <2>1, <2>2, <2>3 DEF ScanReadHandoffs, ParkedInv
<1>3. ASSUME NEW s \in Scans, NEW m \in Masters, ScanPick(s, m)
      PROVE  ParkedInv'
  <2>1. \A r \in Scans : r # s => scans'[r] = scans[r]
    BY <1>3 DEF ScanPick
  <2>2. /\ scans'[s].pc = "buying" /\ scans'[s].off = scans[s].off
        /\ scans'[s].coin = {m}
    BY <1>3 DEF ScanPick, ScanLocals
  <2>3. m \notin scans[s].off /\ scans[s].pc = "choosing"
    BY <1>3 DEF ScanPick
  <2>4. \A n \in parked : n # m
    BY <2>3 DEF ParkedInv
  <2>5. \A n \in parked : scans'[s].coin # {n}
    BY <2>2, <2>4
  <2>6. UNCHANGED <<rows, ticks, parked>>
    BY <1>3 DEF ScanPick
  <2> QED BY <1>a, <1>d, <2>1, <2>2, <2>3, <2>5, <2>6
<1>4. ASSUME NEW s \in Scans, BuySend(s)
      PROVE  ParkedInv'
  <2>1. \A r \in Scans : r # s => scans'[r] = scans[r]
    BY <1>4 DEF BuySend
  <2>2. /\ scans'[s].pc = "sent" /\ scans'[s].off = scans[s].off
        /\ scans'[s].coin = scans[s].coin /\ scans[s].pc = "buying"
    BY <1>4 DEF BuySend, ScanLocals
  <2> QED BY <1>4, <1>a, <2>1, <2>2 DEF BuySend, ParkedInv
<1>5. ASSUME NEW s \in Scans, BuyFails(s)
      PROVE  ParkedInv'
  <2>1. \A r \in Scans : r # s => scans'[r] = scans[r]
    BY <1>5 DEF BuyFails
  <2>0. /\ scans[s].pc \in {"buying", "sent"}
        /\ scans' = [scans EXCEPT ![s].pc = "choosing", ![s].held = @ \ scans[s].coin, ![s].coin = {}]
    BY <1>5 DEF BuyFails
  <2>2. /\ scans'[s].pc = "choosing" /\ scans'[s].off = scans[s].off
        /\ scans'[s].coin = {} /\ scans[s].pc \in {"buying", "sent"}
    BY <2>0 DEF ScanLocals
  <2>3. UNCHANGED <<rows, ticks, parked>>
    BY <1>5 DEF BuyFails
  <2>4. \A n \in parked : scans'[s].coin # {n}
    BY <2>2
  <2> QED BY <1>a, <1>d, <2>1, <2>2, <2>3, <2>4
<1>6. ASSUME NEW s \in Scans, NEW m \in Masters, BuyRecord(s, m)
      PROVE  ParkedInv'
  <2>1. \A r \in Scans : r # s => scans'[r] = scans[r]
    BY <1>6 DEF BuyRecord
  <2>2. /\ scans'[s].pc = "choosing" /\ scans'[s].off = scans[s].off
        /\ scans'[s].coin = {} /\ scans[s].pc = "sent" /\ scans[s].coin = {m}
    BY <1>6 DEF BuyRecord, ScanLocals
  <2>3. m \notin parked
    BY <2>2 DEF ParkedInv
  <2>4. \A n \in Masters : n # m => rows'[n] = rows[n]
    BY <1>6 DEF BuyRecord, Upserted
  <2>5. \A n \in parked' : Safe(n)'
    BY <1>6, <2>3, <2>4 DEF BuyRecord, ParkedInv, InHand
  <2>6. UNCHANGED parked
    BY <1>6 DEF BuyRecord
  <2>7. \A n \in parked : scans'[s].coin # {n}
    BY <2>2
  <2> QED BY <1>d, <2>1, <2>2, <2>5, <2>6, <2>7
<1>7. ASSUME NEW s \in Scans, ScanEnd(s)
      PROVE  ParkedInv'
  <2>1. \A r \in Scans : scans'[r] = IF r = s THEN IdleScan ELSE scans[r]
    BY <1>7 DEF ScanEnd
  <2> QED BY <1>7, <1>a, <2>1 DEF ScanEnd, ParkedInv, IdleScan
<1>8. ASSUME NEW k \in Monitors, TickStart(k)
      PROVE  ParkedInv'
  <2> DEFINE copies == {[master |-> m, spent |-> rows[m].spent] : m \in ListOpen}
  <2>a. ticks' = [ticks EXCEPT ![k] = [pc |-> "pricing", at |-> {}, queue |-> copies]]
    BY <1>8 DEF TickStart
  <2>0. InHand(k)' = copies
    BY <2>a DEF InHand
  <2>1. \A p \in InHand(k)' : p.master \in ListOpen
    BY <2>0
  <2>2. \A j \in Monitors : j # k => InHand(j)' = InHand(j)
    BY <1>8 DEF TickStart, InHand
  <2>c. UNCHANGED <<rows, parked>> /\ \A m \in parked : m \notin ListOpen
    BY <1>8 DEF TickStart, ParkedInv, ListOpen
  <2>3. \A m \in parked' : Safe(m)'
    BY <2>1, <2>2, <2>c DEF ParkedInv
  <2> QED BY <1>8, <1>b, <2>3 DEF TickStart
<1>c. ASSUME NEW p \in Snapshot, NEW k \in Monitors, p \in InHand(k),
             \A j \in Monitors : InHand(j)' \subseteq InHand(j),
             \A n \in Masters : n # p.master => rows'[n] = rows[n],
             UNCHANGED parked
      PROVE  \A m \in parked' : Safe(m)'
  BY <1>c DEF ParkedInv
<1>9. ASSUME NEW k \in Monitors, NEW p \in Snapshot, Skip(k, p) \/ SellFails(k, p)
      PROVE  ParkedInv'
  <2>1. p \in InHand(k) /\ UNCHANGED <<rows, scans, parked>>
    BY <1>9 DEF Skip, SellFails, InHand
  <2>2. \A j \in Monitors : InHand(j)' \subseteq InHand(j)
    BY <1>9, LeftHolds DEF Skip, SellFails
  <2> QED BY <1>b, <1>c, <2>1, <2>2
<1>10. ASSUME NEW k \in Monitors, NEW p \in Snapshot, Hold(k, p)
       PROVE  ParkedInv'
  <2>1. p \in InHand(k) /\ UNCHANGED <<scans, parked>>
    BY <1>10 DEF Hold, InHand
  <2>2. \A j \in Monitors : InHand(j)' \subseteq InHand(j)
    BY <1>10, LeftHolds DEF Hold
  <2>3. \A n \in Masters : n # p.master => rows'[n] = rows[n]
    BY <1>10 DEF Hold, Repriced, Upserted
  <2> QED BY <1>b, <1>c, <2>1, <2>2, <2>3
<1>11. ASSUME NEW k \in Monitors, NEW p \in Snapshot, Close(k, p)
       PROVE  ParkedInv'
  <2>1. p \in InHand(k) /\ UNCHANGED <<scans, parked>>
    BY <1>11 DEF Close, InHand
  <2>2. \A j \in Monitors : InHand(j)' \subseteq InHand(j)
    BY <1>11 DEF Close, InHand
  <2>3. \A n \in Masters : n # p.master => rows'[n] = rows[n]
    BY <1>11 DEF Close, Repriced, Upserted
  <2> QED BY <1>b, <1>c, <2>1, <2>2, <2>3
<1>12. ASSUME NEW k \in Monitors, NEW p \in Snapshot, SellSend(k, p)
       PROVE  ParkedInv'
  <2>1. p \in InHand(k) /\ UNCHANGED <<rows, scans, parked>>
    BY <1>12 DEF SellSend, InHand
  <2>2. \A j \in Monitors : InHand(j)' \subseteq InHand(j)
    BY <1>12 DEF SellSend, InHand, TickLocals
  <2> QED BY <1>b, <1>c, <2>1, <2>2
<1>14. ASSUME NEW k \in Monitors, NEW p \in Snapshot, SellRecord(k, p)
       PROVE  ParkedInv'
  <2>1. p \in InHand(k) /\ UNCHANGED <<scans, parked>>
    BY <1>14 DEF SellRecord, InHand
  <2>2. \A j \in Monitors : InHand(j)' \subseteq InHand(j)
    BY <1>14, LeftHolds DEF SellRecord
  <2>3. \A n \in Masters : n # p.master => rows'[n] = rows[n]
    BY <1>14 DEF SellRecord
  <2> QED BY <1>b, <1>c, <2>1, <2>2, <2>3
<1>15. ASSUME NEW m \in Masters, Handoff(m)
       PROVE  ParkedInv'
  <2>1. rows'[m].status = "closed" /\ rows'[m].handoff
    BY <1>15 DEF Handoff, Row
  <2>2. \A n \in Masters : n # m => rows'[n] = rows[n]
    BY <1>15 DEF Handoff
  <2>3. \A n \in parked' \ parked :
           /\ n = m /\ ~InTick(n)
           /\ \A s \in Scans : scans[s].pc \in {"idle", "reading"}
    BY <1>15 DEF Handoff
  <2>4. UNCHANGED <<scans, ticks>>
    BY <1>15 DEF Handoff
  <2>5. \A n \in parked' : Safe(n)'
    <3> SUFFICES ASSUME NEW n \in parked' PROVE Safe(n)'
      OBVIOUS
    <3>1. CASE n \in parked
      BY <3>1, <2>1, <2>2, <2>4 DEF ParkedInv, InHand
    <3>2. CASE n \notin parked
      BY <3>2, <2>1, <2>3, <2>4 DEF InTick, InHand
    <3> QED BY <3>1, <3>2
  <2>6. \A n \in parked' : \A s \in Scans :
           /\ scans[s].pc \notin {"idle", "reading"} => n \in scans[s].off
           /\ scans[s].coin # {n}
    BY <2>3 DEF ParkedInv
  <2> QED BY <2>4, <2>5, <2>6 DEF ParkedInv
<1>16. CASE HoldTimePasses
  <2>1. \A m \in parked' : Safe(m)'
    BY <1>16 DEF HoldTimePasses, ParkedInv, InHand, Row
  <2> QED BY <1>16, <1>b, <2>1 DEF HoldTimePasses
<1>17. CASE NewDay \/ MarketMoves \/ UNCHANGED vars
  BY <1>17, <1>a, <1>b DEF NewDay, MarketMoves, vars
<1>18. CASE Crash
  <2>1. \A s \in Scans : scans'[s] = IdleScan
    BY <1>18 DEF Crash
  <2>2. \A k \in Monitors : InHand(k)' = {}
    BY <1>18 DEF Crash, InHand, IdleTick
  <2> QED BY <1>18, <2>1, <2>2 DEF Crash, ParkedInv, IdleScan
<1>19. CASE \E s \in Scans : ScanStep(s)
  BY <1>19, <1>1, <1>2, <1>3, <1>4, <1>5, <1>6, <1>7 DEF ScanStep
<1>20. CASE \E k \in Monitors : TickStep(k)
  BY <1>20, <1>8, <1>9, <1>10, <1>11, <1>12, <1>14 DEF TickStep
<1>21. CASE \E m \in Masters : Handoff(m)
  BY <1>21, <1>15
<1> QED BY <1>16, <1>17, <1>18, <1>19, <1>20, <1>21 DEF Next

(* ParkedStaysParked: a token the operator parked between passes is not     *)
(* traded again by any pass or tick, however many of them overlap.          *)
THEOREM ParkedForGood == Spec => []ParkedStaysParked
<1>1. Init => ParkedInv
  BY DEF Init, ParkedInv, IdleScan
<1>2. ParkedInv => ParkedStaysParked
  BY DEF ParkedInv, ParkedStaysParked, InHand
<1> QED BY <1>1, <1>2, ParkedStep, TypeCorrect, PTL DEF Spec

-----------------------------------------------------------------------------
(* The shapes of passes and ticks *)

ScanBusy(s) == scans[s].pc # "idle"
TickBusy(k) == ticks[k].pc # "idle"

(* A pass claims what it buys; a tick has each token in hand once.          *)
ScanForm(s) ==
    /\ ~ScanBusy(s) => scans[s].held = {}
    /\ scans[s].pc \notin {"buying", "sent"} => scans[s].coin = {}
    /\ scans[s].coin \subseteq scans[s].held
TickForm(k) ==
    /\ ~TickBusy(k) => InHand(k) = {}
    /\ ticks[k].pc \notin {"selling", "sent"} => ticks[k].at = {}
    /\ ticks[k].queue \cap ticks[k].at = {}
    /\ \A p, q \in InHand(k) : p.master = q.master => p = q
    /\ \A p, q \in ticks[k].at : p = q
OneScan == Undisturbed({"scans overlap"}) => \A r, s \in Scans : ScanBusy(r) /\ ScanBusy(s) => r = s
OneTick == Undisturbed({"ticks overlap"}) => \A j, k \in Monitors : TickBusy(j) /\ TickBusy(k) => j = k
Forms ==
    /\ TypeOK
    /\ \A s \in Scans : ScanForm(s)
    /\ \A k \in Monitors : TickForm(k)
    /\ OneScan /\ OneTick

LEMMA Types ==
    ASSUME TypeOK
    PROVE  /\ rows \in [Masters -> Row]
           /\ realized \in -MaxLedger..MaxLedger
           /\ scans \in [Scans -> ScanLocals]
           /\ ticks \in [Monitors -> TickLocals]
           /\ fills \in [Masters -> 0..MaxCost]
           /\ sold \subseteq Masters /\ resold \subseteq Masters
           /\ \A k \in Monitors : InHand(k) \subseteq Snapshot
           /\ \A p \in Snapshot : p.master \in Masters /\ p.spent \in 0..MaxCost
BY TypeUnfolds DEF InHand, TickLocals, Snapshot

LEMMA DisturbedGrows ==
    ASSUME [Next]_vars
    PROVE  disturbed \subseteq disturbed'
<1>1. ASSUME NEW s \in Scans, ScanStep(s)
      PROVE  disturbed \subseteq disturbed'
  BY <1>1 DEF ScanStep, ScanStart, ScanReadHandoffs, ScanPick, BuySend, BuyFails, BuyRecord, ScanEnd, Disturb
<1>2. ASSUME NEW k \in Monitors, TickStep(k)
      PROVE  disturbed \subseteq disturbed'
  BY <1>2 DEF TickStep, TickStart, Skip, Hold, Close, SellSend, SellFails, SellRecord, Disturb
<1>3. ASSUME NEW m \in Masters, Handoff(m)
      PROVE  disturbed \subseteq disturbed'
  BY <1>3 DEF Handoff, Disturb
<1>4. CASE HoldTimePasses \/ NewDay \/ MarketMoves \/ Crash \/ UNCHANGED vars
  BY <1>4 DEF HoldTimePasses, NewDay, MarketMoves, Crash, Disturb, vars
<1> QED BY <1>1, <1>2, <1>3, <1>4 DEF Next

(* What a pass becomes by each of its steps. *)
LEMMA ScanFacts ==
    ASSUME Forms, NEW s \in Scans, ScanStep(s)
    PROVE  /\ \A r \in Scans : r # s => scans'[r] = scans[r]
           /\ UNCHANGED <<ticks, realized, parked, resold, calm>>
           /\ \/ /\ scans[s].pc = "idle" /\ Cardinality(ListOpen) < MaxOpen /\ realized > -LossLimit
                 /\ scans'[s] = [IdleScan EXCEPT !.pc = "reading", !.held = ListOpen]
                 /\ UNCHANGED <<rows, fills, sold>>
                 /\ (\E r \in Scans : ScanBusy(r)) => "scans overlap" \in disturbed'
              \/ /\ scans[s].pc = "reading" /\ scans'[s].pc = "choosing"
                 /\ scans'[s].held = scans[s].held /\ scans'[s].coin = scans[s].coin
                 /\ UNCHANGED <<rows, fills, sold, disturbed>>
              \/ \E m \in Masters : /\ scans[s].pc = "choosing" /\ scans'[s].pc = "buying"
                                    /\ Cardinality(scans[s].held) < MaxOpen /\ m \notin scans[s].held
                                    /\ scans'[s].held = scans[s].held \cup {m} /\ scans'[s].coin = {m}
                                    /\ UNCHANGED <<rows, fills, sold, disturbed>>
              \/ /\ scans[s].pc = "buying" /\ scans'[s].pc = "sent"
                 /\ scans'[s].held = scans[s].held /\ scans'[s].coin = scans[s].coin
                 /\ UNCHANGED <<rows, fills, sold, disturbed>>
              \/ /\ scans[s].pc \in {"buying", "sent"} /\ scans'[s].pc = "choosing"
                 /\ scans'[s].held = scans[s].held \ scans[s].coin /\ scans'[s].coin = {}
                 /\ UNCHANGED <<rows, fills, sold>>
              \/ \E m \in Masters : /\ scans[s].pc = "sent" /\ scans'[s].pc = "choosing"
                                    /\ scans[s].coin = {m}
                                    /\ scans'[s].held = scans[s].held /\ scans'[s].coin = {}
                                    /\ BuyRecord(s, m)
              \/ /\ scans[s].pc \in {"reading", "choosing"} /\ scans'[s] = IdleScan
                 /\ UNCHANGED <<rows, fills, sold, disturbed>>
<1>0. scans \in [Scans -> ScanLocals] /\ scans[s] \in ScanLocals
  BY Types DEF Forms
<1>1. CASE ScanStart(s)
  BY <1>0, <1>1 DEF ScanStart, Disturb, ScanBusy
<1>2. CASE ScanReadHandoffs(s)
  BY <1>0, <1>2 DEF ScanReadHandoffs, ScanLocals
<1>3. ASSUME NEW m \in Masters, ScanPick(s, m)
      PROVE  /\ \A r \in Scans : r # s => scans'[r] = scans[r]
             /\ UNCHANGED <<ticks, realized, parked, resold, calm>>
             /\ scans[s].pc = "choosing" /\ scans'[s].pc = "buying"
             /\ Cardinality(scans[s].held) < MaxOpen /\ m \notin scans[s].held
             /\ scans'[s].held = scans[s].held \cup {m} /\ scans'[s].coin = {m}
             /\ UNCHANGED <<rows, fills, sold, disturbed>>
  BY <1>0, <1>3 DEF ScanPick, ScanLocals
<1>4. CASE BuySend(s)
  BY <1>0, <1>4 DEF BuySend, ScanLocals
<1>5. CASE BuyFails(s)
  <2>1. scans' = [scans EXCEPT ![s].pc = "choosing", ![s].held = scans[s].held \ scans[s].coin, ![s].coin = {}]
    BY <1>5 DEF BuyFails
  <2>2. /\ scans'[s].pc = "choosing" /\ scans'[s].held = scans[s].held \ scans[s].coin /\ scans'[s].coin = {}
        /\ \A r \in Scans : r # s => scans'[r] = scans[r]
    BY <1>0, <2>1 DEF ScanLocals
  <2> QED BY <1>5, <2>2 DEF BuyFails
<1>6. ASSUME NEW m \in Masters, BuyRecord(s, m)
      PROVE  /\ \A r \in Scans : r # s => scans'[r] = scans[r]
             /\ UNCHANGED <<ticks, realized, parked, resold, calm>>
             /\ scans[s].pc = "sent" /\ scans'[s].pc = "choosing"
             /\ scans[s].coin = {m}
             /\ scans'[s].held = scans[s].held /\ scans'[s].coin = {}
  BY <1>0, <1>6 DEF BuyRecord, ScanLocals
<1>7. CASE ScanEnd(s)
  BY <1>0, <1>7 DEF ScanEnd
<1> QED BY <1>1, <1>2, <1>3, <1>4, <1>5, <1>6, <1>7, Zenon DEF ScanStep

(* Letting go of the position at hand leaves the rest of the queue. *)
LEMMA LetGo ==
    ASSUME Forms, NEW k \in Monitors, NEW p \in Snapshot,
           ticks' = [ticks EXCEPT ![k] = Left(k, p)]
    PROVE  /\ \A j \in Monitors : j # k => ticks'[j] = ticks[j]
           /\ ticks'[k].queue = ticks[k].queue \ {p} /\ ticks'[k].at = {}
           /\ ticks'[k].pc \in {"idle", "pricing"} /\ (ticks'[k].pc = "idle" => ticks'[k].queue = {})
<1>0. ticks \in [Monitors -> TickLocals]
  BY Types DEF Forms
<1>1. ticks'[k] = Left(k, p) /\ \A j \in Monitors : j # k => ticks'[j] = ticks[j]
  BY <1>0
<1>2. CASE ticks[k].queue \ {p} = {}
  <2>1. Left(k, p) = IdleTick
    BY <1>2 DEF Left
  <2> QED BY <1>1, <1>2, <2>1 DEF IdleTick
<1>3. CASE ticks[k].queue \ {p} # {}
  <2>1. Left(k, p) = [pc |-> "pricing", queue |-> ticks[k].queue \ {p}, at |-> {}]
    BY <1>3 DEF Left
  <2> QED BY <1>1, <2>1
<1> QED BY <1>2, <1>3

(* The steps of a tick that works on a position: it is left alone, taken to *)
(* be closed, its sell is sent, fails, or is recorded.                      *)
TickMoves(k, p) ==
    \/ /\ ticks[k].pc = "pricing" /\ p \in ticks[k].queue /\ (rows' = rows \/ rows' = Repriced(p))
       /\ ticks' = [ticks EXCEPT ![k] = Left(k, p)]
       /\ UNCHANGED <<realized, fills, sold, resold, disturbed>>
    \/ /\ ticks[k].pc = "pricing" /\ p \in ticks[k].queue /\ rows' = Repriced(p)
       /\ ticks'[k].pc = "selling" /\ ticks'[k].queue = ticks[k].queue \ {p} /\ ticks'[k].at = {p}
       /\ UNCHANGED <<realized, fills, sold, resold, disturbed>>
    \/ /\ ticks[k].pc = "selling" /\ ticks[k].at = {p}
       /\ ticks'[k].pc = "sent" /\ ticks'[k].queue = ticks[k].queue /\ ticks'[k].at = {p}
       /\ sold' = sold \cup {p.master} /\ resold' = resold \cup (sold \cap {p.master})
       /\ UNCHANGED <<rows, realized, fills, disturbed>>
    \/ /\ ticks[k].pc \in {"selling", "sent"} /\ ticks[k].at = {p}
       /\ ticks' = [ticks EXCEPT ![k] = Left(k, p)]
       /\ ticks[k].pc = "sent" => "answer lost" \in disturbed'
       /\ UNCHANGED <<rows, realized, fills, sold, resold>>
    \/ /\ ticks[k].pc = "sent" /\ ticks[k].at = {p}
       /\ ticks' = [ticks EXCEPT ![k] = Left(k, p)]
       /\ SellRecord(k, p)

LEMMA TickFacts ==
    ASSUME Forms, NEW k \in Monitors, TickStep(k)
    PROVE  /\ \A j \in Monitors : j # k => ticks'[j] = ticks[j]
           /\ UNCHANGED <<scans, calm, parked>>
           /\ \/ /\ ticks[k].pc = "idle" /\ ticks'[k].pc = "pricing" /\ ticks'[k].at = {}
                 /\ ticks'[k].queue = {[master |-> m, spent |-> rows[m].spent] : m \in ListOpen}
                 /\ UNCHANGED <<rows, realized, fills, sold, resold>>
                 /\ (\E j \in Monitors : TickBusy(j)) => "ticks overlap" \in disturbed'
              \/ \E p \in Snapshot : TickMoves(k, p)
<1>0. ticks \in [Monitors -> TickLocals] /\ ticks[k] \in TickLocals
  BY Types DEF Forms
<1>1. CASE TickStart(k)
  <2> DEFINE copies == {[master |-> m, spent |-> rows[m].spent] : m \in ListOpen}
  <2>1. ticks' = [ticks EXCEPT ![k] = [pc |-> "pricing", at |-> {}, queue |-> copies]]
    BY <1>1 DEF TickStart
  <2> HIDE DEF copies
  <2>2. /\ ticks'[k].pc = "pricing" /\ ticks'[k].at = {} /\ ticks'[k].queue = copies
        /\ \A j \in Monitors : j # k => ticks'[j] = ticks[j]
    BY <1>0, <2>1
  <2>3. /\ ticks[k].pc = "idle" /\ UNCHANGED <<rows, realized, fills, sold, resold, scans, calm, parked>>
        /\ (\E j \in Monitors : TickBusy(j)) => "ticks overlap" \in disturbed'
    BY <1>1 DEF TickStart, Disturb, TickBusy
  <2> QED BY <2>2, <2>3 DEF copies
<1>2. ASSUME NEW p \in Snapshot, Skip(k, p) \/ Hold(k, p)
      PROVE  /\ \A j \in Monitors : j # k => ticks'[j] = ticks[j]
             /\ UNCHANGED <<scans, calm, parked>>
             /\ ticks[k].pc = "pricing" /\ p \in ticks[k].queue /\ (rows' = rows \/ rows' = Repriced(p))
             /\ ticks' = [ticks EXCEPT ![k] = Left(k, p)]
             /\ UNCHANGED <<realized, fills, sold, resold, disturbed>>
  BY <1>2, LetGo DEF Skip, Hold
<1>3. ASSUME NEW p \in Snapshot, Close(k, p)
      PROVE  /\ \A j \in Monitors : j # k => ticks'[j] = ticks[j]
             /\ UNCHANGED <<scans, calm, parked>>
             /\ ticks[k].pc = "pricing" /\ p \in ticks[k].queue /\ rows' = Repriced(p)
             /\ ticks'[k].pc = "selling" /\ ticks'[k].queue = ticks[k].queue \ {p} /\ ticks'[k].at = {p}
             /\ UNCHANGED <<realized, fills, sold, resold, disturbed>>
  BY <1>0, <1>3 DEF Close
<1>4. ASSUME NEW p \in Snapshot, SellSend(k, p)
      PROVE  /\ \A j \in Monitors : j # k => ticks'[j] = ticks[j]
             /\ UNCHANGED <<scans, calm, parked>>
             /\ ticks[k].pc = "selling" /\ ticks[k].at = {p}
             /\ ticks'[k].pc = "sent" /\ ticks'[k].queue = ticks[k].queue /\ ticks'[k].at = {p}
             /\ sold' = sold \cup {p.master} /\ resold' = resold \cup (sold \cap {p.master})
             /\ UNCHANGED <<rows, realized, fills, disturbed>>
  BY <1>0, <1>4 DEF SellSend, TickLocals
<1>5. ASSUME NEW p \in Snapshot, SellFails(k, p)
      PROVE  /\ \A j \in Monitors : j # k => ticks'[j] = ticks[j]
             /\ UNCHANGED <<scans, calm, parked>>
             /\ ticks[k].pc \in {"selling", "sent"} /\ ticks[k].at = {p}
             /\ ticks' = [ticks EXCEPT ![k] = Left(k, p)]
             /\ ticks[k].pc = "sent" => "answer lost" \in disturbed'
             /\ UNCHANGED <<rows, realized, fills, sold, resold>>
  BY <1>5, LetGo DEF SellFails, Disturb
<1>6. ASSUME NEW p \in Snapshot, SellRecord(k, p)
      PROVE  /\ \A j \in Monitors : j # k => ticks'[j] = ticks[j]
             /\ UNCHANGED <<scans, calm, parked>>
             /\ ticks[k].pc = "sent" /\ ticks[k].at = {p}
             /\ ticks' = [ticks EXCEPT ![k] = Left(k, p)]
  BY <1>6, LetGo DEF SellRecord
<1>7. ASSUME NEW p \in Snapshot,
             Skip(k, p) \/ Hold(k, p) \/ Close(k, p) \/ SellSend(k, p) \/ SellFails(k, p) \/ SellRecord(k, p)
      PROVE  /\ \A j \in Monitors : j # k => ticks'[j] = ticks[j]
             /\ UNCHANGED <<scans, calm, parked>>
             /\ TickMoves(k, p)
  BY <1>2, <1>3, <1>4, <1>5, <1>6, <1>7, Zenon DEF TickMoves
<1> QED BY <1>1, <1>7, Zenon DEF TickStep

-----------------------------------------------------------------------------
LEMMA SameForms ==
    /\ \A s \in Scans : scans'[s] = scans[s] /\ ScanForm(s) => ScanForm(s)'
    /\ \A k \in Monitors : ticks'[k] = ticks[k] /\ TickForm(k) => TickForm(k)'
<1>1. ASSUME NEW s \in Scans, scans'[s] = scans[s], ScanForm(s)
      PROVE  ScanForm(s)'
  BY <1>1 DEF ScanForm, ScanBusy
<1>2. ASSUME NEW k \in Monitors, ticks'[k] = ticks[k], TickForm(k)
      PROVE  TickForm(k)'
  BY <1>2 DEF TickForm, TickBusy, InHand
<1> QED BY <1>1, <1>2

LEMMA IdleForms ==
    /\ \A s \in Scans : scans[s] = IdleScan => ScanForm(s) /\ ~ScanBusy(s)
    /\ \A k \in Monitors : ticks[k] = IdleTick => TickForm(k) /\ ~TickBusy(k)
<1>1. ASSUME NEW s \in Scans, scans[s] = IdleScan
      PROVE  ScanForm(s) /\ ~ScanBusy(s)
  <2>1. scans[s].pc = "idle" /\ scans[s].held = {} /\ scans[s].coin = {}
    BY <1>1 DEF IdleScan
  <2> QED BY <2>1 DEF ScanForm, ScanBusy
<1>2. ASSUME NEW k \in Monitors, ticks[k] = IdleTick
      PROVE  TickForm(k) /\ ~TickBusy(k)
  <2>1. ticks[k].pc = "idle" /\ ticks[k].queue = {} /\ ticks[k].at = {}
    BY <1>2 DEF IdleTick
  <2> QED BY <2>1 DEF TickForm, TickBusy, InHand
<1> QED BY <1>1, <1>2

LEMMA SoloKept ==
    /\ OneScan /\ UNCHANGED scans /\ disturbed \subseteq disturbed' => OneScan'
    /\ OneTick /\ UNCHANGED ticks /\ disturbed \subseteq disturbed' => OneTick'
<1>1. ASSUME OneScan, UNCHANGED scans, disturbed \subseteq disturbed'
      PROVE  OneScan'
  BY <1>1 DEF OneScan, ScanBusy, Undisturbed
<1>2. ASSUME OneTick, UNCHANGED ticks, disturbed \subseteq disturbed'
      PROVE  OneTick'
  BY <1>2 DEF OneTick, TickBusy, Undisturbed
<1> QED BY <1>1, <1>2

LEMMA FormsStep == Forms /\ [Next]_vars => Forms'
<1> SUFFICES ASSUME Forms, [Next]_vars PROVE Forms'
  OBVIOUS
<1>0. TypeOK' /\ disturbed \subseteq disturbed'
  BY TypeStep, DisturbedGrows DEF Forms
<1>a. ASSUME NEW s \in Scans, \A r \in Scans : r # s => scans'[r] = scans[r], ScanForm(s)', OneScan', UNCHANGED ticks
      PROVE  Forms'
  <2>1. \A r \in Scans : ScanForm(r)'
    BY <1>a, SameForms DEF Forms
  <2>2. OneTick' /\ \A k \in Monitors : TickForm(k)'
    BY <1>0, <1>a, SameForms, SoloKept DEF Forms
  <2> QED BY <1>0, <1>a, <2>1, <2>2 DEF Forms
<1>b. ASSUME NEW k \in Monitors, \A j \in Monitors : j # k => ticks'[j] = ticks[j], TickForm(k)', OneTick', UNCHANGED scans
      PROVE  Forms'
  <2>1. \A j \in Monitors : TickForm(j)'
    BY <1>b, SameForms DEF Forms
  <2>2. OneScan' /\ \A s \in Scans : ScanForm(s)'
    BY <1>0, <1>b, SameForms, SoloKept DEF Forms
  <2> QED BY <1>0, <1>b, <2>1, <2>2 DEF Forms
<1>c. ASSUME UNCHANGED <<scans, ticks>>
      PROVE  Forms'
  BY <1>0, <1>c, SameForms, SoloKept DEF Forms
<1>1. ASSUME NEW s \in Scans, ScanStep(s)
      PROVE  Forms'
  <2>1. ScanForm(s)'
    <3>1. ScanForm(s)
      BY DEF Forms
    <3>2. CASE scans'[s] = IdleScan
      <4>1. scans'[s].pc = "idle" /\ scans'[s].held = {} /\ scans'[s].coin = {}
        BY <3>2 DEF IdleScan
      <4> QED BY <4>1 DEF ScanForm, ScanBusy
    <3>3. CASE scans'[s] = [IdleScan EXCEPT !.pc = "reading", !.held = ListOpen]
      <4>1. scans'[s].pc = "reading" /\ scans'[s].coin = {}
        BY <3>3 DEF IdleScan
      <4> QED BY <4>1 DEF ScanForm, ScanBusy
    <3>4. CASE scans'[s] # IdleScan /\ scans'[s] # [IdleScan EXCEPT !.pc = "reading", !.held = ListOpen]
      BY <1>1, <3>1, <3>4, ScanFacts DEF ScanForm, ScanBusy
    <3> QED BY <3>2, <3>3, <3>4
  <2>2. OneScan'
    <3>1. CASE scans[s].pc = "idle"
      <4>1. (\E r \in Scans : ScanBusy(r)) => "scans overlap" \in disturbed'
        BY <1>1, <3>1, ScanFacts
      <4> QED BY <1>1, <3>1, <4>1, ScanFacts DEF OneScan, Undisturbed, ScanBusy
    <3>2. CASE scans[s].pc # "idle"
      BY <1>0, <1>1, <3>2, ScanFacts DEF Forms, OneScan, Undisturbed, ScanBusy
    <3> QED BY <3>1, <3>2
  <2> QED BY <1>1, <1>a, <2>1, <2>2, ScanFacts
<1>2. ASSUME NEW k \in Monitors, TickStep(k)
      PROVE  Forms'
  <2>0. /\ rows \in [Masters -> Row] /\ ticks[k].queue \subseteq Snapshot /\ ticks[k].at \subseteq Snapshot
    BY Types DEF Forms, InHand
  <2>1. TickForm(k)'
    <3>1. CASE ticks[k].pc = "idle"
      <4>1. /\ ticks'[k].pc = "pricing" /\ ticks'[k].at = {}
            /\ ticks'[k].queue = {[master |-> m, spent |-> rows[m].spent] : m \in ListOpen}
        BY <1>2, <3>1, TickFacts DEF TickMoves
      <4> QED BY <4>1 DEF TickForm, TickBusy, InHand
    <3>2. ASSUME NEW p \in Snapshot, TickMoves(k, p)
          PROVE  TickForm(k)'
      <4>0. TickForm(k)
        BY DEF Forms
      <4>1. CASE ticks' = [ticks EXCEPT ![k] = Left(k, p)]
        <5>1. /\ ticks'[k].queue = ticks[k].queue \ {p} /\ ticks'[k].at = {}
              /\ ticks'[k].pc \in {"idle", "pricing"} /\ (ticks'[k].pc = "idle" => ticks'[k].queue = {})
          BY <4>1, LetGo
        <5> QED BY <4>0, <5>1 DEF TickForm, TickBusy, InHand
      <4>2. CASE /\ ticks[k].pc = "pricing" /\ p \in ticks[k].queue
                 /\ ticks'[k].pc = "selling" /\ ticks'[k].queue = ticks[k].queue \ {p} /\ ticks'[k].at = {p}
        BY <4>0, <4>2 DEF TickForm, TickBusy, InHand
      <4>3. CASE /\ ticks[k].pc = "selling" /\ ticks[k].at = {p}
                 /\ ticks'[k].pc = "sent" /\ ticks'[k].queue = ticks[k].queue /\ ticks'[k].at = {p}
        BY <4>0, <4>3 DEF TickForm, TickBusy, InHand
      <4> QED BY <3>2, <4>1, <4>2, <4>3 DEF TickMoves
    <3>3. ticks[k].pc = "idle" \/ \E p \in Snapshot : TickMoves(k, p)
      BY <1>2, TickFacts
    <3> QED BY <3>1, <3>2, <3>3
  <2>2. OneTick'
    <3>1. CASE ticks[k].pc = "idle"
      <4>1. (\E j \in Monitors : TickBusy(j)) => "ticks overlap" \in disturbed'
        BY <1>2, <3>1, TickFacts DEF TickMoves
      <4> QED BY <1>2, <3>1, <4>1, TickFacts DEF OneTick, Undisturbed, TickBusy
    <3>2. CASE ticks[k].pc # "idle"
      BY <1>0, <1>2, <3>2, TickFacts DEF Forms, OneTick, Undisturbed, TickBusy
    <3> QED BY <3>1, <3>2
  <2> QED BY <1>2, <1>b, <2>1, <2>2, TickFacts
<1>3. CASE (\E m \in Masters : Handoff(m)) \/ HoldTimePasses \/ NewDay \/ MarketMoves \/ UNCHANGED vars
  <2>1. UNCHANGED <<scans, ticks>>
    BY <1>3 DEF Handoff, HoldTimePasses, NewDay, MarketMoves, vars
  <2> QED BY <1>c, <2>1
<1>4. CASE Crash
  <2>1. /\ \A s \in Scans : scans'[s] = IdleScan
        /\ \A k \in Monitors : ticks'[k] = IdleTick
    BY <1>4 DEF Crash
  <2>2. OneScan' /\ \A s \in Scans : ScanForm(s)'
    <3>1. \A s \in Scans : scans'[s].pc = "idle" /\ scans'[s].held = {} /\ scans'[s].coin = {}
      BY <2>1 DEF IdleScan
    <3> QED BY <3>1 DEF OneScan, ScanForm, ScanBusy
  <2>3. OneTick' /\ \A k \in Monitors : TickForm(k)'
    <3>1. \A k \in Monitors : ticks'[k].pc = "idle" /\ ticks'[k].queue = {} /\ ticks'[k].at = {}
      BY <2>1 DEF IdleTick
    <3>2. OneTick'
      BY <3>1 DEF OneTick, TickBusy
    <3>3. \A k \in Monitors : TickForm(k)'
      BY <3>1 DEF TickForm, TickBusy, InHand
    <3> QED BY <3>2, <3>3
  <2> QED BY <1>0, <2>2, <2>3 DEF Forms
<1> QED BY <1>1, <1>2, <1>3, <1>4 DEF Next

LEMMA InitForms == Init => Forms
<1> SUFFICES ASSUME Init PROVE Forms
  OBVIOUS
<1>1. TypeOK
  BY BoundsAssumption DEF Init, TypeOK, NoRow, IdleScan, IdleTick, Snapshot, Disturbances
<1>2. /\ \A s \in Scans : scans[s] = IdleScan
      /\ \A k \in Monitors : ticks[k] = IdleTick
  BY DEF Init
<1>3. OneScan /\ \A s \in Scans : ScanForm(s)
  BY <1>2, IdleForms DEF OneScan
<1>4. OneTick /\ \A k \in Monitors : TickForm(k)
  BY <1>2, IdleForms DEF OneTick
<1> QED BY <1>1, <1>3, <1>4 DEF Forms

(* What is written into the table. *)
LEMMA BuyFacts ==
    ASSUME Forms, NEW s \in Scans, NEW m \in Masters, BuyRecord(s, m)
    PROVE  LET basis(prior) == Merged(IF rows[m].status = "open" THEN prior ELSE 0, PerTrade)
           IN  /\ rows'[m].status = "open" /\ rows'[m].spent = basis(rows[m].spent)
               /\ fills'[m] = basis(fills[m])
               /\ \A n \in Masters : n # m => rows'[n] = rows[n] /\ fills'[n] = fills[n]
               /\ sold' = IF rows[m].status = "open" THEN sold ELSE sold \ {m}
               /\ InTick(m) => "fill in a tick" \in disturbed'
<1> DEFINE basis(prior) == Merged(IF rows[m].status = "open" THEN prior ELSE 0, PerTrade)
<1>1. /\ rows' = [rows EXCEPT ![m].status = "open", ![m].spent = basis(rows[m].spent)]
      /\ fills' = [fills EXCEPT ![m] = basis(fills[m])]
      /\ sold' = IF rows[m].status = "open" THEN sold ELSE sold \ {m}
      /\ InTick(m) => "fill in a tick" \in disturbed'
  BY DEF BuyRecord, Upserted, Disturb
<1>2. rows \in [Masters -> Row] /\ fills \in [Masters -> 0..MaxCost]
  BY Types DEF Forms
<1> HIDE DEF basis
<1>3. /\ rows'[m].status = "open" /\ rows'[m].spent = basis(rows[m].spent)
      /\ fills'[m] = basis(fills[m])
      /\ \A n \in Masters : n # m => rows'[n] = rows[n] /\ fills'[n] = fills[n]
  BY <1>1, <1>2 DEF Row
<1> QED BY <1>1, <1>3 DEF basis

LEMMA RepriceFacts ==
    ASSUME Forms, NEW p \in Snapshot, rows' = Repriced(p)
    PROVE  /\ rows'[p.master].status = "open" /\ rows'[p.master].spent = p.spent
           /\ \A n \in Masters : n # p.master => rows'[n] = rows[n]
<1>1. rows \in [Masters -> Row] /\ p.master \in Masters
  BY Types DEF Forms
<1> QED BY <1>1 DEF Repriced, Upserted, Row

LEMMA SaleFacts ==
    ASSUME Forms, NEW k \in Monitors, NEW p \in Snapshot, SellRecord(k, p)
    PROVE  /\ rows'[p.master].status = "closed" /\ p.master \in Masters
           /\ \A n \in Masters : n # p.master => rows'[n] = rows[n] /\ fills'[n] = fills[n]
           /\ UNCHANGED <<sold, resold, disturbed>>
           /\ \E out \in SellQuotes : realized' = Within(realized + out - p.spent - Gas)
<1>1. rows \in [Masters -> Row] /\ p.master \in Masters /\ fills \in [Masters -> 0..MaxCost]
  BY Types DEF Forms
<1>2. rows'[p.master].status = "closed" /\ \A n \in Masters : n # p.master => rows'[n] = rows[n]
  BY <1>1 DEF SellRecord, Row
<1>3. \A n \in Masters : n # p.master => fills'[n] = fills[n]
  BY <1>1 DEF SellRecord
<1> QED BY <1>1, <1>2, <1>3 DEF SellRecord

LEMMA HandoffFacts ==
    ASSUME Forms, NEW m \in Masters, Handoff(m)
    PROVE  /\ rows'[m].status = "closed" /\ \A n \in Masters : n # m => rows'[n] = rows[n]
           /\ UNCHANGED <<realized, scans, ticks, calm, fills, sold, resold>>
           /\ InTick(m) => "handoff in a tick" \in disturbed'
<1>1. rows \in [Masters -> Row]
  BY Types DEF Forms
<1> QED BY <1>1 DEF Handoff, Disturb, Row

LEMMA HoldTimeFacts ==
    ASSUME Forms, HoldTimePasses
    PROVE  /\ \A n \in Masters : rows'[n].status = rows[n].status /\ rows'[n].spent = rows[n].spent
           /\ UNCHANGED <<realized, scans, ticks, calm, fills, sold, resold, parked, disturbed>>
<1>1. rows \in [Masters -> Row]
  BY Types DEF Forms
<1> QED BY <1>1 DEF HoldTimePasses, Row

(* What a tick starts with. *)
LEMMA CopyFacts ==
    \A p \in {[master |-> m, spent |-> rows[m].spent] : m \in ListOpen} :
        p.master \in ListOpen /\ p.spent = rows[p.master].spent
<1> TAKE p \in {[master |-> m, spent |-> rows[m].spent] : m \in ListOpen}
<1>1. PICK m \in ListOpen : p = [master |-> m, spent |-> rows[m].spent]
  OBVIOUS
<1> QED BY <1>1

-----------------------------------------------------------------------------
(* One exit *)

(* A tick does not have in hand, before it sends, what was sold; and an     *)
(* open row whose position was sold is the one that is being recorded.      *)
ExitInv ==
    Undisturbed({"ticks overlap", "answer lost", "crash"}) =>
        /\ resold = {}
        /\ \A k \in Monitors : /\ \A p \in ticks[k].queue : p.master \notin sold
                               /\ ticks[k].pc = "selling" => \A p \in ticks[k].at : p.master \notin sold
        /\ \A m \in ListOpen \cap sold : \E k \in Monitors : ticks[k].pc = "sent" /\ \E p \in ticks[k].at : p.master = m

LEMMA ExitStep == Forms /\ ExitInv /\ [Next]_vars => ExitInv'
<1> SUFFICES ASSUME Forms, ExitInv, [Next]_vars, Undisturbed({"ticks overlap", "answer lost", "crash"})'
             PROVE  /\ resold' = {}
                    /\ \A k \in Monitors : /\ \A p \in ticks'[k].queue : p.master \notin sold'
                                           /\ ticks'[k].pc = "selling" => \A p \in ticks'[k].at : p.master \notin sold'
                    /\ \A m \in ListOpen' \cap sold' :
                           \E k \in Monitors : ticks'[k].pc = "sent" /\ \E p \in ticks'[k].at : p.master = m
  BY DEF ExitInv
<1> DEFINE Clean(k) == /\ \A p \in ticks[k].queue : p.master \notin sold
                       /\ ticks[k].pc = "selling" => \A p \in ticks[k].at : p.master \notin sold
           Held(k, m) == ticks[k].pc = "sent" /\ \E p \in ticks[k].at : p.master = m
           Goal == /\ resold' = {}
                   /\ \A k \in Monitors : Clean(k)'
                   /\ \A m \in ListOpen' \cap sold' : \E k \in Monitors : Held(k, m)'
<1> SUFFICES Goal
  OBVIOUS
<1>0. /\ disturbed \subseteq disturbed'
      /\ "ticks overlap" \notin disturbed' /\ "answer lost" \notin disturbed' /\ "crash" \notin disturbed'
  BY DisturbedGrows DEF Undisturbed
<1>a. /\ resold = {}
      /\ \A k \in Monitors : Clean(k)
      /\ \A m \in ListOpen \cap sold : \E k \in Monitors : Held(k, m)
  BY <1>0 DEF ExitInv, Undisturbed
<1>b. ASSUME UNCHANGED <<ticks, resold>>, sold' \subseteq sold,
             \A m \in Masters : m \in sold' /\ rows'[m].status = "open" => rows[m].status = "open"
      PROVE  Goal
  BY <1>a, <1>b DEF ListOpen
<1>1. ASSUME NEW s \in Scans, ScanStep(s)
      PROVE  Goal
  <2>1. CASE UNCHANGED <<rows, sold>>
    BY <1>1, <1>b, <2>1, ScanFacts
  <2>2. ASSUME NEW m \in Masters, BuyRecord(s, m)
        PROVE  Goal
    BY <1>1, <1>b, <2>2, BuyFacts, ScanFacts
  <2> QED BY <1>1, <2>1, <2>2, ScanFacts
<1>2. ASSUME NEW k \in Monitors, TickStep(k)
      PROVE  Goal
  <2>0. /\ \A j \in Monitors : j # k => ticks'[j] = ticks[j]
        /\ \A j, i \in Monitors : TickBusy(j) /\ TickBusy(i) => j = i
    BY <1>0, <1>2, TickFacts DEF Forms, OneTick, Undisturbed
  <2>1. CASE ticks[k].pc = "idle"
    <3>1. /\ ticks'[k].pc = "pricing" /\ ticks'[k].at = {}
          /\ ticks'[k].queue = {[master |-> m, spent |-> rows[m].spent] : m \in ListOpen}
          /\ UNCHANGED <<rows, sold, resold>>
          /\ \A j \in Monitors : ticks[j].pc = "idle"
      BY <1>0, <1>2, <2>1, TickFacts DEF TickMoves, TickBusy
    <3>2. ListOpen \cap sold = {}
      BY <1>a, <3>1
    <3>3. \A p \in ticks'[k].queue : p.master \in ListOpen
      BY <3>1, CopyFacts, Zenon
    <3>4. Clean(k)'
      BY <3>1, <3>2, <3>3
    <3>5. \A j \in Monitors : Clean(j)'
      BY <1>a, <2>0, <3>1, <3>4
    <3> QED BY <1>a, <3>1, <3>2, <3>5 DEF ListOpen
  <2>2. ASSUME NEW p \in Snapshot, TickMoves(k, p)
        PROVE  Goal
    <3>0. TickForm(k) /\ TickBusy(k) /\ p.master \in Masters
      BY <2>2, Types DEF Forms, TickMoves, TickBusy
    <3>a. \A m \in ListOpen \cap sold : Held(k, m)
      BY <1>a, <2>0, <3>0 DEF TickBusy
    <3>1. CASE /\ ticks[k].pc = "pricing" /\ p \in ticks[k].queue /\ (rows' = rows \/ rows' = Repriced(p))
               /\ UNCHANGED <<sold, resold>>
               /\ ticks'[k].queue = ticks[k].queue \ {p}
               /\ \/ ticks'[k].at = {}
                  \/ ticks'[k].at = {p}
      <4>1. p.master \notin sold /\ ListOpen \cap sold = {}
        BY <1>a, <3>a, <3>1
      <4>2. ListOpen' \cap sold' = {}
        BY <3>1, <4>1, RepriceFacts DEF ListOpen
      <4>3. Clean(k)'
        BY <1>a, <3>1, <4>1
      <4> QED BY <1>a, <2>0, <3>1, <4>2, <4>3
    <3>2. CASE /\ ticks[k].pc = "selling" /\ ticks[k].at = {p}
               /\ ticks'[k].pc = "sent" /\ ticks'[k].queue = ticks[k].queue /\ ticks'[k].at = {p}
               /\ sold' = sold \cup {p.master} /\ resold' = resold \cup (sold \cap {p.master})
               /\ UNCHANGED rows
      <4>1. p.master \notin sold
        BY <1>a, <3>2
      <4>2. \A q \in ticks[k].queue : q.master # p.master
        BY <3>0, <3>2 DEF TickForm, InHand
      <4>3. Clean(k)'
        BY <1>a, <3>2, <4>2
      <4>4. \A j \in Monitors : j # k => ticks[j].queue = {} /\ ticks[j].at = {}
        BY <2>0, <3>0 DEF Forms, TickForm, InHand
      <4>5. ListOpen \cap sold = {}
        BY <3>a, <3>2
      <4>6. \A m \in ListOpen' \cap sold' : Held(k, m)'
        BY <3>2, <4>5 DEF ListOpen
      <4>7. \A j \in Monitors : Clean(j)'
        BY <2>0, <4>3, <4>4
      <4>8. resold' = {}
        BY <1>a, <3>2, <4>1
      <4> QED BY <4>6, <4>7, <4>8
    <3>3. CASE /\ ticks[k].pc = "selling" /\ UNCHANGED <<rows, sold, resold>>
               /\ ticks'[k].queue = ticks[k].queue \ {p} /\ ticks'[k].at = {}
      <4>1. ListOpen' \cap sold' = {}
        BY <3>a, <3>3 DEF ListOpen
      <4>2. Clean(k)'
        BY <1>a, <3>3
      <4> QED BY <1>a, <2>0, <3>3, <4>1, <4>2
    <3>4. CASE /\ ticks[k].pc = "sent" /\ ticks[k].at = {p} /\ SellRecord(k, p)
               /\ ticks'[k].queue = ticks[k].queue \ {p} /\ ticks'[k].at = {}
      <4>1. /\ rows'[p.master].status = "closed" /\ UNCHANGED <<sold, resold>>
            /\ \A n \in Masters : n # p.master => rows'[n] = rows[n]
        BY <3>4, SaleFacts
      <4>2. \A m \in ListOpen \cap sold : m = p.master
        BY <3>a, <3>4
      <4>3. ListOpen' \cap sold' = {}
        BY <4>1, <4>2 DEF ListOpen
      <4>4. Clean(k)'
        BY <1>a, <3>4, <4>1
      <4> QED BY <1>a, <2>0, <4>1, <4>3, <4>4
    <3> QED BY <1>0, <2>2, <3>1, <3>2, <3>3, <3>4, LetGo DEF TickMoves
  <2> QED BY <1>2, <2>1, <2>2, TickFacts
<1>3. ASSUME NEW m \in Masters, Handoff(m)
      PROVE  Goal
  BY <1>3, <1>b, HandoffFacts
<1>4. CASE HoldTimePasses
  BY <1>4, <1>b, HoldTimeFacts
<1>5. CASE NewDay \/ MarketMoves \/ UNCHANGED vars
  <2>1. UNCHANGED <<rows, ticks, sold, resold>>
    BY <1>5 DEF NewDay, MarketMoves, vars
  <2> QED BY <1>b, <2>1
<1>6. CASE Crash
  BY <1>0, <1>6 DEF Crash, Disturb
<1> QED BY <1>1, <1>2, <1>3, <1>4, <1>5, <1>6 DEF Next

(* A position is sold once, unless two ticks work on it, or the engine does *)
(* not learn that its sell went out.                                        *)
THEOREM OneExit == Spec => []NoDoubleExit
<1>1. Init => ExitInv
  <2> SUFFICES ASSUME Init PROVE ExitInv
    OBVIOUS
  <2>1. sold = {} /\ resold = {}
    BY DEF Init
  <2> QED BY <2>1 DEF ExitInv
<1>2. ExitInv => NoDoubleExit
  BY DEF ExitInv, NoDoubleExit
<1> QED BY <1>1, <1>2, InitForms, FormsStep, ExitStep, PTL DEF Spec

-----------------------------------------------------------------------------
(* Cost bases *)

(* What a tick still has in its queue costs what its fills cost. *)
CostInv ==
    Undisturbed({"ticks overlap", "fill in a tick"}) =>
        /\ \A m \in ListOpen : rows[m].spent = fills[m]
        /\ \A k \in Monitors : \A p \in ticks[k].queue : p.spent = fills[p.master]

LEMMA CostStep == Forms /\ CostInv /\ [Next]_vars => CostInv'
<1> DEFINE Goal == /\ \A m \in ListOpen' : rows'[m].spent = fills'[m]
                   /\ \A k \in Monitors : \A p \in ticks'[k].queue : p.spent = fills'[p.master]
<1> SUFFICES ASSUME Forms, CostInv, [Next]_vars, Undisturbed({"ticks overlap", "fill in a tick"})'
             PROVE  Goal
  BY DEF CostInv
<1>0. /\ disturbed \subseteq disturbed'
      /\ "ticks overlap" \notin disturbed' /\ "fill in a tick" \notin disturbed'
  BY DisturbedGrows DEF Undisturbed
<1>a. /\ \A m \in ListOpen : rows[m].spent = fills[m]
      /\ \A k \in Monitors : \A p \in ticks[k].queue : p.spent = fills[p.master] /\ p.master \in Masters
  BY <1>0, Types DEF CostInv, Undisturbed, Forms, InHand
<1>b. ASSUME UNCHANGED <<ticks, fills>>,
             \A m \in Masters : rows'[m].status = "open" => rows[m].status = "open" /\ rows'[m].spent = rows[m].spent
      PROVE  Goal
  BY <1>a, <1>b DEF ListOpen
<1>1. ASSUME NEW s \in Scans, ScanStep(s)
      PROVE  Goal
  <2>1. CASE UNCHANGED <<rows, fills>>
    BY <1>1, <1>b, <2>1, ScanFacts
  <2>2. ASSUME NEW m \in Masters, BuyRecord(s, m)
        PROVE  Goal
    <3> DEFINE basis(prior) == Merged(IF rows[m].status = "open" THEN prior ELSE 0, PerTrade)
    <3>1. /\ rows'[m].spent = basis(rows[m].spent) /\ fills'[m] = basis(fills[m])
          /\ \A n \in Masters : n # m => rows'[n] = rows[n] /\ fills'[n] = fills[n]
          /\ ~InTick(m)
      BY <1>0, <2>2, BuyFacts
    <3>2. rows'[m].spent = fills'[m]
      <4>1. CASE rows[m].status = "open"
        BY <1>a, <3>1, <4>1 DEF ListOpen
      <4>2. CASE rows[m].status # "open"
        BY <3>1, <4>2
      <4> QED BY <4>1, <4>2
    <3> HIDE DEF basis
    <3>3. \A k \in Monitors : \A p \in ticks[k].queue : p.master # m
      BY <3>1 DEF InTick
    <3>4. ticks' = ticks
      BY <1>1, ScanFacts
    <3> QED BY <1>a, <3>1, <3>2, <3>3, <3>4 DEF ListOpen
  <2> QED BY <1>1, <2>1, <2>2, ScanFacts
<1>2. ASSUME NEW k \in Monitors, TickStep(k)
      PROVE  Goal
  <2>0. /\ \A j \in Monitors : j # k => ticks'[j] = ticks[j]
        /\ \A j, i \in Monitors : TickBusy(j) /\ TickBusy(i) => j = i
    BY <1>0, <1>2, TickFacts DEF Forms, OneTick, Undisturbed
  <2>1. CASE ticks[k].pc = "idle"
    <3>1. /\ ticks'[k].queue = {[master |-> m, spent |-> rows[m].spent] : m \in ListOpen}
          /\ UNCHANGED <<rows, fills>>
      BY <1>2, <2>1, TickFacts DEF TickMoves
    <3>2. \A p \in ticks'[k].queue : p.master \in ListOpen /\ p.spent = rows[p.master].spent
      BY <3>1, CopyFacts, Zenon
    <3> QED BY <1>a, <2>0, <3>1, <3>2 DEF ListOpen
  <2>2. ASSUME NEW p \in Snapshot, TickMoves(k, p)
        PROVE  Goal
    <3>0. TickForm(k) /\ TickBusy(k) /\ p.master \in Masters
      BY <2>2, Types DEF Forms, TickMoves, TickBusy
    <3>1. CASE /\ p \in ticks[k].queue /\ (rows' = rows \/ rows' = Repriced(p))
               /\ UNCHANGED fills /\ ticks'[k].queue \subseteq ticks[k].queue
      <4>1. p.spent = fills[p.master]
        BY <1>a, <3>1
      <4> QED BY <1>a, <2>0, <3>0, <3>1, <4>1, RepriceFacts DEF ListOpen
    <3>2. CASE UNCHANGED <<rows, fills>> /\ ticks'[k].queue \subseteq ticks[k].queue
      BY <1>a, <2>0, <3>2 DEF ListOpen
    <3>3. CASE /\ ticks[k].at = {p} /\ SellRecord(k, p)
               /\ ticks'[k].queue = ticks[k].queue \ {p}
      <4>1. /\ rows'[p.master].status = "closed"
            /\ \A n \in Masters : n # p.master => rows'[n] = rows[n] /\ fills'[n] = fills[n]
        BY <3>3, SaleFacts
      <4>2. \A q \in ticks[k].queue : q.master # p.master
        BY <3>0, <3>3 DEF TickForm, InHand
      <4>3. \A j \in Monitors : j # k => ticks[j].queue = {}
        BY <2>0, <3>0 DEF Forms, TickForm, InHand
      <4>4. \A j \in Monitors : \A q \in ticks'[j].queue : q.spent = fills'[q.master]
        <5>1. \A q \in ticks'[k].queue : q.spent = fills'[q.master]
          BY <1>a, <3>3, <4>1, <4>2
        <5>2. \A j \in Monitors : j # k => ticks'[j].queue = {}
          BY <2>0, <4>3
        <5> QED BY <5>1, <5>2
      <4> QED BY <1>a, <4>1, <4>4 DEF ListOpen
    <3>4. ticks' = [ticks EXCEPT ![k] = Left(k, p)] => ticks'[k].queue = ticks[k].queue \ {p}
      BY LetGo
    <3> QED BY <2>2, <3>1, <3>2, <3>3, <3>4 DEF TickMoves
  <2> QED BY <1>2, <2>1, <2>2, TickFacts
<1>3. ASSUME NEW m \in Masters, Handoff(m)
      PROVE  Goal
  BY <1>3, <1>b, HandoffFacts
<1>4. CASE HoldTimePasses
  BY <1>4, <1>b, HoldTimeFacts
<1>5. CASE NewDay \/ MarketMoves \/ UNCHANGED vars
  <2>1. UNCHANGED <<rows, ticks, fills>>
    BY <1>5 DEF NewDay, MarketMoves, vars
  <2> QED BY <1>b, <2>1
<1>6. CASE Crash
  <2>1. UNCHANGED <<rows, fills>> /\ \A k \in Monitors : ticks'[k] = IdleTick
    BY <1>6 DEF Crash
  <2>2. IdleTick.queue = {}
    BY DEF IdleTick
  <2> QED BY <1>a, <2>1, <2>2 DEF ListOpen
<1> QED BY <1>1, <1>2, <1>3, <1>4, <1>5, <1>6 DEF Next

(* The row knows what its position cost, whatever passes buy the same token *)
(* at once: only a tick that carries an older copy of the row may lose a    *)
(* fill.                                                                    *)
THEOREM CostsAreKept == Spec => []CostBasisKept
<1>1. Init => CostInv
  <2> SUFFICES ASSUME Init PROVE CostInv
    OBVIOUS
  <2>1. ListOpen = {}
    BY DEF Init, ListOpen, NoRow
  <2>2. \A k \in Monitors : ticks[k].queue = {}
    BY DEF Init, IdleTick
  <2> QED BY <2>1, <2>2 DEF CostInv
<1>2. CostInv => CostBasisKept
  BY DEF CostInv, CostBasisKept
<1> QED BY <1>1, <1>2, InitForms, FormsStep, CostStep, PTL DEF Spec

-----------------------------------------------------------------------------
(* What is at stake *)

Unit == PerTrade + Gas
(* Below what the ledger cannot be when n positions were lost after the     *)
(* breaker was read.                                                        *)
Floor(n) == -(LossLimit + n * Unit)
(* What a pass has claimed and is no longer open: it may have been lost.    *)
Gone(s) == scans[s].held \ (ListOpen \cup scans[s].coin)

LEMMA FloorFacts ==
    /\ Unit \in Nat
    /\ Floor(0) = -LossLimit
    /\ \A n \in Nat : Floor(n) \in Int /\ Floor(n) < 0 /\ Floor(n + 1) = Floor(n) - Unit
    /\ \A a, b \in Nat : a <= b => Floor(b) <= Floor(a)
<1>0. Unit \in Nat /\ LossLimit \in Nat /\ LossLimit > 0
  BY LimitsAssumption DEF Unit
<1> HIDE DEF Unit
<1>1. \A n \in Nat : n * Unit \in Nat /\ (n + 1) * Unit = n * Unit + Unit
  BY <1>0
<1>2. ASSUME NEW a \in Nat, NEW b \in Nat, a <= b
      PROVE  a * Unit <= b * Unit
  <2>1. b - a \in Nat /\ b = a + (b - a)
    BY <1>2
  <2>2. (a + (b - a)) * Unit = a * Unit + (b - a) * Unit /\ (b - a) * Unit \in Nat
    BY <1>0, <2>1
  <2> QED BY <1>0, <2>1, <2>2
<1>3. 0 * Unit = 0
  BY <1>0
<1> QED BY <1>0, <1>1, <1>2, <1>3 DEF Floor

LEMMA MastersFinite ==
    ASSUME NEW S \in SUBSET Masters
    PROVE  /\ IsFiniteSet(S) /\ Cardinality(S) \in Nat
           /\ \A T \in SUBSET S : Cardinality(T) <= Cardinality(S)
BY ActorsAssumption, FS_Subset, FS_CardinalityType

Stake ==
    /\ Cardinality(ListOpen) <= MaxOpen
    /\ \A s \in Scans : ScanBusy(s) => /\ ListOpen \subseteq scans[s].held \ scans[s].coin
                                       /\ Cardinality(scans[s].held) <= MaxOpen
                                       /\ realized > Floor(Cardinality(Gone(s)))
    /\ (\A s \in Scans : ~ScanBusy(s)) => realized > Floor(MaxOpen - Cardinality(ListOpen))

StakeShapes ==
    /\ ListOpen \in SUBSET Masters /\ realized \in Int
    /\ MaxOpen \in Nat /\ Cardinality(ListOpen) \in Nat
    /\ \A s \in Scans : /\ scans[s].held \in SUBSET Masters /\ Cardinality(scans[s].held) \in Nat
                        /\ Gone(s) \in SUBSET Masters /\ Cardinality(Gone(s)) \in Nat

LEMMA StakeTypes == Forms => StakeShapes
<1> SUFFICES ASSUME Forms PROVE StakeShapes
  OBVIOUS
<1>1. /\ ListOpen \in SUBSET Masters /\ realized \in Int
      /\ \A s \in Scans : scans[s].held \in SUBSET Masters /\ Gone(s) \in SUBSET Masters
  BY Types DEF Forms, ListOpen, Gone, ScanLocals
<1> QED BY <1>1, MastersFinite, LimitsAssumption DEF StakeShapes

(* Fewer open rows, at the price of one position at most for one row less.  *)
LEMMA StakeFalls ==
    ASSUME Forms, Forms', Stake, UNCHANGED scans, ListOpen' \subseteq ListOpen,
           \/ realized' >= 0
           \/ realized' >= realized
           \/ realized' >= realized - Unit /\ ListOpen' # ListOpen
    PROVE  Stake'
<1>a. StakeShapes'
  <2>1. Forms' => StakeShapes'
    BY StakeTypes, PTL
  <2> QED BY <2>1
<1>0. /\ ListOpen \in SUBSET Masters /\ realized \in Int /\ realized' \in Int
      /\ MaxOpen \in Nat /\ Cardinality(ListOpen) \in Nat /\ Cardinality(ListOpen') \in Nat
      /\ \A s \in Scans : /\ Gone(s) \in SUBSET Masters /\ Gone(s)' \in SUBSET Masters
                          /\ Cardinality(Gone(s)) \in Nat /\ Cardinality(Gone(s)') \in Nat
  BY <1>a, StakeTypes DEF StakeShapes
<1>1. Cardinality(ListOpen') <= Cardinality(ListOpen)
  BY <1>0, MastersFinite
<1>2. ListOpen' # ListOpen => Cardinality(ListOpen') < Cardinality(ListOpen)
  BY <1>0, <1>1, FS_Subset, MastersFinite
<1>3. ASSUME NEW a \in Nat, NEW b \in Nat, realized > Floor(a), a <= b, ListOpen' # ListOpen => a < b
      PROVE  realized' > Floor(b)
  <2>1. CASE realized' >= 0
    BY <1>0, <2>1, FloorFacts
  <2>2. CASE realized' >= realized
    BY <1>0, <1>3, <2>2, FloorFacts
  <2>3. CASE realized' >= realized - Unit /\ ListOpen' # ListOpen
    <3>1. a + 1 <= b /\ Floor(a + 1) = Floor(a) - Unit /\ Unit \in Nat
      BY <1>3, <2>3, FloorFacts
    <3>2. Floor(b) <= Floor(a + 1) /\ Floor(a) \in Int /\ Floor(b) \in Int
      BY <3>1, FloorFacts
    <3> QED BY <1>0, <1>3, <2>3, <3>1, <3>2
  <2> QED BY <2>1, <2>2, <2>3
<1>4. ASSUME NEW s \in Scans, ScanBusy(s)
      PROVE  /\ ListOpen' \subseteq scans[s].held \ scans[s].coin
             /\ Cardinality(scans[s].held) <= MaxOpen
             /\ realized' > Floor(Cardinality(Gone(s)'))
  <2>1. /\ ListOpen \subseteq scans[s].held \ scans[s].coin
        /\ Cardinality(scans[s].held) <= MaxOpen
        /\ realized > Floor(Cardinality(Gone(s)))
    BY <1>4 DEF Stake
  <2>2. Gone(s)' = scans[s].held \ (ListOpen' \cup scans[s].coin)
    BY DEF Gone
  <2>3. Gone(s) \subseteq Gone(s)' /\ (ListOpen' # ListOpen => Gone(s) # Gone(s)')
    BY <2>1, <2>2 DEF Gone
  <2>4. Cardinality(Gone(s)) <= Cardinality(Gone(s)')
    BY <1>0, <2>3, MastersFinite
  <2>5. ListOpen' # ListOpen => Cardinality(Gone(s)) < Cardinality(Gone(s)')
    BY <1>0, <2>3, <2>4, FS_Subset, MastersFinite
  <2> QED BY <1>0, <1>3, <2>1, <2>4, <2>5
<1>5. ASSUME \A s \in Scans : ~ScanBusy(s)
      PROVE  realized' > Floor(MaxOpen - Cardinality(ListOpen'))
  <2>1. realized > Floor(MaxOpen - Cardinality(ListOpen)) /\ Cardinality(ListOpen) <= MaxOpen
    BY <1>5 DEF Stake
  <2>2. /\ MaxOpen - Cardinality(ListOpen) \in Nat /\ MaxOpen - Cardinality(ListOpen') \in Nat
        /\ MaxOpen - Cardinality(ListOpen) <= MaxOpen - Cardinality(ListOpen')
        /\ ListOpen' # ListOpen => MaxOpen - Cardinality(ListOpen) < MaxOpen - Cardinality(ListOpen')
    BY <1>0, <1>1, <1>2, <2>1
  <2> QED BY <1>3, <2>1, <2>2
<1>6. Cardinality(ListOpen') <= MaxOpen
  BY <1>0, <1>1 DEF Stake
<1> QED BY <1>4, <1>5, <1>6 DEF Stake, ScanBusy

(* A pass that is over leaves no more at stake than what is not open.       *)
LEMMA PassOver ==
    ASSUME Forms, Stake, NEW s \in Scans, ScanBusy(s)
    PROVE  realized > Floor(MaxOpen - Cardinality(ListOpen))
<1>1. /\ ListOpen \subseteq scans[s].held /\ Cardinality(scans[s].held) <= MaxOpen
      /\ realized > Floor(Cardinality(Gone(s))) /\ Cardinality(ListOpen) <= MaxOpen
  BY DEF Stake
<1>2. StakeShapes
  BY StakeTypes
<1>3. Cardinality(scans[s].held \ ListOpen) = Cardinality(scans[s].held) - Cardinality(ListOpen)
  <2>1. scans[s].held \cap ListOpen = ListOpen /\ IsFiniteSet(scans[s].held)
    BY <1>1, <1>2, MastersFinite DEF StakeShapes
  <2> QED BY <2>1, FS_Difference
<1>4. Gone(s) \subseteq scans[s].held \ ListOpen /\ scans[s].held \ ListOpen \in SUBSET Masters
  BY <1>2 DEF Gone, StakeShapes
<1>5. Cardinality(Gone(s)) <= MaxOpen - Cardinality(ListOpen)
  <2>1. Cardinality(Gone(s)) <= Cardinality(scans[s].held \ ListOpen)
    BY <1>4, MastersFinite
  <2> QED BY <1>1, <1>2, <1>3, <2>1 DEF StakeShapes
<1>6. Cardinality(Gone(s)) \in Nat /\ MaxOpen - Cardinality(ListOpen) \in Nat /\ realized \in Int
  BY <1>1, <1>2 DEF StakeShapes
<1>7. /\ Floor(MaxOpen - Cardinality(ListOpen)) <= Floor(Cardinality(Gone(s)))
      /\ Floor(MaxOpen - Cardinality(ListOpen)) \in Int /\ Floor(Cardinality(Gone(s))) \in Int
  BY <1>5, <1>6, FloorFacts
<1> QED BY <1>1, <1>6, <1>7

(* A pass buys only what it has room for and what it has claimed.           *)
LEMMA StakeScan ==
    ASSUME Forms, Forms', Stake, NEW s \in Scans, ScanStep(s),
           \A r \in Scans : r # s => ~ScanBusy(r)
    PROVE  Stake'
<1>1. \A r \in Scans : r # s => scans'[r] = scans[r] /\ ~ScanBusy(r)
  BY ScanFacts
<1>2. StakeShapes /\ StakeShapes' /\ realized' = realized
  <2>1. Forms' => StakeShapes'
    BY StakeTypes, PTL
  <2> QED BY <2>1, StakeTypes, ScanFacts
<1>3. ASSUME ScanBusy(s)', ListOpen' \subseteq scans'[s].held \ scans'[s].coin,
             Cardinality(scans'[s].held) <= MaxOpen,
             realized > Floor(Cardinality(scans'[s].held \ (ListOpen' \cup scans'[s].coin)))
      PROVE  Stake'
  <2>1. Cardinality(ListOpen') <= MaxOpen
    <3>1. ListOpen' \subseteq scans'[s].held /\ scans'[s].held \in SUBSET Masters
      BY <1>2, <1>3 DEF StakeShapes
    <3>2. Cardinality(ListOpen') <= Cardinality(scans'[s].held)
      BY <3>1, MastersFinite
    <3> QED BY <1>2, <1>3, <3>2 DEF StakeShapes
  <2>2. \A r \in Scans : ScanBusy(r)' => r = s
    BY <1>1 DEF ScanBusy
  <2> QED BY <1>2, <1>3, <2>1, <2>2 DEF Stake, Gone
<1>4. CASE scans[s].pc = "idle"
  <2>1. /\ Cardinality(ListOpen) < MaxOpen /\ realized > -LossLimit
        /\ scans'[s] = [IdleScan EXCEPT !.pc = "reading", !.held = ListOpen]
        /\ UNCHANGED rows
    BY <1>4, ScanFacts
  <2>2. scans'[s].pc = "reading" /\ scans'[s].held = ListOpen /\ scans'[s].coin = {} /\ ListOpen' = ListOpen
    BY <2>1 DEF IdleScan, ListOpen
  <2>3. Cardinality(scans'[s].held \ (ListOpen' \cup scans'[s].coin)) = 0
    BY <2>2, FS_EmptySet
  <2> QED BY <1>2, <1>3, <2>1, <2>2, <2>3, FloorFacts DEF ScanBusy, StakeShapes
<1>5. CASE scans[s].pc # "idle"
  <2>0. /\ ListOpen \subseteq scans[s].held \ scans[s].coin
        /\ Cardinality(scans[s].held) <= MaxOpen
        /\ realized > Floor(Cardinality(Gone(s)))
        /\ scans[s].coin \subseteq scans[s].held
    BY <1>5 DEF Stake, ScanBusy, Forms, ScanForm
  <2>1. CASE /\ scans'[s].pc # "idle" /\ scans'[s].held = scans[s].held
             /\ scans'[s].coin = scans[s].coin /\ UNCHANGED rows
    BY <1>3, <2>0, <2>1 DEF ScanBusy, ListOpen, Gone
  <2>2. ASSUME NEW m \in Masters, scans'[s].pc # "idle", Cardinality(scans[s].held) < MaxOpen,
               m \notin scans[s].held, scans[s].coin = {},
               scans'[s].held = scans[s].held \cup {m}, scans'[s].coin = {m}, UNCHANGED rows
        PROVE  Stake'
    <3>1. Cardinality(scans'[s].held) = Cardinality(scans[s].held) + 1
      <4>1. IsFiniteSet(scans[s].held)
        BY <1>2, MastersFinite DEF StakeShapes
      <4> QED BY <2>2, <4>1, FS_AddElement
    <3>2. scans'[s].held \ (ListOpen' \cup scans'[s].coin) = Gone(s)
      BY <2>2 DEF Gone, ListOpen
    <3>3. ListOpen' = ListOpen
      BY <2>2 DEF ListOpen
    <3>4. Cardinality(scans'[s].held) <= MaxOpen
      BY <1>2, <2>2, <3>1 DEF StakeShapes
    <3>5. ListOpen' \subseteq scans'[s].held \ scans'[s].coin
      BY <2>0, <2>2, <3>3
    <3> QED BY <1>3, <2>0, <2>2, <3>2, <3>4, <3>5 DEF ScanBusy
  <2>3. CASE /\ scans'[s].pc # "idle" /\ scans'[s].held = scans[s].held \ scans[s].coin
             /\ scans'[s].coin = {} /\ UNCHANGED rows
    <3>1. scans'[s].held \ (ListOpen' \cup scans'[s].coin) = Gone(s) /\ ListOpen' = ListOpen
      BY <2>3 DEF Gone, ListOpen
    <3>2. Cardinality(scans'[s].held) <= Cardinality(scans[s].held)
      BY <1>2, <2>3, MastersFinite DEF StakeShapes
    <3>3. Cardinality(scans'[s].held) <= MaxOpen
      BY <1>2, <2>0, <3>2 DEF StakeShapes
    <3>4. ListOpen' \subseteq scans'[s].held \ scans'[s].coin
      BY <2>0, <2>3, <3>1
    <3> QED BY <1>3, <2>0, <2>3, <3>1, <3>3, <3>4 DEF ScanBusy
  <2>4. ASSUME NEW m \in Masters, BuyRecord(s, m), scans'[s].pc # "idle", scans[s].coin = {m},
               scans'[s].held = scans[s].held, scans'[s].coin = {}
        PROVE  Stake'
    <3>1. ListOpen' = ListOpen \cup {m}
      BY <2>4, BuyFacts DEF ListOpen
    <3>2. scans'[s].held \ (ListOpen' \cup scans'[s].coin) = Gone(s)
      BY <2>4, <3>1 DEF Gone
    <3>3. ListOpen' \subseteq scans'[s].held \ scans'[s].coin
      BY <2>0, <2>4, <3>1
    <3> QED BY <1>3, <2>0, <2>4, <3>2, <3>3 DEF ScanBusy
  <2>5. CASE scans'[s] = IdleScan /\ UNCHANGED rows
    <3>1. \A r \in Scans : ~ScanBusy(r)'
      BY <1>1, <2>5 DEF ScanBusy, IdleScan
    <3>2. ListOpen' = ListOpen
      BY <2>5 DEF ListOpen
    <3>3. realized > Floor(MaxOpen - Cardinality(ListOpen)) /\ Cardinality(ListOpen) <= MaxOpen
      BY <1>5, PassOver DEF ScanBusy, Stake
    <3> QED BY <1>2, <3>1, <3>2, <3>3 DEF Stake
  <2>6. scans[s].pc = "choosing" => scans[s].coin = {}
    BY DEF Forms, ScanForm
  <2> QED BY <1>5, <2>1, <2>2, <2>3, <2>4, <2>5, <2>6, ScanFacts
<1> QED BY <1>4, <1>5

(* No position at work or in the table cost more than one trade, and what a *)
(* tick has in hand is open.                                                *)
Modest ==
    /\ \A k \in Monitors : \A p \in InHand(k) : p.master \in ListOpen /\ p.spent <= PerTrade
    /\ \A m \in ListOpen : rows[m].spent <= PerTrade
Calm == Undisturbed({"scans overlap", "ticks overlap", "handoff in a tick"})
RiskInv == Calm => Modest /\ Stake

(* A sale costs the day one trade at most. *)
LEMMA SaleLoses ==
    ASSUME realized \in Int, NEW p \in Snapshot, p.spent \in Nat, p.spent <= PerTrade, NEW out \in SellQuotes,
           realized' = Within(realized + out - p.spent - Gas)
    PROVE  realized' \in Int /\ (realized' >= 0 \/ realized' >= realized - Unit)
<1>1. out \in Nat /\ PerTrade \in Nat /\ Gas \in Nat /\ MaxLedger \in Nat
  BY LimitsAssumption, BoundsAssumption
<1> DEFINE n == realized + out - p.spent - Gas
<1>2. n \in Int /\ n >= realized - Unit /\ Unit \in Nat
  BY <1>1 DEF Unit
<1> HIDE DEF n
<1>3. realized' = IF n > MaxLedger THEN MaxLedger ELSE IF n < -MaxLedger THEN -MaxLedger ELSE n
  BY DEF Within, n
<1> QED BY <1>1, <1>2, <1>3

(* A single pass runs, and a single tick. *)
LEMMA Solo ==
    ASSUME Forms, [Next]_vars, Calm'
    PROVE  /\ Calm
           /\ \A s \in Scans : ScanStep(s) => \A r \in Scans : r # s => ~ScanBusy(r)
           /\ \A k \in Monitors : TickStep(k) => \A j \in Monitors : j # k => ~TickBusy(j)
           /\ \A m \in Masters : Handoff(m) => ~InTick(m)
<1>1. /\ disturbed \subseteq disturbed'
      /\ "scans overlap" \notin disturbed' /\ "ticks overlap" \notin disturbed' /\ "handoff in a tick" \notin disturbed'
  BY DisturbedGrows DEF Calm, Undisturbed
<1>2. Calm
  BY <1>1 DEF Calm, Undisturbed
<1>3. /\ \A r, s \in Scans : ScanBusy(r) /\ ScanBusy(s) => r = s
      /\ \A j, k \in Monitors : TickBusy(j) /\ TickBusy(k) => j = k
  BY <1>1 DEF Forms, OneScan, OneTick, Undisturbed
<1>4. ASSUME NEW s \in Scans, ScanStep(s), NEW r \in Scans, r # s, ScanBusy(r)
      PROVE  FALSE
  <2>1. scans[s].pc = "idle"
    BY <1>3, <1>4 DEF ScanBusy
  <2>2. "scans overlap" \in disturbed'
    BY <1>4, <2>1, ScanFacts
  <2> QED BY <1>1, <2>2
<1>5. ASSUME NEW k \in Monitors, TickStep(k), NEW j \in Monitors, j # k, TickBusy(j)
      PROVE  FALSE
  <2>1. ticks[k].pc = "idle"
    BY <1>3, <1>5 DEF TickBusy
  <2>2. "ticks overlap" \in disturbed'
    BY <1>5, <2>1, TickFacts DEF TickMoves
  <2> QED BY <1>1, <2>2
<1>6. \A m \in Masters : Handoff(m) => ~InTick(m)
  BY <1>1, HandoffFacts
<1> QED BY <1>2, <1>4, <1>5, <1>6

LEMMA RiskStep == Forms /\ RiskInv /\ [Next]_vars => RiskInv'
<1> SUFFICES ASSUME Forms, RiskInv, [Next]_vars, Calm' PROVE Modest' /\ Stake'
  BY DEF RiskInv
<1>0. Forms' /\ Modest /\ Stake
  BY Solo, FormsStep DEF RiskInv
<1>a. StakeShapes /\ \A k \in Monitors : InHand(k) \subseteq Snapshot
  BY StakeTypes, Types DEF Forms
<1>b. ASSUME UNCHANGED scans, realized' = realized \/ realized' = 0, ListOpen' = ListOpen,
             \A m \in ListOpen : rows'[m].spent <= PerTrade,
             \A k \in Monitors : InHand(k)' \subseteq InHand(k)
      PROVE  Modest' /\ Stake'
  <2>1. Modest'
    BY <1>0, <1>b DEF Modest
  <2>2. realized' >= realized \/ realized' >= 0
    BY <1>a, <1>b DEF StakeShapes
  <2> QED BY <1>0, <1>b, <2>1, <2>2, StakeFalls
<1>1. ASSUME NEW s \in Scans, ScanStep(s)
      PROVE  Modest' /\ Stake'
  <2>1. Stake'
    BY <1>0, <1>1, Solo, StakeScan
  <2>2. UNCHANGED ticks
    BY <1>1, ScanFacts
  <2>3. CASE UNCHANGED rows
    BY <1>0, <2>1, <2>2, <2>3 DEF Modest, InHand, ListOpen
  <2>4. ASSUME NEW m \in Masters, scans[s].coin = {m}, scans[s].pc = "sent", BuyRecord(s, m)
        PROVE  Modest'
    <3>1. m \notin ListOpen
      BY <1>0, <2>4 DEF Stake, ScanBusy
    <3>2. rows'[m].spent = Merged(0, PerTrade)
      BY <2>4, <3>1, BuyFacts DEF ListOpen
    <3>3. Merged(0, PerTrade) <= PerTrade
      BY LimitsAssumption, BoundsAssumption DEF Merged, AtMost
    <3>4. /\ ListOpen' = ListOpen \cup {m}
          /\ \A n \in Masters : n # m => rows'[n] = rows[n]
      BY <2>4, BuyFacts DEF ListOpen
    <3>5. \A n \in ListOpen' : rows'[n].spent <= PerTrade
      BY <1>0, <3>2, <3>3, <3>4 DEF Modest, ListOpen
    <3> QED BY <1>0, <2>2, <3>4, <3>5 DEF Modest, InHand
  <2> QED BY <1>1, <2>1, <2>3, <2>4, ScanFacts
<1>2. ASSUME NEW k \in Monitors, TickStep(k)
      PROVE  Modest' /\ Stake'
  <2>0. /\ UNCHANGED scans
        /\ \A j \in Monitors : j # k => InHand(j)' = {}
    <3>1. \A j \in Monitors : j # k => ticks'[j] = ticks[j] /\ ~TickBusy(j)
      BY <1>2, Solo, TickFacts
    <3>2. \A j \in Monitors : ~TickBusy(j) => InHand(j) = {}
      BY DEF Forms, TickForm
    <3> QED BY <1>2, <3>1, <3>2, TickFacts DEF InHand
  <2>1. CASE /\ ticks[k].pc = "idle" /\ ticks'[k].at = {} /\ UNCHANGED <<rows, realized>>
             /\ ticks'[k].queue = {[master |-> m, spent |-> rows[m].spent] : m \in ListOpen}
    <3>1. ListOpen' = ListOpen
      BY <2>1 DEF ListOpen
    <3>2. \A p \in InHand(k)' : p.master \in ListOpen /\ p.spent = rows[p.master].spent
      BY <2>1, CopyFacts DEF InHand
    <3>3. Modest'
      BY <1>0, <2>0, <2>1, <3>1, <3>2 DEF Modest
    <3>4. realized' >= realized
      BY <1>a, <2>1 DEF StakeShapes
    <3> QED BY <1>0, <2>0, <3>1, <3>3, <3>4, StakeFalls
  <2>2. ASSUME NEW p \in Snapshot, TickMoves(k, p)
        PROVE  Modest' /\ Stake'
    <3>0. /\ p \in InHand(k) /\ p.master \in ListOpen /\ p.spent \in Nat /\ p.spent <= PerTrade
          /\ p.master \in Masters
      <4>1. p \in InHand(k)
        BY <2>2, Zenon DEF TickMoves, InHand
      <4>2. p.master \in ListOpen /\ p.spent <= PerTrade
        BY <1>0, <4>1 DEF Modest
      <4>3. p.master \in Masters /\ p.spent \in Nat
        BY Types, BoundsAssumption DEF Forms
      <4> QED BY <4>1, <4>2, <4>3
    <3>1. \A j \in Monitors : j # k => InHand(j)' \subseteq InHand(j)
      BY <2>0
    <3>2. CASE /\ rows' = rows \/ rows' = Repriced(p)
               /\ realized' = realized /\ InHand(k)' \subseteq InHand(k)
      <4>1. /\ ListOpen' = ListOpen
            /\ \A m \in ListOpen : rows'[m].spent <= PerTrade
        BY <1>0, <3>0, <3>2, RepriceFacts DEF ListOpen, Modest
      <4> QED BY <1>b, <2>0, <3>1, <3>2, <4>1
    <3>3. CASE /\ ticks[k].at = {p} /\ SellRecord(k, p)
               /\ ticks'[k].queue = ticks[k].queue \ {p} /\ ticks'[k].at = {}
      <4>1. /\ ListOpen' = ListOpen \ {p.master}
            /\ \A n \in Masters : n # p.master => rows'[n] = rows[n]
        BY <3>3, SaleFacts DEF ListOpen
      <4>2. \A q \in InHand(k)' : q \in InHand(k) /\ q.master # p.master
        <5>1. TickForm(k)
          BY DEF Forms
        <5> QED BY <3>0, <3>3, <5>1 DEF TickForm, InHand
      <4>3. Modest'
        BY <1>0, <2>0, <4>1, <4>2 DEF Modest, ListOpen
      <4>4. realized' >= 0 \/ realized' >= realized - Unit
        BY <1>a, <3>0, <3>3, SaleFacts, SaleLoses DEF StakeShapes
      <4>5. ListOpen' \subseteq ListOpen /\ ListOpen' # ListOpen
        BY <3>0, <4>1
      <4> QED BY <1>0, <2>0, <4>3, <4>4, <4>5, StakeFalls
    <3> QED BY <2>2, <3>2, <3>3, LetGo DEF TickMoves, InHand
  <2> QED BY <1>2, <2>1, <2>2, TickFacts
<1>3. ASSUME NEW m \in Masters, Handoff(m)
      PROVE  Modest' /\ Stake'
  <2>1. /\ ListOpen' = ListOpen \ {m} /\ \A n \in Masters : n # m => rows'[n] = rows[n]
        /\ UNCHANGED <<realized, scans, ticks>>
    BY <1>3, HandoffFacts DEF ListOpen
  <2>2. \A k \in Monitors : \A p \in InHand(k) : p.master # m
    BY <1>3, Solo DEF InTick, InHand
  <2>3. Modest'
    BY <1>0, <2>1, <2>2 DEF Modest, InHand, ListOpen
  <2>4. realized' >= realized /\ ListOpen' \subseteq ListOpen
    BY <1>a, <2>1 DEF StakeShapes
  <2> QED BY <1>0, <2>1, <2>3, <2>4, StakeFalls
<1>4. CASE HoldTimePasses
  <2>1. ListOpen' = ListOpen /\ \A m \in ListOpen : rows'[m].spent = rows[m].spent
    BY <1>4, HoldTimeFacts DEF ListOpen
  <2> QED BY <1>0, <1>4, <1>b, <2>1, HoldTimeFacts DEF Modest, InHand
<1>5. CASE NewDay \/ MarketMoves \/ UNCHANGED vars
  <2>1. UNCHANGED <<rows, ticks, scans>> /\ (realized' = realized \/ realized' = 0)
    BY <1>5 DEF NewDay, MarketMoves, vars
  <2> QED BY <1>0, <1>b, <2>1 DEF ListOpen, Modest, InHand
<1>6. CASE Crash
  <2>1. /\ \A s \in Scans : ~ScanBusy(s)'
        /\ \A k \in Monitors : InHand(k)' = {}
        /\ UNCHANGED <<rows, realized>> /\ ListOpen' = ListOpen
    BY <1>6 DEF Crash, ScanBusy, IdleScan, IdleTick, InHand, ListOpen
  <2>2. realized > Floor(MaxOpen - Cardinality(ListOpen)) /\ Cardinality(ListOpen) <= MaxOpen
    BY <1>0, PassOver DEF Stake
  <2> QED BY <1>0, <2>1, <2>2 DEF Modest, Stake, ListOpen
<1> QED BY <1>1, <1>2, <1>3, <1>4, <1>5, <1>6 DEF Next

LEMMA InitRisk == Init => RiskInv
<1> SUFFICES ASSUME Init PROVE Modest /\ Stake
  BY DEF RiskInv
<1>1. ListOpen = {} /\ realized = 0 /\ MaxOpen \in Nat
  BY LimitsAssumption DEF Init, ListOpen, NoRow
<1>2. Cardinality(ListOpen) = 0
  BY <1>1, FS_EmptySet
<1>3. (\A k \in Monitors : InHand(k) = {}) /\ \A s \in Scans : ~ScanBusy(s)
  BY DEF Init, IdleTick, IdleScan, InHand, ScanBusy
<1>4. realized > Floor(MaxOpen - Cardinality(ListOpen)) /\ Cardinality(ListOpen) <= MaxOpen
  BY <1>1, <1>2, FloorFacts
<1> QED BY <1>1, <1>3, <1>4 DEF Modest, Stake

LEMMA RiskHolds == Spec => [](Forms /\ RiskInv)
BY InitForms, InitRisk, FormsStep, RiskStep, PTL DEF Spec

(* SNIPER_MAX_OPEN_POSITIONS bounds the open rows, however passes, sells    *)
(* and the operator interleave, while one pass and one tick run at a time   *)
(* and no row is parked under a tick.                                       *)
THEOREM ExposureHeld == Spec => []ExposureBounded
<1>1. RiskInv => ExposureBounded
  BY DEF RiskInv, Calm, Stake, ExposureBounded
<1> QED BY <1>1, RiskHolds, PTL

(* The day's loss never passes the limit and what was at stake when the     *)
(* breaker was read.                                                        *)
THEOREM LossHeld == Spec => []DailyLossBounded
<1>1. Forms /\ RiskInv => DailyLossBounded
  <2> SUFFICES ASSUME Forms, Stake PROVE realized > Floor(MaxOpen)
    BY DEF RiskInv, Calm, DailyLossBounded, Floor, Unit
  <2>1. StakeShapes
    BY StakeTypes
  <2>2. PICK n \in Nat : n <= MaxOpen /\ realized > Floor(n)
    <3>1. CASE \E s \in Scans : ScanBusy(s)
      <4>1. PICK s \in Scans : ScanBusy(s)
        BY <3>1
      <4>2. /\ realized > Floor(Cardinality(Gone(s))) /\ Cardinality(scans[s].held) <= MaxOpen
        BY <4>1 DEF Stake
      <4>3. Cardinality(Gone(s)) <= Cardinality(scans[s].held)
        BY <2>1, MastersFinite DEF StakeShapes, Gone
      <4>4. Cardinality(Gone(s)) <= MaxOpen
        BY <2>1, <4>2, <4>3 DEF StakeShapes
      <4> QED BY <2>1, <4>2, <4>4 DEF StakeShapes
    <3>2. CASE \A s \in Scans : ~ScanBusy(s)
      <4>1. /\ realized > Floor(MaxOpen - Cardinality(ListOpen)) /\ Cardinality(ListOpen) <= MaxOpen
        BY <3>2 DEF Stake
      <4>2. MaxOpen - Cardinality(ListOpen) \in Nat /\ MaxOpen - Cardinality(ListOpen) <= MaxOpen
        BY <2>1, <4>1 DEF StakeShapes
      <4> QED BY <4>1, <4>2
    <3> QED BY <3>1, <3>2
  <2>3. Floor(MaxOpen) <= Floor(n) /\ Floor(MaxOpen) \in Int /\ Floor(n) \in Int /\ realized \in Int
    BY <2>1, <2>2, FloorFacts DEF StakeShapes
  <2> QED BY <2>2, <2>3
<1> QED BY <1>1, RiskHolds, PTL
=============================================================================
