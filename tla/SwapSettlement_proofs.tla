----------------------- MODULE SwapSettlement_proofs -------------------------
(***************************************************************************)
(* What a swap reports is what happened, for any number of callers and     *)
(* jettons, any gas floors and any number of troubles at once.  The gaps   *)
(* between reports and the chain cannot be bounded on their own: a report  *)
(* is as true as the baseline it is measured from.  So the invariant says, *)
(* for a call under way, what has reached or left the wallet since its     *)
(* baseline was read (CallOK), and for a position what the books say       *)
(* beyond what is held (Gaps).                                             *)
(***************************************************************************)
EXTENDS SwapSettlement, TLAPS

InLine(c) == calls[c].pc \in {"queued", "sending", "polling"}

(* The mutex of a tier: the callers between acquire() and release(), each   *)
(* of them once, and only its head beyond the read of the seqno.            *)
Mutex ==
    /\ \A c \in Callers : HasSeqno(c) => Holder(c)
    /\ \A i, j \in 1..Len(queue) : queue[i] = queue[j] => i = j
    /\ \A c \in Callers : InLine(c) <=> \E i \in 1..Len(queue) : queue[i] = c

(* Calls that trade one jetton at once are on record. *)
Alone ==
    \A c, d \in Callers :
        Busy(c) /\ Busy(d) /\ c # d /\ calls[c].token = calls[d].token => calls[c].token \in shared

(* The books hold no more than was bought, less what was sold and reported. *)
Gaps ==
    \A t \in Tokens :
        /\ books[t] <= MaxLots
        /\ ~Excepted(t) => /\ inGap[t] >= 0 /\ outGap[t] >= 0
                           /\ outGap[t] >= inGap[t] + books[t] - jettons[t]

(* The call has a baseline that was the balance when it was read. *)
Measured(c) ==
    /\ calls[c].pc \notin {"idle", "building"}
    /\ ~calls[c].late /\ calls[c].before # Unread

(* Only a call that has no baseline yet goes to read one after the send.    *)
Dated(k) == k.pc = "late baseline" => k.late

(* What was delivered or sold since is not reported by anybody else. *)
CallOK(c) ==
    LET k == calls[c]
        t == k.token
    IN  Busy(c) =>
        /\ k.side = "buy" => ~k.late
        /\ Dated(k)
        /\ k.side = "sell" /\ ~Excepted(t) => k.lots = books[t]
        /\ Measured(c) /\ ~Excepted(t) =>
              /\ k.before \in Nat
              /\ k.side = "buy" => inGap[t] >= jettons[t] - k.before
              /\ k.side = "sell" => /\ outGap[t] >= k.before - jettons[t]
                                    /\ outGap[t] >= k.lots - k.before

Calls == [pc : {"idle", "building", "queued", "sending", "polling", "late baseline", "verifying"},
          side : Sides, token : Tokens, lots : Nat, late : BOOLEAN, before : Int,
          tries : Nat, moved : BOOLEAN]

Inv == TypeOK /\ Mutex /\ Alone /\ Gaps /\ \A c \in Callers : CallOK(c)

-----------------------------------------------------------------------------
(* The mutex. *)

(* acquire() puts a newcomer last. *)
LEMMA Joins ==
    ASSUME NEW S, NEW q \in Seq(S), NEW c \in S, \A i \in 1..Len(q) : q[i] # c,
           \A i, j \in 1..Len(q) : q[i] = q[j] => i = j
    PROVE  /\ Append(q, c) \in Seq(S)
           /\ q # <<>> => Head(Append(q, c)) = Head(q)
           /\ \A i, j \in 1..Len(Append(q, c)) : Append(q, c)[i] = Append(q, c)[j] => i = j
           /\ \A d : (\E i \in 1..Len(Append(q, c)) : Append(q, c)[i] = d)
                       <=> d = c \/ \E i \in 1..Len(q) : q[i] = d
<1> DEFINE a == Append(q, c)
<1>1. /\ a \in Seq(S) /\ Len(a) = Len(q) + 1 /\ Len(q) \in Nat
      /\ a[Len(q) + 1] = c /\ \A i \in 1..Len(q) : a[i] = q[i]
  OBVIOUS
<1>2. q # <<>> => Head(a) = Head(q)
  OBVIOUS
<1> HIDE DEF a
<1>3. \A i \in 1..Len(a) : i \in 1..Len(q) \/ i = Len(q) + 1
  BY <1>1
<1>4. \A i, j \in 1..Len(a) : a[i] = a[j] => i = j
  BY <1>1, <1>3
<1>5. ASSUME NEW d PROVE (\E i \in 1..Len(a) : a[i] = d) <=> d = c \/ \E i \in 1..Len(q) : q[i] = d
  <2>1. 1..Len(q) \subseteq 1..Len(a) /\ Len(q) + 1 \in 1..Len(a)
    BY <1>1
  <2> QED  BY <1>1, <1>3, <2>1
<1> QED  BY <1>1, <1>2, <1>4, <1>5 DEF a

(* release() lets the head go, and nobody else. *)
LEMMA Leaves ==
    ASSUME NEW S, NEW q \in Seq(S), q # <<>>,
           \A i, j \in 1..Len(q) : q[i] = q[j] => i = j
    PROVE  /\ Tail(q) \in Seq(S)
           /\ \A i, j \in 1..Len(Tail(q)) : Tail(q)[i] = Tail(q)[j] => i = j
           /\ \A d : (\E i \in 1..Len(Tail(q)) : Tail(q)[i] = d)
                       <=> d # Head(q) /\ \E i \in 1..Len(q) : q[i] = d
<1> DEFINE b == Tail(q)
<1>1. /\ b \in Seq(S) /\ Len(b) = Len(q) - 1 /\ Len(q) \in Nat \ {0} /\ Head(q) = q[1]
      /\ \A i \in 1..Len(b) : b[i] = q[i + 1]
  OBVIOUS
<1> HIDE DEF b
<1>2. \A i \in 1..Len(b) : i + 1 \in 1..Len(q) /\ i + 1 # 1
  BY <1>1
<1>3. ASSUME NEW i \in 1..Len(b), NEW j \in 1..Len(b), b[i] = b[j] PROVE i = j
  <2>1. i + 1 = j + 1
    BY <1>1, <1>2, <1>3
  <2> QED  BY <2>1
<1>4. ASSUME NEW d PROVE (\E i \in 1..Len(b) : b[i] = d) <=> d # Head(q) /\ \E i \in 1..Len(q) : q[i] = d
  <2>1. ASSUME NEW i \in 1..Len(b), b[i] = d PROVE d # Head(q) /\ \E n \in 1..Len(q) : q[n] = d
    <3>1. q[i + 1] = d /\ i + 1 \in 1..Len(q) /\ i + 1 # 1 /\ 1 \in 1..Len(q)
      BY <1>1, <1>2, <2>1
    <3> QED  BY <1>1, <3>1
  <2>2. ASSUME NEW n \in 1..Len(q), q[n] = d, d # Head(q) PROVE \E i \in 1..Len(b) : b[i] = d
    <3>1. n - 1 \in 1..Len(b) /\ (n - 1) + 1 = n
      BY <1>1, <2>2
    <3> QED  BY <1>1, <2>2, <3>1
  <2> QED  BY <2>1, <2>2
<1> QED  BY <1>1, <1>3, <1>4 DEF b

(* A step in which nobody joins or leaves the queue. *)
LEMMA LineKept ==
    ASSUME Mutex, UNCHANGED queue, NEW c \in Callers,
           \A d \in Callers : d # c => calls'[d].pc = calls[d].pc,
           InLine(c)' <=> InLine(c), HasSeqno(c)' => HasSeqno(c) \/ Holder(c)
    PROVE  Mutex'
<1>1. ASSUME NEW d \in Callers PROVE (InLine(d)' <=> InLine(d)) /\ (HasSeqno(d)' => Holder(d)')
  BY DEF Mutex, InLine, HasSeqno, Holder
<1> QED  BY <1>1 DEF Mutex

(* A step in which the holder of the lock returns it. *)
LEMMA LineMoves ==
    ASSUME TypeOK, Mutex, NEW c \in Callers, Holder(c), Unlock,
           \A d \in Callers : d # c => calls'[d].pc = calls[d].pc, ~InLine(c)'
    PROVE  Mutex'
<1>1. queue \in Seq(Callers) /\ queue # <<>> /\ Head(queue) = c /\ queue' = Tail(queue)
  BY DEF TypeOK, Holder, Unlock
<1>2. \A i, j \in 1..Len(queue) : queue[i] = queue[j] => i = j
  BY DEF Mutex
<1>3. /\ \A i, j \in 1..Len(queue') : queue'[i] = queue'[j] => i = j
      /\ \A d : (\E i \in 1..Len(queue') : queue'[i] = d)
                  <=> d # c /\ \E i \in 1..Len(queue) : queue[i] = d
  BY <1>1, <1>2, Leaves
<1>4. ASSUME NEW d \in Callers
      PROVE  InLine(d)' <=> \E i \in 1..Len(queue') : queue'[i] = d
  <2>1. CASE d = c
    BY <1>3, <2>1
  <2>2. CASE d # c
    <3>1. InLine(d)' <=> InLine(d)
      BY <2>2 DEF InLine
    <3> QED  BY <1>3, <2>2, <3>1 DEF Mutex
  <2> QED  BY <2>1, <2>2
<1>5. ASSUME NEW d \in Callers PROVE ~HasSeqno(d)'
  <2>1. CASE d = c
    BY <2>1 DEF InLine, HasSeqno
  <2>2. CASE d # c
    BY <1>1, <2>2 DEF Mutex, HasSeqno, Holder
  <2> QED  BY <2>1, <2>2
<1> QED  BY <1>3, <1>4, <1>5 DEF Mutex

(* A step in which a caller waits for the lock. *)
LEMMA LineGrows ==
    ASSUME TypeOK, Mutex, NEW c \in Callers, ~InLine(c), queue' = Append(queue, c),
           \A d \in Callers : d # c => calls'[d].pc = calls[d].pc, calls'[c].pc = "queued"
    PROVE  Mutex'
<1>1. queue \in Seq(Callers) /\ \A i \in 1..Len(queue) : queue[i] # c
  BY DEF TypeOK, Mutex
<1>2. \A i, j \in 1..Len(queue) : queue[i] = queue[j] => i = j
  BY DEF Mutex
<1>3. /\ queue # <<>> => Head(queue') = Head(queue)
      /\ \A i, j \in 1..Len(queue') : queue'[i] = queue'[j] => i = j
      /\ \A d : (\E i \in 1..Len(queue') : queue'[i] = d)
                  <=> d = c \/ \E i \in 1..Len(queue) : queue[i] = d
  BY <1>1, <1>2, Joins
<1>4. queue' # <<>>
  BY <1>1
<1>5. ASSUME NEW d \in Callers
      PROVE  InLine(d)' <=> \E i \in 1..Len(queue') : queue'[i] = d
  BY <1>3 DEF Mutex, InLine
<1>6. ASSUME NEW d \in Callers PROVE HasSeqno(d)' => Holder(d)'
  BY <1>3, <1>4 DEF Mutex, HasSeqno, Holder
<1> QED  BY <1>3, <1>5, <1>6 DEF Mutex

-----------------------------------------------------------------------------
(* What the steps of a call leave of its record. *)

LEMMA Records ==
    ASSUME TypeOK
    PROVE  /\ calls \in [Callers -> Calls]
           /\ \A c \in Callers : Swap(c) \in Swaps
           /\ Idle.pc = "idle" /\ Idle \in Calls
<1>1. calls \in [Callers -> Calls]
  BY DEF TypeOK, Calls
<1>2. ASSUME NEW c \in Callers PROVE Swap(c) \in Swaps
  <2>1. calls[c] \in Calls
    BY <1>1
  <2> QED  BY <2>1 DEF Swap, Swaps, Calls
<1>3. SomeToken \in Tokens
  BY TokensAssumption DEF SomeToken
<1>4. Idle.pc = "idle" /\ Idle \in Calls
  BY <1>3 DEF Idle, Calls, Sides, Unread
<1> QED  BY <1>1, <1>2, <1>4

(* Only c moves, to the record `to`. *)
Turns(c, to) == calls' = [calls EXCEPT ![c] = to]

LEMMA Turned ==
    ASSUME TypeOK, NEW c \in Callers, NEW to \in Calls, Turns(c, to)
    PROVE  /\ calls' \in [Callers -> Calls] /\ calls'[c] = to
           /\ \A d \in Callers : d # c => calls'[d] = calls[d]
BY Records DEF Turns

LEMMA Returned ==
    ASSUME TypeOK, NEW c \in Callers, Return(c)
    PROVE  Turns(c, Idle) /\ Idle \in Calls
<1>1. calls[c].token \in Tokens
  BY Records DEF Calls
<1> QED  BY <1>1, Records DEF Return, Turns

(* The actions of a call, by the record they leave. *)
LEMMA BeginTurns ==
    ASSUME TypeOK, NEW c \in Callers, NEW side \in Sides, NEW t \in Tokens, NEW lots \in Nat,
           NEW late \in BOOLEAN, Begin(c, side, t, lots, late)
    PROVE  \E to \in Calls :
              /\ Turns(c, to) /\ to.pc = "building" /\ to.side = side /\ to.token = t
              /\ to.lots = lots /\ to.late = late
<1> DEFINE to == [Idle EXCEPT !.pc = "building", !.side = side, !.token = t,
                              !.lots = lots, !.late = late]
<1>1. to \in Calls
  BY Records DEF Calls, Idle, Unread
<1>2. Turns(c, to)
  BY DEF Begin, Turns
<1>3. /\ to.pc = "building" /\ to.side = side /\ to.token = t
      /\ to.lots = lots /\ to.late = late
  BY DEF Idle
<1> QED  BY <1>1, <1>2, <1>3

(* A step that leaves the accounts of call c's record as they are. *)
SameDeal(c, to) ==
    /\ to.side = calls[c].side /\ to.token = calls[c].token
    /\ to.lots = calls[c].lots /\ to.late = calls[c].late

LEMMA BaselineTurns ==
    ASSUME TypeOK, NEW c \in Callers, ReadBaseline(c)
    PROVE  \E to \in Calls :
              /\ Turns(c, to) /\ SameDeal(c, to) /\ calls[c].pc = "building" /\ to.pc = "queued"
              /\ to.before = Unread \/ (~calls[c].late /\ to.before = jettons[calls[c].token])
<1>1. PICK v \in IF calls[c].late THEN {Unread} ELSE Readings(calls[c].token) :
         calls' = [calls EXCEPT ![c].pc = "queued", ![c].before = v]
  BY DEF ReadBaseline
<1> DEFINE to == [calls[c] EXCEPT !.pc = "queued", !.before = v]
<1>2. calls[c] \in Calls /\ calls \in [Callers -> Calls]
  BY Records
<1>3. v = Unread \/ (~calls[c].late /\ v = jettons[calls[c].token])
  BY <1>2 DEF Readings, Calls
<1>4. v \in Int
  <2>1. calls[c].token \in Tokens /\ jettons \in [Tokens -> Nat]
    BY <1>2 DEF TypeOK, Calls
  <2> QED  BY <1>3, <2>1 DEF Unread
<1>5. Turns(c, to)
  BY <1>1, <1>2 DEF Turns, Calls
<1>6. to \in Calls /\ SameDeal(c, to) /\ to.pc = "queued" /\ to.before = v
  BY <1>2, <1>4 DEF Calls, SameDeal
<1> QED  BY <1>3, <1>5, <1>6 DEF ReadBaseline

(* Between the baseline and the verdict a call's baseline stays. *)
Proceeds(c, from, on) ==
    \E to \in Calls :
        /\ Turns(c, to) /\ SameDeal(c, to) /\ calls[c].pc \in from /\ to.pc \in on
        /\ to.before = calls[c].before \/ calls[c].late

LEMMA CallProceeds ==
    ASSUME TypeOK, NEW c \in Callers
    PROVE  /\ ReadSeqno(c) => Proceeds(c, {"queued"}, {"sending"})
           /\ Send(c) => Proceeds(c, {"sending"}, {"polling"})
           /\ Confirm(c) => Proceeds(c, {"polling"}, {"late baseline", "verifying"})
           /\ Inv /\ LateBaseline(c) => Proceeds(c, {"late baseline"}, {"verifying"})
           /\ calls[c].pc = "verifying" /\ LookAgain(c) =>
                 Return(c) \/ Proceeds(c, {"verifying"}, {"verifying"})
<1>1. calls[c] \in Calls /\ calls \in [Callers -> Calls]
  BY Records
<1>2. ASSUME NEW from, NEW on, NEW to \in Calls, Turns(c, to), calls[c].pc \in from, to.pc \in on,
             SameDeal(c, to), to.before = calls[c].before \/ calls[c].late
      PROVE  Proceeds(c, from, on)
  BY <1>2 DEF Proceeds
<1>3. ASSUME ReadSeqno(c) PROVE Proceeds(c, {"queued"}, {"sending"})
  <2>1. PICK lags \in BOOLEAN : calls' = [calls EXCEPT ![c].pc = "sending", ![c].moved = lags]
    BY <1>3 DEF ReadSeqno
  <2> DEFINE to == [calls[c] EXCEPT !.pc = "sending", !.moved = lags]
  <2>2. to \in Calls /\ to.pc = "sending" /\ SameDeal(c, to) /\ to.before = calls[c].before
    BY <1>1 DEF Calls, SameDeal
  <2>3. Turns(c, to)
    BY <1>1, <2>1 DEF Turns, Calls
  <2> QED  BY <1>2, <1>3, <2>2, <2>3 DEF ReadSeqno
<1>4. ASSUME Send(c) PROVE Proceeds(c, {"sending"}, {"polling"})
  <2> DEFINE to == [calls[c] EXCEPT !.pc = "polling"]
  <2>1. to \in Calls /\ to.pc = "polling" /\ SameDeal(c, to) /\ to.before = calls[c].before
    BY <1>1 DEF Calls, SameDeal
  <2>2. Turns(c, to)
    BY <1>1, <1>4 DEF Turns, Calls, Send
  <2> QED  BY <1>2, <1>4, <2>1, <2>2 DEF Send
<1>5. ASSUME Confirm(c) PROVE Proceeds(c, {"polling"}, {"late baseline", "verifying"})
  <2> DEFINE to == [calls[c] EXCEPT !.pc = IF calls[c].late THEN "late baseline" ELSE "verifying"]
  <2>1. /\ to \in Calls /\ to.pc \in {"late baseline", "verifying"} /\ SameDeal(c, to)
        /\ to.before = calls[c].before
    BY <1>1 DEF Calls, SameDeal
  <2>2. Turns(c, to)
    BY <1>1, <1>5 DEF Turns, Calls, Confirm
  <2> QED  BY <1>2, <1>5, <2>1, <2>2 DEF Confirm
<1>6. ASSUME Inv, LateBaseline(c) PROVE Proceeds(c, {"late baseline"}, {"verifying"})
  <2>1. PICK v \in {Rent} \cup {Unread} :
           calls' = [calls EXCEPT ![c].pc = "verifying", ![c].before = v]
    BY <1>6 DEF LateBaseline
  <2>2. v \in Int
    BY SizesAssumption DEF Unread
  <2>3. calls[c].late
    BY <1>6 DEF Inv, CallOK, LateBaseline, Busy, Dated
  <2> DEFINE to == [calls[c] EXCEPT !.pc = "verifying", !.before = v]
  <2>4. to \in Calls /\ to.pc = "verifying" /\ SameDeal(c, to)
    BY <1>1, <2>2 DEF Calls, SameDeal
  <2>5. Turns(c, to)
    BY <1>1, <2>1 DEF Turns, Calls
  <2> QED  BY <1>2, <1>6, <2>3, <2>4, <2>5 DEF LateBaseline
<1>7. ASSUME calls[c].pc = "verifying", LookAgain(c), ~Return(c)
      PROVE  Proceeds(c, {"verifying"}, {"verifying"})
  <2> DEFINE n == calls[c].tries + 1
  <2>1. calls[c].tries \in Nat
    BY <1>1 DEF Calls
  <2>2. n \in Nat /\ (calls' = [calls EXCEPT ![c].tries = n])
    BY <1>1, <1>7, <2>1 DEF LookAgain
  <2> HIDE DEF n
  <2> DEFINE to == [calls[c] EXCEPT !.tries = n]
  <2>3. to \in Calls /\ to.pc = calls[c].pc /\ SameDeal(c, to) /\ to.before = calls[c].before
    BY <1>1, <2>2 DEF Calls, SameDeal
  <2>4. Turns(c, to)
    BY <1>1, <2>2 DEF Turns, Calls
  <2> QED  BY <1>2, <1>7, <2>3, <2>4
<1> QED  BY <1>3, <1>4, <1>5, <1>6, <1>7

-----------------------------------------------------------------------------
(* The accounts. *)

Accounts == <<jettons, books, inGap, outGap, shared, blind>>

Deals == Alone /\ Gaps /\ \A c \in Callers : CallOK(c)

(* A call that ends, or goes on with the same deal, is no overlap more. *)
LEMMA AloneKept ==
    ASSUME TypeOK, Alone, shared \subseteq shared', NEW c \in Callers, NEW to \in Calls, Turns(c, to),
           to.pc = "idle" \/ (Busy(c) /\ SameDeal(c, to))
    PROVE  Alone'
<1> SUFFICES ASSUME NEW d \in Callers, NEW e \in Callers, Busy(d)', Busy(e)', d # e,
                    calls'[d].token = calls'[e].token
             PROVE  calls'[d].token \in shared'
  BY DEF Alone
<1>1. ASSUME NEW x \in Callers, Busy(x)' PROVE Busy(x) /\ calls'[x].token = calls[x].token
  <2>1. CASE x = c
    BY <1>1, <2>1, Turned DEF Busy, SameDeal
  <2>2. CASE x # c
    BY <1>1, <2>2, Turned DEF Busy
  <2> QED  BY <2>1, <2>2
<1> QED  BY <1>1 DEF Alone

(* A step of one call that moves no account. *)
LEMMA QuietStep ==
    ASSUME TypeOK, Deals, UNCHANGED Accounts, NEW c \in Callers, NEW to \in Calls, Turns(c, to),
           \/ to.pc = "idle"
           \/ /\ Busy(c) /\ SameDeal(c, to) /\ Dated(to)
              /\ \/ calls[c].pc # "building" /\ to.before = calls[c].before
                 \/ calls[c].late
                 \/ to.before = Unread \/ to.before = jettons[calls[c].token]
    PROVE  Deals'
<1>1. UNCHANGED <<jettons, books, inGap, outGap, shared, blind>>
  BY DEF Accounts
<1>2. Alone'
  BY <1>1, AloneKept DEF Deals
<1>3. Gaps'
  BY <1>1 DEF Deals, Gaps, Excepted
<1>4. ASSUME NEW d \in Callers, d # c PROVE CallOK(d)'
  <2>1. calls'[d] = calls[d]
    BY <1>4, Turned
  <2> QED  BY <1>1, <2>1 DEF Deals, CallOK, Busy, Excepted, Measured
<1>5. CallOK(c)'
  <2>1. calls'[c] = to /\ calls[c] \in Calls
    BY Turned, Records
  <2>2. CASE to.pc = "idle"
    BY <2>1, <2>2 DEF CallOK, Busy
  <2>3. CASE to.pc # "idle"
    <3> DEFINE t == calls[c].token
    <3>1. /\ Busy(c) /\ SameDeal(c, to) /\ Dated(to)
          /\ \/ calls[c].pc # "building" /\ to.before = calls[c].before
             \/ calls[c].late
             \/ to.before = Unread \/ to.before = jettons[t]
      BY <2>3
    <3>2. /\ calls[c].side = "buy" => ~calls[c].late
          /\ calls[c].side = "sell" /\ ~Excepted(t) => calls[c].lots = books[t]
      BY <3>1 DEF Deals, CallOK
    <3>3. t \in Tokens
      BY <2>1 DEF Calls
    <3>4. /\ jettons[t] \in Nat /\ books[t] \in Nat /\ inGap[t] \in Int /\ outGap[t] \in Int
      BY <3>3 DEF TypeOK
    <3>5. ~Excepted(t) => /\ inGap[t] >= 0 /\ outGap[t] >= 0
                          /\ outGap[t] >= inGap[t] + books[t] - jettons[t]
      BY <3>3 DEF Deals, Gaps
    <3>6. ASSUME Measured(c)', ~Excepted(t)
          PROVE  /\ to.before \in Nat
                 /\ to.side = "buy" => inGap[t] >= jettons[t] - to.before
                 /\ to.side = "sell" => /\ outGap[t] >= to.before - jettons[t]
                                        /\ outGap[t] >= to.lots - to.before
      <4>1. ~to.late /\ to.before # Unread
        BY <2>1, <3>6 DEF Measured
      <4>2. CASE calls[c].pc # "building" /\ to.before = calls[c].before
        <5>1. Measured(c)
          BY <3>1, <4>1, <4>2 DEF Measured, SameDeal, Busy
        <5> QED  BY <3>1, <3>6, <4>2, <5>1 DEF Deals, CallOK, SameDeal
      <4>3. CASE to.before = jettons[t]
        BY <3>1, <3>2, <3>4, <3>5, <3>6, <4>3 DEF SameDeal
      <4>4. ~calls[c].late
        BY <3>1, <4>1 DEF SameDeal
      <4>5. \/ calls[c].pc # "building" /\ to.before = calls[c].before
            \/ to.before = jettons[t]
        BY <3>1, <4>1, <4>4
      <4> QED  BY <4>2, <4>3, <4>5
    <3> QED  BY <1>1, <2>1, <3>1, <3>2, <3>6 DEF CallOK, SameDeal, Excepted
  <2> QED  BY <2>2, <2>3
<1> QED  BY <1>2, <1>3, <1>4, <1>5 DEF Deals

(* A new call: whoever trades its jetton already is on record with it.      *)
LEMMA BeginDeals ==
    ASSUME TypeOK, Deals, NEW c \in Callers, NEW side \in Sides, NEW t \in Tokens, NEW lots \in Nat,
           NEW late \in BOOLEAN, Begin(c, side, t, lots, late),
           side = "buy" => ~late, side = "sell" => lots = books[t]
    PROVE  Deals'
<1>1. /\ ~Busy(c) /\ UNCHANGED <<jettons, books, inGap, outGap, blind>>
      /\ shared' = IF Overlaps(c, t) THEN shared \cup {t} ELSE shared
  BY DEF Begin, chain
<1>2. PICK to \in Calls :
         /\ Turns(c, to) /\ to.pc = "building" /\ to.side = side /\ to.token = t
         /\ to.lots = lots /\ to.late = late
  BY BeginTurns
<1>3. calls'[c] = to /\ \A d \in Callers : d # c => calls'[d] = calls[d]
  BY <1>2, Turned
<1>4. \A u : Excepted(u) => Excepted(u)'
  BY <1>1 DEF Excepted
<1>5. Alone'
  <2> SUFFICES ASSUME NEW d \in Callers, NEW e \in Callers, Busy(d)', Busy(e)', d # e,
                      calls'[d].token = calls'[e].token
               PROVE  calls'[d].token \in shared'
    BY DEF Alone
  <2>1. CASE d # c /\ e # c
    BY <1>1, <1>3, <2>1 DEF Deals, Alone, Busy
  <2>2. ASSUME NEW x \in Callers \ {c}, Busy(x)', calls'[x].token = calls'[c].token
        PROVE  t \in shared'
    <3>1. Overlaps(c, t)
      BY <1>2, <1>3, <2>2 DEF Overlaps, Busy
    <3> QED  BY <1>1, <3>1
  <2> QED  BY <1>2, <1>3, <2>1, <2>2
<1>6. Gaps'
  BY <1>1, <1>4 DEF Deals, Gaps
<1>7. ASSUME NEW d \in Callers, d # c PROVE CallOK(d)'
  <2>1. calls'[d] = calls[d]
    BY <1>3, <1>7
  <2> QED  BY <1>1, <1>4, <2>1 DEF Deals, CallOK, Busy, Measured, Excepted
<1>8. CallOK(c)'
  <2>1. ~Measured(c)' /\ Dated(to)
    BY <1>2, <1>3 DEF Measured, Dated
  <2> QED  BY <1>1, <1>2, <1>3, <2>1 DEF CallOK
<1> QED  BY <1>5, <1>6, <1>7, <1>8 DEF Deals

(* A report: what the books gain was delivered, and what they lose was      *)
(* sold, since the baseline of a call that has its jetton for itself.       *)
LEMMA ReportDeals ==
    ASSUME TypeOK, Deals, NEW c \in Callers, Busy(c), Turns(c, Idle), Idle \in Calls,
           UNCHANGED <<jettons, shared>>, blind \subseteq blind',
           books' \in [Tokens -> Nat], inGap' \in [Tokens -> Int], outGap' \in [Tokens -> Int],
           NEW t \in Tokens, t = calls[c].token,
           \A u \in Tokens \ {t} :
               books'[u] = books[u] /\ inGap'[u] = inGap[u] /\ outGap'[u] = outGap[u],
           books'[t] <= MaxLots,
           t \notin shared' \cup blind' =>
               /\ inGap'[t] >= 0 /\ outGap'[t] >= 0
               /\ outGap'[t] >= inGap'[t] + books'[t] - jettons[t]
    PROVE  Deals'
<1>1. calls'[c] = Idle /\ \A d \in Callers : d # c => calls'[d] = calls[d]
  BY Records, Turned DEF Calls
<1>2. \A u : Excepted(u) => Excepted(u)'
  BY DEF Excepted
<1>3. Alone'
  BY AloneKept, Records DEF Deals
<1>4. Gaps'
  <2> SUFFICES ASSUME NEW u \in Tokens
               PROVE  /\ books'[u] <= MaxLots
                      /\ ~Excepted(u)' => /\ inGap'[u] >= 0 /\ outGap'[u] >= 0
                                          /\ outGap'[u] >= inGap'[u] + books'[u] - jettons'[u]
    BY DEF Gaps
  <2>1. CASE u = t
    BY <2>1 DEF Excepted
  <2>2. CASE u # t
    <3>1. books'[u] = books[u] /\ inGap'[u] = inGap[u] /\ outGap'[u] = outGap[u] /\ jettons' = jettons
      BY <2>2
    <3> QED  BY <1>2, <3>1 DEF Deals, Gaps
  <2> QED  BY <2>1, <2>2
<1>5. ASSUME NEW d \in Callers, d # c PROVE CallOK(d)'
  <2>1. calls'[d] = calls[d] /\ calls[d].token \in Tokens
    BY <1>1, <1>5, Records DEF Calls
  <2>2. CASE Busy(d) /\ calls[d].token = t
    <3>1. Excepted(t)'
      BY <1>2, <1>5, <2>2 DEF Deals, Alone, Excepted
    <3> QED  BY <2>1, <2>2, <3>1 DEF Deals, CallOK, Busy
  <2>3. CASE calls[d].token # t
    <3>1. /\ books'[calls[d].token] = books[calls[d].token]
          /\ inGap'[calls[d].token] = inGap[calls[d].token]
          /\ outGap'[calls[d].token] = outGap[calls[d].token]
          /\ jettons' = jettons
      BY <2>1, <2>3
    <3> QED  BY <1>2, <2>1, <3>1 DEF Deals, CallOK, Busy, Measured
  <2>4. CASE ~Busy(d)
    BY <2>1, <2>4 DEF CallOK, Busy
  <2> QED  BY <2>2, <2>3, <2>4
<1>6. CallOK(c)'
  BY <1>1, Records DEF CallOK, Busy
<1> QED  BY <1>3, <1>4, <1>5, <1>6 DEF Deals

LEMMA VerifyBuyDeals ==
    ASSUME TypeOK, Deals, NEW c \in Callers, VerifyBuy(c)
    PROVE  Deals'
<1> DEFINE k == calls[c]
           t == calls[c].token
<1>1. k \in Calls /\ t \in Tokens /\ k.pc = "verifying" /\ k.side = "buy"
  BY Records DEF VerifyBuy, Calls
<1>2. PICK v \in Readings(t) :
         IF v # Unread /\ Delivered(k.before, v) > 0
         THEN ReportBuy(c, Delivered(k.before, v)) /\ Return(c)
         ELSE LookAgain(c)
  BY DEF VerifyBuy
<1>3. UNCHANGED <<jettons, shared>>
  BY DEF VerifyBuy, chain
<1>4. CASE ~(v # Unread /\ Delivered(k.before, v) > 0)
  <2>1. LookAgain(c)
    BY <1>2, <1>4
  <2>2. UNCHANGED Accounts
    BY <1>3, <2>1 DEF Accounts, LookAgain
  <2>3. CASE Return(c)
    BY <2>2, <2>3, Returned, Records, QuietStep
  <2>4. CASE Proceeds(c, {"verifying"}, {"verifying"})
    <3>1. PICK to \in Calls :
             /\ Turns(c, to) /\ SameDeal(c, to) /\ to.pc = "verifying"
             /\ to.before = calls[c].before \/ calls[c].late
      BY <2>4 DEF Proceeds
    <3>2. Busy(c) /\ Dated(to) /\ calls[c].pc # "building"
      BY <1>1, <3>1 DEF Busy, Dated
    <3> QED  BY <2>2, <3>1, <3>2, QuietStep
  <2> QED  BY <1>1, <2>1, <2>3, <2>4, CallProceeds
<1>5. CASE v # Unread /\ Delivered(k.before, v) > 0
  <2> DEFINE gained == Delivered(k.before, v)
  <2>1. v = jettons[t] /\ jettons[t] \in Nat /\ k.before \in Int
    BY <1>1, <1>5 DEF Readings, TypeOK, Calls
  <2>2. gained \in Nat /\ (k.before # Unread => gained = jettons[t] - k.before)
    BY <1>5, <2>1 DEF Delivered
  <2> HIDE DEF gained
  <2>3. ReportBuy(c, gained) /\ Return(c)
    BY <1>2, <1>5 DEF gained
  <2>4. /\ books' = [books EXCEPT ![t] = AtMost(books[t] + gained, MaxLots)]
        /\ inGap' = Moved(inGap, t, -gained) /\ outGap' = outGap
        /\ blind' = IF k.before = Unread THEN blind \cup {t} ELSE blind
    BY <2>3 DEF ReportBuy
  <2>5. /\ books \in [Tokens -> Nat] /\ inGap \in [Tokens -> Int] /\ outGap \in [Tokens -> Int]
    BY DEF TypeOK
  <2>6. /\ AtMost(books[t] + gained, MaxLots) \in Nat
        /\ AtMost(books[t] + gained, MaxLots) <= MaxLots
        /\ AtMost(books[t] + gained, MaxLots) <= books[t] + gained
    BY <1>1, <2>2, <2>5, BoundsAssumption DEF AtMost
  <2> DEFINE g == IF Excepted(t) THEN 0 ELSE inGap[t] - gained
  <2>7. inGap' = [inGap EXCEPT ![t] = g] /\ g \in Int
    <3>1. inGap[t] \in Int /\ inGap[t] + (-gained) = inGap[t] - gained
      BY <1>1, <2>2, <2>5
    <3>2. inGap' = [inGap EXCEPT ![t] = IF Excepted(t) THEN 0 ELSE inGap[t] + (-gained)]
      BY <2>4 DEF Moved
    <3>3. (IF Excepted(t) THEN 0 ELSE inGap[t] + (-gained)) = g
      BY <3>1, Zenon
    <3>4. g \in Int
      BY <2>2, <3>1
    <3> QED  BY <3>2, <3>3, <3>4, Zenon
  <2>8. ASSUME t \notin shared' \cup blind'
        PROVE  /\ g >= 0 /\ outGap[t] >= 0
               /\ outGap[t] >= g + AtMost(books[t] + gained, MaxLots) - jettons[t]
    <3>1. k.before # Unread /\ ~Excepted(t)
      BY <1>3, <2>4, <2>8 DEF Excepted
    <3>2. Measured(c) /\ Busy(c)
      BY <1>1, <3>1 DEF Deals, CallOK, Measured, Busy
    <3>3. /\ inGap[t] >= jettons[t] - k.before /\ outGap[t] >= 0
          /\ outGap[t] >= inGap[t] + books[t] - jettons[t]
      BY <1>1, <3>1, <3>2 DEF Deals, CallOK, Gaps
    <3>4. gained = jettons[t] - k.before /\ g = inGap[t] - gained
      BY <2>2, <3>1
    <3>5. /\ inGap[t] \in Int /\ outGap[t] \in Int /\ books[t] \in Nat
      BY <1>1, <2>5
    <3> HIDE DEF g
    <3> QED  BY <2>1, <2>2, <2>6, <3>3, <3>4, <3>5
  <2> HIDE DEF g
  <2>9. /\ books' \in [Tokens -> Nat] /\ inGap' \in [Tokens -> Int] /\ outGap' \in [Tokens -> Int]
        /\ books'[t] = AtMost(books[t] + gained, MaxLots) /\ inGap'[t] = g
        /\ \A u \in Tokens \ {t} : books'[u] = books[u] /\ inGap'[u] = inGap[u] /\ outGap'[u] = outGap[u]
    BY <1>1, <2>4, <2>5, <2>6, <2>7
  <2>10. t \notin shared' \cup blind' =>
            /\ inGap'[t] >= 0 /\ outGap'[t] >= 0
            /\ outGap'[t] >= inGap'[t] + books'[t] - jettons[t]
    BY <2>4, <2>8, <2>9
  <2>11. blind \subseteq blind' /\ Busy(c) /\ books'[t] <= MaxLots
    BY <1>1, <2>4, <2>6, <2>9 DEF Busy
  <2>12. Turns(c, Idle) /\ Idle \in Calls
    BY <2>3, Returned
  <2> HIDE DEF k, t
  <2>13. t = calls[c].token
    BY DEF t
  <2> QED  BY <1>1, <1>3, <2>9, <2>10, <2>11, <2>12, <2>13, ReportDeals DEF Excepted
<1> QED  BY <1>4, <1>5

LEMMA VerifySellDeals ==
    ASSUME TypeOK, Deals, NEW c \in Callers, VerifySell(c)
    PROVE  Deals'
<1> DEFINE k == calls[c]
           t == calls[c].token
<1>1. k \in Calls /\ t \in Tokens /\ k.pc = "verifying" /\ k.side = "sell"
  BY Records DEF VerifySell, Calls
<1>2. PICK v \in Readings(t) :
         IF k.before = Unread
         THEN Return(c) /\ UNCHANGED <<books, inGap, outGap, blind>>
         ELSE IF v = Unread THEN LookAgain(c)
         ELSE IF SellVerdict(k.before, v, k.lots) THEN ReportSell(c) /\ Return(c)
         ELSE Return(c) /\ UNCHANGED <<books, inGap, outGap, blind>>
  BY DEF VerifySell
<1>3. UNCHANGED <<jettons, shared>>
  BY DEF VerifySell, chain
<1>4. CASE Return(c) /\ UNCHANGED <<books, inGap, outGap, blind>>
  <2>1. UNCHANGED Accounts
    BY <1>3, <1>4 DEF Accounts
  <2> QED  BY <1>4, <2>1, Returned, Records, QuietStep
<1>5. CASE LookAgain(c)
  <2>1. UNCHANGED Accounts
    BY <1>3, <1>5 DEF Accounts, LookAgain
  <2>2. CASE Return(c)
    BY <2>1, <2>2, Returned, Records, QuietStep
  <2>3. CASE Proceeds(c, {"verifying"}, {"verifying"})
    <3>1. PICK to \in Calls :
             /\ Turns(c, to) /\ SameDeal(c, to) /\ to.pc = "verifying"
             /\ to.before = calls[c].before \/ calls[c].late
      BY <2>3 DEF Proceeds
    <3>2. Busy(c) /\ Dated(to) /\ calls[c].pc # "building"
      BY <1>1, <3>1 DEF Busy, Dated
    <3> QED  BY <2>1, <3>1, <3>2, QuietStep
  <2> QED  BY <1>1, <1>5, <2>2, <2>3, CallProceeds
<1>6. CASE /\ k.before # Unread /\ v # Unread /\ SellVerdict(k.before, v, k.lots)
           /\ ReportSell(c) /\ Return(c)
  <2>1. /\ v = jettons[t] /\ jettons[t] \in Nat /\ k.before \in Int /\ k.lots \in Nat
    BY <1>1, <1>6 DEF Readings, TypeOK, Calls
  <2>2. /\ books' = [books EXCEPT ![t] = books[t] - AtMost(k.lots, books[t])]
        /\ outGap' = Moved(outGap, t, -k.lots) /\ inGap' = inGap
        /\ blind' = IF k.late THEN blind \cup {t} ELSE blind
    BY <1>6 DEF ReportSell
  <2>3. /\ books \in [Tokens -> Nat] /\ inGap \in [Tokens -> Int] /\ outGap \in [Tokens -> Int]
    BY DEF TypeOK
  <2> DEFINE left == books[t] - AtMost(k.lots, books[t])
             g == IF Excepted(t) THEN 0 ELSE outGap[t] - k.lots
  <2>4. left \in Nat /\ left <= books[t] /\ (k.lots = books[t] => left = 0)
    BY <1>1, <2>1, <2>3 DEF AtMost
  <2>5. outGap' = [outGap EXCEPT ![t] = g] /\ g \in Int
    <3>1. outGap[t] \in Int /\ outGap[t] + (-k.lots) = outGap[t] - k.lots
      BY <1>1, <2>1, <2>3
    <3>2. outGap' = [outGap EXCEPT ![t] = IF Excepted(t) THEN 0 ELSE outGap[t] + (-k.lots)]
      BY <2>2 DEF Moved
    <3>3. (IF Excepted(t) THEN 0 ELSE outGap[t] + (-k.lots)) = g
      BY <3>1, Zenon
    <3>4. g \in Int
      BY <2>1, <3>1
    <3> QED  BY <3>2, <3>3, <3>4, Zenon
  <2>6. books[t] <= MaxLots
    BY <1>1 DEF Deals, Gaps
  <2>7. ASSUME t \notin shared' \cup blind'
        PROVE  inGap[t] >= 0 /\ g >= 0 /\ g >= inGap[t] + left - jettons[t]
    <3>1. ~k.late /\ ~Excepted(t)
      BY <1>3, <2>2, <2>7 DEF Excepted
    <3>2. Measured(c) /\ Busy(c)
      BY <1>1, <1>6, <3>1 DEF Measured, Busy
    <3>3. /\ k.before \in Nat /\ k.lots = books[t]
          /\ outGap[t] >= k.before - jettons[t] /\ outGap[t] >= k.lots - k.before
      BY <1>1, <3>1, <3>2 DEF Deals, CallOK
    <3>4. /\ inGap[t] >= 0 /\ outGap[t] >= inGap[t] + books[t] - jettons[t]
      BY <1>1, <3>1 DEF Deals, Gaps
    <3>5. inGap[t] \in Int /\ outGap[t] \in Int /\ books[t] \in Nat
      BY <1>1, <2>3
    <3>6. outGap[t] >= k.lots
      <4>1. CASE k.before <= 0
        BY <2>1, <3>3, <3>5, <4>1
      <4>2. CASE (k.before - jettons[t]) * 100 >= k.lots * 99
        <5>1. k.before - jettons[t] >= k.lots
          BY <2>1, <2>6, <3>3, <3>5, <4>2, ToleranceAssumption, BoundsAssumption
        <5> QED  BY <2>1, <3>3, <3>5, <5>1
      <4> QED  BY <1>6, <2>1, <4>1, <4>2 DEF SellVerdict
    <3> HIDE DEF k, t
    <3> QED  BY <2>1, <2>4, <3>1, <3>3, <3>4, <3>5, <3>6
  <2> HIDE DEF g, left
  <2>8. /\ books' \in [Tokens -> Nat] /\ inGap' \in [Tokens -> Int] /\ outGap' \in [Tokens -> Int]
        /\ books'[t] = left /\ outGap'[t] = g
        /\ \A u \in Tokens \ {t} : books'[u] = books[u] /\ inGap'[u] = inGap[u] /\ outGap'[u] = outGap[u]
    BY <1>1, <2>2, <2>3, <2>4, <2>5 DEF left
  <2>9. t \notin shared' \cup blind' =>
            /\ inGap'[t] >= 0 /\ outGap'[t] >= 0
            /\ outGap'[t] >= inGap'[t] + books'[t] - jettons[t]
    BY <2>2, <2>7, <2>8
  <2>10. blind \subseteq blind' /\ Busy(c)
    BY <1>1, <2>2 DEF Busy
  <2>11. books'[t] <= MaxLots
    BY <1>1, <2>3, <2>4, <2>6, <2>8, BoundsAssumption
  <2>12. Turns(c, Idle) /\ Idle \in Calls
    BY <1>6, Returned
  <2> HIDE DEF k, t
  <2>13. t = calls[c].token
    BY DEF t
  <2> QED  BY <1>1, <1>3, <2>8, <2>9, <2>10, <2>11, <2>12, <2>13, ReportDeals
<1> QED  BY <1>2, <1>4, <1>5, <1>6

(* The chain delivers a buy, or takes the tokens of a sell.                 *)
LEMMA SettleDeals ==
    ASSUME TypeOK, Deals, NEW m \in children, Settle(m)
    PROVE  Deals'
<1>1. /\ m.token \in Tokens /\ m.lots \in Nat /\ m.side \in Sides
      /\ UNCHANGED <<calls, books, shared, blind>>
  BY DEF TypeOK, Swaps, Settle
<1> DEFINE t == m.token
<1>2. /\ jettons \in [Tokens -> Nat] /\ inGap \in [Tokens -> Int] /\ outGap \in [Tokens -> Int]
      /\ books \in [Tokens -> Nat]
  BY DEF TypeOK
<1>3. \A u \in Tokens \ {t} : jettons'[u] = jettons[u] /\ inGap'[u] = inGap[u] /\ outGap'[u] = outGap[u]
  BY <1>1, <1>2 DEF Settle, Moved
<1>4. ~Excepted(t) =>
        \/ jettons'[t] = jettons[t] + m.lots /\ inGap'[t] = inGap[t] + m.lots /\ outGap'[t] = outGap[t]
        \/ jettons'[t] = jettons[t] - m.lots /\ outGap'[t] = outGap[t] + m.lots /\ inGap'[t] = inGap[t]
  BY <1>1, <1>2 DEF Settle, Moved
<1>5. \A u : Excepted(u)' <=> Excepted(u)
  BY <1>1 DEF Excepted
<1>6. Alone'
  BY <1>1 DEF Deals, Alone, Busy
<1>7. Gaps'
  <2> SUFFICES ASSUME NEW u \in Tokens
               PROVE  /\ books[u] <= MaxLots
                      /\ ~Excepted(u) => /\ inGap'[u] >= 0 /\ outGap'[u] >= 0
                                         /\ outGap'[u] >= inGap'[u] + books[u] - jettons'[u]
    BY <1>1, <1>5 DEF Gaps
  <2>1. CASE u = t
    BY <1>1, <1>2, <1>4, <2>1 DEF Deals, Gaps
  <2>2. CASE u # t
    BY <1>3, <2>2 DEF Deals, Gaps
  <2> QED  BY <2>1, <2>2
<1>8. ASSUME NEW d \in Callers PROVE CallOK(d)'
  <2>1. calls' = calls /\ calls[d].token \in Tokens /\ calls[d].before \in Int /\ calls[d].lots \in Nat
    BY <1>1, Records DEF Calls
  <2> DEFINE w == calls[d].token
  <2>2. CASE w # t
    <3>1. jettons'[w] = jettons[w] /\ inGap'[w] = inGap[w] /\ outGap'[w] = outGap[w]
      BY <1>3, <2>1, <2>2
    <3> QED  BY <1>1, <1>5, <2>1, <3>1 DEF Deals, CallOK, Busy, Measured
  <2>3. CASE w = t
    <3>1. ASSUME ~Excepted(w), Measured(d), Busy(d)
          PROVE  /\ calls[d].side = "buy" => inGap'[w] >= jettons'[w] - calls[d].before
                 /\ calls[d].side = "sell" => /\ outGap'[w] >= calls[d].before - jettons'[w]
                                              /\ outGap'[w] >= calls[d].lots - calls[d].before
      <4>1. /\ calls[d].side = "buy" => inGap[w] >= jettons[w] - calls[d].before
            /\ calls[d].side = "sell" => /\ outGap[w] >= calls[d].before - jettons[w]
                                         /\ outGap[w] >= calls[d].lots - calls[d].before
        BY <3>1 DEF Deals, CallOK
      <4> QED  BY <1>1, <1>2, <1>4, <2>1, <2>3, <3>1, <4>1
    <3> QED  BY <1>1, <1>5, <2>1, <3>1 DEF Deals, CallOK, Busy, Measured
  <2> QED  BY <2>2, <2>3
<1> QED  BY <1>6, <1>7, <1>8 DEF Deals

(* The chain moves seqnos on, and others of the calls' fields stay.         *)
LEMMA DealsKept ==
    ASSUME Deals, UNCHANGED Accounts,
           \A d \in Callers :
               /\ calls'[d].pc = calls[d].pc /\ calls'[d].side = calls[d].side
               /\ calls'[d].token = calls[d].token /\ calls'[d].lots = calls[d].lots
               /\ calls'[d].late = calls[d].late /\ calls'[d].before = calls[d].before
    PROVE  Deals'
<1>1. UNCHANGED <<jettons, books, inGap, outGap, shared, blind>>
  BY DEF Accounts
<1>2. Alone' /\ Gaps'
  BY <1>1 DEF Deals, Alone, Gaps, Busy, Excepted
<1>3. ASSUME NEW d \in Callers PROVE CallOK(d)'
  BY <1>1 DEF Deals, CallOK, Busy, Measured, Excepted, Dated
<1> QED  BY <1>2, <1>3 DEF Deals

LEMMA LandMoves ==
    ASSUME TypeOK, NEW m \in mempool, Land(m)
    PROVE  /\ calls' \in [Callers -> Calls]
           /\ \A d \in Callers :
               /\ calls'[d].pc = calls[d].pc /\ calls'[d].side = calls[d].side
               /\ calls'[d].token = calls[d].token /\ calls'[d].lots = calls[d].lots
               /\ calls'[d].late = calls[d].late /\ calls'[d].before = calls[d].before
<1>1. calls' = [c \in Callers |-> IF HasSeqno(c) THEN [calls[c] EXCEPT !.moved = TRUE] ELSE calls[c]]
  BY DEF Land
<1>2. ASSUME NEW d \in Callers
      PROVE  /\ calls'[d] \in Calls
             /\ calls'[d].pc = calls[d].pc /\ calls'[d].side = calls[d].side
             /\ calls'[d].token = calls[d].token /\ calls'[d].lots = calls[d].lots
             /\ calls'[d].late = calls[d].late /\ calls'[d].before = calls[d].before
  <2>1. calls[d] \in Calls
    BY Records
  <2>2. calls'[d] = [calls[d] EXCEPT !.moved = TRUE] \/ calls'[d] = calls[d]
    BY <1>1
  <2> QED  BY <2>1, <2>2 DEF Calls
<1> QED  BY <1>1, <1>2

(* Every step of the system leaves the deals in order. *)
LEMMA DealsStep ==
    ASSUME Inv, [Next]_vars
    PROVE  Deals'
<1>1. TypeOK /\ Deals
  BY DEF Inv, Deals
<1>2. ASSUME NEW c \in Callers, NEW t \in Tokens,
             StonfiBuy(c, t) \/ DedustBuy(c, t) \/ StonfiSell(c, t) \/ DedustSell(c, t)
      PROVE  Deals'
  <2>1. CASE Begin(c, "buy", t, 1, FALSE)
    BY <1>1, <2>1, BeginDeals DEF Sides
  <2>2. ASSUME NEW late \in BOOLEAN, Begin(c, "sell", t, books[t], late) PROVE Deals'
    <3>1. books[t] \in Nat
      BY <1>1 DEF TypeOK
    <3> QED  BY <1>1, <2>2, <3>1, BeginDeals DEF Sides
  <2> QED  BY <1>2, <2>1, <2>2 DEF StonfiBuy, DedustBuy, StonfiSell, DedustSell, StartSell
<1>3. ASSUME NEW c \in Callers, CallStep(c) PROVE Deals'
  <2>1. ASSUME NEW from, NEW on, Proceeds(c, from, on), UNCHANGED Accounts,
               "idle" \notin from, "building" \notin from, "late baseline" \in on => calls'[c].late
        PROVE  Deals'
    <3>1. PICK to \in Calls :
             /\ Turns(c, to) /\ SameDeal(c, to) /\ calls[c].pc \in from /\ to.pc \in on
             /\ to.before = calls[c].before \/ calls[c].late
      BY <2>1 DEF Proceeds
    <3>2. calls'[c] = to
      BY <1>1, <3>1, Turned
    <3>3. Busy(c) /\ Dated(to) /\ calls[c].pc # "building"
      BY <2>1, <3>1, <3>2 DEF Busy, Dated
    <3> QED  BY <1>1, <2>1, <3>1, <3>3, QuietStep
  <2>2. ASSUME Return(c), UNCHANGED Accounts PROVE Deals'
    BY <1>1, <2>2, Returned, Records, QuietStep
  <2>3. CASE BuildFails(c)
    BY <2>2, <2>3 DEF BuildFails, Accounts, chain, history
  <2>4. CASE ReadBaseline(c)
    <3>1. UNCHANGED Accounts
      BY <2>4 DEF ReadBaseline, Accounts, chain, history
    <3>2. PICK to \in Calls :
             /\ Turns(c, to) /\ SameDeal(c, to) /\ calls[c].pc = "building" /\ to.pc = "queued"
             /\ to.before = Unread \/ (~calls[c].late /\ to.before = jettons[calls[c].token])
      BY <1>1, <2>4, BaselineTurns
    <3>3. Busy(c) /\ Dated(to)
      BY <3>2 DEF Busy, Dated
    <3> QED  BY <1>1, <3>1, <3>2, <3>3, QuietStep
  <2>5. CASE ReadSeqno(c)
    <3>1. UNCHANGED Accounts
      BY <2>5 DEF ReadSeqno, Accounts, chain, history
    <3> QED  BY <1>1, <2>1, <2>5, <3>1, CallProceeds
  <2>6. CASE Send(c)
    <3>1. UNCHANGED Accounts
      BY <2>6 DEF Send, Accounts, history
    <3> QED  BY <1>1, <2>1, <2>6, <3>1, CallProceeds
  <2>7. CASE SendThrows(c)
    BY <2>2, <2>7 DEF SendThrows, Accounts, history
  <2>8. CASE Confirm(c)
    <3>1. UNCHANGED Accounts
      BY <2>8 DEF Confirm, Accounts, chain, history
    <3>2. calls[c] \in Calls /\ calls \in [Callers -> Calls]
      BY <1>1, Records
    <3> DEFINE to == [calls[c] EXCEPT !.pc = IF calls[c].late THEN "late baseline" ELSE "verifying"]
    <3>3. to \in Calls /\ SameDeal(c, to) /\ to.before = calls[c].before /\ Dated(to)
      BY <3>2 DEF Calls, SameDeal, Dated
    <3>4. Turns(c, to) /\ calls[c].pc = "polling"
      BY <2>8, <3>2 DEF Turns, Calls, Confirm
    <3> HIDE DEF to
    <3> QED  BY <1>1, <3>1, <3>3, <3>4, QuietStep DEF Busy
  <2>9. CASE TimeOut(c)
    BY <2>2, <2>9 DEF TimeOut, Accounts, chain, history
  <2>10. CASE LateBaseline(c)
    <3>1. UNCHANGED Accounts
      BY <2>10 DEF LateBaseline, Accounts, chain, history
    <3> QED  BY <1>1, <2>1, <2>10, <3>1, CallProceeds
  <2>11. CASE VerifyBuy(c)
    BY <1>1, <2>11, VerifyBuyDeals
  <2>12. CASE VerifySell(c)
    BY <1>1, <2>12, VerifySellDeals
  <2> QED  BY <1>3, <2>3, <2>4, <2>5, <2>6, <2>7, <2>8, <2>9, <2>10, <2>11, <2>12 DEF CallStep
<1>4. ASSUME UNCHANGED calls, UNCHANGED Accounts PROVE Deals'
  BY <1>1, <1>4, DealsKept
<1>5. ASSUME NEW m \in mempool, Land(m) PROVE Deals'
  <2>1. UNCHANGED Accounts
    BY <1>5 DEF Land, Accounts, history
  <2> QED  BY <1>1, <1>5, <2>1, LandMoves, DealsKept
<1>6. ASSUME NEW m \in children, Settle(m) PROVE Deals'
  BY <1>1, <1>6, SettleDeals
<1>7. ASSUME NEW m, Expire(m) \/ Bounce(m) PROVE Deals'
  BY <1>4, <1>7 DEF Expire, Bounce, Accounts, history
<1>8. CASE SniperReads \/ SniperSends \/ TopUp \/ Weather \/ UNCHANGED vars
  BY <1>4, <1>8 DEF SniperReads, SniperSends, TopUp, Weather, Accounts, chain, history, vars
<1> QED  BY <1>2, <1>3, <1>5, <1>6, <1>7, <1>8 DEF Next

-----------------------------------------------------------------------------
(* The mutex, step by step. *)
LEMMA MutexStep ==
    ASSUME Inv, [Next]_vars
    PROVE  Mutex'
<1>1. TypeOK /\ Mutex /\ calls \in [Callers -> Calls]
  BY Records DEF Inv
<1>2. ASSUME UNCHANGED queue, \A d \in Callers : calls'[d].pc = calls[d].pc PROVE Mutex'
  BY <1>1, <1>2 DEF Mutex, HasSeqno, Holder, InLine
<1>3. ASSUME NEW c \in Callers, NEW to \in Calls, Turns(c, to), UNCHANGED queue,
             calls[c].pc \notin {"queued", "sending", "polling"},
             to.pc \notin {"queued", "sending", "polling"}
      PROVE  Mutex'
  BY <1>1, <1>3, Turned, LineKept DEF InLine, HasSeqno
<1>4. ASSUME NEW c \in Callers, NEW to \in Calls, Turns(c, to), Unlock, Holder(c),
             to.pc \notin {"queued", "sending", "polling"}
      PROVE  Mutex'
  BY <1>1, <1>4, Turned, LineMoves DEF InLine
<1>5. ASSUME NEW c \in Callers, HasSeqno(c) PROVE Holder(c)
  BY <1>1, <1>5 DEF Mutex
<1>6. ASSUME NEW c \in Callers, NEW t \in Tokens,
             StonfiBuy(c, t) \/ DedustBuy(c, t) \/ StonfiSell(c, t) \/ DedustSell(c, t)
      PROVE  Mutex'
  <2>1. ASSUME NEW side \in Sides, NEW lots \in Nat, NEW late \in BOOLEAN, Begin(c, side, t, lots, late)
        PROVE  Mutex'
    <3>1. UNCHANGED queue /\ calls[c].pc = "idle"
      BY <2>1 DEF Begin, Busy
    <3> QED  BY <1>1, <1>3, <2>1, <3>1, BeginTurns
  <2>2. books[t] \in Nat /\ {"buy", "sell"} = Sides
    BY <1>1 DEF TypeOK, Sides
  <2> QED  BY <1>6, <2>1, <2>2 DEF StonfiBuy, DedustBuy, StonfiSell, DedustSell, StartSell
<1>7. ASSUME NEW c \in Callers, CallStep(c) PROVE Mutex'
  <2>1. CASE BuildFails(c)
    <3>1. calls[c].pc = "building" /\ Return(c) /\ UNCHANGED queue
      BY <2>1 DEF BuildFails
    <3> QED  BY <1>1, <1>3, <3>1, Returned, Records
  <2>2. CASE ReadBaseline(c)
    <3>1. PICK to \in Calls : Turns(c, to) /\ calls[c].pc = "building" /\ to.pc = "queued"
      BY <1>1, <2>2, BaselineTurns
    <3>2. queue' = Append(queue, c) /\ ~InLine(c)
      BY <2>2, <3>1 DEF ReadBaseline, InLine
    <3> QED  BY <1>1, <3>1, <3>2, Turned, LineGrows
  <2>3. CASE ReadSeqno(c)
    <3>1. PICK to \in Calls : Turns(c, to) /\ calls[c].pc = "queued" /\ to.pc = "sending"
      BY <1>1, <2>3, CallProceeds DEF Proceeds
    <3>2. UNCHANGED queue /\ Holder(c)
      BY <2>3 DEF ReadSeqno
    <3>3. calls'[c] = to /\ \A d \in Callers : d # c => calls'[d] = calls[d]
      BY <1>1, <3>1, Turned
    <3>4. InLine(c) /\ InLine(c)'
      BY <3>1, <3>3 DEF InLine
    <3> QED  BY <1>1, <3>2, <3>3, <3>4, LineKept
  <2>4. CASE Send(c)
    <3>1. PICK to \in Calls : Turns(c, to) /\ calls[c].pc = "sending" /\ to.pc = "polling"
      BY <1>1, <2>4, CallProceeds DEF Proceeds
    <3>2. UNCHANGED queue
      BY <2>4 DEF Send
    <3>3. calls'[c] = to /\ \A d \in Callers : d # c => calls'[d] = calls[d]
      BY <1>1, <3>1, Turned
    <3>4. InLine(c) /\ InLine(c)' /\ HasSeqno(c)
      BY <3>1, <3>3 DEF InLine, HasSeqno
    <3> QED  BY <1>1, <3>2, <3>3, <3>4, LineKept
  <2>5. CASE SendThrows(c)
    <3>1. Holder(c) /\ Return(c) /\ Unlock
      BY <1>5, <2>5 DEF SendThrows, HasSeqno
    <3> QED  BY <1>1, <1>4, <3>1, Returned, Records
  <2>6. CASE Confirm(c)
    <3>1. PICK to \in Calls : Turns(c, to) /\ to.pc \in {"late baseline", "verifying"}
      BY <1>1, <2>6, CallProceeds DEF Proceeds
    <3>2. Holder(c) /\ Unlock
      BY <1>5, <2>6 DEF Confirm, HasSeqno
    <3> QED  BY <1>4, <3>1, <3>2
  <2>7. CASE TimeOut(c)
    <3>1. Holder(c) /\ Return(c) /\ Unlock
      BY <1>5, <2>7 DEF TimeOut, HasSeqno
    <3> QED  BY <1>1, <1>4, <3>1, Returned, Records
  <2>8. CASE LateBaseline(c)
    <3>1. PICK to \in Calls : Turns(c, to) /\ calls[c].pc = "late baseline" /\ to.pc = "verifying"
      BY <1>1, <2>8, CallProceeds DEF Proceeds
    <3>2. UNCHANGED queue
      BY <2>8 DEF LateBaseline
    <3> QED  BY <1>3, <3>1, <3>2
  <2>9. CASE VerifyBuy(c) \/ VerifySell(c)
    <3>1. calls[c].pc = "verifying" /\ UNCHANGED queue /\ (Return(c) \/ LookAgain(c))
      BY <2>9 DEF VerifyBuy, VerifySell
    <3>2. CASE Return(c)
      BY <1>1, <1>3, <3>1, <3>2, Returned, Records
    <3>3. CASE Proceeds(c, {"verifying"}, {"verifying"})
      BY <1>3, <3>1, <3>3 DEF Proceeds
    <3> QED  BY <1>1, <3>1, <3>2, <3>3, CallProceeds
  <2> QED  BY <1>7, <2>1, <2>2, <2>3, <2>4, <2>5, <2>6, <2>7, <2>8, <2>9 DEF CallStep
<1>8. ASSUME NEW m \in mempool, Land(m) PROVE Mutex'
  <2>1. UNCHANGED queue
    BY <1>8 DEF Land
  <2> QED  BY <1>1, <1>2, <1>8, <2>1, LandMoves
<1>9. CASE UNCHANGED <<calls, queue>>
  BY <1>2, <1>9
<1>10. ASSUME NEW m, Expire(m) \/ Settle(m) \/ Bounce(m) PROVE Mutex'
  BY <1>9, <1>10 DEF Expire, Settle, Bounce
<1>11. CASE SniperReads \/ SniperSends \/ TopUp \/ Weather \/ UNCHANGED vars
  BY <1>9, <1>11 DEF SniperReads, SniperSends, TopUp, Weather, vars
<1> QED  BY <1>6, <1>7, <1>8, <1>10, <1>11 DEF Next

LEMMA InvInit == Init => Inv
<1> SUFFICES ASSUME Init PROVE Inv
  OBVIOUS
<1>1. Idle \in Calls /\ Idle.pc = "idle"
  BY TokensAssumption DEF Idle, Calls, Sides, Unread, SomeToken
<1>2. calls = [c \in Callers |-> Idle] /\ queue = <<>>
  BY DEF Init
<1>3. TypeOK
  <2>1. calls \in [Callers -> Calls] /\ queue \in Seq(Callers)
    BY <1>1, <1>2
  <2>2. ton \in Nat /\ sniper \in {"idle", "holds", "stale"}
    BY SizesAssumption DEF Init
  <2>3. /\ jettons \in [Tokens -> Nat] /\ books \in [Tokens -> Nat]
        /\ inGap \in [Tokens -> Int] /\ outGap \in [Tokens -> Int]
    BY DEF Init
  <2>4. /\ mempool \subseteq Swaps /\ children \subseteq Swaps /\ trouble \subseteq Troubles
        /\ shared \subseteq Tokens /\ blind \subseteq Tokens
    BY DEF Init
  <2> QED  BY <2>1, <2>2, <2>3, <2>4 DEF TypeOK, Calls
<1>4. \A c \in Callers : ~Busy(c) /\ ~HasSeqno(c) /\ ~InLine(c)
  BY <1>1, <1>2 DEF Busy, HasSeqno, InLine
<1>5. Mutex
  BY <1>2, <1>4 DEF Mutex
<1>6. Alone /\ \A c \in Callers : CallOK(c)
  BY <1>4 DEF Alone, CallOK
<1>7. Gaps
  BY BoundsAssumption DEF Init, Gaps
<1> QED  BY <1>3, <1>5, <1>6, <1>7 DEF Inv

-----------------------------------------------------------------------------
(* The shapes. *)

(* The parts that the steps of different actors change. *)
ChainTyped ==
    /\ ton \in Nat /\ jettons \in [Tokens -> Nat] /\ mempool \subseteq Swaps /\ children \subseteq Swaps
    /\ sniper \in {"idle", "holds", "stale"} /\ trouble \subseteq Troubles
BooksTyped ==
    /\ books \in [Tokens -> Nat] /\ inGap \in [Tokens -> Int] /\ outGap \in [Tokens -> Int]
    /\ shared \subseteq Tokens /\ blind \subseteq Tokens

LEMMA Typed ==
    /\ TypeOK => calls \in [Callers -> Calls] /\ queue \in Seq(Callers) /\ ChainTyped /\ BooksTyped
    /\ calls' \in [Callers -> Calls] /\ queue' \in Seq(Callers) /\ ChainTyped' /\ BooksTyped' => TypeOK'
BY DEF TypeOK, Calls, ChainTyped, BooksTyped

LEMMA Broadcasts ==
    ASSUME mempool \subseteq Swaps, NEW m \in Swaps, NEW stale \in BOOLEAN, Broadcast(m, stale)
    PROVE  mempool' \subseteq Swaps
BY DEF Broadcast

LEMMA MovedTyped ==
    ASSUME NEW gap \in [Tokens -> Int], NEW t \in Tokens, NEW n \in Int
    PROVE  Moved(gap, t, n) \in [Tokens -> Int]
<1>1. gap[t] + n \in Int
  OBVIOUS
<1> DEFINE v == IF Excepted(t) THEN 0 ELSE gap[t] + n
<1>2. v \in Int
  BY <1>1
<1>3. Moved(gap, t, n) = [gap EXCEPT ![t] = v]
  BY DEF Moved
<1> HIDE DEF v
<1> QED  BY <1>2, <1>3

LEMMA TypeStep ==
    ASSUME Inv, [Next]_vars
    PROVE  TypeOK'
<1>1. TypeOK /\ calls \in [Callers -> Calls] /\ queue \in Seq(Callers) /\ ChainTyped /\ BooksTyped
  BY Typed DEF Inv
<1>2. \A c \in Callers : HasSeqno(c) => Holder(c)
  BY DEF Inv, Mutex
<1>3. ASSUME NEW c \in Callers, Holder(c), Unlock PROVE queue' \in Seq(Callers)
  BY <1>1, <1>3 DEF Holder, Unlock
<1>4. UNCHANGED <<ton, jettons, mempool, children, sniper, trouble>> => ChainTyped'
  BY <1>1 DEF ChainTyped
<1>5. UNCHANGED <<books, inGap, outGap, shared, blind>> => BooksTyped'
  BY <1>1 DEF BooksTyped
<1>6. ASSUME NEW c \in Callers, NEW to \in Calls, Turns(c, to) PROVE calls' \in [Callers -> Calls]
  BY <1>1, <1>6, Turned
<1>7. ASSUME NEW c \in Callers, NEW from, NEW on, Proceeds(c, from, on) PROVE calls' \in [Callers -> Calls]
  BY <1>6, <1>7 DEF Proceeds
<1>8. ASSUME NEW c \in Callers, Return(c) PROVE calls' \in [Callers -> Calls]
  BY <1>1, <1>6, <1>8, Returned
<1>9. ASSUME NEW c \in Callers, NEW t \in Tokens,
             StonfiBuy(c, t) \/ DedustBuy(c, t) \/ StonfiSell(c, t) \/ DedustSell(c, t)
      PROVE  TypeOK'
  <2>1. ASSUME NEW side \in Sides, NEW lots \in Nat, NEW late \in BOOLEAN, Begin(c, side, t, lots, late)
        PROVE  TypeOK'
    <3>1. calls' \in [Callers -> Calls]
      BY <1>1, <1>6, <2>1, BeginTurns
    <3>2. BooksTyped'
      BY <1>1, <2>1 DEF Begin, BooksTyped
    <3> QED  BY <1>1, <1>4, <2>1, <3>1, <3>2, Typed DEF Begin, chain
  <2>2. books[t] \in Nat /\ {"buy", "sell"} = Sides
    BY <1>1 DEF BooksTyped, Sides
  <2> QED  BY <1>9, <2>1, <2>2 DEF StonfiBuy, DedustBuy, StonfiSell, DedustSell, StartSell
<1>10. ASSUME NEW c \in Callers, CallStep(c) PROVE TypeOK'
  <2>1. CASE BuildFails(c)
    BY <1>1, <1>4, <1>5, <1>8, <2>1, Typed DEF BuildFails, chain, history
  <2>2. CASE ReadBaseline(c)
    <3>1. calls' \in [Callers -> Calls]
      BY <1>1, <1>6, <2>2, BaselineTurns
    <3>2. queue' \in Seq(Callers)
      BY <1>1, <2>2 DEF ReadBaseline
    <3> QED  BY <1>4, <1>5, <2>2, <3>1, <3>2, Typed DEF ReadBaseline, chain, history
  <2>3. CASE ReadSeqno(c)
    <3>1. calls' \in [Callers -> Calls]
      BY <1>1, <1>7, <2>3, CallProceeds
    <3> QED  BY <1>1, <1>4, <1>5, <2>3, <3>1, Typed DEF ReadSeqno, chain, history
  <2>4. CASE Send(c)
    <3>1. calls' \in [Callers -> Calls]
      BY <1>1, <1>7, <2>4, CallProceeds
    <3>2. mempool' \subseteq Swaps
      <4>1. calls[c].moved \in BOOLEAN /\ Swap(c) \in Swaps
        BY <1>1, Records DEF Calls
      <4> QED  BY <1>1, <2>4, <4>1, Broadcasts DEF Send, ChainTyped
    <3>3. ChainTyped'
      BY <1>1, <2>4, <3>2 DEF Send, ChainTyped
    <3> QED  BY <1>1, <1>5, <2>4, <3>1, <3>3, Typed DEF Send, history
  <2>5. CASE SendThrows(c)
    <3>1. calls' \in [Callers -> Calls]
      BY <1>8, <2>5 DEF SendThrows
    <3>2. queue' \in Seq(Callers)
      BY <1>2, <1>3, <2>5 DEF SendThrows, HasSeqno
    <3>3. mempool' \subseteq Swaps
      <4>1. calls[c].moved \in BOOLEAN /\ Swap(c) \in Swaps
        BY <1>1, Records DEF Calls
      <4>2. CASE UNCHANGED mempool
        BY <1>1, <4>2 DEF ChainTyped
      <4>3. ASSUME NEW lost \in BOOLEAN, Broadcast(Swap(c), lost \/ calls[c].moved)
            PROVE  mempool' \subseteq Swaps
        BY <1>1, <4>1, <4>3, Broadcasts DEF ChainTyped
      <4> QED  BY <2>5, <4>2, <4>3 DEF SendThrows
    <3>4. ChainTyped'
      BY <1>1, <2>5, <3>3 DEF SendThrows, ChainTyped
    <3> QED  BY <1>5, <2>5, <3>1, <3>2, <3>4, Typed DEF SendThrows, history
  <2>6. CASE Confirm(c)
    <3>1. calls' \in [Callers -> Calls]
      BY <1>1, <1>7, <2>6, CallProceeds
    <3>2. queue' \in Seq(Callers)
      BY <1>2, <1>3, <2>6 DEF Confirm, HasSeqno
    <3> QED  BY <1>4, <1>5, <2>6, <3>1, <3>2, Typed DEF Confirm, chain, history
  <2>7. CASE TimeOut(c)
    <3>1. queue' \in Seq(Callers)
      BY <1>2, <1>3, <2>7 DEF TimeOut, HasSeqno
    <3> QED  BY <1>4, <1>5, <1>8, <2>7, <3>1, Typed DEF TimeOut, chain, history
  <2>8. CASE LateBaseline(c)
    <3>1. calls' \in [Callers -> Calls]
      BY <1>1, <1>7, <2>8, CallProceeds
    <3> QED  BY <1>1, <1>4, <1>5, <2>8, <3>1, Typed DEF LateBaseline, chain, history
  <2>9. CASE VerifyBuy(c) \/ VerifySell(c)
    <3>1. calls[c] \in Calls /\ calls[c].pc = "verifying" /\ (Return(c) \/ LookAgain(c))
      BY <1>1, <2>9 DEF VerifyBuy, VerifySell
    <3>2. calls' \in [Callers -> Calls]
      BY <1>1, <1>7, <1>8, <3>1, CallProceeds
    <3>3. UNCHANGED <<queue, ton, jettons, mempool, children, sniper, trouble, shared>>
      BY <2>9 DEF VerifyBuy, VerifySell, chain
    <3>4. calls[c].token \in Tokens /\ calls[c].lots \in Nat /\ calls[c].before \in Int
      BY <3>1 DEF Calls
    <3>5. CASE UNCHANGED <<books, inGap, outGap, blind>>
      BY <1>1, <1>4, <1>5, <3>2, <3>3, <3>5, Typed
    <3>6. ASSUME NEW gained \in Nat, ReportBuy(c, gained) PROVE TypeOK'
      <4> DEFINE t == calls[c].token
                 n == AtMost(books[t] + gained, MaxLots)
      <4>1. n \in Nat
        BY <1>1, <3>4, BoundsAssumption DEF AtMost, BooksTyped
      <4>2. books' = [books EXCEPT ![t] = n]
        BY <3>6 DEF ReportBuy
      <4> HIDE DEF n
      <4>3. books' \in [Tokens -> Nat]
        BY <1>1, <3>4, <4>1, <4>2 DEF BooksTyped
      <4>4. inGap' \in [Tokens -> Int]
        BY <1>1, <3>4, <3>6, MovedTyped DEF ReportBuy, BooksTyped
      <4>5. BooksTyped'
        BY <1>1, <3>3, <3>4, <3>6, <4>3, <4>4 DEF ReportBuy, BooksTyped
      <4> QED  BY <1>1, <1>4, <3>2, <3>3, <4>5, Typed
    <3>7. ASSUME ReportSell(c) PROVE TypeOK'
      <4> DEFINE t == calls[c].token
                 n == books[t] - AtMost(calls[c].lots, books[t])
      <4>1. n \in Nat
        BY <1>1, <3>4 DEF AtMost, BooksTyped
      <4>2. books' = [books EXCEPT ![t] = n]
        BY <3>7 DEF ReportSell
      <4> HIDE DEF n
      <4>3. books' \in [Tokens -> Nat]
        BY <1>1, <3>4, <4>1, <4>2 DEF BooksTyped
      <4>4. outGap' \in [Tokens -> Int]
        <5>1. -calls[c].lots \in Int /\ outGap \in [Tokens -> Int]
          BY <1>1, <3>4 DEF BooksTyped
        <5>2. outGap' = Moved(outGap, t, -calls[c].lots)
          BY <3>7 DEF ReportSell
        <5> QED  BY <3>4, <5>1, <5>2, MovedTyped
      <4>5. BooksTyped'
        BY <1>1, <3>3, <3>4, <3>7, <4>3, <4>4 DEF ReportSell, BooksTyped
      <4> QED  BY <1>1, <1>4, <3>2, <3>3, <4>5, Typed
    <3>8. CASE VerifyBuy(c)
      <4>1. PICK v \in Readings(calls[c].token) :
               IF v # Unread /\ Delivered(calls[c].before, v) > 0
               THEN ReportBuy(c, Delivered(calls[c].before, v)) /\ Return(c)
               ELSE LookAgain(c)
        BY <3>8 DEF VerifyBuy
      <4>2. v \in Int
        BY <1>1, <3>4, <4>1 DEF Readings, Unread, ChainTyped
      <4>3. Delivered(calls[c].before, v) > 0 => Delivered(calls[c].before, v) \in Nat
        BY <3>4, <4>2 DEF Delivered
      <4> QED  BY <3>5, <3>6, <4>1, <4>3 DEF LookAgain
    <3>9. CASE VerifySell(c)
      BY <3>5, <3>7, <3>9 DEF VerifySell, LookAgain
    <3> QED  BY <2>9, <3>8, <3>9
  <2> QED  BY <1>10, <2>1, <2>2, <2>3, <2>4, <2>5, <2>6, <2>7, <2>8, <2>9 DEF CallStep
<1>11. ASSUME NEW m \in mempool, Land(m) PROVE TypeOK'
  <2>1. calls' \in [Callers -> Calls]
    BY <1>1, <1>11, LandMoves
  <2>2. m \in Swaps /\ Price(m) \in Nat
    BY <1>1, SizesAssumption DEF ChainTyped, Price, ForwardCushion
  <2>3. ton' \in Nat /\ children' \subseteq Swaps
    BY <1>1, <1>11, <2>2 DEF Land, ChainTyped
  <2>4. ChainTyped'
    BY <1>1, <1>11, <2>3 DEF Land, ChainTyped
  <2> QED  BY <1>1, <1>5, <1>11, <2>1, <2>4, Typed DEF Land, history
<1>12. ASSUME NEW m \in children, Settle(m) PROVE TypeOK'
  <2>1. m.token \in Tokens /\ m.lots \in Nat
    BY <1>1 DEF ChainTyped, Swaps
  <2>2. jettons' \in [Tokens -> Nat] /\ inGap' \in [Tokens -> Int] /\ outGap' \in [Tokens -> Int]
    <3>1. /\ jettons \in [Tokens -> Nat] /\ inGap \in [Tokens -> Int] /\ outGap \in [Tokens -> Int]
      BY <1>1 DEF ChainTyped, BooksTyped
    <3>2. CASE m.side = "buy"
      <4>1. /\ jettons' = [jettons EXCEPT ![m.token] = jettons[m.token] + m.lots]
            /\ inGap' = Moved(inGap, m.token, m.lots) /\ outGap' = outGap
        BY <1>12, <3>2 DEF Settle
      <4>2. inGap' \in [Tokens -> Int]
        <5>1. m.lots \in Int
          BY <2>1
        <5> QED  BY <2>1, <3>1, <4>1, <5>1, MovedTyped, Zenon
      <4>3. jettons' \in [Tokens -> Nat]
        BY <2>1, <3>1, <4>1
      <4> QED  BY <3>1, <4>1, <4>2, <4>3
    <3>3. CASE m.side # "buy"
      <4>1. /\ jettons' = [jettons EXCEPT ![m.token] = jettons[m.token] - m.lots]
            /\ outGap' = Moved(outGap, m.token, m.lots) /\ inGap' = inGap
        BY <1>12, <3>3 DEF Settle
      <4>2. m.side = "sell"
        BY <1>1, <3>3 DEF ChainTyped, Swaps, Sides
      <4>3. m.lots <= jettons[m.token]
        BY <1>12, <4>2 DEF Settle
      <4>4. outGap' \in [Tokens -> Int]
        <5>1. m.lots \in Int
          BY <2>1
        <5> QED  BY <2>1, <3>1, <4>1, <5>1, MovedTyped, Zenon
      <4>5. jettons' \in [Tokens -> Nat]
        BY <2>1, <3>1, <4>1, <4>3
      <4> QED  BY <3>1, <4>1, <4>4, <4>5
    <3> QED  BY <3>2, <3>3
  <2>3. ChainTyped' /\ BooksTyped'
    BY <1>1, <1>12, <2>2 DEF Settle, ChainTyped, BooksTyped
  <2> QED  BY <1>1, <1>12, <2>3, Typed DEF Settle
<1>13. ASSUME NEW m, Expire(m) \/ Bounce(m) PROVE TypeOK'
  <2>1. ChainTyped'
    BY <1>1, <1>13 DEF Expire, Bounce, ChainTyped
  <2> QED  BY <1>1, <1>5, <1>13, <2>1, Typed DEF Expire, Bounce, history
<1>14. CASE SniperReads \/ SniperSends \/ TopUp \/ Weather \/ UNCHANGED vars
  <2>1. SniperSwap \in Swaps
    BY TokensAssumption DEF SniperSwap, SomeToken, Swaps, Sides
  <2>2. SniperSends => mempool' \subseteq Swaps
    BY <1>1, <2>1, Broadcasts DEF SniperSends, ChainTyped
  <2>3. ChainTyped'
    BY <1>1, <1>14, <2>2, SizesAssumption
       DEF SniperReads, SniperSends, TopUp, Weather, vars, chain, ChainTyped
  <2>4. BooksTyped'
    BY <1>5, <1>14 DEF SniperReads, SniperSends, TopUp, Weather, vars, history
  <2> QED  BY <1>1, <1>14, <2>3, <2>4, Typed DEF SniperReads, SniperSends, TopUp, Weather, vars
<1> QED  BY <1>9, <1>10, <1>11, <1>12, <1>13, <1>14 DEF Next

LEMMA InvStep == Inv /\ [Next]_vars => Inv'
BY TypeStep, MutexStep, DealsStep DEF Inv, Deals

-----------------------------------------------------------------------------
(* The calls, the mutex, the wallet and the chain are what they are taken   *)
(* for.                                                                     *)
THEOREM TypeCorrect == Spec => []TypeOK
<1>1. Inv => TypeOK
  BY DEF Inv
<1> QED  BY InvInit, InvStep, <1>1, PTL DEF Spec

(* acquireLock and release: a tier has one caller between the read of its   *)
(* seqno and the end of its wait, and the lock is never held for a caller   *)
(* who has returned.                                                        *)
OneSender ==
    /\ \A c, d \in Callers : HasSeqno(c) /\ HasSeqno(d) => c = d
    /\ \A i \in 1..Len(queue) : queue[i] \in Callers /\ InLine(queue[i])

THEOREM MutexHolds == Spec => []OneSender
<1>1. Inv => OneSender
  <2> SUFFICES ASSUME Inv PROVE OneSender
    OBVIOUS
  <2>1. \A c, d \in Callers : HasSeqno(c) /\ HasSeqno(d) => c = d
    BY DEF Inv, Mutex, Holder
  <2>2. ASSUME NEW i \in 1..Len(queue) PROVE queue[i] \in Callers /\ InLine(queue[i])
    <3>1. queue \in Seq(Callers)
      BY DEF Inv, TypeOK
    <3>2. queue[i] \in Callers
      BY <3>1
    <3> QED  BY <3>2 DEF Inv, Mutex
  <2> QED  BY <2>1, <2>2 DEF OneSender
<1> QED  BY InvInit, InvStep, <1>1, PTL DEF Spec

(* verifyBuyDelivered: whatever times out, lands late, bounces or is        *)
(* displaced by another signer, no buy is reported that brought nothing.    *)
THEOREM BuysAreDelivered == Spec => []NoPhantomBuy
<1>1. Inv => NoPhantomBuy
  BY DEF Inv, Gaps, Excepted, NoPhantomBuy
<1> QED  BY InvInit, InvStep, <1>1, PTL DEF Spec

(* verifySellDelta: no sell is reported of tokens the wallet still holds,   *)
(* although a sell may be tried again while the last one is in the air.     *)
THEOREM SalesHappened == Spec => []NoPhantomSale
<1>1. Inv => NoPhantomSale
  BY DEF Inv, Gaps, Excepted, NoPhantomSale
<1> QED  BY InvInit, InvStep, <1>1, PTL DEF Spec
=============================================================================
