--------------------------- MODULE SwapSettlement ---------------------------
(***************************************************************************)
(* What happens to a swap once it is to be signed, for one tier's wallet:  *)
(*   dex/router.ts           executeSwap, the buys and sells of both DEXes *)
(*                           and the verification by balance               *)
(*   dex/swap-gas-guard.ts   the two gas guards                            *)
(*   wallet/locked-wallet.ts the tier's mutex and the wait for the seqno   *)
(*   sniper/engine.ts        sendRouterTx, a second signer without mutex   *)
(* and, external to the code, the wallet contract and the jetton on chain. *)
(* A seqno is abstracted to whether it is still the wallet's: "moved" is   *)
(* "the wallet's seqno has passed the one that was read".  TON amounts are *)
(* hundredths, jettons are lots of many nano each; every buy is of one     *)
(* size and brings one lot.                                                *)
(***************************************************************************)
EXTENDS Integers, Sequences, FiniteSets

CONSTANTS
    Testnet,     \* isTestnet(): DeDust has no factory there
    Callers,     \* invocations of executeSwap that may run at once
    Tokens,      \* jettons
    StonfiTokens,\* those whose pool resolvePool finds on STON.fi
    BuyTon,      \* amountTon of a buy
    ExitReserve, \* EXIT_RESERVE_TON
    BankrollFloor, \* BANKROLL_FLOOR_TON
    PoolMinimum, \* POOL_MINIMUM_TON
    SellFloor,   \* SELL_GAS_FLOOR_TON, which a sell spends
    Funding,     \* what an operator tops the wallet up to
    Rent,        \* TON balance of a jetton wallet, read as if it were jettons
    Attempts,    \* ATTEMPTS of the two verifications
    MaxTroubles, \* bound: kinds of trouble in one behaviour
    MaxPending,  \* bound: messages that wait for a block at once
    MaxSettling, \* bound: accepted swaps that settle at once
    MaxLots      \* bound: lots held, and lots that no report accounts for

ASSUME TestnetAssumption == Testnet \in BOOLEAN
ASSUME TokensAssumption == Tokens # {}
ASSUME VenueAssumption == StonfiTokens \subseteq Tokens
ASSUME SizesAssumption ==
    {BuyTon, ExitReserve, BankrollFloor, PoolMinimum, SellFloor, Funding, Rent} \subseteq Nat
ASSUME BoundsAssumption == {Attempts, MaxPending, MaxSettling, MaxLots} \subseteq Nat \ {0} /\ MaxTroubles \in Nat
(* Lots are coarse: the 1 % that verifySellDelta forgives is less than one. *)
ASSUME ToleranceAssumption == MaxLots < 100

VARIABLES
    calls,    \* the executeSwap invocations
    queue,    \* locks[tier]: the callers in the mutex, its holder first
    sniper,   \* sendRouterTx: idle, or holding a seqno
    ton,      \* the wallet's balance
    jettons,  \* the wallet's balance of each jetton
    mempool,  \* external messages for the wallet's present seqno
    children, \* swaps of messages the wallet accepted, not yet settled
    books,    \* what the callers' positions say the wallet holds
    trouble,  \* what goes wrong around the agent
    \* History, not in the code:
    inGap,    \* lots delivered by buys, less those reported
    outGap,   \* lots sold, less those reported
    shared,   \* jettons that two calls traded at once
    blind     \* jettons with a report on a baseline that was not their balance

vars == <<calls, queue, sniper, ton, jettons, mempool, children, books, trouble,
          inGap, outGap, shared, blind>>
chain == <<ton, jettons, mempool, children>>
history == <<inGap, outGap, shared, blind>>

Unread == -1    \* readUserJettonBalance returned null
Sides == {"buy", "sell"}
SomeToken == CHOOSE t \in Tokens : TRUE
Idle == [pc |-> "idle", side |-> "buy", token |-> SomeToken, lots |-> 0,
         late |-> FALSE,     \* the baseline is read after the send
         before |-> Unread, tries |-> 0, moved |-> FALSE]

(* What the payload of c's message asks a pool for: one direct leg, without *)
(* a limit on DeDust, for the sender.                                       *)
Swap(c) == [by |-> c, side |-> calls[c].side, token |-> calls[c].token, lots |-> calls[c].lots]

(* Reads of a balance fail, RPC nodes lag, calls throw, messages wait in   *)
(* vain or expire, another signer uses the wallet, and two calls trade one  *)
(* jetton at once.                                                          *)
Troubles == {"unread", "lag", "throws", "late", "sniper", "overlap"}
Suffers(k) == k \in trouble
calm == trouble = {}

AtMost(n, top) == IF n > top THEN top ELSE n

Busy(c) == calls[c].pc # "idle"
HasSeqno(c) == calls[c].pc \in {"sending", "polling"}

Init ==
    /\ calls = [c \in Callers |-> Idle]
    /\ queue = <<>>
    /\ sniper = "idle"
    /\ ton = Funding
    /\ jettons = [t \in Tokens |-> 0]
    /\ mempool = {} /\ children = {}
    /\ books = [t \in Tokens |-> 0]
    /\ trouble \in {k \in SUBSET Troubles : Cardinality(k) <= MaxTroubles}
    /\ inGap = [t \in Tokens |-> 0] /\ outGap = [t \in Tokens |-> 0]
    /\ shared = {} /\ blind = {}

-----------------------------------------------------------------------------
(* swap-gas-guard.ts *)

ForwardCushion == 25

(* effectiveBuyReserveTon: the stricter of the two floors. *)
ReserveFloor == IF ExitReserve > BankrollFloor THEN ExitReserve ELSE BankrollFloor
BuyGasAllows(balance, amount) == balance >= amount + ForwardCushion + ReserveFloor
SellGasAllows(balance) == balance >= SellFloor

(* checkPoolMinimum of router.ts.  The minimum it derives from the reserves *)
(* of a DeDust pool is at most the configured one, so it refuses no more.   *)
MeetsPoolMinimum(amount) == amount + ForwardCushion >= PoolMinimum

-----------------------------------------------------------------------------
(* executeSwap up to the broadcast. *)

Overlaps(c, t) == \E d \in Callers \ {c} : Busy(d) /\ calls[d].token = t

Begin(c, side, t, lots, late) ==
    /\ ~Busy(c)
    /\ Overlaps(c, t) => Suffers("overlap")
    /\ calls' = [calls EXCEPT ![c] =
           [Idle EXCEPT !.pc = "building", !.side = side, !.token = t,
                        !.lots = lots, !.late = late]]
    /\ shared' = IF Overlaps(c, t) THEN shared \cup {t} ELSE shared
    /\ UNCHANGED <<queue, sniper, chain, books, trouble, inGap, outGap, blind>>

(* The wallet's balance is read and held to the guard, and the message is   *)
(* built from estimates that change nothing.                                *)
StonfiBuy(c, t) ==
    /\ MeetsPoolMinimum(BuyTon)
    /\ BuyGasAllows(ton, BuyTon)
    /\ Begin(c, "buy", t, 1, FALSE)
DedustBuy(c, t) == ~Testnet /\ StonfiBuy(c, t)

(* A position is sold whole. *)
StartSell(c, t, late) ==
    /\ SellGasAllows(ton)
    /\ books[t] > 0
    /\ Begin(c, "sell", t, books[t], late)
StonfiSell(c, t) == StartSell(c, t, FALSE)
DedustSell(c, t) == ~Testnet /\ StartSell(c, t, TRUE)

(* executeSwap catches what the getters and payload builders throw. *)
Return(c) == calls' = [calls EXCEPT ![c] = Idle]
BuildFails(c) ==
    /\ calls[c].pc = "building" /\ Suffers("throws")
    /\ Return(c)
    /\ UNCHANGED <<queue, sniper, chain, books, trouble, history>>

Readings(t) == {jettons[t]} \cup (IF Suffers("unread") THEN {Unread} ELSE {})

(* Mutant of ReadBaseline: the balance is not read before the broadcast. *)
ReadBaseline_Skipped(c) ==
    /\ calls[c].pc = "building"
    /\ calls' = [calls EXCEPT ![c].pc = "queued", ![c].before = 0]
    /\ queue' = Append(queue, c)
    /\ UNCHANGED <<sniper, chain, books, trouble, history>>

(* The baseline is read, then acquire() joins the queue.  dedustSell has    *)
(* read no balance at this point.                                           *)
ReadBaseline(c) ==
    LET k == calls[c]
    IN  /\ k.pc = "building"
        /\ \E v \in IF k.late THEN {Unread} ELSE Readings(k.token) :
               calls' = [calls EXCEPT ![c].pc = "queued", ![c].before = v]
        /\ queue' = Append(queue, c)
        /\ UNCHANGED <<sniper, chain, books, trouble, history>>

Holder(c) == queue # <<>> /\ Head(queue) = c

(* sendTransferLocked holds the lock and reads the seqno, from a node that  *)
(* may lag behind the chain.                                                *)
ReadSeqno(c) ==
    /\ calls[c].pc = "queued" /\ Holder(c)
    /\ \E lags \in BOOLEAN :
           /\ lags => Suffers("lag")
           /\ calls' = [calls EXCEPT ![c].pc = "sending", ![c].moved = lags]
    /\ UNCHANGED <<queue, sniper, chain, books, trouble, history>>

(* The wallet takes only a message with its own seqno; others vanish, and   *)
(* so does one beyond the bound.                                            *)
Broadcast(m, stale) ==
    mempool' = IF stale \/ Cardinality(mempool) >= MaxPending THEN mempool ELSE mempool \cup {m}

Send(c) ==
    /\ calls[c].pc = "sending"
    /\ calls' = [calls EXCEPT ![c].pc = "polling"]
    /\ Broadcast(Swap(c), calls[c].moved)
    /\ UNCHANGED <<queue, sniper, ton, jettons, children, books, trouble, history>>

(* finally: release() *)
Unlock == queue' = Tail(queue)

(* getSeqno or sendTransfer throws; the message may have left all the same. *)
SendThrows(c) ==
    /\ Suffers("throws")
    /\ \/ calls[c].pc = "queued" /\ Holder(c) /\ UNCHANGED mempool
       \/ calls[c].pc = "sending" /\ \E lost \in BOOLEAN : Broadcast(Swap(c), lost \/ calls[c].moved)
    /\ Return(c) /\ Unlock
    /\ UNCHANGED <<sniper, ton, jettons, children, books, trouble, history>>

(* waitSeqnoIncrement sees the seqno move, whoever moved it. *)
Confirm(c) ==
    LET k == calls[c]
    IN  /\ k.pc = "polling" /\ k.moved
        /\ calls' = [calls EXCEPT ![c].pc =
               IF k.late THEN "late baseline" ELSE "verifying"]
        /\ Unlock
        /\ UNCHANGED <<sniper, chain, books, trouble, history>>

(* 45 seconds without: "Confirmation timeout", and the message lives on.   *)
(* Otherwise a message is in a block long before that.                      *)
TimeOut(c) ==
    /\ calls[c].pc = "polling"
    /\ ~Suffers("late") => ~calls[c].moved /\ mempool = {}
    /\ Return(c) /\ Unlock
    /\ UNCHANGED <<sniper, chain, books, trouble, history>>

-----------------------------------------------------------------------------
(* Verification by balance, and the report. *)

(* dedustSell reads its baseline now: client.getBalance of the jetton       *)
(* wallet, which is that contract's TON.                                    *)
LateBaseline(c) ==
    /\ calls[c].pc = "late baseline"
    /\ \E v \in {Rent} \cup (IF Suffers("unread") THEN {Unread} ELSE {}) :
           calls' = [calls EXCEPT ![c].pc = "verifying", ![c].before = v]
    /\ UNCHANGED <<queue, sniper, chain, books, trouble, history>>

(* computeDeliveredIncrement *)
Delivered(before, after) == IF before = Unread THEN after ELSE after - before

(* Mutant of SellVerdict: tokens that were already gone count as a bounce. *)
SellVerdict_NoGone(before, after, lots) ==
    before - after > 0 /\ (before - after) * 100 >= lots * 99

(* Mutant of SellVerdict: the confirmed transfer is proof enough. *)
SellVerdict_Trusting(before, after, lots) == TRUE

(* verifySellDelta *)
SellVerdict(before, after, lots) ==
    before <= 0 \/ (before - after > 0 /\ (before - after) * 100 >= lots * 99)

(* History of what reports and deliveries of t differ by; once t is         *)
(* excepted from the properties it stays at zero.                           *)
Excepted(t) == t \in shared \cup blind
Moved(gap, t, by) == [gap EXCEPT ![t] = IF Excepted(t) THEN 0 ELSE @ + by]

ReportBuy(c, gained) ==
    LET t == calls[c].token
    IN  /\ books' = [books EXCEPT ![t] = AtMost(@ + gained, MaxLots)]
        /\ inGap' = Moved(inGap, t, -gained)
        /\ blind' = IF calls[c].before = Unread THEN blind \cup {t} ELSE blind
        /\ UNCHANGED outGap

ReportSell(c) ==
    LET t == calls[c].token
        n == calls[c].lots
    IN  /\ books' = [books EXCEPT ![t] = @ - AtMost(n, @)]
        /\ outGap' = Moved(outGap, t, -n)
        /\ blind' = IF calls[c].late THEN blind \cup {t} ELSE blind
        /\ UNCHANGED inGap

(* Mutant of LookAgain: the count of looks starts anew each time. *)
LookAgain_Forever(c) ==
    /\ calls' = [calls EXCEPT ![c].tries = 1 - @]
    /\ UNCHANGED <<books, inGap, outGap, blind>>

(* One more look, or the last one. *)
LookAgain(c) ==
    /\ IF calls[c].tries + 1 < Attempts
       THEN calls' = [calls EXCEPT ![c].tries = @ + 1]
       ELSE Return(c)
    /\ UNCHANGED <<books, inGap, outGap, blind>>

(* verifyBuyDelivered: looks until something has arrived. *)
VerifyBuy(c) ==
    LET k == calls[c]
    IN  /\ k.pc = "verifying" /\ k.side = "buy"
        /\ \E v \in Readings(k.token) :
               IF v # Unread /\ Delivered(k.before, v) > 0
               THEN ReportBuy(c, Delivered(k.before, v)) /\ Return(c)
               ELSE LookAgain(c)
        /\ UNCHANGED <<queue, sniper, chain, trouble, shared>>

(* verifySellExecuted: fails closed without a baseline, looks until the     *)
(* index answers, and takes that answer for final.                          *)
VerifySell(c) ==
    LET k == calls[c]
    IN  /\ k.pc = "verifying" /\ k.side = "sell"
        /\ \E v \in Readings(k.token) :
               IF k.before = Unread
               THEN Return(c) /\ UNCHANGED <<books, inGap, outGap, blind>>
               ELSE IF v = Unread THEN LookAgain(c)
               ELSE IF SellVerdict(k.before, v, k.lots) THEN ReportSell(c) /\ Return(c)
               ELSE Return(c) /\ UNCHANGED <<books, inGap, outGap, blind>>
        /\ UNCHANGED <<queue, sniper, chain, trouble, shared>>

-----------------------------------------------------------------------------
(* The second signer: sendRouterTx, on the wallet of the LOW tier. *)

SniperSwap == [by |-> "sniper", side |-> "buy", token |-> SomeToken, lots |-> 0]

SniperReads ==
    /\ sniper = "idle" /\ Suffers("sniper")
    /\ sniper' = "holds"
    /\ UNCHANGED <<calls, queue, chain, books, trouble, history>>

SniperSends ==
    /\ sniper # "idle"
    /\ sniper' = "idle"
    /\ Broadcast(SniperSwap, sniper = "stale")
    /\ UNCHANGED <<calls, queue, ton, jettons, children, books, trouble, history>>

-----------------------------------------------------------------------------
(* The chain. *)

Price(m) == IF m.side = "buy" THEN BuyTon + ForwardCushion ELSE SellFloor

(* The wallet accepts one message; no other with that seqno ever lands.  If *)
(* it cannot pay for the swap the seqno moves all the same.  What the       *)
(* sniper trades is not followed.                                           *)
Land(m) ==
    /\ m \in mempool
    /\ Cardinality(children) < MaxSettling
    /\ m \notin children      \* the model's cap: a caller's swap settles before it lands again
    /\ mempool' = {}
    /\ calls' = [c \in Callers |-> IF HasSeqno(c) THEN [calls[c] EXCEPT !.moved = TRUE] ELSE calls[c]]
    /\ sniper' = IF sniper = "idle" THEN "idle" ELSE "stale"
    /\ IF ton >= Price(m)
       THEN ton' = ton - Price(m) /\ children' = children \cup ({m} \ {SniperSwap})
       ELSE UNCHANGED <<ton, children>>
    /\ UNCHANGED <<queue, jettons, books, trouble, history>>

(* valid_until passes *)
Expire(m) ==
    /\ m \in mempool /\ Suffers("late")
    /\ mempool' = mempool \ {m}
    /\ UNCHANGED <<calls, queue, sniper, ton, jettons, children, books, trouble, history>>

(* The swap executes: a transfer of more than is held cannot. *)
Settle(m) ==
    /\ m \in children
    /\ m.side = "sell" => m.lots <= jettons[m.token]
    /\ IF m.side = "buy" THEN jettons[m.token] < MaxLots /\ inGap[m.token] < MaxLots
       ELSE outGap[m.token] < MaxLots
    /\ children' = children \ {m}
    /\ IF m.side = "buy"
       THEN /\ jettons' = [jettons EXCEPT ![m.token] = @ + m.lots]
            /\ inGap' = Moved(inGap, m.token, m.lots)
            /\ UNCHANGED outGap
       ELSE /\ jettons' = [jettons EXCEPT ![m.token] = @ - m.lots]
            /\ outGap' = Moved(outGap, m.token, m.lots)
            /\ UNCHANGED inGap
    /\ UNCHANGED <<calls, queue, sniper, ton, mempool, books, trouble, shared, blind>>

(* The pool's limits, the vault or the jetton wallet refuse it. *)
Bounce(m) ==
    /\ m \in children
    /\ children' = children \ {m}
    /\ UNCHANGED <<calls, queue, sniper, ton, jettons, mempool, books, trouble, history>>

TopUp ==
    /\ ton # Funding
    /\ ton' = Funding
    /\ UNCHANGED <<calls, queue, sniper, jettons, mempool, children, books, trouble, history>>

(* Once the trouble ends, it ends: what comes before may be anything. *)
Weather ==
    /\ ~calm
    /\ trouble' = {}
    /\ UNCHANGED <<calls, queue, sniper, chain, books, history>>

CallStep(c) ==
    \/ BuildFails(c) \/ ReadBaseline(c) \/ ReadSeqno(c) \/ Send(c) \/ SendThrows(c)
    \/ Confirm(c) \/ TimeOut(c) \/ LateBaseline(c) \/ VerifyBuy(c) \/ VerifySell(c)

Next ==
    \/ \E c \in Callers, t \in Tokens :
           StonfiBuy(c, t) \/ DedustBuy(c, t) \/ StonfiSell(c, t) \/ DedustSell(c, t)
    \/ \E c \in Callers : CallStep(c)
    \/ SniperReads \/ SniperSends
    \/ \E m \in mempool : Land(m) \/ Expire(m)
    \/ \E m \in children : Settle(m) \/ Bounce(m)
    \/ TopUp \/ Weather

(* Every RPC call of a swap settles, and the wait for the seqno ends.  The  *)
(* chain includes what it is sent.                                          *)
Fairness ==
    /\ \A c \in Callers : WF_vars(CallStep(c))
    /\ WF_vars(\E m \in mempool : Land(m))
    /\ WF_vars(\E m \in children : Settle(m) \/ Bounce(m))
    /\ WF_vars(TopUp)

(* The monitor sells on the DEX where it has resolved the pool.             *)
Retry(c, t) == IF t \in StonfiTokens THEN StonfiSell(c, t) ELSE DedustSell(c, t)

(* Its timer retries the exit of what its books say is held, while the      *)
(* wallet has the gas.                                                      *)
Retries == \A t \in Tokens : SF_vars(\E c \in Callers : Retry(c, t))

Spec == Init /\ [][Next]_vars
FairSpec == Spec /\ Fairness /\ Retries

-----------------------------------------------------------------------------
(* Properties *)

Swaps == [by : Callers \cup {"sniper"}, side : Sides, token : Tokens, lots : Nat]

(* The variables have the shapes of the code's locals and of the chain. *)
TypeOK ==
    /\ calls \in [Callers -> [pc : {"idle", "building", "queued", "sending", "polling",
                                    "late baseline", "verifying"},
                              side : Sides, token : Tokens, lots : Nat, late : BOOLEAN, before : Int,
                              tries : Nat, moved : BOOLEAN]]
    /\ queue \in Seq(Callers)
    /\ sniper \in {"idle", "holds", "stale"}
    /\ ton \in Nat
    /\ jettons \in [Tokens -> Nat] /\ books \in [Tokens -> Nat]
    /\ mempool \subseteq Swaps /\ children \subseteq Swaps
    /\ trouble \subseteq Troubles
    /\ inGap \in [Tokens -> Int] /\ outGap \in [Tokens -> Int]
    /\ shared \subseteq Tokens /\ blind \subseteq Tokens

(* No buy is reported that did not deliver: whatever times out, lands late, *)
(* is displaced by another signer's message or bounces, the lots reported   *)
(* by buys never exceed those delivered.  Two calls that trade one jetton   *)
(* at once, and a baseline that could not be read, are excepted.            *)
NoPhantomBuy == \A t \in Tokens \ (shared \cup blind) : inGap[t] >= 0

(* No sell is reported that did not happen, now or in an attempt that was   *)
(* given up: the books never lose lots that the wallet still holds.         *)
(* Excepted are two calls that trade one jetton at once, a buy on a         *)
(* baseline that could not be read, and every reported sell on DeDust: it   *)
(* compares jettons with the TON of the jetton wallet, and may report what  *)
(* never left.                                                              *)
NoPhantomSale == \A t \in Tokens \ (shared \cup blind) : outGap[t] >= 0

(* The tier's mutex never keeps a swap for good: whoever called returns.    *)
CallsReturn == \A c \in Callers : Busy(c) ~> ~Busy(c)

(* A sell that landed after it was given up is booked by a retry, once the  *)
(* chain can be read: the loop does not bounce forever on tokens that are   *)
(* gone.  This is so of jettons that are sold on STON.fi.  A retry on       *)
(* DeDust takes for its baseline the TON of the jetton wallet, which is     *)
(* never zero, and need not see that the tokens are gone.                   *)
UnnoticedSaleIsBooked ==
    \A t \in StonfiTokens : <>[]calm =>
        ((books[t] > 0 /\ jettons[t] = 0) ~> (books[t] = 0 \/ jettons[t] > 0))
=============================================================================
