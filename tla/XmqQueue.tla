------------------------------ MODULE XmqQueue ------------------------------
(***************************************************************************)
(* The message path of libmixmq (src/lib/libmixmq/src/xmq.c): durable      *)
(* queues kept in a key-value store, filled by producers and read by       *)
(* consumers that each remember a fetch position and a mark position.      *)
(*                                                                         *)
(* Every producer and every consumer is driven by a thread of its own.  A  *)
(* step of the model is what a thread does between two points where        *)
(* another thread can interfere: an unlocked read or write of              *)
(* queue->msg_capacity, a call of the store, or a whole section under      *)
(* queue->wait_lock (no such section blocks except in pthread_cond_wait).  *)
(*                                                                         *)
(* The lists of queues and users, and node_tree_lock, are the subject of   *)
(* XmqRegistry; here a user is registered or not.                          *)
(***************************************************************************)
EXTENDS Integers, Sequences, FiniteSets

CONSTANTS
  Queues,       \* the queues opened in one context
  Producers,
  Consumers,
  PQueue,       \* producer->owner_queue, for every producer
  CQueue,       \* consumer->owner_queue, for every consumer
  BlockQueues,  \* the queues opened with F_QUEUE_BLOCK
  Timed,        \* the consumers that pass millis # 0 to the fetch calls
  Overlong,     \* those whose millis makes every deadline an invalid time
                \* (2000 or more, see XmqDeadline)
  NthIndexes,   \* the indexes passed to queue_fetch_nth and queue_mark_nth
  Data,         \* the payloads of messages
  NoMsg,        \* (xmq_msg_t *)-1, the error result of __msg_fetch
  MaxMsgs,      \* bound: no push starts once this many were stored in a queue
  StoreFails,   \* whether put_KVs_cb and get_KVs_cb may return -1
  Crashes,      \* whether the process may be killed
  Reopens       \* whether xmq_queue_open is called on a queue that is open

ASSUME QueueConstants ==
  /\ PQueue \in [Producers -> Queues]
  /\ CQueue \in [Consumers -> Queues]
  /\ BlockQueues \subseteq Queues
  /\ Timed \subseteq Consumers /\ Overlong \subseteq Timed
  /\ NthIndexes \subseteq Nat
  /\ MaxMsgs \in Nat
  /\ Data # {}
  /\ StoreFails \in BOOLEAN /\ Crashes \in BOOLEAN /\ Reopens \in BOOLEAN
  /\ NoMsg \notin [index : Nat, data : Data]

VARIABLES
  \* The key-value store, which survives a crash: the keys present so far.
  kvMsg,      \* message index -> message; the queue is not part of the key
  kvCap,      \* queue -> capacity
  kvFetch,    \* consumer -> fetch position
  kvMark,     \* consumer -> mark position
  \* xmq_queue_t
  open, cap, waiters,
  \* queue_push_tail, per producer: program counter and locals
  ppc, pdata, ptmp, pidx,
  \* queue_fetch_nth, per consumer: program counter and locals
  cpc, cidx, cmsg,
  \* xmq_consumer_t
  lastFetch, lastMark,
  \* History: the payloads put_KVs_cb accepted for a queue, in that order,
  \* the indexes of the messages a consumer was handed and the index of its
  \* last accepted mark.
  sent, got, marked

storeVars == <<kvMsg, kvCap, kvFetch, kvMark>>
queueVars == <<open, cap, waiters>>
prodVars  == <<ppc, pdata, ptmp, pidx>>
consVars  == <<cpc, cidx, cmsg, lastFetch, lastMark>>
histVars  == <<sent, got, marked>>
vars == <<storeVars, queueVars, prodVars, consVars, histVars>>

Message == [index : Nat, data : Data]

\* The store after the pair (k, v) was put.
Put(f, k, v) == [x \in DOMAIN f \cup {k} |-> IF x = k THEN v ELSE f[x]]

\* __uint64_test_init with init 0: what it yields, and the store after it.
InitValue(f, k) == IF k \in DOMAIN f THEN f[k] ELSE 0
InitStore(f, k) == IF k \in DOMAIN f THEN f ELSE Put(f, k, 0)

\* The consumers blocked on wait_cond.
SleepingOn(q) == {c \in Consumers : CQueue[c] = q /\ cpc[c] = "wait"}

\* wait_lock is free at the end of a step, except when a consumer spins:
\* pthread_cond_timedwait refuses an invalid deadline before it unlocks.
WaitLockFree(q) == \A c \in Consumers : CQueue[c] = q => cpc[c] # "spin"

ProducerPC == {"off", "idle", "adopt", "index", "put", "bump"}
ConsumerPC == {"off", "idle", "wait", "spin", "woken", "lost", "get", "save", "ret"}

Init ==
  /\ kvMsg = <<>> /\ kvCap = <<>> /\ kvFetch = <<>> /\ kvMark = <<>>
  /\ open = [q \in Queues |-> FALSE]
  /\ cap = [q \in Queues |-> 0]
  /\ waiters = [q \in Queues |-> 0]
  /\ ppc = [p \in Producers |-> "off"]
  /\ pdata = [p \in Producers |-> CHOOSE d \in Data : TRUE]
  /\ ptmp = [p \in Producers |-> 0]
  /\ pidx = [p \in Producers |-> 0]
  /\ cpc = [c \in Consumers |-> "off"]
  /\ cidx = [c \in Consumers |-> 0]
  /\ cmsg = [c \in Consumers |-> NoMsg]
  /\ lastFetch = [c \in Consumers |-> 0]
  /\ lastMark = [c \in Consumers |-> 0]
  /\ sent = [q \in Queues |-> <<>>]
  /\ got = [c \in Consumers |-> {}]
  /\ marked = [c \in Consumers |-> 0]

-----------------------------------------------------------------------------
(* Queues and users *)

\* Mutant of Open: the capacity is not loaded.
OpenWithoutLoad(q) ==
  /\ ~open[q]
  /\ open' = [open EXCEPT ![q] = TRUE]
  /\ kvCap' = InitStore(kvCap, q)
  /\ UNCHANGED <<kvMsg, kvFetch, kvMark, cap, waiters, prodVars, consVars,
                 histVars>>

\* xmq_queue_open on a closed queue: __queue_active loads the capacity.
Open(q) ==
  /\ ~open[q]
  /\ open' = [open EXCEPT ![q] = TRUE]
  /\ cap' = [cap EXCEPT ![q] = InitValue(kvCap, q)]
  /\ kvCap' = InitStore(kvCap, q)
  /\ UNCHANGED <<kvMsg, kvFetch, kvMark, waiters, prodVars, consVars, histVars>>

\* xmq_queue_open on an open queue: it warns, and initialises wait_lock and
\* wait_cond again.  Initialising a condition variable that has sleepers is
\* undefined: any of them may be forgotten by it.  (While a consumer spins the
\* application does not do this.)
Reopen(q) ==
  /\ Reopens
  /\ open[q]
  /\ WaitLockFree(q)
  /\ \E forgotten \in SUBSET SleepingOn(q) :
       cpc' = [c \in Consumers |-> IF c \in forgotten THEN "lost" ELSE cpc[c]]
  /\ UNCHANGED <<storeVars, queueVars, prodVars, cidx, cmsg, lastFetch,
                 lastMark, histVars>>

\* xmq_queue_close refuses a queue that has an active producer or consumer.
Close(q) ==
  /\ open[q]
  /\ \A p \in Producers : PQueue[p] = q => ppc[p] = "off"
  /\ \A c \in Consumers : CQueue[c] = q => cpc[c] = "off"
  /\ open' = [open EXCEPT ![q] = FALSE]
  /\ UNCHANGED <<storeVars, cap, waiters, prodVars, consVars, histVars>>

RegisterProducer(p) ==
  /\ ppc[p] = "off"
  /\ open[PQueue[p]]
  /\ ppc' = [ppc EXCEPT ![p] = "idle"]
  /\ UNCHANGED <<storeVars, queueVars, pdata, ptmp, pidx, consVars, histVars>>

UnregisterProducer(p) ==
  /\ ppc[p] = "idle"
  /\ ppc' = [ppc EXCEPT ![p] = "off"]
  /\ UNCHANGED <<storeVars, queueVars, pdata, ptmp, pidx, consVars, histVars>>

\* A dead consumer reads its positions from the store, a new one starts at 0
\* and stores that: both take a missing position for 0 and leave it stored.
RegisterConsumer(c) ==
  /\ cpc[c] = "off"
  /\ open[CQueue[c]]
  /\ lastFetch' = [lastFetch EXCEPT ![c] = InitValue(kvFetch, c)]
  /\ lastMark' = [lastMark EXCEPT ![c] = InitValue(kvMark, c)]
  /\ kvFetch' = InitStore(kvFetch, c)
  /\ kvMark' = InitStore(kvMark, c)
  /\ cpc' = [cpc EXCEPT ![c] = "idle"]
  /\ UNCHANGED <<kvMsg, kvCap, queueVars, prodVars, cidx, cmsg, histVars>>

UnregisterConsumer(c) ==
  /\ cpc[c] = "idle"
  /\ cpc' = [cpc EXCEPT ![c] = "off"]
  /\ UNCHANGED <<storeVars, queueVars, prodVars, cidx, cmsg, lastFetch,
                 lastMark, histVars>>

-----------------------------------------------------------------------------
(* queue_push_tail *)

\* An in-memory capacity of 0 is looked up in the store first.  (A failed
\* lookup returns -1 and changes nothing.)
PushBegin(p, d) ==
  LET q == PQueue[p] IN
  /\ ppc[p] = "idle"
  /\ Len(sent[q]) < MaxMsgs
  /\ pdata' = [pdata EXCEPT ![p] = d]
  /\ \/ /\ cap[q] = 0
        /\ ptmp' = [ptmp EXCEPT ![p] = InitValue(kvCap, q)]
        /\ kvCap' = InitStore(kvCap, q)
        /\ ppc' = [ppc EXCEPT ![p] = "adopt"]
     \/ /\ cap[q] # 0
        /\ ppc' = [ppc EXCEPT ![p] = "index"]
        /\ UNCHANGED <<ptmp, kvCap>>
  /\ UNCHANGED <<kvMsg, kvFetch, kvMark, queueVars, pidx, consVars, histVars>>

\* queue->msg_capacity = capacity, with no lock held.
PushAdopt(p) ==
  /\ ppc[p] = "adopt"
  /\ cap' = [cap EXCEPT ![PQueue[p]] = ptmp[p]]
  /\ ppc' = [ppc EXCEPT ![p] = "index"]
  /\ UNCHANGED <<storeVars, open, waiters, pdata, ptmp, pidx, consVars, histVars>>

\* Mutant of PushIndex: the index of the last message instead of the next.
PushIndexBelow(p) ==
  /\ ppc[p] = "index"
  /\ pidx' = [pidx EXCEPT ![p] = cap[PQueue[p]] - 1]
  /\ ppc' = [ppc EXCEPT ![p] = "put"]
  /\ UNCHANGED <<storeVars, queueVars, pdata, ptmp, consVars, histVars>>

\* Mutant of PushIndex: the message is counted before it is stored.
PushIndexCounts(p) ==
  /\ ppc[p] = "index"
  /\ pidx' = [pidx EXCEPT ![p] = cap[PQueue[p]] + 1]
  /\ cap' = [cap EXCEPT ![PQueue[p]] = @ + 1]
  /\ ppc' = [ppc EXCEPT ![p] = "put"]
  /\ UNCHANGED <<storeVars, open, waiters, pdata, ptmp, consVars, histVars>>

\* index = queue->msg_capacity + 1, with no lock held.
PushIndex(p) ==
  /\ ppc[p] = "index"
  /\ pidx' = [pidx EXCEPT ![p] = cap[PQueue[p]] + 1]
  /\ ppc' = [ppc EXCEPT ![p] = "put"]
  /\ UNCHANGED <<storeVars, queueVars, pdata, ptmp, consVars, histVars>>

\* Mutant of PushPut: the capacity is left out of the put.
PushPutMessageOnly(p) ==
  LET q == PQueue[p]
      i == pidx[p]
  IN
  /\ ppc[p] = "put"
  /\ kvMsg' = Put(kvMsg, i, [index |-> i, data |-> pdata[p]])
  /\ sent' = [sent EXCEPT ![q] = Append(@, pdata[p])]
  /\ ppc' = [ppc EXCEPT ![p] = IF q \in BlockQueues THEN "bump" ELSE "idle"]
  /\ UNCHANGED <<kvCap, kvFetch, kvMark, queueVars, pdata, ptmp, pidx,
                 consVars, got, marked>>

\* One put_KVs_cb stores the message and the capacity together.
PushPut(p) ==
  LET q == PQueue[p]
      i == pidx[p]
  IN
  /\ ppc[p] = "put"
  /\ kvMsg' = Put(kvMsg, i, [index |-> i, data |-> pdata[p]])
  /\ kvCap' = Put(kvCap, q, i)
  /\ sent' = [sent EXCEPT ![q] = Append(@, pdata[p])]
  /\ ppc' = [ppc EXCEPT ![p] = IF q \in BlockQueues THEN "bump" ELSE "idle"]
  /\ UNCHANGED <<kvFetch, kvMark, queueVars, pdata, ptmp, pidx, consVars, got,
                 marked>>

\* Mutant of PushPutFails: the result of the put is not looked at.
PushPutUnchecked(p) ==
  /\ StoreFails
  /\ ppc[p] = "put"
  /\ ppc' = [ppc EXCEPT ![p] = "bump"]
  /\ UNCHANGED <<storeVars, queueVars, pdata, ptmp, pidx, consVars, histVars>>

\* The put is refused: nothing was stored, and the call returns the error.
PushPutFails(p) ==
  /\ StoreFails
  /\ ppc[p] = "put"
  /\ ppc' = [ppc EXCEPT ![p] = "idle"]
  /\ UNCHANGED <<storeVars, queueVars, pdata, ptmp, pidx, consVars, histVars>>

\* Mutant of PushBump: pthread_cond_signal instead of the broadcast.
PushBumpSignals(p) ==
  LET q == PQueue[p] IN
  /\ ppc[p] = "bump"
  /\ WaitLockFree(q)
  /\ cap' = [cap EXCEPT ![q] = @ + 1]
  /\ \/ /\ SleepingOn(q) = {}
        /\ UNCHANGED cpc
     \/ \E c \in SleepingOn(q) : cpc' = [cpc EXCEPT ![c] = "woken"]
  /\ ppc' = [ppc EXCEPT ![p] = "idle"]
  /\ UNCHANGED <<storeVars, open, waiters, pdata, ptmp, pidx, cidx, cmsg,
                 lastFetch, lastMark, histVars>>

\* Under wait_lock, for a blocking queue only: count the message, and wake
\* every sleeper if there is a waiter.
PushBump(p) ==
  LET q == PQueue[p] IN
  /\ ppc[p] = "bump"
  /\ WaitLockFree(q)
  /\ cap' = [cap EXCEPT ![q] = @ + 1]
  /\ cpc' = [c \in Consumers |-> IF waiters[q] > 0 /\ c \in SleepingOn(q)
                                   THEN "woken" ELSE cpc[c]]
  /\ ppc' = [ppc EXCEPT ![p] = "idle"]
  /\ UNCHANGED <<storeVars, open, waiters, pdata, ptmp, pidx, cidx, cmsg,
                 lastFetch, lastMark, histVars>>

-----------------------------------------------------------------------------
(* queue_fetch_nth and queue_fetch_next *)

\* The call, up to the first wait.  On a queue that does not block, an index
\* past the capacity returns NULL and changes nothing.
Fetch(c, i) ==
  LET q == CQueue[c] IN
  /\ cpc[c] = "idle"
  /\ q \in BlockQueues => WaitLockFree(q)
  /\ cidx' = [cidx EXCEPT ![c] = i]
  /\ \/ /\ i <= cap[q]
        /\ cpc' = [cpc EXCEPT ![c] = "get"]
        /\ UNCHANGED waiters
     \/ /\ i > cap[q]
        /\ q \in BlockQueues /\ c \in Overlong
        /\ cpc' = [cpc EXCEPT ![c] = "spin"]
        /\ UNCHANGED waiters
     \/ /\ i > cap[q]
        /\ q \in BlockQueues /\ c \notin Overlong
        /\ cpc' = [cpc EXCEPT ![c] = "wait"]
        /\ waiters' = [waiters EXCEPT ![q] = @ + 1]
  /\ UNCHANGED <<storeVars, open, cap, prodVars, cmsg, lastFetch, lastMark,
                 histVars>>

\* The call is over and its locals are gone.
EndFetch(c) ==
  /\ cpc' = [cpc EXCEPT ![c] = "idle"]
  /\ cidx' = [cidx EXCEPT ![c] = 0]
  /\ cmsg' = [cmsg EXCEPT ![c] = NoMsg]

FetchNext(c) == Fetch(c, lastFetch[c] + 1)

FetchNth(c) == \E i \in NthIndexes : Fetch(c, i)

\* The loop of a wait that is refused every time: nothing changes but what
\* queue_push_tail does to msg_capacity without the lock.
SpinEnds(c) ==
  /\ cpc[c] = "spin"
  /\ cidx[c] <= cap[CQueue[c]]
  /\ cpc' = [cpc EXCEPT ![c] = "get"]
  /\ UNCHANGED <<storeVars, queueVars, prodVars, cidx, cmsg, lastFetch,
                 lastMark, histVars>>

\* pthread_cond_wait and pthread_cond_timedwait may return with no signal.
WakeUnsignalled(c) ==
  /\ cpc[c] = "wait"
  /\ cpc' = [cpc EXCEPT ![c] = "woken"]
  /\ UNCHANGED <<storeVars, queueVars, prodVars, cidx, cmsg, lastFetch,
                 lastMark, histVars>>

\* Mutant of WaitTimesOut: the loop goes on after ETIMEDOUT.
WaitTimesOutRetries(c) ==
  /\ c \in Timed
  /\ cpc[c] \in {"wait", "lost"}
  /\ WaitLockFree(CQueue[c])
  /\ cpc' = [cpc EXCEPT ![c] = "woken"]
  /\ UNCHANGED <<storeVars, queueVars, prodVars, cidx, cmsg, lastFetch,
                 lastMark, histVars>>

\* ETIMEDOUT: the call returns NULL.
WaitTimesOut(c) ==
  /\ c \in Timed
  /\ cpc[c] \in {"wait", "lost"}
  /\ WaitLockFree(CQueue[c])
  /\ EndFetch(c)
  /\ waiters' = [waiters EXCEPT ![CQueue[c]] = @ - 1]
  /\ UNCHANGED <<storeVars, open, cap, prodVars, lastFetch, lastMark, histVars>>

\* The loop test after a wait: leave the loop, or wait again.
Recheck(c) ==
  LET q == CQueue[c] IN
  /\ cpc[c] = "woken"
  /\ WaitLockFree(q)
  /\ \/ /\ cidx[c] <= cap[q]
        /\ cpc' = [cpc EXCEPT ![c] = "get"]
        /\ waiters' = [waiters EXCEPT ![q] = @ - 1]
     \/ /\ cidx[c] > cap[q]
        /\ cpc' = [cpc EXCEPT ![c] = "wait"]
        /\ UNCHANGED waiters
  /\ UNCHANGED <<storeVars, open, cap, prodVars, cidx, cmsg, lastFetch,
                 lastMark, histVars>>

\* Whether __msg_fetch goes to the store for the index.
InRange(c) == cidx[c] # 0 /\ cidx[c] <= cap[CQueue[c]]

\* __msg_fetch: the stored message, or the error result.
MsgFetch(c) ==
  /\ cpc[c] = "get"
  /\ \/ /\ InRange(c)
        /\ cidx[c] \in DOMAIN kvMsg
        /\ cmsg' = [cmsg EXCEPT ![c] = kvMsg[cidx[c]]]
     \/ /\ ~InRange(c) \/ StoreFails
        /\ cmsg' = [cmsg EXCEPT ![c] = NoMsg]
  /\ cpc' = [cpc EXCEPT ![c] = "save"]
  /\ UNCHANGED <<storeVars, queueVars, prodVars, cidx, lastFetch, lastMark,
                 histVars>>

\* Mutant of SavePos: the position is kept in memory only.
SavePosInMemory(c) ==
  /\ cpc[c] = "save"
  /\ lastFetch' = [lastFetch EXCEPT ![c] = cidx[c]]
  /\ cpc' = [cpc EXCEPT ![c] = "ret"]
  /\ UNCHANGED <<storeVars, queueVars, prodVars, cidx, cmsg, lastMark, histVars>>

\* Mutant of SavePos: the position moves to the message to fetch next.
SavePosAhead(c) ==
  /\ cpc[c] = "save"
  /\ kvFetch' = Put(kvFetch, c, cidx[c] + 1)
  /\ lastFetch' = [lastFetch EXCEPT ![c] = cidx[c] + 1]
  /\ cpc' = [cpc EXCEPT ![c] = "ret"]
  /\ UNCHANGED <<kvMsg, kvCap, kvMark, queueVars, prodVars, cidx, cmsg,
                 lastMark, histVars>>

\* The position moves for a message and for the error result alike: the code
\* tests msg against NULL only.
SavePos(c) ==
  /\ cpc[c] = "save"
  /\ kvFetch' = Put(kvFetch, c, cidx[c])
  /\ lastFetch' = [lastFetch EXCEPT ![c] = cidx[c]]
  /\ cpc' = [cpc EXCEPT ![c] = "ret"]
  /\ UNCHANGED <<kvMsg, kvCap, kvMark, queueVars, prodVars, cidx, cmsg,
                 lastMark, histVars>>

SavePosFails(c) ==
  /\ StoreFails
  /\ cpc[c] = "save"
  /\ cmsg[c] # NoMsg
  /\ EndFetch(c)
  /\ UNCHANGED <<storeVars, queueVars, prodVars, lastFetch, lastMark, histVars>>

\* The call returns the message (or the error) to the application.
FetchReturn(c) ==
  /\ cpc[c] = "ret"
  /\ EndFetch(c)
  /\ got' = IF cmsg[c] = NoMsg THEN got
            ELSE [got EXCEPT ![c] = @ \cup {cidx[c]}]
  /\ UNCHANGED <<storeVars, queueVars, prodVars, lastFetch, lastMark, sent,
                 marked>>

-----------------------------------------------------------------------------
(* queue_mark_nth and queue_mark_next *)

\* The mark is stored; consumer->last_mark_index keeps its value.  (A refused
\* index or a failed put returns -1 and changes nothing.)
Mark(c, i) ==
  /\ cpc[c] = "idle"
  /\ i <= cap[CQueue[c]]
  /\ kvMark' = Put(kvMark, c, i)
  /\ marked' = [marked EXCEPT ![c] = i]
  /\ UNCHANGED <<kvMsg, kvCap, kvFetch, queueVars, prodVars, consVars, sent, got>>

MarkNext(c) == Mark(c, lastMark[c] + 1)

MarkNth(c) == \E i \in NthIndexes : Mark(c, i)

-----------------------------------------------------------------------------
(* The end of the process *)

\* The memory is gone; the store keeps every put that was accepted.
LoseMemory ==
  /\ open' = [q \in Queues |-> FALSE]
  /\ cap' = [q \in Queues |-> 0]
  /\ waiters' = [q \in Queues |-> 0]
  /\ ppc' = [p \in Producers |-> "off"]
  /\ cpc' = [c \in Consumers |-> "off"]
  /\ cidx' = [c \in Consumers |-> 0]
  /\ cmsg' = [c \in Consumers |-> NoMsg]
  /\ lastFetch' = [c \in Consumers |-> 0]
  /\ lastMark' = [c \in Consumers |-> 0]
  /\ UNCHANGED <<storeVars, pdata, ptmp, pidx, histVars>>

Crash == Crashes /\ LoseMemory

\* xmq_msg_total_size(NULL) on an index that has no message.
NullDereference(c) ==
  /\ cpc[c] = "get"
  /\ InRange(c)
  /\ cidx[c] \notin DOMAIN kvMsg
  /\ LoseMemory

\* xmq_msg_destroy((xmq_msg_t *)-1) when the position cannot be stored.
FreeErrorResult(c) ==
  /\ StoreFails
  /\ cpc[c] = "save"
  /\ cmsg[c] = NoMsg
  /\ LoseMemory

-----------------------------------------------------------------------------
QueueStep(q) == Open(q) \/ Reopen(q) \/ Close(q)

\* The steps of a call of queue_push_tail that has begun.
PushStep(p) == PushAdopt(p) \/ PushIndex(p) \/ PushPut(p) \/ PushPutFails(p)
               \/ PushBump(p)

\* The steps of a call of queue_fetch_nth that is not asleep.
FetchStep(c) == SpinEnds(c) \/ Recheck(c) \/ MsgFetch(c) \/ SavePos(c) \/ SavePosFails(c)
                \/ FetchReturn(c) \/ NullDereference(c) \/ FreeErrorResult(c)

ProducerCall(p) == RegisterProducer(p) \/ UnregisterProducer(p)
                   \/ \E d \in Data : PushBegin(p, d)

ConsumerCall(c) == RegisterConsumer(c) \/ UnregisterConsumer(c)
                   \/ FetchNext(c) \/ FetchNth(c) \/ MarkNext(c) \/ MarkNth(c)

Next ==
  \/ \E q \in Queues : QueueStep(q)
  \/ \E p \in Producers : ProducerCall(p) \/ PushStep(p)
  \/ \E c \in Consumers : ConsumerCall(c) \/ FetchStep(c)
                          \/ WakeUnsignalled(c) \/ WaitTimesOut(c)
  \/ Crash

Spec == Init /\ [][Next]_vars

\* A thread inside a call keeps running.  Applications are not obliged to
\* make calls, and a wait without a deadline need not end by itself; one with a
\* deadline is not cut short, unsignalled, every time it is entered.
Fairness ==
  /\ \A p \in Producers : WF_vars(PushStep(p))
  /\ \A c \in Consumers : WF_vars(FetchStep(c))
  /\ \A c \in Timed : SF_vars(WaitTimesOut(c))

FairSpec == Spec /\ Fairness
-----------------------------------------------------------------------------
(* Properties *)

\* Every variable holds a value of its C type; the store maps present keys to
\* values of the right shape (xmq.h, struct xmq_queue_struct and
\* xmq_consumer_struct).
TypeOK ==
  /\ DOMAIN kvMsg \subseteq Nat /\ \A i \in DOMAIN kvMsg : kvMsg[i] \in Message
  /\ DOMAIN kvCap \subseteq Queues /\ \A q \in DOMAIN kvCap : kvCap[q] \in Nat
  /\ DOMAIN kvFetch \subseteq Consumers
  /\ \A c \in DOMAIN kvFetch : kvFetch[c] \in Nat
  /\ DOMAIN kvMark \subseteq Consumers
  /\ \A c \in DOMAIN kvMark : kvMark[c] \in Nat
  /\ open \in [Queues -> BOOLEAN]
  /\ cap \in [Queues -> Nat]
  /\ waiters \in [Queues -> Int]
  /\ ppc \in [Producers -> ProducerPC]
  /\ pdata \in [Producers -> Data]
  /\ ptmp \in [Producers -> Nat]
  /\ pidx \in [Producers -> Nat]
  /\ cpc \in [Consumers -> ConsumerPC]
  /\ cidx \in [Consumers -> Nat]
  /\ cmsg \in [Consumers -> Message \cup {NoMsg}]
  /\ lastFetch \in [Consumers -> Nat]
  /\ lastMark \in [Consumers -> Nat]
  /\ sent \in [Queues -> Seq(Data)]
  /\ got \in [Consumers -> SUBSET Nat]
  /\ marked \in [Consumers -> Nat]

\* The i-th message queue_push_tail stored in a queue is still what the store
\* holds under index i, and the stored capacity counts exactly those messages:
\* no later push, crash or restart overwrites or forgets one.
LogIntact ==
  \A q \in Queues :
    /\ InitValue(kvCap, q) = Len(sent[q])
    /\ \A i \in 1..Len(sent[q]) :
         /\ i \in DOMAIN kvMsg
         /\ kvMsg[i] = [index |-> i, data |-> sent[q][i]]

\* msg_capacity of an open queue is the index of the message enqueued last
\* (the comment on xmq_queue_struct), except while a push is between its put
\* and its increment.
CapacityIsLastIndex ==
  \A q \in Queues :
    open[q] /\ (\A p \in Producers : PQueue[p] = q => ppc[p] # "bump")
      => cap[q] = Len(sent[q])

\* queue_fetch_nth hands out the message that was pushed at that position of
\* the consumer's own queue.
FetchReturnsPushed ==
  \A c \in Consumers :
    cpc[c] = "ret" /\ cmsg[c] # NoMsg
      => /\ cidx[c] \in 1..Len(sent[CQueue[c]])
         /\ cmsg[c].index = cidx[c]
         /\ cmsg[c].data = sent[CQueue[c]][cidx[c]]

\* __msg_fetch never asks the store for an index it lets through and gets no
\* value: the code would read the length of a NULL message.
FetchFindsMessage ==
  \A c \in Consumers :
    cpc[c] = "get" /\ InRange(c) => cidx[c] \in DOMAIN kvMsg

\* What is stored as a consumer's position is a position of its queue, so
\* that after a restart it resumes inside the log.
PositionsInLog ==
  \A c \in Consumers :
    /\ InitValue(kvFetch, c) <= InitValue(kvCap, CQueue[c])
    /\ InitValue(kvMark, c) <= InitValue(kvCap, CQueue[c])

\* A consumer that only uses queue_fetch_next is never handed the same message
\* twice, whatever crashes and restarts happen: the position is stored before
\* the message is returned.
NextNeverRepeats ==
  NthIndexes = {} =>
    \A c \in Consumers :
      cpc[c] = "ret" /\ cmsg[c] # NoMsg => cidx[c] \notin got[c]

\* Without store errors and crashes, a consumer that only uses
\* queue_fetch_next has been handed every message up to its position.
NextLeavesNoGap ==
  NthIndexes = {} /\ ~StoreFails /\ ~Crashes =>
    \A c \in Consumers :
      cpc[c] \in {"off", "idle", "wait"}
        => got[c] = 1..InitValue(kvFetch, c)

\* A consumer waiting for a message that is in the store is not left asleep:
\* its call returns (or the process ends).
StoredIsFetched ==
  \A c \in Consumers :
    cpc[c] \in {"wait", "spin", "woken"} /\ cidx[c] <= InitValue(kvCap, CQueue[c])
      ~> cpc[c] \in {"idle", "off"}

\* A fetch that was given a number of milliseconds to wait returns, whether a
\* message comes or not (millis of queue_fetch_nth in xmq.h).
TimedWaitEnds ==
  \A c \in Timed :
    cpc[c] \in {"wait", "spin", "woken", "lost"} ~> cpc[c] \in {"idle", "off"}

\* queue_mark_pos returns the index of the last successful mark.
MarkPosIsLastMark ==
  \A c \in Consumers : cpc[c] # "off" => lastMark[c] = marked[c]

\* last_fetch_index is the index of the message the consumer was last handed.
FetchPosWasFetched ==
  \A c \in Consumers :
    cpc[c] = "idle" => lastFetch[c] \in got[c] \cup {0}
=============================================================================
