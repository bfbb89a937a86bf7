--------------------------- MODULE XmqQueue_proofs ---------------------------
(***************************************************************************)
(* Proofs about XmqQueue, for any number of queues, producers, consumers,  *)
(* messages and payloads.                                                  *)
(***************************************************************************)
EXTENDS XmqRefinement, TLAPS

\* What the store holds after a put, and what the operators of
\* __uint64_test_init yield on a store of natural numbers.
LEMMA PutDef ==
  ASSUME NEW f, NEW k, NEW v
  PROVE  /\ DOMAIN Put(f, k, v) = DOMAIN f \cup {k}
         /\ Put(f, k, v)[k] = v
         /\ \A x \in DOMAIN f : x # k => Put(f, k, v)[x] = f[x]
BY DEF Put

\* __uint64_test_init yields a number and leaves a store of numbers behind,
\* with one more key at most.
LEMMA InitDef ==
  ASSUME NEW f, NEW S, NEW k \in S,
         DOMAIN f \subseteq S, \A x \in DOMAIN f : f[x] \in Nat
  PROVE  /\ InitValue(f, k) \in Nat
         /\ DOMAIN InitStore(f, k) \subseteq S
         /\ \A x \in DOMAIN InitStore(f, k) : InitStore(f, k)[x] \in Nat
         /\ k \in DOMAIN InitStore(f, k)
         /\ InitStore(f, k)[k] = InitValue(f, k)
         /\ \A x \in DOMAIN f : InitStore(f, k)[x] = f[x]
         /\ \A x : InitValue(InitStore(f, k), x) = InitValue(f, x)
BY PutDef DEF InitValue, InitStore, Put

\* Every step of every operation keeps the types.
LEMMA TypeStep == TypeOK /\ [Next]_vars => TypeOK'
<1> SUFFICES ASSUME TypeOK, [Next]_vars PROVE TypeOK'
  OBVIOUS
<1> USE QueueConstants DEF TypeOK, ProducerPC, ConsumerPC
<1>1. ASSUME NEW q \in Queues, Open(q) PROVE TypeOK'
  <2>1. /\ InitValue(kvCap, q) \in Nat
        /\ DOMAIN InitStore(kvCap, q) \subseteq Queues
        /\ \A x \in DOMAIN InitStore(kvCap, q) : InitStore(kvCap, q)[x] \in Nat
    BY InitDef
  <2> QED BY <1>1, <2>1 DEF Open, prodVars, consVars, histVars
<1>2. ASSUME NEW q \in Queues, Reopen(q) PROVE TypeOK'
  BY <1>2 DEF Reopen, storeVars, queueVars, prodVars, histVars
<1>3. ASSUME NEW q \in Queues, Close(q) PROVE TypeOK'
  BY <1>3 DEF Close, storeVars, prodVars, consVars, histVars
<1>4. ASSUME NEW p \in Producers, RegisterProducer(p) PROVE TypeOK'
  BY <1>4 DEF RegisterProducer, storeVars, queueVars, consVars, histVars
<1>5. ASSUME NEW p \in Producers, UnregisterProducer(p) PROVE TypeOK'
  BY <1>5 DEF UnregisterProducer, storeVars, queueVars, consVars, histVars
<1>6. ASSUME NEW p \in Producers, NEW d \in Data, PushBegin(p, d)
      PROVE  TypeOK'
  <2> DEFINE q == PQueue[p]
  <2>1. q \in Queues
    OBVIOUS
  <2> HIDE DEF q
  <2>2. /\ InitValue(kvCap, q) \in Nat
        /\ DOMAIN InitStore(kvCap, q) \subseteq Queues
        /\ \A x \in DOMAIN InitStore(kvCap, q) : InitStore(kvCap, q)[x] \in Nat
    BY <2>1, InitDef
  <2>3. /\ ptmp' \in [Producers -> Nat]
        /\ ppc' \in [Producers -> ProducerPC]
        /\ DOMAIN kvCap' \subseteq Queues
        /\ \A x \in DOMAIN kvCap' : kvCap'[x] \in Nat
    <3>1. \/ /\ ptmp' = [ptmp EXCEPT ![p] = InitValue(kvCap, q)]
             /\ kvCap' = InitStore(kvCap, q)
          \/ UNCHANGED <<ptmp, kvCap>>
      BY <1>6 DEF PushBegin, q
    <3>2. \E l \in ProducerPC : ppc' = [ppc EXCEPT ![p] = l]
      BY <1>6 DEF PushBegin
    <3>3. ptmp' \in [Producers -> Nat]
      BY <3>1, <2>2
    <3>4. ppc' \in [Producers -> ProducerPC]
      BY <3>2
    <3>5. /\ DOMAIN kvCap' \subseteq Queues
          /\ \A x \in DOMAIN kvCap' : kvCap'[x] \in Nat
      BY <3>1, <2>2
    <3> QED BY <3>3, <3>4, <3>5
  <2> QED BY <1>6, <2>3 DEF PushBegin, queueVars, consVars, histVars
<1>7. ASSUME NEW p \in Producers, PushAdopt(p) PROVE TypeOK'
  BY <1>7 DEF PushAdopt, storeVars, consVars, histVars
<1>8. ASSUME NEW p \in Producers, PushIndex(p) PROVE TypeOK'
  <2>1. PQueue[p] \in Queues
    OBVIOUS
  <2>2. pidx' \in [Producers -> Nat] /\ ppc' \in [Producers -> ProducerPC]
    BY <1>8, <2>1 DEF PushIndex
  <2> QED BY <1>8, <2>2 DEF PushIndex, storeVars, queueVars, consVars, histVars
<1>9. ASSUME NEW p \in Producers, PushPut(p) PROVE TypeOK'
  <2>1. PQueue[p] \in Queues /\ pidx[p] \in Nat /\ pdata[p] \in Data
    OBVIOUS
  <2>2. [index |-> pidx[p], data |-> pdata[p]] \in Message
    BY <2>1 DEF Message
  <2>3. /\ DOMAIN kvMsg' \subseteq Nat
        /\ \A i \in DOMAIN kvMsg' : kvMsg'[i] \in Message
    BY <1>9, <2>1, <2>2 DEF PushPut, Put
  <2>4. /\ DOMAIN kvCap' \subseteq Queues
        /\ \A q \in DOMAIN kvCap' : kvCap'[q] \in Nat
    BY <1>9, <2>1 DEF PushPut, Put
  <2>5. sent' \in [Queues -> Seq(Data)]
    BY <1>9, <2>1 DEF PushPut
  <2> QED BY <1>9, <2>3, <2>4, <2>5 DEF PushPut, queueVars, consVars
<1>10. ASSUME NEW p \in Producers, PushPutFails(p) PROVE TypeOK'
  BY <1>10 DEF PushPutFails, storeVars, queueVars, consVars, histVars
<1>11. ASSUME NEW p \in Producers, PushBump(p) PROVE TypeOK'
  <2>1. PQueue[p] \in Queues
    OBVIOUS
  <2>2. cap' \in [Queues -> Nat] /\ ppc' \in [Producers -> ProducerPC]
    BY <1>11, <2>1 DEF PushBump
  <2>3. cpc' \in [Consumers -> ConsumerPC]
    BY <1>11 DEF PushBump
  <2> QED BY <1>11, <2>2, <2>3 DEF PushBump, storeVars, histVars
<1>12. ASSUME NEW c \in Consumers, RegisterConsumer(c) PROVE TypeOK'
  <2>1. /\ InitValue(kvFetch, c) \in Nat
        /\ DOMAIN InitStore(kvFetch, c) \subseteq Consumers
        /\ \A x \in DOMAIN InitStore(kvFetch, c) :
             InitStore(kvFetch, c)[x] \in Nat
    BY InitDef
  <2>2. /\ InitValue(kvMark, c) \in Nat
        /\ DOMAIN InitStore(kvMark, c) \subseteq Consumers
        /\ \A x \in DOMAIN InitStore(kvMark, c) :
             InitStore(kvMark, c)[x] \in Nat
    BY InitDef
  <2> QED BY <1>12, <2>1, <2>2 DEF RegisterConsumer, queueVars, prodVars,
                                   histVars
<1>13. ASSUME NEW c \in Consumers, UnregisterConsumer(c) PROVE TypeOK'
  BY <1>13 DEF UnregisterConsumer, storeVars, queueVars, prodVars, histVars
<1>14. ASSUME NEW c \in Consumers, NEW i \in Nat, Fetch(c, i) PROVE TypeOK'
  <2>1. CQueue[c] \in Queues
    OBVIOUS
  <2>2. waiters' \in [Queues -> Int] /\ cpc' \in [Consumers -> ConsumerPC]
    <3>1. \/ waiters' = [waiters EXCEPT ![CQueue[c]] = @ + 1]
          \/ waiters' = waiters
      BY <1>14 DEF Fetch
    <3>2. \E l \in ConsumerPC : cpc' = [cpc EXCEPT ![c] = l]
      BY <1>14 DEF Fetch
    <3>3. waiters' \in [Queues -> Int]
      BY <2>1, <3>1
    <3>4. cpc' \in [Consumers -> ConsumerPC]
      BY <3>2
    <3> QED BY <3>3, <3>4
  <2> QED BY <1>14, <2>2 DEF Fetch, storeVars, prodVars, histVars
<1>15. ASSUME NEW c \in Consumers, NEW i \in Nat, Mark(c, i) PROVE TypeOK'
  <2>1. /\ DOMAIN kvMark' \subseteq Consumers
        /\ \A x \in DOMAIN kvMark' : kvMark'[x] \in Nat
    BY <1>15 DEF Mark, Put
  <2> QED BY <1>15, <2>1 DEF Mark, queueVars, prodVars, consVars
<1>16. ASSUME NEW c \in Consumers, Recheck(c) PROVE TypeOK'
  <2>1. CQueue[c] \in Queues
    OBVIOUS
  <2>2. waiters' \in [Queues -> Int] /\ cpc' \in [Consumers -> ConsumerPC]
    <3>1. \/ waiters' = [waiters EXCEPT ![CQueue[c]] = @ - 1]
          \/ waiters' = waiters
      BY <1>16 DEF Recheck
    <3>2. \E l \in ConsumerPC : cpc' = [cpc EXCEPT ![c] = l]
      BY <1>16 DEF Recheck
    <3>3. waiters' \in [Queues -> Int]
      BY <2>1, <3>1
    <3>4. cpc' \in [Consumers -> ConsumerPC]
      BY <3>2
    <3> QED BY <3>3, <3>4
  <2> QED BY <1>16, <2>2 DEF Recheck, storeVars, prodVars, histVars
<1>17. ASSUME NEW c \in Consumers, MsgFetch(c) PROVE TypeOK'
  BY <1>17 DEF MsgFetch, storeVars, queueVars, prodVars, histVars
<1>18. ASSUME NEW c \in Consumers, SavePos(c) PROVE TypeOK'
  <2>1. /\ DOMAIN kvFetch' \subseteq Consumers
        /\ \A x \in DOMAIN kvFetch' : kvFetch'[x] \in Nat
    BY <1>18 DEF SavePos, Put
  <2> QED BY <1>18, <2>1 DEF SavePos, queueVars, prodVars, histVars
<1>19. ASSUME NEW c \in Consumers, SavePosFails(c) PROVE TypeOK'
  BY <1>19 DEF SavePosFails, EndFetch, storeVars, queueVars, prodVars, histVars
<1>20. ASSUME NEW c \in Consumers, FetchReturn(c) PROVE TypeOK'
  <2>1. got' \in [Consumers -> SUBSET Nat]
    BY <1>20 DEF FetchReturn
  <2>2. /\ cpc' \in [Consumers -> ConsumerPC]
        /\ cidx' \in [Consumers -> Nat]
        /\ cmsg' \in [Consumers -> Message \cup {NoMsg}]
    BY <1>20 DEF FetchReturn, EndFetch
  <2> QED BY <1>20, <2>1, <2>2 DEF FetchReturn, storeVars, queueVars, prodVars
<1>21. ASSUME LoseMemory PROVE TypeOK'
  BY <1>21 DEF LoseMemory, storeVars, histVars
<1>22. ASSUME NEW c \in Consumers, WakeUnsignalled(c) PROVE TypeOK'
  BY <1>22 DEF WakeUnsignalled, storeVars, queueVars, prodVars, histVars
<1>23. ASSUME NEW c \in Consumers, WaitTimesOut(c) PROVE TypeOK'
  <2>1. CQueue[c] \in Queues
    OBVIOUS
  <2>2. waiters' \in [Queues -> Int]
    BY <1>23, <2>1 DEF WaitTimesOut
  <2>3. /\ cpc' \in [Consumers -> ConsumerPC]
        /\ cidx' \in [Consumers -> Nat]
        /\ cmsg' \in [Consumers -> Message \cup {NoMsg}]
    BY <1>23 DEF WaitTimesOut, EndFetch
  <2> QED BY <1>23, <2>2, <2>3 DEF WaitTimesOut, storeVars, prodVars, histVars
<1>24. ASSUME UNCHANGED vars PROVE TypeOK'
  BY <1>24 DEF vars, storeVars, queueVars, prodVars, consVars, histVars
<1>25. ASSUME NEW c \in Consumers, ConsumerCall(c) PROVE TypeOK'
  <2>1. lastFetch[c] + 1 \in Nat /\ lastMark[c] + 1 \in Nat
    OBVIOUS
  <2> QED BY <1>25, <1>12, <1>13, <1>14, <1>15, <2>1
          DEF ConsumerCall, FetchNext, FetchNth, MarkNext, MarkNth
<1>26. ASSUME NEW c \in Consumers, SpinEnds(c) PROVE TypeOK'
  BY <1>26 DEF SpinEnds, storeVars, queueVars, prodVars, histVars
<1> QED
  <2> HIDE QueueConstants DEF TypeOK, ProducerPC, ConsumerPC
  <2> QED
    BY <1>1, <1>2, <1>3, <1>4, <1>5, <1>6, <1>7, <1>8, <1>9, <1>10, <1>11,
       <1>16, <1>17, <1>18, <1>19, <1>20, <1>21, <1>22, <1>23, <1>24, <1>25, <1>26
    DEF Next, QueueStep, ProducerCall, PushStep, FetchStep, Crash,
        NullDereference, FreeErrorResult

\* Every variable keeps its type.
THEOREM TypeCorrect == Spec => []TypeOK
<1>1. Init => TypeOK
  BY QueueConstants DEF Init, TypeOK, ProducerPC, ConsumerPC, Message
<1> QED BY <1>1, TypeStep, PTL DEF Spec


-----------------------------------------------------------------------------
(* The log of a queue with one producer *)

\* The context serves one blocking queue, and one producer fills it: what two
\* producers or two queues of a context do to each other is shown by TLC.
SoleProducer ==
  /\ \A p, r \in Producers : p = r
  /\ \A q, r \in Queues : q = r
  /\ BlockQueues = Queues

\* Where a call of queue_push_tail is, the capacity in memory, the index it
\* chose and the log agree.
ProducerOK(p) ==
  LET q == PQueue[p] IN
  /\ ppc[p] # "off" => open[q]
  /\ ppc[p] = "adopt" => ptmp[p] = Len(sent[q])
  /\ ppc[p] = "put" => pidx[p] = Len(sent[q]) + 1
  /\ ppc[p] = "bump" => cap[q] + 1 = Len(sent[q])

ProducerInv == \A p \in Producers : ProducerOK(p)

\* What a call of queue_fetch_nth asks for is in the log, and so is every
\* position that was stored.
ConsumerOK(c) ==
  LET q == CQueue[c] IN
  /\ cpc[c] # "off" => open[q]
  /\ cpc[c] = "get" => cidx[c] <= cap[q]
  /\ cpc[c] = "save" => cidx[c] <= Len(sent[q])
  /\ cpc[c] \in {"save", "ret"} /\ cmsg[c] # NoMsg
       => /\ cidx[c] \in 1..Len(sent[q])
          /\ cmsg[c] = [index |-> cidx[c], data |-> sent[q][cidx[c]]]
  /\ cpc[c] = "save" /\ cmsg[c] = NoMsg /\ ~StoreFails => cidx[c] = 0
  /\ InitValue(kvFetch, c) <= Len(sent[q])
  /\ InitValue(kvMark, c) <= Len(sent[q])

ConsumerInv == \A c \in Consumers : ConsumerOK(c)

\* The inductive invariant.
LogInv == LogIntact /\ CapacityIsLastIndex /\ ProducerInv /\ ConsumerInv

\* For a consumer that only uses queue_fetch_next: the index of a call follows
\* the stored position, and nothing past that position was handed out.
NextInv ==
  NthIndexes = {} =>
    \A c \in Consumers :
      /\ \A i \in got[c] : i <= InitValue(kvFetch, c)
      /\ cpc[c] # "off" => lastFetch[c] = InitValue(kvFetch, c)
      /\ cpc[c] \in {"wait", "spin", "woken", "lost", "get", "save"}
           => cidx[c] = lastFetch[c] + 1
      /\ cpc[c] = "ret" => cidx[c] = lastFetch[c] /\ cidx[c] \notin got[c]

\* A put of the fetch position of b leaves that of every other consumer alone.
LEMMA PutValue ==
  ASSUME NEW f, NEW k, NEW v, NEW x
  PROVE  InitValue(Put(f, k, v), x) = IF x = k THEN v ELSE InitValue(f, x)
BY DEF InitValue, Put

\* __uint64_test_init changes no value: a key it adds was taken for 0 before.
LEMMA InitStoreValue ==
  ASSUME NEW f, NEW k, NEW x
  PROVE  InitValue(InitStore(f, k), x) = InitValue(f, x)
BY DEF InitValue, InitStore, Put

\* No step of any thread breaks the relation between a consumer's position and
\* the messages it was handed.
LEMMA NextInvStep == TypeOK /\ NextInv /\ [Next]_vars => NextInv'
<1> SUFFICES ASSUME TypeOK, NextInv, [Next]_vars, NthIndexes = {},
                    NEW c \in Consumers
             PROVE  /\ \A i \in got'[c] : i <= InitValue(kvFetch', c)
                    /\ cpc'[c] # "off" => lastFetch'[c] = InitValue(kvFetch', c)
                    /\ cpc'[c] \in {"wait", "spin", "woken", "lost", "get", "save"}
                         => cidx'[c] = lastFetch'[c] + 1
                    /\ cpc'[c] = "ret" => /\ cidx'[c] = lastFetch'[c]
                                          /\ cidx'[c] \notin got'[c]
  BY DEF NextInv
<1> DEFINE Goal == /\ \A i \in got'[c] : i <= InitValue(kvFetch', c)
                   /\ cpc'[c] # "off" => lastFetch'[c] = InitValue(kvFetch', c)
                   /\ cpc'[c] \in {"wait", "spin", "woken", "lost", "get", "save"}
                        => cidx'[c] = lastFetch'[c] + 1
                   /\ cpc'[c] = "ret" => /\ cidx'[c] = lastFetch'[c]
                                         /\ cidx'[c] \notin got'[c]
<1>0. /\ \A i \in got[c] : i <= InitValue(kvFetch, c)
      /\ cpc[c] # "off" => lastFetch[c] = InitValue(kvFetch, c)
      /\ cpc[c] \in {"wait", "spin", "woken", "lost", "get", "save"}
           => cidx[c] = lastFetch[c] + 1
      /\ cpc[c] = "ret" => cidx[c] = lastFetch[c] /\ cidx[c] \notin got[c]
  BY DEF NextInv
<1>t. /\ InitValue(kvFetch, c) \in Nat /\ got[c] \subseteq Nat
      /\ lastFetch[c] \in Nat /\ cidx[c] \in Nat
      /\ cpc \in [Consumers -> ConsumerPC] /\ cidx \in [Consumers -> Nat]
      /\ lastFetch \in [Consumers -> Nat] /\ got \in [Consumers -> SUBSET Nat]
  BY DEF TypeOK, InitValue
<1>1. ASSUME UNCHANGED <<got, kvFetch, cpc, lastFetch, cidx>> PROVE Goal
  BY <1>0, <1>1
<1>2. ASSUME UNCHANGED <<got, kvFetch, lastFetch, cidx>>,
             \/ cpc'[c] = cpc[c]
             \/ cpc[c] = "wait" /\ cpc'[c] \in {"woken", "lost"}
      PROVE  Goal
  BY <1>0, <1>2
<1>3. ASSUME NEW q \in Queues, QueueStep(q) PROVE Goal
  <2>1. ASSUME Reopen(q) PROVE Goal
    BY <2>1, <1>2 DEF Reopen, SleepingOn, storeVars, histVars
  <2> QED BY <1>3, <2>1, <1>1 DEF QueueStep, Open, Close, storeVars, consVars,
                                  histVars
<1>4. ASSUME NEW p \in Producers, ProducerCall(p) PROVE Goal
  BY <1>4, <1>1 DEF ProducerCall, RegisterProducer, UnregisterProducer,
                    PushBegin, storeVars, consVars, histVars
<1>5. ASSUME NEW p \in Producers, PushStep(p) PROVE Goal
  <2>1. ASSUME PushBump(p) PROVE Goal
    BY <2>1, <1>2 DEF PushBump, SleepingOn, storeVars, histVars
  <2> QED BY <1>5, <2>1, <1>1 DEF PushStep, PushAdopt, PushIndex, PushPut,
                                  PushPutFails, storeVars, consVars, histVars
<1>6. ASSUME NEW b \in Consumers, RegisterConsumer(b) PROVE Goal
  <2>1. UNCHANGED <<got, cidx>> /\ InitValue(kvFetch', c) = InitValue(kvFetch, c)
    BY <1>6, InitStoreValue DEF RegisterConsumer, histVars
  <2>2. CASE b = c
    <3>1. cpc'[c] = "idle" /\ lastFetch'[c] = InitValue(kvFetch, c)
      BY <1>6, <1>t, <2>2 DEF RegisterConsumer
    <3> QED BY <1>0, <2>1, <3>1
  <2>3. CASE b # c
    <3>1. cpc'[c] = cpc[c] /\ lastFetch'[c] = lastFetch[c]
      BY <1>6, <1>t, <2>3 DEF RegisterConsumer
    <3> QED BY <1>0, <2>1, <3>1
  <2> QED BY <2>2, <2>3
<1>7. ASSUME NEW b \in Consumers, UnregisterConsumer(b) PROVE Goal
  <2>1. UNCHANGED <<got, kvFetch, cidx, lastFetch>>
    BY <1>7 DEF UnregisterConsumer, storeVars, histVars
  <2>2. cpc'[c] = cpc[c] \/ cpc'[c] = "off"
    BY <1>7, <1>t DEF UnregisterConsumer
  <2> QED BY <1>0, <2>1, <2>2
<1>8. ASSUME NEW b \in Consumers, FetchNext(b) PROVE Goal
  <2>1. UNCHANGED <<got, kvFetch, lastFetch>>
    BY <1>8 DEF FetchNext, Fetch, storeVars, histVars
  <2>2. CASE b = c
    <3>1. /\ cpc[c] = "idle" /\ cpc'[c] \in {"get", "wait", "spin"}
          /\ cidx'[c] = lastFetch[c] + 1
      BY <1>8, <1>t, <2>2 DEF FetchNext, Fetch
    <3> QED BY <1>0, <2>1, <3>1
  <2>3. CASE b # c
    <3>1. cpc'[c] = cpc[c] /\ cidx'[c] = cidx[c]
      BY <1>8, <1>t, <2>3 DEF FetchNext, Fetch
    <3> QED BY <1>0, <2>1, <3>1
  <2> QED BY <2>2, <2>3
<1>9. ASSUME NEW b \in Consumers, ConsumerCall(b) PROVE Goal
  <2>1. ASSUME MarkNext(b) PROVE Goal
    BY <2>1, <1>1 DEF MarkNext, Mark, consVars
  <2> QED BY <1>6, <1>7, <1>8, <1>9, <2>1
          DEF ConsumerCall, FetchNth, MarkNth
<1>10. ASSUME NEW b \in Consumers, Recheck(b) PROVE Goal
  <2>1. UNCHANGED <<got, kvFetch, lastFetch, cidx>>
    BY <1>10 DEF Recheck, storeVars, histVars
  <2>2. cpc'[c] = cpc[c] \/ (cpc[c] = "woken" /\ cpc'[c] \in {"get", "wait"})
    BY <1>10, <1>t DEF Recheck
  <2> QED BY <1>0, <2>1, <2>2
<1>11. ASSUME NEW b \in Consumers, MsgFetch(b) PROVE Goal
  <2>1. UNCHANGED <<got, kvFetch, lastFetch, cidx>>
    BY <1>11 DEF MsgFetch, storeVars, histVars
  <2>2. cpc'[c] = cpc[c] \/ (cpc[c] = "get" /\ cpc'[c] = "save")
    BY <1>11, <1>t DEF MsgFetch
  <2> QED BY <1>0, <2>1, <2>2
<1>12. ASSUME NEW b \in Consumers, SavePos(b) PROVE Goal
  <2>1. UNCHANGED <<got, cidx>>
    BY <1>12 DEF SavePos, histVars
  <2>2. CASE b = c
    <3>1. /\ cpc[c] = "save" /\ cpc'[c] = "ret"
          /\ lastFetch'[c] = cidx[c] /\ InitValue(kvFetch', c) = cidx[c]
      BY <1>12, <1>t, <2>2, PutValue DEF SavePos
    <3>2. cidx[c] = InitValue(kvFetch, c) + 1
      BY <1>0, <3>1
    <3>3. cidx[c] \notin got[c]
      BY <1>0, <1>t, <3>2
    <3>4. \A i \in got[c] : i <= cidx[c]
      BY <1>0, <1>t, <3>2
    <3> QED BY <2>1, <3>1, <3>3, <3>4
  <2>3. CASE b # c
    <3>1. /\ cpc'[c] = cpc[c] /\ lastFetch'[c] = lastFetch[c]
          /\ InitValue(kvFetch', c) = InitValue(kvFetch, c)
      BY <1>12, <1>t, <2>3, PutValue DEF SavePos
    <3> QED BY <1>0, <2>1, <3>1
  <2> QED BY <2>2, <2>3
<1>13. ASSUME NEW b \in Consumers, EndFetch(b), UNCHANGED <<kvFetch, lastFetch>>,
              got' = got \/ /\ cpc[b] = "ret"
                            /\ got' = [got EXCEPT ![b] = @ \cup {cidx[b]}],
              cpc[b] # "off"
       PROVE  Goal
  <2>1. CASE b = c
    <3>1. cpc'[c] = "idle" /\ cpc[c] # "off"
      BY <1>13, <1>t, <2>1 DEF EndFetch
    <3>2. \A i \in got'[c] : i \in got[c] \/ (i = cidx[c] /\ cpc[c] = "ret")
      BY <1>13, <1>t, <2>1
    <3>3. \A i \in got'[c] : i <= InitValue(kvFetch, c)
      BY <1>0, <1>t, <3>2
    <3> QED BY <1>0, <1>13, <3>1, <3>3
  <2>2. CASE b # c
    <3>1. cpc'[c] = cpc[c] /\ cidx'[c] = cidx[c] /\ got'[c] = got[c]
      BY <1>13, <1>t, <2>2 DEF EndFetch
    <3> QED BY <1>0, <1>13, <3>1
  <2> QED BY <2>1, <2>2
<1>14. ASSUME LoseMemory PROVE Goal
  BY <1>0, <1>14 DEF LoseMemory, storeVars, histVars
<1>15. ASSUME NEW b \in Consumers, FetchStep(b) PROVE Goal
  <2>0. ASSUME SpinEnds(b) PROVE Goal
    <3>1. UNCHANGED <<got, kvFetch, lastFetch, cidx>>
      BY <2>0 DEF SpinEnds, storeVars, histVars
    <3>2. cpc'[c] = cpc[c] \/ (cpc[c] = "spin" /\ cpc'[c] = "get")
      BY <2>0, <1>t DEF SpinEnds
    <3> QED BY <1>0, <3>1, <3>2
  <2>1. ASSUME SavePosFails(b) PROVE Goal
    BY <2>1, <1>13 DEF SavePosFails, storeVars, histVars
  <2>2. ASSUME FetchReturn(b) PROVE Goal
    BY <2>2, <1>13 DEF FetchReturn, storeVars
  <2> QED BY <1>10, <1>11, <1>12, <1>14, <1>15, <2>0, <2>1, <2>2
          DEF FetchStep, NullDereference, FreeErrorResult
<1>16. ASSUME NEW b \in Consumers, WakeUnsignalled(b) PROVE Goal
  <2>1. cpc'[c] = cpc[c] \/ (cpc[c] = "wait" /\ cpc'[c] = "woken")
    BY <1>16, <1>t DEF WakeUnsignalled
  <2> QED BY <1>2, <1>16, <2>1 DEF WakeUnsignalled, storeVars, histVars
<1>17. ASSUME NEW b \in Consumers, WaitTimesOut(b) PROVE Goal
  BY <1>13, <1>17 DEF WaitTimesOut, storeVars, histVars
<1>18. ASSUME UNCHANGED vars PROVE Goal
  BY <1>1, <1>18 DEF vars, storeVars, consVars, histVars
<1> QED BY <1>3, <1>4, <1>5, <1>9, <1>14, <1>15, <1>16, <1>17, <1>18
        DEF Next, Crash

\* A consumer that only uses queue_fetch_next is never handed a message twice,
\* for any number of producers, crashes and restarts.
THEOREM NeverRepeats == Spec => []NextNeverRepeats
<1>1. Init => NextInv
  BY DEF Init, NextInv
<1>2. NextInv => NextNeverRepeats
  BY DEF NextInv, NextNeverRepeats
<1> QED BY <1>1, <1>2, TypeCorrect, NextInvStep, PTL DEF Spec

-----------------------------------------------------------------------------
\* The empty store satisfies the log invariant.
LEMMA LogInvInit == Init => LogInv
BY QueueConstants DEF Init, LogInv, LogIntact, CapacityIsLastIndex, ProducerInv,
                      ProducerOK, ConsumerInv, ConsumerOK, InitValue

\* The capacity in memory is never ahead of the log.
LEMMA CapWithinLog ==
  ASSUME TypeOK, LogInv, SoleProducer, NEW q \in Queues, open[q]
  PROVE  cap[q] <= Len(sent[q])
<1>1. cap[q] \in Nat /\ Len(sent[q]) \in Nat
  BY DEF TypeOK
<1>2. CASE \E p \in Producers : PQueue[p] = q /\ ppc[p] = "bump"
  BY <1>1, <1>2 DEF LogInv, ProducerInv, ProducerOK
<1>3. CASE \A p \in Producers : PQueue[p] = q => ppc[p] # "bump"
  BY <1>1, <1>3 DEF LogInv, CapacityIsLastIndex
<1> QED BY <1>2, <1>3

\* Steps that leave the log, the capacity and the producers alone.
LEMMA LogFrame ==
  ASSUME LogInv, UNCHANGED <<kvMsg, sent, open, cap, ppc, ptmp, pidx>>,
         \A q \in Queues : InitValue(kvCap', q) = InitValue(kvCap, q)
  PROVE  LogIntact' /\ CapacityIsLastIndex' /\ ProducerInv'
BY DEF LogInv, LogIntact, CapacityIsLastIndex, ProducerInv, ProducerOK

\* A step that leaves one consumer, its positions, the log and the capacity
\* alone.
LEMMA ConsumerFrame ==
  ASSUME NEW c \in Consumers, ConsumerOK(c),
         cpc'[c] = cpc[c], cidx'[c] = cidx[c], cmsg'[c] = cmsg[c],
         InitValue(kvFetch', c) = InitValue(kvFetch, c),
         InitValue(kvMark', c) = InitValue(kvMark, c),
         UNCHANGED <<sent, open, cap>>
  PROVE  ConsumerOK(c)'
BY DEF ConsumerOK

\* A step that ends a call, or moves it between the states of the wait loop.
LEMMA ConsumerWaits ==
  ASSUME NEW c \in Consumers, ConsumerOK(c), cpc[c] # "off",
         cpc'[c] \in {"idle", "wait", "woken", "lost"},
         UNCHANGED <<sent, open, kvFetch, kvMark>>
  PROVE  ConsumerOK(c)'
BY DEF ConsumerOK

\* What the steps of queue_push_tail do to the log invariant.
LEMMA PushStepInv ==
  ASSUME TypeOK, LogInv, SoleProducer, NEW p \in Producers, PushStep(p)
  PROVE  LogInv'
<1> DEFINE q == PQueue[p]
           n == Len(sent[q])
<1>1. /\ q \in Queues /\ \A r \in Queues : r = q
      /\ \A r \in Producers : r = p
      /\ \A c \in Consumers : CQueue[c] = q
      /\ q \in BlockQueues
  BY QueueConstants DEF SoleProducer
<1>2. /\ sent[q] \in Seq(Data) /\ n \in Nat /\ cap[q] \in Nat
      /\ sent \in [Queues -> Seq(Data)] /\ cap \in [Queues -> Nat]
      /\ ppc \in [Producers -> ProducerPC] /\ ptmp \in [Producers -> Nat]
      /\ pidx \in [Producers -> Nat] /\ pdata[p] \in Data
      /\ cpc \in [Consumers -> ConsumerPC] /\ cidx \in [Consumers -> Nat]
  BY <1>1 DEF TypeOK
<1>3. /\ ProducerOK(p)
      /\ \A c \in Consumers : ConsumerOK(c)
      /\ InitValue(kvCap, q) = n
      /\ \A i \in 1..n : /\ i \in DOMAIN kvMsg
                         /\ kvMsg[i] = [index |-> i, data |-> sent[q][i]]
      /\ open[q] /\ ppc[p] # "bump" => cap[q] = n
  BY <1>1 DEF LogInv, LogIntact, CapacityIsLastIndex, ProducerInv, ConsumerInv
<1> HIDE DEF q
<1>4. ASSUME PushAdopt(p) PROVE LogInv'
  <2>1. open[q] /\ ppc[p] = "adopt" /\ ptmp[p] = n
    BY <1>3, <1>4 DEF PushAdopt, ProducerOK, q
  <2>2. UNCHANGED cap
    BY <1>2, <1>3, <1>4, <2>1 DEF PushAdopt, q
  <2>3. ProducerOK(p)'
    BY <1>2, <1>3, <1>4, <2>1, <2>2 DEF PushAdopt, ProducerOK, q, histVars
  <2>4. ProducerInv'
    BY <1>1, <2>3 DEF ProducerInv
  <2>5. ConsumerInv'
    BY <1>3, <1>4, <2>2, ConsumerFrame
    DEF PushAdopt, ConsumerInv, storeVars, consVars, histVars
  <2>6. LogIntact' /\ CapacityIsLastIndex'
    <3>1. UNCHANGED <<kvMsg, kvCap, sent, open>>
      BY <1>4 DEF PushAdopt, storeVars, histVars
    <3>2. LogIntact'
      BY <3>1 DEF LogInv, LogIntact
    <3>3. \A r \in Queues : cap'[r] = Len(sent'[r])
      BY <1>1, <1>3, <2>1, <2>2, <3>1
    <3> QED BY <3>2, <3>3 DEF CapacityIsLastIndex
  <2> QED BY <2>4, <2>5, <2>6 DEF LogInv
<1>5. ASSUME PushIndex(p) \/ PushPutFails(p) PROVE LogInv'
  <2>1. /\ ppc[p] \in {"index", "put"} /\ open[q] /\ cap[q] = n
        /\ UNCHANGED <<kvMsg, kvCap, kvFetch, kvMark, sent, open, cap, cpc,
                       cidx, cmsg>>
    BY <1>3, <1>5 DEF PushIndex, PushPutFails, ProducerOK, q, storeVars,
                      queueVars, consVars, histVars
  <2>2. ProducerOK(p)'
    BY <1>2, <1>5, <2>1 DEF PushIndex, PushPutFails, ProducerOK, q
  <2>3. ProducerInv'
    BY <1>1, <2>2 DEF ProducerInv
  <2>4. ConsumerInv'
    BY <1>3, <2>1, ConsumerFrame DEF ConsumerInv
  <2>5. LogIntact'
    BY <2>1 DEF LogInv, LogIntact
  <2>6. CapacityIsLastIndex'
    BY <1>1, <2>1 DEF CapacityIsLastIndex
  <2> QED BY <2>3, <2>4, <2>5, <2>6 DEF LogInv
<1>6. ASSUME PushPut(p) PROVE LogInv'
  <2>1. ppc[p] = "put" /\ open[q] /\ cap[q] = n /\ pidx[p] = n + 1
    BY <1>3, <1>6 DEF PushPut, ProducerOK, q
  <2>2. /\ UNCHANGED <<kvFetch, kvMark, open, cap, cpc, cidx, cmsg>>
        /\ kvMsg' = Put(kvMsg, n + 1, [index |-> n + 1, data |-> pdata[p]])
        /\ kvCap' = Put(kvCap, q, n + 1)
        /\ sent' = [sent EXCEPT ![q] = Append(sent[q], pdata[p])]
        /\ ppc' = [ppc EXCEPT ![p] = "bump"]
    BY <1>1, <1>6, <2>1 DEF PushPut, q, queueVars, consVars
  <2>3. /\ Len(sent'[q]) = n + 1
        /\ \A i \in 1..n : sent'[q][i] = sent[q][i]
        /\ sent'[q][n + 1] = pdata[p]
    BY <1>1, <1>2, <2>2
  <2>4. InitValue(kvCap', q) = n + 1
    BY <2>2, PutValue
  <2>5. \A i \in 1..(n + 1) :
          /\ i \in DOMAIN kvMsg'
          /\ kvMsg'[i] = [index |-> i, data |-> sent'[q][i]]
    <3> SUFFICES ASSUME NEW i \in 1..(n + 1)
                 PROVE  /\ i \in DOMAIN kvMsg'
                        /\ kvMsg'[i] = [index |-> i, data |-> sent'[q][i]]
      OBVIOUS
    <3>1. CASE i = n + 1
      BY <2>2, <2>3, <3>1 DEF Put
    <3>2. CASE i # n + 1
      <4>1. i \in 1..n
        BY <1>2, <3>2
      <4>2. /\ i \in DOMAIN kvMsg
            /\ kvMsg[i] = [index |-> i, data |-> sent[q][i]]
        BY <1>3, <4>1
      <4>3. i \in DOMAIN kvMsg' /\ kvMsg'[i] = kvMsg[i]
        BY <2>2, <3>2, <4>2 DEF Put
      <4> QED BY <2>3, <4>1, <4>2, <4>3
    <3> QED BY <3>1, <3>2
  <2>6. LogIntact'
    BY <1>1, <2>3, <2>4, <2>5 DEF LogIntact
  <2>7. ppc'[p] = "bump"
    BY <1>2, <2>2
  <2>8. CapacityIsLastIndex'
    BY <1>1, <2>7 DEF CapacityIsLastIndex, q
  <2>9. ProducerOK(p)'
    BY <2>1, <2>2, <2>3, <2>7 DEF ProducerOK, q
  <2>10. ProducerInv'
    BY <1>1, <2>9 DEF ProducerInv
  <2>11. ConsumerInv'
    <3> SUFFICES ASSUME NEW c \in Consumers PROVE ConsumerOK(c)'
      BY DEF ConsumerInv
    <3>1. ConsumerOK(c) /\ CQueue[c] = q
      BY <1>1, <1>3
    <3>2. cidx[c] \in Nat /\ InitValue(kvFetch, c) \in Nat
          /\ InitValue(kvMark, c) \in Nat
      BY DEF TypeOK, InitValue
    <3> QED BY <1>2, <2>2, <2>3, <3>1, <3>2 DEF ConsumerOK
  <2> QED BY <2>6, <2>8, <2>10, <2>11 DEF LogInv
<1>7. ASSUME PushBump(p) PROVE LogInv'
  <2>1. ppc[p] = "bump" /\ open[q] /\ cap[q] + 1 = n
    BY <1>3, <1>7 DEF PushBump, ProducerOK, q
  <2>2. /\ UNCHANGED <<kvMsg, kvCap, kvFetch, kvMark, sent, open, cidx, cmsg>>
        /\ cap'[q] = n /\ ppc'[p] = "idle"
    BY <1>1, <1>2, <1>7, <2>1 DEF PushBump, q, storeVars, histVars
  <2>3. LogIntact'
    BY <2>2 DEF LogInv, LogIntact
  <2>4. CapacityIsLastIndex'
    BY <1>1, <2>2 DEF CapacityIsLastIndex
  <2>5. ProducerOK(p)'
    BY <2>1, <2>2 DEF ProducerOK, q
  <2>6. ProducerInv'
    BY <1>1, <2>5 DEF ProducerInv
  <2>7. ConsumerInv'
    <3> SUFFICES ASSUME NEW c \in Consumers PROVE ConsumerOK(c)'
      BY DEF ConsumerInv
    <3>1. ConsumerOK(c) /\ CQueue[c] = q /\ cidx[c] \in Nat
      BY <1>1, <1>2, <1>3
    <3>2. cpc'[c] = cpc[c] \/ (cpc[c] = "wait" /\ cpc'[c] = "woken")
      BY <1>7 DEF PushBump, SleepingOn
    <3> QED BY <1>2, <2>1, <2>2, <3>1, <3>2 DEF ConsumerOK
  <2> QED BY <2>3, <2>4, <2>6, <2>7 DEF LogInv
<1> QED BY <1>4, <1>5, <1>6, <1>7 DEF PushStep

\* What opening and closing queues does to it.
LEMMA QueueStepInv ==
  ASSUME TypeOK, LogInv, SoleProducer, NEW q \in Queues, QueueStep(q)
  PROVE  LogInv'
<1>1. /\ \A r \in Queues : r = q
      /\ \A p \in Producers : PQueue[p] = q
      /\ \A c \in Consumers : CQueue[c] = q
  BY QueueConstants DEF SoleProducer
<1>2. /\ \A p \in Producers : ProducerOK(p)
      /\ \A c \in Consumers : ConsumerOK(c)
      /\ InitValue(kvCap, q) = Len(sent[q])
  BY DEF LogInv, LogIntact, ProducerInv, ConsumerInv
<1>3. /\ open \in [Queues -> BOOLEAN] /\ cap \in [Queues -> Nat]
      /\ cpc \in [Consumers -> ConsumerPC]
  BY DEF TypeOK
<1>4. ASSUME Open(q) PROVE LogInv'
  <2>1. /\ ~open[q] /\ open'[q] /\ cap'[q] = Len(sent[q])
        /\ UNCHANGED <<kvMsg, sent, ppc, cpc, cidx, cmsg, kvFetch, kvMark>>
    BY <1>2, <1>3, <1>4 DEF Open, prodVars, consVars, histVars
  <2>2. InitValue(kvCap', q) = InitValue(kvCap, q)
    BY <1>4, InitStoreValue DEF Open
  <2>3. LogIntact'
    BY <1>1, <2>1, <2>2 DEF LogInv, LogIntact
  <2>4. CapacityIsLastIndex'
    BY <1>1, <2>1 DEF CapacityIsLastIndex
  <2>5. ProducerInv'
    BY <1>1, <1>2, <2>1 DEF ProducerInv, ProducerOK
  <2>6. ConsumerInv'
    BY <1>1, <1>2, <2>1 DEF ConsumerInv, ConsumerOK
  <2> QED BY <2>3, <2>4, <2>5, <2>6 DEF LogInv
<1>5. ASSUME Reopen(q) PROVE LogInv'
  <2>1. LogIntact' /\ CapacityIsLastIndex' /\ ProducerInv'
    BY <1>5, LogFrame DEF Reopen, storeVars, queueVars, prodVars, histVars
  <2>2. ASSUME NEW c \in Consumers PROVE ConsumerOK(c)'
    <3>1. cpc'[c] = cpc[c] \/ (cpc[c] = "wait" /\ cpc'[c] = "lost")
      BY <1>5 DEF Reopen, SleepingOn
    <3> QED BY <1>2, <1>5, <3>1, ConsumerFrame, ConsumerWaits
            DEF Reopen, storeVars, queueVars, histVars
  <2> QED BY <2>1, <2>2 DEF LogInv, ConsumerInv
<1>6. ASSUME Close(q) PROVE LogInv'
  <2>1. /\ \A p \in Producers : ppc[p] = "off"
        /\ \A c \in Consumers : cpc[c] = "off"
        /\ ~open'[q]
        /\ UNCHANGED <<kvMsg, kvCap, sent, ppc, cpc, kvFetch, kvMark>>
    BY <1>1, <1>3, <1>6 DEF Close, storeVars, prodVars, consVars, histVars
  <2>2. LogIntact'
    BY <2>1 DEF LogInv, LogIntact
  <2>3. CapacityIsLastIndex'
    BY <1>1, <2>1 DEF CapacityIsLastIndex
  <2>4. ProducerInv'
    BY <2>1 DEF ProducerInv, ProducerOK
  <2>5. ConsumerInv'
    BY <1>2, <2>1 DEF ConsumerInv, ConsumerOK
  <2> QED BY <2>2, <2>3, <2>4, <2>5 DEF LogInv
<1> QED BY <1>4, <1>5, <1>6 DEF QueueStep

\* What register, unregister and the first step of queue_push_tail do to the
\* log invariant.
LEMMA ProducerCallInv ==
  ASSUME TypeOK, LogInv, SoleProducer, NEW p \in Producers, ProducerCall(p)
  PROVE  LogInv'
<1> DEFINE q == PQueue[p]
<1>1. /\ q \in Queues /\ \A r \in Queues : r = q
      /\ \A r \in Producers : r = p
  BY QueueConstants DEF SoleProducer
<1>2. /\ ProducerOK(p) /\ \A c \in Consumers : ConsumerOK(c)
      /\ InitValue(kvCap, q) = Len(sent[q])
      /\ open[q] /\ ppc[p] # "bump" => cap[q] = Len(sent[q])
  BY <1>1 DEF LogInv, LogIntact, CapacityIsLastIndex, ProducerInv, ConsumerInv
<1>3. ppc \in [Producers -> ProducerPC] /\ ptmp \in [Producers -> Nat]
  BY DEF TypeOK
<1>4. /\ UNCHANGED <<kvMsg, kvFetch, kvMark, sent, open, cap, cpc, cidx, cmsg,
                     pidx>>
      /\ InitValue(kvCap', q) = InitValue(kvCap, q)
  <2>1. kvCap' = kvCap \/ kvCap' = InitStore(kvCap, q)
    BY DEF ProducerCall, RegisterProducer, UnregisterProducer, PushBegin,
           storeVars
  <2>2. InitValue(kvCap', q) = InitValue(kvCap, q)
    BY <2>1, InitStoreValue
  <2> QED BY <2>2 DEF ProducerCall, RegisterProducer, UnregisterProducer,
                      PushBegin, storeVars, queueVars, consVars, histVars
<1>5. /\ ppc'[p] \in {"idle", "off", "adopt", "index"}
      /\ ppc[p] \in {"off", "idle"}
      /\ ppc[p] = "off" => open[q]
      /\ ppc'[p] = "adopt" => ptmp'[p] = Len(sent[q])
  <2>1. ASSUME RegisterProducer(p) \/ UnregisterProducer(p)
        PROVE  /\ ppc'[p] \in {"idle", "off"} /\ ppc[p] \in {"off", "idle"}
               /\ ppc[p] = "off" => open[q]
    BY <1>3, <2>1 DEF RegisterProducer, UnregisterProducer
  <2>2. ASSUME NEW d \in Data, PushBegin(p, d)
        PROVE  /\ ppc'[p] \in {"adopt", "index"} /\ ppc[p] = "idle"
               /\ ppc'[p] = "adopt" => ptmp'[p] = InitValue(kvCap, q)
    BY <1>3, <2>2 DEF PushBegin
  <2> QED BY <1>2, <2>1, <2>2 DEF ProducerCall
<1>6. open[q] /\ cap[q] = Len(sent[q])
  BY <1>2, <1>5 DEF ProducerOK
<1> HIDE DEF q
<1>7. LogIntact'
  BY <1>1, <1>4 DEF LogInv, LogIntact
<1>8. CapacityIsLastIndex'
  BY <1>1, <1>4, <1>6 DEF CapacityIsLastIndex
<1>9. ProducerOK(p)'
  BY <1>4, <1>5, <1>6 DEF ProducerOK, q
<1>10. ProducerInv'
  BY <1>1, <1>9 DEF ProducerInv
<1>11. ConsumerInv'
  BY <1>2, <1>4, ConsumerFrame DEF ConsumerInv
<1> QED BY <1>7, <1>8, <1>10, <1>11 DEF LogInv

\* What the calls of a consumer, queue_fetch_nth and queue_mark_nth above all,
\* do to the log invariant.
LEMMA ConsumerStepInv ==
  ASSUME TypeOK, LogInv, SoleProducer, NEW b \in Consumers,
         \/ ConsumerCall(b)
         \/ FetchStep(b) /\ ~LoseMemory
         \/ WakeUnsignalled(b)
         \/ WaitTimesOut(b)
  PROVE  LogInv'
<1> DEFINE q == CQueue[b]
           n == Len(sent[q])
<1>1. q \in Queues /\ sent[q] \in Seq(Data) /\ n \in Nat /\ cap[q] \in Nat
  BY QueueConstants DEF TypeOK
<1>2. /\ cpc \in [Consumers -> ConsumerPC] /\ cidx \in [Consumers -> Nat]
      /\ cmsg \in [Consumers -> Message \cup {NoMsg}]
      /\ lastFetch[b] \in Nat /\ lastMark[b] \in Nat /\ cidx[b] \in Nat
  BY DEF TypeOK
<1>3. /\ \A c \in Consumers : ConsumerOK(c)
      /\ open[q] => cap[q] <= n
      /\ \A i \in 1..n : /\ i \in DOMAIN kvMsg
                         /\ kvMsg[i] = [index |-> i, data |-> sent[q][i]]
  BY <1>1, CapWithinLog DEF LogInv, LogIntact, ConsumerInv
<1> HIDE DEF q
<1>4. ASSUME UNCHANGED <<kvMsg, kvCap, prodVars, sent, open, cap>>,
             \A c \in Consumers : ConsumerOK(c)'
      PROVE  LogInv'
  BY <1>4, LogFrame DEF LogInv, ConsumerInv, prodVars
<1>5. ASSUME RegisterConsumer(b) PROVE LogInv'
  <2>1. UNCHANGED <<kvMsg, kvCap, prodVars, sent, open, cap, cidx, cmsg>>
    BY <1>5 DEF RegisterConsumer, queueVars, histVars
  <2>2. \A c : /\ InitValue(kvFetch', c) = InitValue(kvFetch, c)
               /\ InitValue(kvMark', c) = InitValue(kvMark, c)
    BY <1>5, InitStoreValue DEF RegisterConsumer
  <2>3. ConsumerOK(b)'
    <3>1. cpc'[b] = "idle" /\ open[q]
      BY <1>2, <1>5 DEF RegisterConsumer, q
    <3> QED BY <1>3, <2>1, <2>2, <3>1 DEF ConsumerOK, q
  <2>4. ASSUME NEW c \in Consumers, c # b PROVE ConsumerOK(c)'
    <3>1. cpc'[c] = cpc[c]
      BY <1>2, <1>5, <2>4 DEF RegisterConsumer
    <3> QED BY <1>3, <2>1, <2>2, <3>1, ConsumerFrame
  <2> QED BY <1>4, <2>1, <2>3, <2>4
<1>6. ASSUME UnregisterConsumer(b) PROVE LogInv'
  <2>1. UNCHANGED <<kvMsg, kvCap, kvFetch, kvMark, prodVars, sent, open, cap,
                    cidx, cmsg>>
    BY <1>6 DEF UnregisterConsumer, storeVars, queueVars, histVars
  <2>2. ConsumerOK(b)'
    <3>1. cpc'[b] = "off"
      BY <1>2, <1>6 DEF UnregisterConsumer
    <3> QED BY <1>3, <2>1, <3>1 DEF ConsumerOK
  <2>3. ASSUME NEW c \in Consumers, c # b PROVE ConsumerOK(c)'
    <3>1. cpc'[c] = cpc[c]
      BY <1>2, <1>6, <2>3 DEF UnregisterConsumer
    <3> QED BY <1>3, <2>1, <3>1, ConsumerFrame
  <2> QED BY <1>4, <2>1, <2>2, <2>3
<1>7. ASSUME NEW i \in Nat, Fetch(b, i) PROVE LogInv'
  <2>1. UNCHANGED <<kvMsg, kvCap, kvFetch, kvMark, prodVars, sent, open, cap,
                    cmsg>>
    BY <1>7 DEF Fetch, storeVars, queueVars, histVars
  <2>2. ConsumerOK(b)'
    <3>1. /\ cpc[b] = "idle" /\ cidx'[b] = i
          /\ \/ cpc'[b] = "get" /\ i <= cap[q]
             \/ cpc'[b] \in {"wait", "spin"}
      BY <1>2, <1>7 DEF Fetch, q
    <3> QED BY <1>3, <2>1, <3>1 DEF ConsumerOK, q
  <2>3. ASSUME NEW c \in Consumers, c # b PROVE ConsumerOK(c)'
    <3>1. cpc'[c] = cpc[c] /\ cidx'[c] = cidx[c]
      BY <1>2, <1>7, <2>3 DEF Fetch
    <3> QED BY <1>3, <2>1, <3>1, ConsumerFrame
  <2> QED BY <1>4, <2>1, <2>2, <2>3
<1>8. ASSUME NEW i \in Nat, Mark(b, i) PROVE LogInv'
  <2>1. UNCHANGED <<kvMsg, kvCap, kvFetch, prodVars, sent, open, cap, cpc, cidx,
                    cmsg>>
    BY <1>8 DEF Mark, queueVars, consVars
  <2>2. ConsumerOK(b)'
    <3>1. cpc[b] = "idle" /\ i <= cap[q] /\ InitValue(kvMark', b) = i
      BY <1>8, PutValue DEF Mark, q
    <3>2. open[q]
      BY <1>3, <3>1 DEF ConsumerOK, q
    <3>3. i <= n
      BY <1>1, <1>3, <3>1, <3>2
    <3> QED BY <1>3, <2>1, <3>1, <3>3 DEF ConsumerOK, q
  <2>3. ASSUME NEW c \in Consumers, c # b PROVE ConsumerOK(c)'
    <3>1. InitValue(kvMark', c) = InitValue(kvMark, c)
      BY <1>8, <2>3, PutValue DEF Mark
    <3> QED BY <1>3, <2>1, <3>1, ConsumerFrame
  <2> QED BY <1>4, <2>1, <2>2, <2>3
<1>9. ASSUME ConsumerCall(b) PROVE LogInv'
  <2>1. lastFetch[b] + 1 \in Nat /\ lastMark[b] + 1 \in Nat /\ NthIndexes \subseteq Nat
    BY <1>2, QueueConstants
  <2> QED BY <1>5, <1>6, <1>7, <1>8, <1>9, <2>1
          DEF ConsumerCall, FetchNext, FetchNth, MarkNext, MarkNth
<1>10. ASSUME Recheck(b) PROVE LogInv'
  <2>1. UNCHANGED <<kvMsg, kvCap, kvFetch, kvMark, prodVars, sent, open, cap,
                    cidx, cmsg>>
    BY <1>10 DEF Recheck, storeVars, histVars
  <2>2. ConsumerOK(b)'
    <3>1. /\ cpc[b] = "woken"
          /\ \/ cpc'[b] = "get" /\ cidx[b] <= cap[q]
             \/ cpc'[b] = "wait"
      BY <1>2, <1>10 DEF Recheck, q
    <3> QED BY <1>3, <2>1, <3>1 DEF ConsumerOK, q
  <2>3. ASSUME NEW c \in Consumers, c # b PROVE ConsumerOK(c)'
    <3>1. cpc'[c] = cpc[c]
      BY <1>2, <1>10, <2>3 DEF Recheck
    <3> QED BY <1>3, <2>1, <3>1, ConsumerFrame
  <2> QED BY <1>4, <2>1, <2>2, <2>3
<1>11. ASSUME MsgFetch(b) PROVE LogInv'
  <2>1. UNCHANGED <<kvMsg, kvCap, kvFetch, kvMark, prodVars, sent, open, cap,
                    cidx>>
    BY <1>11 DEF MsgFetch, storeVars, queueVars, histVars
  <2>2. ConsumerOK(b)'
    <3>1. /\ cpc[b] = "get" /\ cpc'[b] = "save"
          /\ \/ InRange(b) /\ cmsg'[b] = kvMsg[cidx[b]]
             \/ (~InRange(b) \/ StoreFails) /\ cmsg'[b] = NoMsg
      BY <1>2, <1>11 DEF MsgFetch
    <3>2. open[q] /\ cidx[b] <= cap[q] /\ cidx[b] <= n
      BY <1>1, <1>2, <1>3, <3>1 DEF ConsumerOK, q
    <3>3. InRange(b) => /\ cidx[b] \in 1..n
                        /\ kvMsg[cidx[b]] = [index |-> cidx[b],
                                             data |-> sent[q][cidx[b]]]
      BY <1>1, <1>2, <1>3, <3>2 DEF InRange
    <3>4. ~InRange(b) => cidx[b] = 0
      BY <3>2 DEF InRange, q
    <3>5. [index |-> cidx[b], data |-> sent[q][cidx[b]]] # NoMsg
          \/ ~(cidx[b] \in 1..n)
      <4>1. cidx[b] \in 1..n =>
              [index |-> cidx[b], data |-> sent[q][cidx[b]]]
                \in [index : Nat, data : Data]
        BY <1>1, <1>2
      <4> QED BY <4>1, QueueConstants
    <3> QED BY <1>3, <2>1, <3>1, <3>2, <3>3, <3>4, <3>5 DEF ConsumerOK, q
  <2>3. ASSUME NEW c \in Consumers, c # b PROVE ConsumerOK(c)'
    <3>1. cpc'[c] = cpc[c] /\ cmsg'[c] = cmsg[c]
      BY <1>2, <1>11, <2>3 DEF MsgFetch
    <3> QED BY <1>3, <2>1, <3>1, ConsumerFrame
  <2> QED BY <1>4, <2>1, <2>2, <2>3
<1>12. ASSUME SavePos(b) PROVE LogInv'
  <2>1. UNCHANGED <<kvMsg, kvCap, kvMark, prodVars, sent, open, cap, cidx, cmsg>>
    BY <1>12 DEF SavePos, queueVars, histVars
  <2>2. ConsumerOK(b)'
    <3>1. /\ cpc[b] = "save" /\ cpc'[b] = "ret"
          /\ InitValue(kvFetch', b) = cidx[b]
      BY <1>2, <1>12, PutValue DEF SavePos
    <3> QED BY <1>3, <2>1, <3>1 DEF ConsumerOK
  <2>3. ASSUME NEW c \in Consumers, c # b PROVE ConsumerOK(c)'
    <3>1. cpc'[c] = cpc[c] /\ InitValue(kvFetch', c) = InitValue(kvFetch, c)
      BY <1>2, <1>12, <2>3, PutValue DEF SavePos
    <3> QED BY <1>3, <2>1, <3>1, ConsumerFrame
  <2> QED BY <1>4, <2>1, <2>2, <2>3
<1>13. ASSUME cpc[b] # "off", EndFetch(b),
              UNCHANGED <<storeVars, prodVars, sent, open, cap>>
       PROVE  LogInv'
  <2>1. ConsumerOK(b)'
    <3>1. cpc'[b] = "idle"
      BY <1>2, <1>13 DEF EndFetch
    <3> QED BY <1>3, <1>13, <3>1, ConsumerWaits DEF storeVars
  <2>2. ASSUME NEW c \in Consumers, c # b PROVE ConsumerOK(c)'
    <3>1. cpc'[c] = cpc[c] /\ cidx'[c] = cidx[c] /\ cmsg'[c] = cmsg[c]
      BY <1>2, <1>13, <2>2 DEF EndFetch
    <3> QED BY <1>3, <1>13, <3>1, ConsumerFrame DEF storeVars
  <2> QED BY <1>4, <1>13, <2>1, <2>2 DEF storeVars
<1>14. ASSUME WakeUnsignalled(b) PROVE LogInv'
  <2>1. UNCHANGED <<storeVars, prodVars, sent, open, cap, cidx, cmsg>>
    BY <1>14 DEF WakeUnsignalled, queueVars, histVars
  <2>2. ASSUME NEW c \in Consumers PROVE ConsumerOK(c)'
    <3>1. cpc'[c] = cpc[c] \/ (cpc[c] = "wait" /\ cpc'[c] = "woken")
      BY <1>2, <1>14 DEF WakeUnsignalled
    <3> QED BY <1>3, <2>1, <3>1, ConsumerFrame, ConsumerWaits DEF storeVars
  <2> QED BY <1>4, <2>1, <2>2 DEF storeVars
<1>15. ASSUME FetchStep(b), ~LoseMemory PROVE LogInv'
  <2>0. ASSUME SpinEnds(b) PROVE LogInv'
    <3>1. UNCHANGED <<storeVars, prodVars, sent, open, cap, cidx, cmsg>>
      BY <2>0 DEF SpinEnds, queueVars, histVars
    <3>2. ConsumerOK(b)'
      <4>1. cpc[b] = "spin" /\ cpc'[b] = "get" /\ cidx[b] <= cap[q]
        BY <1>2, <2>0 DEF SpinEnds, q
      <4> QED BY <1>3, <3>1, <4>1 DEF ConsumerOK, q, storeVars
    <3>3. ASSUME NEW c \in Consumers, c # b PROVE ConsumerOK(c)'
      <4>1. cpc'[c] = cpc[c]
        BY <1>2, <2>0, <3>3 DEF SpinEnds
      <4> QED BY <1>3, <3>1, <4>1, ConsumerFrame DEF storeVars
    <3> QED BY <1>4, <3>1, <3>2, <3>3 DEF storeVars
  <2>1. ASSUME SavePosFails(b) PROVE LogInv'
    BY <1>13, <2>1 DEF SavePosFails, queueVars, histVars
  <2>2. ASSUME FetchReturn(b) PROVE LogInv'
    BY <1>13, <2>2 DEF FetchReturn, queueVars
  <2> QED BY <1>10, <1>11, <1>12, <1>15, <2>0, <2>1, <2>2
          DEF FetchStep, NullDereference, FreeErrorResult
<1>16. ASSUME WaitTimesOut(b) PROVE LogInv'
  BY <1>13, <1>16 DEF WaitTimesOut, histVars
<1> QED BY <1>9, <1>14, <1>15, <1>16

\* With a sole producer the log invariant is inductive.
LEMMA LogInvStep == TypeOK /\ LogInv /\ SoleProducer /\ [Next]_vars => LogInv'
<1> SUFFICES ASSUME TypeOK, LogInv, SoleProducer, [Next]_vars PROVE LogInv'
  OBVIOUS
<1>1. ASSUME LoseMemory PROVE LogInv'
  <2>1. /\ UNCHANGED <<kvMsg, kvCap, kvFetch, kvMark, sent>>
        /\ open' = [q \in Queues |-> FALSE]
        /\ ppc' = [p \in Producers |-> "off"]
        /\ cpc' = [c \in Consumers |-> "off"]
    BY <1>1 DEF LoseMemory, storeVars, histVars
  <2>2. LogIntact'
    BY <2>1 DEF LogInv, LogIntact
  <2>3. CapacityIsLastIndex' /\ ProducerInv'
    BY <2>1 DEF CapacityIsLastIndex, ProducerInv, ProducerOK
  <2>4. ConsumerInv'
    BY <2>1 DEF LogInv, ConsumerInv, ConsumerOK
  <2> QED BY <2>2, <2>3, <2>4 DEF LogInv
<1>2. ASSUME UNCHANGED vars PROVE LogInv'
  BY <1>2, LogFrame, ConsumerFrame DEF LogInv, ConsumerInv, vars, storeVars,
     queueVars, prodVars, consVars, histVars
<1> QED BY <1>1, <1>2, QueueStepInv, ProducerCallInv, PushStepInv, ConsumerStepInv
        DEF Next, Crash

\* With one producer and one blocking queue: no message is overwritten or
\* forgotten, msg_capacity is the index of the last message, a fetch finds and
\* returns what was pushed, and the stored positions lie in the log.
THEOREM SoleProducerSafe ==
  ASSUME SoleProducer
  PROVE  Spec => [](/\ LogIntact /\ CapacityIsLastIndex /\ FetchFindsMessage
                    /\ FetchReturnsPushed /\ PositionsInLog)
<1> DEFINE Safe == /\ LogIntact /\ CapacityIsLastIndex /\ FetchFindsMessage
                   /\ FetchReturnsPushed /\ PositionsInLog
<1>1. TypeOK /\ LogInv => Safe
  <2> SUFFICES ASSUME TypeOK, LogInv PROVE Safe
    OBVIOUS
  <2>1. LogIntact /\ CapacityIsLastIndex
    BY DEF LogInv
  <2>2. ASSUME NEW c \in Consumers
        PROVE  /\ cpc[c] = "get" /\ InRange(c) => cidx[c] \in DOMAIN kvMsg
               /\ cpc[c] = "ret" /\ cmsg[c] # NoMsg
                    => /\ cidx[c] \in 1..Len(sent[CQueue[c]])
                       /\ cmsg[c].index = cidx[c]
                       /\ cmsg[c].data = sent[CQueue[c]][cidx[c]]
               /\ InitValue(kvFetch, c) <= InitValue(kvCap, CQueue[c])
               /\ InitValue(kvMark, c) <= InitValue(kvCap, CQueue[c])
    <3> DEFINE q == CQueue[c]
    <3>1. /\ q \in Queues /\ ConsumerOK(c) /\ cidx[c] \in Nat
          /\ Len(sent[q]) \in Nat /\ cap[q] \in Nat
      BY QueueConstants DEF LogInv, ConsumerInv, TypeOK
    <3>2. /\ InitValue(kvCap, q) = Len(sent[q])
          /\ \A i \in 1..Len(sent[q]) : i \in DOMAIN kvMsg
      BY <3>1 DEF LogInv, LogIntact
    <3>3. cpc[c] = "get" => cap[q] <= Len(sent[q])
      BY <3>1, CapWithinLog DEF ConsumerOK
    <3>4. cpc[c] = "get" /\ InRange(c) => cidx[c] \in 1..Len(sent[q])
      BY <3>1, <3>3 DEF InRange
    <3> QED BY <3>1, <3>2, <3>4 DEF ConsumerOK
  <2> QED BY <2>1, <2>2 DEF FetchFindsMessage, FetchReturnsPushed, PositionsInLog
<1>2. Init => LogInv
  BY LogInvInit
<1>3. TypeOK /\ LogInv /\ [Next]_vars => LogInv'
  BY LogInvStep
<1> HIDE DEF Safe
<1>4. Spec => []Safe
  BY <1>1, <1>2, <1>3, TypeCorrect, PTL DEF Spec
<1> QED BY <1>4 DEF Safe

\* msg_capacity of an open queue is the index of its last message, except in
\* the middle of a push.
THEOREM CapacityRight ==
  ASSUME SoleProducer
  PROVE  Spec => []CapacityIsLastIndex
BY SoleProducerSafe, PTL

\* __msg_fetch never goes to the store for a message that is not there.
THEOREM FetchFinds ==
  ASSUME SoleProducer
  PROVE  Spec => []FetchFindsMessage
BY SoleProducerSafe, PTL

-----------------------------------------------------------------------------
(* queue_fetch_next leaves no gap *)

\* Outside the return of a call a consumer has everything up to its position;
\* a call that stores a position has the message.
GapInv ==
  NthIndexes = {} /\ ~StoreFails /\ ~Crashes =>
    \A c \in Consumers :
      /\ cpc[c] # "ret" => got[c] = 1..InitValue(kvFetch, c)
      /\ cpc[c] = "ret" => /\ cmsg[c] # NoMsg
                           /\ cidx[c] = InitValue(kvFetch, c)
                           /\ got[c] = 1..(cidx[c] - 1)
      /\ cpc[c] = "save" => cmsg[c] # NoMsg

\* No step makes a gap: the message of a call is in the log when it is asked
\* for, so that no position moves without one.
LEMMA GapInvStep ==
  ASSUME TypeOK, LogInv, NextInv, GapInv, SoleProducer, [Next]_vars
  PROVE  GapInv'
<1> SUFFICES ASSUME NthIndexes = {}, ~StoreFails, ~Crashes, NEW c \in Consumers
             PROVE  /\ cpc'[c] # "ret" => got'[c] = 1..InitValue(kvFetch', c)
                    /\ cpc'[c] = "ret" => /\ cmsg'[c] # NoMsg
                                          /\ cidx'[c] = InitValue(kvFetch', c)
                                          /\ got'[c] = 1..(cidx'[c] - 1)
                    /\ cpc'[c] = "save" => cmsg'[c] # NoMsg
  BY DEF GapInv
<1> DEFINE Goal == /\ cpc'[c] # "ret" => got'[c] = 1..InitValue(kvFetch', c)
                   /\ cpc'[c] = "ret" => /\ cmsg'[c] # NoMsg
                                         /\ cidx'[c] = InitValue(kvFetch', c)
                                         /\ got'[c] = 1..(cidx'[c] - 1)
                   /\ cpc'[c] = "save" => cmsg'[c] # NoMsg
<1>0. /\ cpc[c] # "ret" => got[c] = 1..InitValue(kvFetch, c)
      /\ cpc[c] = "ret" => /\ cmsg[c] # NoMsg
                           /\ cidx[c] = InitValue(kvFetch, c)
                           /\ got[c] = 1..(cidx[c] - 1)
      /\ cpc[c] = "save" => cmsg[c] # NoMsg
  BY DEF GapInv
<1>n. cpc[c] \in {"get", "save"} => cidx[c] = InitValue(kvFetch, c) + 1
  BY DEF NextInv
<1>t. /\ InitValue(kvFetch, c) \in Nat /\ cidx[c] \in Nat
      /\ cpc \in [Consumers -> ConsumerPC] /\ cidx \in [Consumers -> Nat]
      /\ cmsg \in [Consumers -> Message \cup {NoMsg}]
      /\ got \in [Consumers -> SUBSET Nat]
  BY DEF TypeOK, InitValue
<1>r. ASSUME NEW b \in Consumers, cpc[b] = "get"
      PROVE  InRange(b) /\ cidx[b] \in DOMAIN kvMsg /\ kvMsg[cidx[b]] # NoMsg
  <2>1. /\ cidx[b] \in Nat /\ cidx[b] = lastFetch[b] + 1 /\ lastFetch[b] \in Nat
        /\ CQueue[b] \in Queues /\ cap[CQueue[b]] \in Nat
        /\ Len(sent[CQueue[b]]) \in Nat
    BY <1>r, QueueConstants DEF TypeOK, NextInv
  <2>2. cidx[b] <= cap[CQueue[b]] /\ open[CQueue[b]]
    BY <1>r DEF LogInv, ConsumerInv, ConsumerOK
  <2>3. cap[CQueue[b]] <= Len(sent[CQueue[b]])
    BY <2>1, <2>2, CapWithinLog
  <2>4. cidx[b] \in 1..Len(sent[CQueue[b]])
    BY <2>1, <2>2, <2>3
  <2>5. cidx[b] \in DOMAIN kvMsg
    BY <2>1, <2>4 DEF LogInv, LogIntact
  <2>6. kvMsg[cidx[b]] \in Message
    BY <2>5 DEF TypeOK
  <2>7. kvMsg[cidx[b]] # NoMsg
    BY <2>6, QueueConstants DEF Message
  <2>8. InRange(b)
    BY <2>1, <2>2, <2>4 DEF InRange
  <2> QED BY <2>5, <2>7, <2>8
<1>2. ASSUME UNCHANGED <<got, kvFetch, cidx, cmsg>>,
             cpc'[c] = cpc[c] \/ (cpc[c] \notin {"save", "ret"}
                                  /\ cpc'[c] \notin {"save", "ret"})
      PROVE  Goal
  BY <1>0, <1>2
<1>3. ASSUME NEW q \in Queues, QueueStep(q) PROVE Goal
  <2>1. ASSUME Reopen(q) PROVE Goal
    BY <2>1, <1>2 DEF Reopen, SleepingOn, storeVars, histVars
  <2> QED BY <1>3, <2>1, <1>2 DEF QueueStep, Open, Close, storeVars, consVars,
                                  histVars
<1>4. ASSUME NEW p \in Producers, ProducerCall(p) PROVE Goal
  BY <1>4, <1>2 DEF ProducerCall, RegisterProducer, UnregisterProducer,
                    PushBegin, storeVars, consVars, histVars
<1>5. ASSUME NEW p \in Producers, PushStep(p) PROVE Goal
  <2>1. ASSUME PushBump(p) PROVE Goal
    BY <2>1, <1>2 DEF PushBump, SleepingOn, storeVars, histVars
  <2> QED BY <1>5, <2>1, <1>2 DEF PushStep, PushAdopt, PushIndex, PushPut,
                                  PushPutFails, storeVars, consVars, histVars
<1>6. ASSUME NEW b \in Consumers, RegisterConsumer(b) PROVE Goal
  <2>1. /\ UNCHANGED <<got, cidx, cmsg>>
        /\ InitValue(kvFetch', c) = InitValue(kvFetch, c)
    BY <1>6, InitStoreValue DEF RegisterConsumer, histVars
  <2>2. cpc'[c] = cpc[c] \/ (cpc[c] = "off" /\ cpc'[c] = "idle")
    BY <1>6, <1>t DEF RegisterConsumer
  <2> QED BY <1>0, <2>1, <2>2
<1>7. ASSUME NEW b \in Consumers, UnregisterConsumer(b) PROVE Goal
  <2>1. cpc'[c] = cpc[c] \/ (cpc[c] = "idle" /\ cpc'[c] = "off")
    BY <1>7, <1>t DEF UnregisterConsumer
  <2> QED BY <1>2, <1>7, <2>1 DEF UnregisterConsumer, storeVars, histVars
<1>8. ASSUME NEW b \in Consumers, FetchNext(b) PROVE Goal
  <2>1. UNCHANGED <<got, kvFetch, cmsg>>
    BY <1>8 DEF FetchNext, Fetch, storeVars, histVars
  <2>2. \/ cpc'[c] = cpc[c] /\ cidx'[c] = cidx[c]
        \/ cpc[c] = "idle" /\ cpc'[c] \in {"get", "wait", "spin"}
    BY <1>8, <1>t DEF FetchNext, Fetch
  <2> QED BY <1>0, <2>1, <2>2
<1>9. ASSUME NEW b \in Consumers, ConsumerCall(b) PROVE Goal
  <2>1. ASSUME MarkNext(b) PROVE Goal
    BY <2>1, <1>2 DEF MarkNext, Mark, consVars
  <2> QED BY <1>6, <1>7, <1>8, <1>9, <2>1 DEF ConsumerCall, FetchNth, MarkNth
<1>10. ASSUME NEW b \in Consumers, Recheck(b) \/ SpinEnds(b) \/ WakeUnsignalled(b)
       PROVE  Goal
  <2>1. \/ cpc'[c] = cpc[c]
        \/ cpc[c] \in {"wait", "woken", "spin"} /\ cpc'[c] \in {"get", "wait", "woken"}
    BY <1>10, <1>t DEF Recheck, SpinEnds, WakeUnsignalled
  <2> QED BY <1>2, <1>10, <2>1 DEF Recheck, SpinEnds, WakeUnsignalled, storeVars,
                                   histVars
<1>11. ASSUME NEW b \in Consumers, MsgFetch(b) PROVE Goal
  <2>1. UNCHANGED <<got, kvFetch, cidx>>
    BY <1>11 DEF MsgFetch, storeVars, histVars
  <2>2. CASE b = c
    <3>1. cpc[c] = "get" /\ cpc'[c] = "save"
      BY <1>11, <1>t, <2>2 DEF MsgFetch
    <3>2. cmsg'[c] # NoMsg
      BY <1>11, <1>r, <1>t, <2>2, <3>1 DEF MsgFetch
    <3> QED BY <1>0, <2>1, <3>1, <3>2
  <2>3. CASE b # c
    <3>1. cpc'[c] = cpc[c] /\ cmsg'[c] = cmsg[c]
      BY <1>11, <1>t, <2>3 DEF MsgFetch
    <3> QED BY <1>0, <2>1, <3>1
  <2> QED BY <2>2, <2>3
<1>12. ASSUME NEW b \in Consumers, SavePos(b) PROVE Goal
  <2>1. UNCHANGED <<got, cidx, cmsg>>
    BY <1>12 DEF SavePos, histVars
  <2>2. CASE b = c
    <3>1. /\ cpc[c] = "save" /\ cpc'[c] = "ret"
          /\ InitValue(kvFetch', c) = cidx[c]
      BY <1>12, <1>t, <2>2, PutValue DEF SavePos
    <3>2. InitValue(kvFetch, c) = cidx[c] - 1
      BY <1>n, <1>t, <3>1
    <3> QED BY <1>0, <2>1, <3>1, <3>2
  <2>3. CASE b # c
    <3>1. /\ cpc'[c] = cpc[c]
          /\ InitValue(kvFetch', c) = InitValue(kvFetch, c)
      BY <1>12, <1>t, <2>3, PutValue DEF SavePos
    <3> QED BY <1>0, <2>1, <3>1
  <2> QED BY <2>2, <2>3
<1>13. ASSUME NEW b \in Consumers, FetchReturn(b) PROVE Goal
  <2>1. UNCHANGED kvFetch
    BY <1>13 DEF FetchReturn, storeVars
  <2>2. CASE b = c
    <3>1. cpc[c] = "ret" /\ cpc'[c] = "idle"
      BY <1>13, <1>t, <2>2 DEF FetchReturn, EndFetch
    <3>2. got'[c] = got[c] \cup {cidx[c]}
      BY <1>0, <1>13, <1>t, <2>2, <3>1 DEF FetchReturn
    <3>3. 1..(cidx[c] - 1) \cup {cidx[c]} = 1..cidx[c]
      <4>1. cidx[c] \in 1..Len(sent[CQueue[c]])
        BY <1>0, <3>1 DEF LogInv, ConsumerInv, ConsumerOK
      <4> QED BY <1>t, <4>1
    <3> QED BY <1>0, <2>1, <3>1, <3>2, <3>3
  <2>3. CASE b # c
    <3>1. /\ cpc'[c] = cpc[c] /\ cidx'[c] = cidx[c] /\ cmsg'[c] = cmsg[c]
          /\ got'[c] = got[c]
      BY <1>13, <1>t, <2>3 DEF FetchReturn, EndFetch
    <3> QED BY <1>0, <2>1, <3>1
  <2> QED BY <2>2, <2>3
<1>14. ASSUME NEW b \in Consumers, WaitTimesOut(b) PROVE Goal
  <2>1. UNCHANGED <<got, kvFetch>>
    BY <1>14 DEF WaitTimesOut, storeVars, histVars
  <2>2. \/ cpc'[c] = cpc[c] /\ cidx'[c] = cidx[c] /\ cmsg'[c] = cmsg[c]
        \/ cpc[c] # "ret" /\ cpc'[c] = "idle"
    BY <1>14, <1>t DEF WaitTimesOut, EndFetch
  <2> QED BY <1>0, <2>1, <2>2
<1>15. ASSUME NEW b \in Consumers, FetchStep(b) PROVE Goal
  BY <1>10, <1>11, <1>12, <1>13, <1>15, <1>r
     DEF FetchStep, SavePosFails, NullDereference, FreeErrorResult
<1>16. ASSUME UNCHANGED vars PROVE Goal
  BY <1>2, <1>16 DEF vars, storeVars, consVars, histVars
<1> QED BY <1>3, <1>4, <1>5, <1>9, <1>10, <1>14, <1>15, <1>16 DEF Next, Crash

\* With one producer, and as long as neither the store nor the process fails,
\* a consumer that only uses queue_fetch_next is handed every message.
THEOREM NoGap ==
  ASSUME SoleProducer
  PROVE  Spec => []NextLeavesNoGap
<1>1. Init => LogInv /\ NextInv /\ GapInv
  <2>1. Init => LogInv
    BY LogInvInit
  <2>2. Init => NextInv
    BY DEF Init, NextInv
  <2>3. ASSUME Init PROVE GapInv
    <3>1. \A c \in Consumers : /\ InitValue(kvFetch, c) = 0 /\ got[c] = {}
                              /\ cpc[c] = "off"
      BY <2>3 DEF Init, InitValue
    <3>2. 1..0 = {}
      OBVIOUS
    <3> QED BY <3>1, <3>2 DEF GapInv
  <2> QED BY <2>1, <2>2, <2>3
<1>2. TypeOK /\ LogInv /\ NextInv /\ GapInv /\ [Next]_vars
        => LogInv' /\ NextInv' /\ GapInv'
  BY LogInvStep, NextInvStep, GapInvStep
<1>3. GapInv => NextLeavesNoGap
  BY DEF GapInv, NextLeavesNoGap
<1> QED BY <1>1, <1>2, <1>3, TypeCorrect, PTL DEF Spec

-----------------------------------------------------------------------------
(* XmqQueue implements XmqLog *)

\* The log read off the store is the history of what was pushed.
LEMMA StoredLogIsSent == TypeOK /\ LogInv => storedLog = sent
<1> SUFFICES ASSUME TypeOK, LogInv, NEW q \in Queues
             PROVE  [i \in 1..InitValue(kvCap, q) |-> kvMsg[i].data] = sent[q]
  BY DEF storedLog, TypeOK
<1>1. sent[q] \in Seq(Data)
  BY DEF TypeOK
<1>2. /\ InitValue(kvCap, q) = Len(sent[q])
      /\ \A i \in 1..Len(sent[q]) : kvMsg[i].data = sent[q][i]
  <2>1. /\ InitValue(kvCap, q) = Len(sent[q])
        /\ \A i \in 1..Len(sent[q]) :
             kvMsg[i] = [index |-> i, data |-> sent[q][i]]
    BY DEF LogInv, LogIntact
  <2>2. ASSUME NEW i \in 1..Len(sent[q]) PROVE kvMsg[i].data = sent[q][i]
    <3>1. kvMsg[i] = [index |-> i, data |-> sent[q][i]]
      BY <2>1
    <3>2. [index |-> i, data |-> sent[q][i]].data = sent[q][i]
      OBVIOUS
    <3> QED BY <3>1, <3>2
  <2> QED BY <2>1, <2>2
<1>3. sent[q] = [i \in 1..Len(sent[q]) |-> sent[q][i]]
  BY <1>1
<1> QED BY <1>2, <1>3

\* Every step of the threads is a step of the log, or leaves it alone.
LEMMA LogStep ==
  ASSUME TypeOK, TypeOK', LogInv, LogInv', SoleProducer, [Next]_vars
  PROVE  [Log!Next]_(Log!logVars)
<1> DEFINE fp == [c \in Consumers |-> InitValue(kvFetch, c)]
           mp == [c \in Consumers |-> InitValue(kvMark, c)]
<1>1. storedLog = sent /\ storedLog' = sent'
  <2>1. storedLog = sent
    BY StoredLogIsSent
  <2>2. (TypeOK /\ LogInv => storedLog = sent)'
    BY StoredLogIsSent, PTL
  <2> QED BY <2>1, <2>2
<1>2. /\ cpc \in [Consumers -> ConsumerPC] /\ cidx \in [Consumers -> Nat]
      /\ cmsg \in [Consumers -> Message \cup {NoMsg}]
      /\ \A c \in Consumers : CQueue[c] \in Queues
      /\ \A q \in Queues : Len(sent[q]) \in Nat
  BY QueueConstants DEF TypeOK
<1>3. \A c \in Consumers : ConsumerOK(c)
  BY DEF LogInv, ConsumerInv
<1>4. ASSUME sent' = sent, fp' = fp, mp' = mp, inHand' = inHand
      PROVE  UNCHANGED Log!logVars
  BY <1>1, <1>4 DEF Log!logVars
<1>5. ASSUME sent' = sent, kvFetch' = kvFetch, kvMark' = kvMark, cmsg' = cmsg,
             \A c \in Consumers : cpc'[c] = "ret" <=> cpc[c] = "ret"
      PROVE  UNCHANGED Log!logVars
  <2>1. inHand' = inHand
    BY <1>5 DEF inHand
  <2> QED BY <1>4, <1>5, <2>1
<1>6. ASSUME NEW q \in Queues, QueueStep(q) PROVE UNCHANGED Log!logVars
  <2>1. \A c \in Consumers : cpc'[c] = "ret" <=> cpc[c] = "ret"
    BY <1>6 DEF QueueStep, Open, Reopen, Close, SleepingOn, consVars
  <2> QED BY <1>5, <1>6, <2>1 DEF QueueStep, Open, Reopen, Close, storeVars,
                                  consVars, histVars
<1>7. ASSUME NEW p \in Producers, ProducerCall(p) PROVE UNCHANGED Log!logVars
  BY <1>5, <1>7 DEF ProducerCall, RegisterProducer, UnregisterProducer,
                    PushBegin, storeVars, consVars, histVars
<1>8. ASSUME NEW p \in Producers, PushStep(p) PROVE [Log!Next]_(Log!logVars)
  <2>1. ASSUME PushPut(p) PROVE Log!Next
    <3>1. /\ PQueue[p] \in Queues /\ pdata[p] \in Data
          /\ sent' = [sent EXCEPT ![PQueue[p]] = Append(@, pdata[p])]
          /\ UNCHANGED <<kvFetch, kvMark, cpc, cmsg>>
      BY <2>1, QueueConstants DEF PushPut, TypeOK, consVars
    <3>2. Log!PushTail(PQueue[p], pdata[p])
      BY <1>1, <3>1 DEF Log!PushTail, inHand
    <3> QED BY <3>1, <3>2 DEF Log!Next
  <2>2. ASSUME PushAdopt(p) \/ PushIndex(p) \/ PushPutFails(p)
        PROVE  UNCHANGED Log!logVars
    BY <1>5, <2>2 DEF PushAdopt, PushIndex, PushPutFails, storeVars, consVars,
                      histVars
  <2>3. ASSUME PushBump(p) PROVE UNCHANGED Log!logVars
    <3>1. \A c \in Consumers : cpc'[c] = "ret" <=> cpc[c] = "ret"
      BY <2>3 DEF PushBump, SleepingOn
    <3> QED BY <1>5, <2>3, <3>1 DEF PushBump, storeVars, histVars
  <2> QED BY <1>8, <2>1, <2>2, <2>3 DEF PushStep
<1>9. ASSUME NEW b \in Consumers, RegisterConsumer(b)
      PROVE  UNCHANGED Log!logVars
  <2>1. fp' = fp /\ mp' = mp
    BY <1>9, InitStoreValue DEF RegisterConsumer
  <2>2. \A c \in Consumers : cpc'[c] = "ret" <=> cpc[c] = "ret"
    BY <1>2, <1>9 DEF RegisterConsumer
  <2>3. inHand' = inHand
    BY <1>9, <2>2 DEF RegisterConsumer, inHand
  <2> QED BY <1>4, <1>9, <2>1, <2>3 DEF RegisterConsumer, histVars
<1>10. ASSUME NEW b \in Consumers,
              \/ UnregisterConsumer(b) \/ SpinEnds(b)
              \/ Recheck(b) \/ WakeUnsignalled(b)
       PROVE  UNCHANGED Log!logVars
  <2>1. \A c \in Consumers : cpc'[c] = "ret" <=> cpc[c] = "ret"
    BY <1>2, <1>10 DEF UnregisterConsumer, SpinEnds, Recheck, WakeUnsignalled
  <2> QED BY <1>5, <1>10, <2>1 DEF UnregisterConsumer, SpinEnds, Recheck,
             WakeUnsignalled, storeVars, histVars
<1>11. ASSUME NEW b \in Consumers, NEW i \in Nat, Fetch(b, i)
       PROVE  UNCHANGED Log!logVars
  <2>1. \A c \in Consumers : cpc'[c] = "ret" <=> cpc[c] = "ret"
    BY <1>2, <1>11 DEF Fetch
  <2> QED BY <1>5, <1>11, <2>1 DEF Fetch, storeVars, histVars
<1>12. ASSUME NEW b \in Consumers, NEW i \in Nat, Mark(b, i) PROVE Log!Next
  <2>1. i <= Len(sent[CQueue[b]])
    <3>1. InitValue(kvMark', b) = i /\ sent' = sent
      BY <1>12, PutValue DEF Mark
    <3>2. ConsumerOK(b)'
      BY DEF LogInv, ConsumerInv
    <3> QED BY <3>1, <3>2 DEF ConsumerOK
  <2>2. mp' = [mp EXCEPT ![b] = i]
    <3>1. \A c : InitValue(kvMark', c) = IF c = b THEN i ELSE InitValue(kvMark, c)
      BY <1>12, PutValue DEF Mark
    <3> QED BY <3>1
  <2>3. Log!MarkNth(b, i)
    BY <1>1, <1>12, <2>2 DEF Mark, Log!MarkNth, inHand, consVars
  <2>4. i \in 0..Len(sent[CQueue[b]])
    BY <1>2, <2>1
  <2> QED BY <1>1, <2>3, <2>4 DEF Log!Next
<1>13. ASSUME NEW b \in Consumers, MsgFetch(b) PROVE UNCHANGED Log!logVars
  <2>1. \A c \in Consumers : cpc[c] # "ret" => cpc'[c] # "ret"
    BY <1>2, <1>13 DEF MsgFetch
  <2>2. \A c \in Consumers : cpc[c] = "ret" => /\ cpc'[c] = "ret"
                                                /\ cmsg'[c] = cmsg[c]
    BY <1>2, <1>13 DEF MsgFetch
  <2>3. inHand' = inHand
    BY <2>1, <2>2 DEF inHand
  <2> QED BY <1>4, <1>13, <2>3 DEF MsgFetch, storeVars, histVars
<1>14. ASSUME NEW b \in Consumers, SavePos(b) PROVE Log!Next
  <2>1. /\ cpc[b] = "save" /\ UNCHANGED <<sent, kvMark, cmsg>>
        /\ cpc' = [cpc EXCEPT ![b] = "ret"]
    BY <1>14 DEF SavePos, histVars
  <2>2. fp' = [fp EXCEPT ![b] = cidx[b]]
    <3>1. \A c : InitValue(kvFetch', c) =
                    IF c = b THEN cidx[b] ELSE InitValue(kvFetch, c)
      BY <1>14, PutValue DEF SavePos
    <3> QED BY <3>1
  <2>3. inHand' = [inHand EXCEPT ![b] = cmsg[b]]
    BY <1>2, <2>1 DEF inHand
  <2>4. CASE cmsg[b] # NoMsg
    <3>1. /\ cidx[b] \in 1..Len(sent[CQueue[b]])
          /\ cmsg[b] = [index |-> cidx[b], data |-> sent[CQueue[b]][cidx[b]]]
      BY <1>3, <2>1, <2>4 DEF ConsumerOK
    <3>2. Log!FetchNth(b, cidx[b])
      BY <1>1, <2>1, <2>2, <2>3, <3>1 DEF Log!FetchNth
    <3> QED BY <1>1, <3>1, <3>2 DEF Log!Next
  <2>5. CASE cmsg[b] = NoMsg
    <3>1. inHand' = inHand
      BY <2>1, <2>3, <2>5 DEF inHand
    <3>2. CASE cidx[b] = 0
      <4>1. Log!Rewind(b)
        BY <1>1, <2>1, <2>2, <3>1, <3>2 DEF Log!Rewind
      <4> QED BY <4>1 DEF Log!Next
    <3>3. CASE cidx[b] # 0
      <4>1. StoreFails /\ cidx[b] \in 1..Len(sent[CQueue[b]])
        BY <1>2, <1>3, <2>1, <2>5, <3>3 DEF ConsumerOK
      <4>2. Log!Skip(b, cidx[b])
        BY <1>1, <2>1, <2>2, <3>1, <4>1 DEF Log!Skip
      <4> QED BY <1>1, <4>1, <4>2 DEF Log!Next
    <3> QED BY <3>2, <3>3
  <2> QED BY <2>4, <2>5
<1>15. ASSUME NEW b \in Consumers, FetchReturn(b) PROVE Log!Next
  <2>1. inHand' = [inHand EXCEPT ![b] = NoMsg]
    BY <1>2, <1>15 DEF FetchReturn, EndFetch, inHand
  <2>2. Log!Return(b)
    BY <1>1, <1>15, <2>1 DEF FetchReturn, Log!Return, storeVars
  <2> QED BY <2>2 DEF Log!Next
<1>16. ASSUME NEW b \in Consumers, WaitTimesOut(b) PROVE UNCHANGED Log!logVars
  <2>1. inHand' = inHand
    BY <1>2, <1>16 DEF WaitTimesOut, EndFetch, inHand
  <2> QED BY <1>4, <1>16, <2>1 DEF WaitTimesOut, storeVars, histVars
<1>17. ASSUME LoseMemory PROVE Log!Next
  <2>1. inHand' = [c \in Consumers |-> NoMsg]
    BY <1>17 DEF LoseMemory, inHand
  <2>2. Log!Restart
    BY <1>1, <1>17, <2>1 DEF LoseMemory, Log!Restart, storeVars, histVars
  <2> QED BY <2>2 DEF Log!Next
<1>18. ASSUME UNCHANGED vars PROVE UNCHANGED Log!logVars
  BY <1>5, <1>18 DEF vars, storeVars, consVars, histVars
<1>19. ASSUME NEW b \in Consumers, ConsumerCall(b)
       PROVE  [Log!Next]_(Log!logVars)
  <2>1. /\ lastFetch[b] + 1 \in Nat /\ lastMark[b] + 1 \in Nat
        /\ NthIndexes \subseteq Nat
    <3>1. lastFetch \in [Consumers -> Nat] /\ lastMark \in [Consumers -> Nat]
      BY DEF TypeOK
    <3>2. lastFetch[b] \in Nat /\ lastMark[b] \in Nat
      BY <3>1
    <3> QED BY <3>2, QueueConstants
  <2> QED BY <1>9, <1>10, <1>11, <1>12, <1>19, <2>1
          DEF ConsumerCall, FetchNext, FetchNth, MarkNext, MarkNth
<1>20. ASSUME NEW b \in Consumers, FetchStep(b)
       PROVE  [Log!Next]_(Log!logVars)
  <2>1. ASSUME SavePosFails(b) PROVE UNCHANGED Log!logVars
    <3>1. inHand' = inHand
      BY <1>2, <2>1 DEF SavePosFails, EndFetch, inHand
    <3> QED BY <1>4, <2>1, <3>1 DEF SavePosFails, storeVars, histVars
  <2> QED BY <1>10, <1>13, <1>14, <1>15, <1>17, <1>20, <2>1
          DEF FetchStep, NullDereference, FreeErrorResult
<1> QED BY <1>6, <1>7, <1>8, <1>10, <1>16, <1>17, <1>18, <1>19, <1>20
        DEF Next, Crash

\* With one producer and one blocking queue, libmixmq is a log with durable
\* positions, whatever crashes; when the store refuses to read a message, its
\* consumer skips it.
THEOREM LogImplemented ==
  ASSUME SoleProducer
  PROVE  Spec => ImplementsLog
<1>1. Init => Log!Init
  <2> SUFFICES ASSUME Init PROVE Log!Init
    OBVIOUS
  <2>1. \A q \in Queues : InitValue(kvCap, q) = 0
    BY DEF Init, InitValue
  <2>2. storedLog = [q \in Queues |-> <<>>]
    BY <2>1 DEF storedLog
  <2> QED BY <2>2 DEF Init, Log!Init, inHand, InitValue
<1>2. TypeOK /\ TypeOK' /\ LogInv /\ LogInv' /\ [Next]_vars
        => [Log!Next]_(Log!logVars)
  BY LogStep
<1>3. Init => LogInv
  BY LogInvInit
<1>4. TypeOK /\ LogInv /\ [Next]_vars => LogInv'
  BY LogInvStep
<1> QED BY <1>1, <1>2, <1>3, <1>4, TypeCorrect, PTL
        DEF Spec, ImplementsLog, Log!Spec
=============================================================================
