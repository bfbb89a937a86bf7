----------------------------- MODULE Dam_proofs -----------------------------
(***************************************************************************)
(* What holds of damR for any number of back ends, any capacity of the     *)
(* queue and any size of the pool, whatever fails and however often the    *)
(* process is started again: the types, that the connection pool names     *)
(* exactly the back ends that are served, that every message is in one     *)
(* place, that the queue is out of order at its front only, and how much   *)
(* can be lost at once.                                                    *)
(***************************************************************************)
EXTENDS Dam, FiniteSetTheorems, TLAPS


\* A free coroutine has no name, a live one has.
LEMMA FreeOrNamed ==
  ASSUME TypeOK
  PROVE  /\ Live \subseteq Coros
         /\ \A k \in Coros : k \notin Live => coro[k] = Free
         /\ \A k \in Live : coro[k].name \in Names
BY DEF TypeOK, Live, Coro

\* While no name is served twice one coroutine is always free, as there are
\* fewer names than coroutines: evcoro_push finds one.
LEMMA OneIsFree ==
  ASSUME TypeOK, \A j, k \in Live : coro[j].name = coro[k].name => j = k
  PROVE  \E k \in Coros : coro[k] = Free
<1> SUFFICES ASSUME \A k \in Coros : coro[k] # Free
             PROVE  FALSE
  OBVIOUS
<1>1. Live = Coros
  BY DEF Live
<1> DEFINE f == [k \in Coros |-> coro[k].name]
<1>2. f \in Injection(Coros, Names)
  BY <1>1, FreeOrNamed DEF Injection, IsInjective
<1>3. Cardinality(Coros) <= Cardinality(Names)
  BY <1>2, FS_Injection, DamConstants
<1>4. Cardinality(Coros) \in Nat /\ Cardinality(Names) \in Nat
  BY FS_CardinalityType, DamConstants
<1> QED BY <1>3, <1>4, DamConstants

-----------------------------------------------------------------------------
(* Types *)

\* The record of a coroutine after a step of its own.
LEMMA CoroSteps ==
  ASSUME NEW c \in Coro, c # Free
  PROVE  /\ c.name \in Names
         /\ c.pc = "connect" => [c EXCEPT !.pc = "pull"] \in Coro
         /\ [c EXCEPT !.pc = "pull", !.hand = NoMsg] \in Coro
         /\ \A m \in Msgs : [c EXCEPT !.pc = "hold", !.hand = m] \in Coro
         /\ c.pc = "hold" <=> c.hand \in Msgs
         /\ c.pc # "hold" <=> c.hand = NoMsg
<1>n. NoMsg \notin Msgs
  BY DamConstants DEF Msgs
<1>c. /\ c = [name |-> c.name, pc |-> c.pc, hand |-> c.hand]
      /\ c.name \in Names
      /\ \/ c.pc \in {"connect", "pull"} /\ c.hand = NoMsg
         \/ c.pc = "hold" /\ c.hand \in Msgs
  BY DEF Coro
<1>1. /\ c.pc = "hold" <=> c.hand \in Msgs
      /\ c.pc # "hold" <=> c.hand = NoMsg
  BY <1>n, <1>c
<1>2. c.pc = "connect" => [c EXCEPT !.pc = "pull"] \in Coro
  BY <1>c DEF Coro
<1>3. [c EXCEPT !.pc = "pull", !.hand = NoMsg] \in Coro
  BY <1>c DEF Coro
<1>4. \A m \in Msgs : [c EXCEPT !.pc = "hold", !.hand = m] \in Coro
  BY <1>c DEF Coro
<1> QED BY <1>c, <1>1, <1>2, <1>3, <1>4

\* A new coroutine, and one that is where send_data connects, pulls or holds.
LEMMA CoroShapes ==
  /\ Free \in Coro /\ Free.hand = NoMsg /\ Free.pc = "free" /\ Free.name = NoName
  /\ \A n \in Names : [name |-> n, pc |-> "connect", hand |-> NoMsg] \in Coro
  /\ \A c \in Coro : c.pc \in {"connect", "pull", "hold"} => c # Free
BY DEF Coro, Free

\* A connection waits to be started exactly while the acceptor tries again.
ConnInv == (acceptor = "retry") <=> (conn # NoName)

\* Every step keeps the types: the queue within its capacity, each coroutine at
\* a place that fits what it has in its hands.
LEMMA TypeStep ==
  ASSUME TypeOK, ConnInv, [Next]_vars
  PROVE  TypeOK'
<1> USE DEF TypeOK, queueVars, rcvVars, accVars
<1>f. [k \in Coros |-> Free] \in [Coros -> Coro]
  BY CoroShapes
<1>h. InHand \subseteq Msgs
  <2> SUFFICES ASSUME NEW k \in Coros PROVE coro[k].hand \in Msgs \cup {NoMsg}
    BY DEF InHand
  <2> QED BY CoroSteps, CoroShapes
<1>s. ASSUME NEW n \in Names, Start(n) PROVE coro' \in [Coros -> Coro]
  BY <1>s, CoroShapes DEF Start
<1>e. ASSUME NEW k \in Coros, End(k) PROVE coro' \in [Coros -> Coro] /\ pool' \subseteq Names
  BY <1>e, CoroShapes DEF End
<1>w. ASSUME NEW k \in Coros, coro[k].pc \in {"connect", "pull", "hold"}, NEW m \in Msgs,
             Sent(k, m) \/ Held(k, m) \/ Dropped(k, m)
      PROVE  /\ coro' \in [Coros -> Coro] /\ pool' \subseteq Names
             /\ sent' \subseteq Msgs /\ lost' \subseteq Msgs
  <2>1. coro[k] \in Coro /\ coro[k] # Free
    BY <1>w, CoroShapes
  <2>2. CASE Sent(k, m)
    BY <2>1, <2>2, CoroSteps DEF Sent
  <2>3. CASE Held(k, m)
    BY <2>1, <2>3, CoroSteps DEF Held
  <2>4. CASE Dropped(k, m)
    BY <2>4, <1>e DEF Dropped
  <2> QED BY <1>w, <2>2, <2>3, <2>4
<1>1. CASE Read
  BY <1>1, DamConstants DEF Read, Msgs
<1>2. CASE Push
  <2>1. queue' \in Seq(Msgs) /\ Len(queue') = Len(queue) + 1
    BY <1>2 DEF Push
  <2> QED BY <1>2, <2>1, DamConstants DEF Push, Full
<1>3. CASE ReceiverEnds
  BY <1>3 DEF ReceiverEnds
<1>4. ASSUME NEW n \in Names, Request(n) PROVE TypeOK'
  BY <1>4, <1>s DEF Request, AddConnection
<1>5. CASE Retry
  BY <1>5, <1>s DEF Retry, ConnInv
<1>6. CASE BadRequest
  BY <1>6 DEF BadRequest
<1>7. ASSUME NEW k \in Coros, BackEnd(k) PROVE TypeOK'
  <2>1. CASE ConnectOk(k)
    BY <2>1, CoroSteps, CoroShapes DEF ConnectOk
  <2>2. CASE ConnectFails(k)
    BY <2>2, <1>e DEF ConnectFails
  <2>3. CASE Pull(k)
    <3>1. /\ Head(queue) \in Msgs /\ queue' \in Seq(Msgs)
          /\ Len(queue') <= Capacity
      BY <2>3, DamConstants DEF Pull
    <3> QED BY <2>3, <1>w, <3>1 DEF Pull
  <2>4. CASE WriteAgain(k)
    <3>1. coro[k].hand \in Msgs
      BY <2>4, CoroSteps, CoroShapes DEF WriteAgain
    <3> QED BY <2>4, <1>w, <3>1 DEF WriteAgain
  <2>5. CASE GiveBack(k)
    <3>1. coro[k].hand \in Msgs
      BY <2>5, CoroSteps, CoroShapes DEF GiveBack
    <3>2. CASE Full
      BY <2>5, <1>e, <3>1, <3>2 DEF GiveBack
    <3>3. CASE ~Full
      <4>1. <<coro[k].hand>> \o queue \in Seq(Msgs)
        BY <3>1
      <4>2. Len(<<coro[k].hand>> \o queue) = Len(queue) + 1
        BY <3>1
      <4>3. queue' = <<coro[k].hand>> \o queue /\ lost' = lost
        BY <2>5, <3>3 DEF GiveBack
      <4>4. Len(queue) + 1 <= Capacity
        BY <3>3, DamConstants DEF Full
      <4>5. queue' \in Seq(Msgs) /\ Len(queue') <= Capacity
        BY <4>1, <4>2, <4>3, <4>4
      <4> QED BY <2>5, <1>e, <4>3, <4>5 DEF GiveBack
    <3> QED BY <3>2, <3>3
  <2> QED BY <1>7, <2>1, <2>2, <2>3, <2>4, <2>5 DEF BackEnd
<1>8. CASE SenderEnds
  BY <1>8, <1>f, <1>h DEF SenderEnds
<1>9. CASE Signal
  BY <1>9 DEF Signal
<1>10. CASE Restart
  BY <1>10, <1>f DEF Restart, Fresh
<1>11. CASE Crash
  BY <1>11, <1>f, <1>h DEF Crash, Fresh
<1>12. CASE UNCHANGED vars
  BY <1>12 DEF vars
<1> QED BY <1>1, <1>2, <1>3, <1>4, <1>5, <1>6, <1>7, <1>8, <1>9, <1>10, <1>11,
           <1>12 DEF Next

\* A connection that waits is not forgotten by any step.
LEMMA ConnStep ==
  ASSUME TypeOK, ConnInv, [Next]_vars
  PROVE  ConnInv'
<1> USE DEF ConnInv, accVars
<1>1. ASSUME NEW n \in Names, Request(n) PROVE ConnInv'
  BY <1>1, DamConstants DEF Request
<1>2. CASE \E k \in Coros : BackEnd(k)
  BY <1>2 DEF BackEnd, ConnectOk, ConnectFails, Pull, WriteAgain, GiveBack
<1>3. CASE UNCHANGED vars
  BY <1>3 DEF vars
<1> QED BY <1>1, <1>2, <1>3 DEF Next, Read, Push, ReceiverEnds, Retry, BadRequest,
           SenderEnds, Signal, Restart, Fresh, Crash

-----------------------------------------------------------------------------
(* The connection pool *)

\* Only these steps change what PoolIsServed is about.
LEMMA PoolKept ==
  ASSUME PoolIsServed, snd' = "run" => snd = "run",
         UNCHANGED <<pool, conn>>,
         \A k \in Coros : coro'[k].name = coro[k].name /\ (coro'[k] = Free <=> coro[k] = Free)
  PROVE  PoolIsServed'
<1>1. Live' = Live
  BY DEF Live
<1>2. {coro'[k].name : k \in Live} = {coro[k].name : k \in Live}
  BY DEF Live
<1> QED BY <1>1, <1>2 DEF PoolIsServed, Live

\* The cleanups at the end of a coroutine take exactly its name out.
LEMMA PoolAtEnd ==
  ASSUME TypeOK, PoolIsServed, NEW k \in Coros, coro[k] # Free, End(k),
         snd = "run", UNCHANGED conn
  PROVE  PoolIsServed'
<1>1. /\ k \in Live /\ Live' = Live \ {k}
      /\ \A j \in Live' : coro'[j] = coro[j]
      /\ pool' = pool \ {coro[k].name}
  BY DEF Live, End, TypeOK
<1>2. {coro'[j].name : j \in Live'} = {coro[j].name : j \in Live} \ {coro[k].name}
  BY <1>1 DEF PoolIsServed
<1> QED BY <1>1, <1>2 DEF PoolIsServed

\* A coroutine that starts for a name no other one serves.
LEMMA PoolAtStart ==
  ASSUME TypeOK, PoolIsServed, snd = "run", NEW n \in Names, Start(n),
         n \notin {coro[k].name : k \in Live}
  PROVE  /\ {coro'[j].name : j \in Live'} = {coro[j].name : j \in Live} \cup {n}
         /\ \A i, j \in Live' : coro'[i].name = coro'[j].name => i = j
<1> DEFINE k == CHOOSE x \in Coros : coro[x] = Free
<1>1. \E x \in Coros : coro[x] = Free
  BY OneIsFree DEF PoolIsServed
<1>2. k \in Coros /\ coro[k] = Free
  BY <1>1
<1> DEFINE new == [name |-> n, pc |-> "connect", hand |-> NoMsg]
<1>3. coro' = [coro EXCEPT ![k] = new] /\ new # Free
  BY DEF Start, Free
<1> HIDE DEF k
<1>4. /\ Live' = Live \cup {k} /\ k \notin Live
      /\ \A j \in Live : coro'[j] = coro[j]
      /\ coro'[k].name = n
  BY <1>2, <1>3 DEF Live, TypeOK
<1> QED BY <1>4 DEF PoolIsServed

\* No step leaves a name in the pool that nobody serves, or takes one out that
\* somebody does.
LEMMA PoolStep ==
  ASSUME TypeOK, ConnInv, PoolIsServed, [Next]_vars
  PROVE  PoolIsServed'
<1> USE DEF queueVars, rcvVars, accVars
<1>1. CASE Read \/ Push \/ ReceiverEnds \/ BadRequest \/ Signal \/ UNCHANGED vars
  BY <1>1, PoolKept DEF Read, Push, ReceiverEnds, BadRequest, Signal, vars
<1>2. ASSUME NEW n \in Names, Request(n) PROVE PoolIsServed'
  <2>1. /\ snd = "run" /\ conn = NoName
        /\ n \notin pool /\ pool' = pool \cup {n}
    BY <1>2 DEF Request, AddConnection, ConnInv
  <2>2. CASE Start(n) /\ UNCHANGED accVars
    <3>1. n \notin {coro[k].name : k \in Live}
      BY <2>1 DEF PoolIsServed
    <3>2. /\ {coro'[j].name : j \in Live'} = {coro[j].name : j \in Live} \cup {n}
          /\ \A i, j \in Live' : coro'[i].name = coro'[j].name => i = j
      BY <2>1, <2>2, <3>1, PoolAtStart
    <3>3. NoName \notin {coro[j].name : j \in Live} \cup {n}
      BY FreeOrNamed, DamConstants
    <3> QED BY <2>1, <2>2, <3>2, <3>3 DEF PoolIsServed
  <2>3. CASE conn' = n /\ UNCHANGED coro
    <3>1. Live' = Live
      BY <2>3 DEF Live
    <3> QED BY <2>1, <2>3, <3>1, DamConstants DEF PoolIsServed
  <2> QED BY <1>2, <2>2, <2>3 DEF Request
<1>3. CASE Retry
  <2>1. /\ snd = "run" /\ conn \in Names /\ conn' = NoName /\ pool' = pool
        /\ Start(conn)
    BY <1>3 DEF Retry, ConnInv, TypeOK
  <2>2. conn \notin {coro[k].name : k \in Live}
    BY <2>1 DEF PoolIsServed
  <2>3. /\ {coro'[j].name : j \in Live'} = {coro[j].name : j \in Live} \cup {conn}
        /\ \A i, j \in Live' : coro'[i].name = coro'[j].name => i = j
    BY <2>1, <2>2, PoolAtStart
  <2>4. NoName \notin {coro[j].name : j \in Live} \cup {conn}
    BY <2>1, FreeOrNamed, DamConstants
  <2> QED BY <2>1, <2>3, <2>4, DamConstants DEF PoolIsServed
<1>4. ASSUME NEW k \in Coros, BackEnd(k) PROVE PoolIsServed'
  <2>0. /\ coro \in [Coros -> Coro] /\ coro[k] # Free
        /\ snd = "run" /\ UNCHANGED <<snd, conn>>
    BY <1>4, CoroShapes DEF BackEnd, ConnectOk, ConnectFails, Pull, WriteAgain,
                            GiveBack, TypeOK
  <2>1. ASSUME coro'[k].name = coro[k].name, coro'[k] # Free,
               \A j \in Coros \ {k} : coro'[j] = coro[j], UNCHANGED pool
        PROVE  PoolIsServed'
    BY <2>0, <2>1, PoolKept
  <2>2. ASSUME End(k) PROVE PoolIsServed'
    BY <2>0, <2>2, PoolAtEnd
  <2>3. ASSUME NEW m, Sent(k, m) \/ Held(k, m) PROVE PoolIsServed'
    BY <2>0, <2>1, <2>3 DEF Sent, Held, Free, Coro
  <2>4. CASE ConnectOk(k)
    BY <2>0, <2>1, <2>4 DEF ConnectOk, Free, Coro
  <2> QED BY <1>4, <2>2, <2>3, <2>4 DEF BackEnd, ConnectFails, Pull, WriteAgain,
                                        GiveBack, Dropped
<1>5. CASE SenderEnds
  BY <1>5 DEF SenderEnds, PoolIsServed
<1>6. CASE Restart \/ Crash
  <2>1. Live' = {} /\ pool' = {} /\ conn' = NoName
    BY <1>6 DEF Restart, Crash, Fresh, Live
  <2> QED BY <2>1 DEF PoolIsServed
<1> QED BY <1>1, <1>2, <1>3, <1>4, <1>5, <1>6 DEF Next

-----------------------------------------------------------------------------

LEMMA ServedAlways == Spec => [](TypeOK /\ ConnInv /\ PoolIsServed)
<1>1. Init => TypeOK /\ ConnInv /\ PoolIsServed
  <2>1. Init => Live = {}
    BY DEF Init, Live
  <2> QED BY <2>1, CoroShapes, DamConstants DEF Init, TypeOK, ConnInv, PoolIsServed
<1> QED BY <1>1, TypeStep, ConnStep, PoolStep, PTL DEF Spec

\* damR keeps the types of its variables, for any number of back ends: the
\* queue stays within its capacity although coroutines push to it from both
\* ends, and a coroutine has a message in its hands just while it holds one.
THEOREM TypeCorrect == Spec => []TypeOK
BY ServedAlways, PTL

\* The connection pool of damR names exactly the back ends that are served or
\* about to be, each once, through every failure, end and restart: a back end
\* that was dropped can always ask again, and none is served twice.
THEOREM PoolCorrect == Spec => []PoolIsServed
BY ServedAlways, PTL

-----------------------------------------------------------------------------
(* Every message is in one place *)

\* What the receiver has in its hands.
InReceiver == {zframe} \ {NoMsg}

\* The places of messages: together they hold what was read, and no two of
\* them share a message.
Partition ==
  /\ 1..received = Queued \cup InHand \cup InReceiver \cup sent \cup lost
  /\ Queued \cap (InHand \cup InReceiver \cup sent \cup lost) = {}
  /\ InHand \cap (InReceiver \cup sent \cup lost) = {}
  /\ InReceiver \cap (sent \cup lost) = {}
  /\ sent \cap lost = {}

\* No message is in the queue twice or in two coroutines' hands.
NoCopies ==
  /\ \A i, j \in DOMAIN queue : queue[i] = queue[j] => i = j
  /\ \A j, k \in Coros : coro[j].hand = coro[k].hand /\ coro[j].hand # NoMsg => j = k

\* A thread that has ended holds nothing.
EndedIsEmpty ==
  /\ rcv = "end" => zframe = NoMsg
  /\ snd = "end" => coro = [k \in Coros |-> Free]

PlaceInv == Partition /\ NoCopies /\ EndedIsEmpty

\* The messages of a queue, and that it has none twice.
Elems(q) == {q[i] : i \in DOMAIN q}
Distinct(q) == \A i, j \in DOMAIN q : q[i] = q[j] => i = j

\* The three ways the queue changes.
LEMMA QueueAppend ==
  ASSUME NEW q \in Seq(Msgs), NEW m \in Msgs, Distinct(q), m \notin Elems(q)
  PROVE  Elems(Append(q, m)) = Elems(q) \cup {m} /\ Distinct(Append(q, m))
<1> DEFINE r == Append(q, m)
<1> USE DEF Elems, Distinct
<1>1. /\ DOMAIN q = 1..Len(q) /\ DOMAIN r = 1..(Len(q) + 1) /\ Len(q) \in Nat
      /\ r[Len(q) + 1] = m
      /\ \A i \in 1..Len(q) : r[i] = q[i]
  OBVIOUS
<1> HIDE DEF r
<1>2. DOMAIN r = DOMAIN q \cup {Len(q) + 1}
  BY <1>1
<1>3. {r[i] : i \in DOMAIN r} = {q[i] : i \in DOMAIN q} \cup {m}
  BY <1>1, <1>2
<1>4. \A i, j \in DOMAIN r : r[i] = r[j] => i = j
  BY <1>1, <1>2
<1> QED BY <1>3, <1>4 DEF r

LEMMA QueueTail ==
  ASSUME NEW q \in Seq(Msgs), q # <<>>, Distinct(q)
  PROVE  /\ Head(q) \in Elems(q)
         /\ Elems(Tail(q)) = Elems(q) \ {Head(q)}
         /\ Distinct(Tail(q))
<1> DEFINE r == Tail(q)
<1> USE DEF Elems, Distinct
<1>1. /\ DOMAIN q = 1..Len(q) /\ DOMAIN r = 1..(Len(q) - 1) /\ Len(q) \in Nat \ {0}
      /\ Head(q) = q[1]
      /\ \A i \in 1..(Len(q) - 1) : r[i] = q[i + 1]
  OBVIOUS
<1> HIDE DEF r
<1>2. \A i \in DOMAIN r : i + 1 \in DOMAIN q /\ i + 1 # 1 /\ i \in Nat
  BY <1>1
<1>3. \A i \in DOMAIN q : i # 1 => i - 1 \in DOMAIN r /\ (i - 1) + 1 = i
  BY <1>1
<1>4. {r[i] : i \in DOMAIN r} = {q[i] : i \in DOMAIN q} \ {q[1]}
  <2>1. ASSUME NEW i \in DOMAIN r PROVE r[i] \in {q[x] : x \in DOMAIN q} \ {q[1]}
    BY <1>1, <1>2
  <2>2. ASSUME NEW x \in DOMAIN q, q[x] # q[1] PROVE q[x] \in {r[i] : i \in DOMAIN r}
    <3>1. x - 1 \in DOMAIN r /\ q[x] = r[x - 1]
      BY <2>2, <1>1, <1>3
    <3> QED BY <3>1
  <2> QED BY <2>1, <2>2
<1>5. \A i, j \in DOMAIN r : r[i] = r[j] => i = j
  BY <1>1, <1>2
<1>6. 1 \in DOMAIN q
  BY <1>1
<1> QED BY <1>1, <1>4, <1>5, <1>6 DEF r

LEMMA QueueFront ==
  ASSUME NEW q \in Seq(Msgs), NEW m \in Msgs, Distinct(q), m \notin Elems(q)
  PROVE  Elems(<<m>> \o q) = Elems(q) \cup {m} /\ Distinct(<<m>> \o q)
<1> DEFINE r == <<m>> \o q
<1> USE DEF Elems, Distinct
<1>1. /\ DOMAIN q = 1..Len(q) /\ DOMAIN r = 1..(Len(q) + 1) /\ Len(q) \in Nat
      /\ r[1] = m
      /\ \A i \in 1..(Len(q) + 1) : i # 1 => r[i] = q[i - 1]
  OBVIOUS
<1> HIDE DEF r
<1>2. \A i \in DOMAIN q : i + 1 \in DOMAIN r /\ i + 1 # 1 /\ (i + 1) - 1 = i
  BY <1>1
<1>3. \A i \in DOMAIN r : i # 1 => i - 1 \in DOMAIN q /\ i \in Nat
  BY <1>1
<1>4. {r[i] : i \in DOMAIN r} = {q[i] : i \in DOMAIN q} \cup {m}
  <2>1. ASSUME NEW i \in DOMAIN r PROVE r[i] \in {q[x] : x \in DOMAIN q} \cup {m}
    BY <1>1, <1>3
  <2>2. ASSUME NEW x \in DOMAIN q PROVE q[x] \in {r[i] : i \in DOMAIN r}
    <3>1. x + 1 \in DOMAIN r /\ q[x] = r[x + 1]
      BY <1>1, <1>2
    <3> QED BY <3>1
  <2>3. m \in {r[i] : i \in DOMAIN r}
    BY <1>1
  <2> QED BY ONLY <2>1, <2>2, <2>3
<1>5. \A i, j \in DOMAIN r : r[i] = r[j] => i = j
  <2> SUFFICES ASSUME NEW i \in DOMAIN r, NEW j \in DOMAIN r, r[i] = r[j]
               PROVE  i = j
    OBVIOUS
  <2>1. CASE i = 1 \/ j = 1
    BY <2>1, <1>1, <1>3
  <2>2. CASE i # 1 /\ j # 1
    <3>1. i - 1 = j - 1
      BY <2>2, <1>1, <1>3
    <3> QED BY <2>2, <3>1, <1>3
  <2> QED BY <2>1, <2>2
<1> QED BY <1>4, <1>5 DEF r

\* One coroutine's hands change: m is the message it holds afterwards, if any.
LEMMA HandChange ==
  ASSUME TypeOK, NoCopies, NEW k \in Coros, NEW c, NEW m,
         coro' = [coro EXCEPT ![k] = c], c.hand = m,
         m \notin InHand \/ m = NoMsg
  PROVE  /\ InHand' = (InHand \ {coro[k].hand}) \cup ({m} \ {NoMsg})
         /\ \A i, j \in Coros :
              coro'[i].hand = coro'[j].hand /\ coro'[i].hand # NoMsg => i = j
<1>1. /\ coro'[k].hand = m
      /\ \A j \in Coros \ {k} : coro'[j] = coro[j]
  BY DEF TypeOK
<1>2. \A j \in Coros \ {k} : coro[j].hand # NoMsg => coro[j].hand # coro[k].hand
  BY DEF NoCopies
<1>3. \A j \in Coros \ {k} : coro[j].hand # NoMsg => coro[j].hand \in InHand
  BY DEF InHand
<1>4. InHand' = (InHand \ {coro[k].hand}) \cup ({m} \ {NoMsg})
  BY <1>1, <1>2 DEF InHand
<1>5. \A i, j \in Coros :
        coro'[i].hand = coro'[j].hand /\ coro'[i].hand # NoMsg => i = j
  BY <1>1, <1>3 DEF NoCopies
<1> QED BY <1>4, <1>5

\* No step of a thread copies a message or forgets one.
LEMMA PlaceStep ==
  ASSUME TypeOK, ConnInv, PoolIsServed, PlaceInv, [Next]_vars
  PROVE  PlaceInv'
<1> USE DEF queueVars, rcvVars, accVars
<1>t. /\ NoMsg \notin Msgs /\ received \in Nat
      /\ queue \in Seq(Msgs) /\ coro \in [Coros -> Coro]
      /\ lost \subseteq Msgs /\ sent \subseteq Msgs
  BY DamConstants DEF TypeOK, Msgs
<1>h. ASSUME NEW k \in Coros
      PROVE  /\ coro[k].pc = "hold" => coro[k].hand \in InHand /\ coro[k].hand \in Msgs
             /\ coro[k].pc # "hold" => coro[k].hand = NoMsg
  BY <1>t, CoroSteps, CoroShapes DEF InHand
<1>q. ASSUME UNCHANGED queue
      PROVE  /\ Queued' = Queued
             /\ \A i, j \in DOMAIN queue' : queue'[i] = queue'[j] => i = j
  BY <1>q DEF Queued, PlaceInv, NoCopies
<1>c. ASSUME UNCHANGED coro
      PROVE  /\ InHand' = InHand
             /\ \A j, k \in Coros :
                  coro'[j].hand = coro'[k].hand /\ coro'[j].hand # NoMsg => j = k
  BY <1>c DEF InHand, PlaceInv, NoCopies
<1>z. ASSUME UNCHANGED zframe PROVE InReceiver' = InReceiver
  BY <1>z DEF InReceiver
<1>f. ASSUME coro' = [k \in Coros |-> Free]
      PROVE  /\ InHand' = {}
             /\ \A j, k \in Coros :
                  coro'[j].hand = coro'[k].hand /\ coro'[j].hand # NoMsg => j = k
  BY <1>f, CoroShapes DEF InHand
<1>1. CASE Read
  <2>1. /\ InReceiver = {} /\ InReceiver' = {received + 1}
        /\ received' = received + 1
        /\ UNCHANGED <<sent, lost, rcv, snd, coro, queue>> /\ rcv = "run"
    BY <1>1, <1>t, DamConstants DEF Read, InReceiver
  <2>2. 1..received' = (1..received) \cup {received + 1} /\ received + 1 \notin 1..received
    BY <2>1, <1>t
  <2>3. Partition'
    BY <2>1, <2>2, <1>q, <1>c DEF PlaceInv, Partition
  <2> QED BY <2>1, <2>3, <1>q, <1>c DEF PlaceInv, NoCopies, EndedIsEmpty
<1>2. CASE Push
  <2>1. /\ InReceiver = {zframe} /\ InReceiver' = {} /\ zframe \in Msgs
        /\ zframe \notin Queued
        /\ queue' = Append(queue, zframe)
        /\ UNCHANGED <<received, sent, lost, rcv, snd, coro>> /\ rcv = "run"
    BY <1>2 DEF Push, InReceiver, TypeOK, PlaceInv, Partition
  <2>2. /\ Queued' = Queued \cup {zframe}
        /\ \A i, j \in DOMAIN queue' : queue'[i] = queue'[j] => i = j
    <3>1. Distinct(queue) /\ zframe \notin Elems(queue)
      BY <2>1 DEF PlaceInv, NoCopies, Distinct, Elems, Queued
    <3>2. Elems(queue') = Elems(queue) \cup {zframe} /\ Distinct(queue')
      BY <2>1, <3>1, <1>t, QueueAppend
    <3> QED BY ONLY <3>2 DEF Queued, Elems, Distinct
  <2>3. Partition'
    BY <2>1, <2>2, <1>c DEF PlaceInv, Partition
  <2> QED BY <2>1, <2>2, <2>3, <1>c DEF PlaceInv, NoCopies, EndedIsEmpty
<1>3. CASE ReceiverEnds
  <2>1. /\ InReceiver' = {} /\ lost' = lost \cup InReceiver /\ zframe' = NoMsg
        /\ UNCHANGED <<received, sent, snd, coro, queue>>
    BY <1>3 DEF ReceiverEnds, InReceiver
  <2>2. Partition'
    BY <2>1, <1>q, <1>c DEF PlaceInv, Partition
  <2> QED BY <2>1, <2>2, <1>q, <1>c DEF PlaceInv, NoCopies, EndedIsEmpty
<1>4. ASSUME UNCHANGED <<queue, received, sent, lost, rcv, zframe, snd, coro>>
      PROVE  PlaceInv'
  BY <1>4, <1>q, <1>c, <1>z DEF PlaceInv, Partition, NoCopies, EndedIsEmpty
<1>5. ASSUME NEW n \in Names, Start(n), snd = "run",
             UNCHANGED <<queue, received, sent, lost, rcv, zframe, snd>>
      PROVE  PlaceInv'
  <2> DEFINE k == CHOOSE x \in Coros : coro[x] = Free
  <2> DEFINE new == [name |-> n, pc |-> "connect", hand |-> NoMsg]
  <2>1. k \in Coros /\ coro[k] = Free
    BY <1>5, OneIsFree DEF PoolIsServed
  <2>2. coro' = [coro EXCEPT ![k] = new] /\ new.hand = NoMsg
    BY <1>5 DEF Start
  <2> HIDE DEF k, new
  <2>3. /\ InHand' = (InHand \ {coro[k].hand}) \cup ({NoMsg} \ {NoMsg})
        /\ \A i, j \in Coros :
              coro'[i].hand = coro'[j].hand /\ coro'[i].hand # NoMsg => i = j
    BY <2>1, <2>2, HandChange DEF PlaceInv
  <2>4. InHand' = InHand
    BY <2>1, <2>3, CoroShapes DEF InHand
  <2>5. Partition'
    BY <1>5, <1>q, <1>z, <2>4 DEF PlaceInv, Partition
  <2> QED BY <1>5, <1>q, <2>3, <2>5 DEF PlaceInv, NoCopies, EndedIsEmpty
<1>6. ASSUME NEW k \in Coros, BackEnd(k) PROVE PlaceInv'
  <2> DEFINE h == coro[k].hand
  <2>0. /\ snd = "run" /\ UNCHANGED <<received, rcv, zframe, snd>>
    BY <1>6 DEF BackEnd, ConnectOk, ConnectFails, Pull, WriteAgain, GiveBack
  <2>1. ASSUME NEW c, coro' = [coro EXCEPT ![k] = c], c.hand = NoMsg
        PROVE  /\ InHand' = InHand \ {h}
               /\ \A i, j \in Coros :
                    coro'[i].hand = coro'[j].hand /\ coro'[i].hand # NoMsg => i = j
    <3>1. /\ InHand' = (InHand \ {coro[k].hand}) \cup ({NoMsg} \ {NoMsg})
          /\ \A i, j \in Coros :
               coro'[i].hand = coro'[j].hand /\ coro'[i].hand # NoMsg => i = j
      BY <2>1, HandChange DEF PlaceInv
    <3> QED BY <3>1
  <2>2. NoMsg \notin InHand
    BY DEF InHand
  <2>3. ASSUME End(k)
        PROVE  /\ InHand' = InHand \ {h}
               /\ \A i, j \in Coros :
                    coro'[i].hand = coro'[j].hand /\ coro'[i].hand # NoMsg => i = j
    BY <2>1, <2>3, CoroShapes DEF End
  <2>4. ASSUME NEW m, Sent(k, m)
        PROVE  /\ InHand' = InHand \ {h}
               /\ \A i, j \in Coros :
                    coro'[i].hand = coro'[j].hand /\ coro'[i].hand # NoMsg => i = j
    <3> DEFINE c == [coro[k] EXCEPT !.pc = "pull", !.hand = NoMsg]
    <3>1. coro' = [coro EXCEPT ![k] = c]
      BY <2>4 DEF Sent
    <3>2. c.hand = NoMsg
      BY <1>t DEF Coro, Free
    <3> QED BY <3>1, <3>2, <2>1
  <2>5. CASE ConnectOk(k)
    <3> DEFINE c == [coro[k] EXCEPT !.pc = "pull"]
    <3>1. coro' = [coro EXCEPT ![k] = c] /\ h = NoMsg
      BY <2>5, <1>h DEF ConnectOk
    <3>2. c.hand = NoMsg
      BY <1>t, <3>1 DEF Coro, Free
    <3>3. /\ InHand' = InHand
          /\ \A i, j \in Coros :
               coro'[i].hand = coro'[j].hand /\ coro'[i].hand # NoMsg => i = j
      BY <3>1, <3>2, <2>1, <2>2
    <3> QED BY <2>0, <2>5, <3>3, <1>q, <1>z
            DEF ConnectOk, PlaceInv, Partition, NoCopies, EndedIsEmpty
  <2>6. CASE ConnectFails(k)
    <3>1. InHand' = InHand
      BY <2>6, <2>2, <2>3, <1>h DEF ConnectFails
    <3> QED BY <2>0, <2>3, <2>6, <3>1, <1>q, <1>z
            DEF ConnectFails, PlaceInv, Partition, NoCopies, EndedIsEmpty
  <2>7. CASE Pull(k)
    <3> DEFINE m == Head(queue)
    <3>1. /\ m \in Queued /\ Queued' = Queued \ {m}
          /\ \A i, j \in DOMAIN queue' : queue'[i] = queue'[j] => i = j
      <4>1. queue' = Tail(queue) /\ queue # <<>>
        BY <2>7 DEF Pull
      <4>2. Distinct(queue)
        BY DEF PlaceInv, NoCopies, Distinct
      <4>3. queue \in Seq(Msgs)
        BY <1>t
      <4>4. /\ Head(queue) \in Elems(queue)
            /\ Elems(queue') = Elems(queue) \ {Head(queue)}
            /\ Distinct(queue')
        BY <4>1, <4>2, <4>3, QueueTail
      <4> QED BY ONLY <4>4 DEF Queued, Elems, Distinct
    <3>2. h = NoMsg
      BY <2>7, <1>h DEF Pull
    <3>3. CASE Sent(k, m)
      <4>1. InHand' = InHand /\ sent' = sent \cup {m} /\ lost' = lost
        BY <3>2, <3>3, <2>2, <2>4 DEF Sent
      <4>2. Partition'
        BY <2>0, <3>1, <4>1, <1>z DEF PlaceInv, Partition
      <4> QED BY <2>0, <2>4, <3>1, <3>3, <4>2 DEF PlaceInv, NoCopies, EndedIsEmpty
    <3>4. CASE Held(k, m)
      <4> DEFINE c == [coro[k] EXCEPT !.pc = "hold", !.hand = m]
      <4>1. coro' = [coro EXCEPT ![k] = c] /\ UNCHANGED <<sent, lost>>
        BY <3>4 DEF Held
      <4>2. c.hand = m
        BY <1>t DEF Coro, Free
      <4>3. m \notin InHand /\ m # NoMsg
        <5>1. m \notin InHand
          BY <3>1 DEF PlaceInv, Partition
        <5>2. m \in Msgs
          BY <2>7, <1>t DEF Pull
        <5> QED BY <5>1, <5>2, <1>t
      <4> HIDE DEF c, m
      <4>4. /\ InHand' = (InHand \ {h}) \cup ({m} \ {NoMsg})
            /\ \A i, j \in Coros :
                 coro'[i].hand = coro'[j].hand /\ coro'[i].hand # NoMsg => i = j
        BY <4>1, <4>2, <4>3, HandChange DEF PlaceInv
      <4>5. InHand' = InHand \cup {m}
        BY <4>3, <4>4, <3>2, <2>2
      <4>6. Partition'
        BY <2>0, <3>1, <4>1, <4>5, <1>z DEF PlaceInv, Partition
      <4> QED BY <2>0, <3>1, <4>4, <4>6 DEF PlaceInv, NoCopies, EndedIsEmpty
    <3>5. CASE Dropped(k, m)
      <4>1. InHand' = InHand /\ lost' = lost \cup {m} /\ sent' = sent
        BY <3>2, <3>5, <2>2, <2>3 DEF Dropped
      <4>2. Partition'
        BY <2>0, <3>1, <4>1, <1>z DEF PlaceInv, Partition
      <4> QED BY <2>0, <2>3, <3>1, <3>5, <4>2
              DEF Dropped, PlaceInv, NoCopies, EndedIsEmpty
    <3> QED BY <2>7, <3>3, <3>4, <3>5 DEF Pull
  <2>8. CASE WriteAgain(k)
    <3>1. h \in InHand /\ UNCHANGED queue
      BY <2>8, <1>h DEF WriteAgain
    <3>2. CASE Sent(k, h)
      <4>1. InHand' = InHand \ {h} /\ sent' = sent \cup {h} /\ lost' = lost
        BY <3>2, <2>4 DEF Sent
      <4>2. Partition'
        BY <2>0, <3>1, <4>1, <1>q, <1>z DEF PlaceInv, Partition
      <4> QED BY <2>0, <2>4, <3>1, <3>2, <4>2, <1>q DEF PlaceInv, NoCopies, EndedIsEmpty
    <3>3. CASE Dropped(k, h)
      <4>1. InHand' = InHand \ {h} /\ lost' = lost \cup {h} /\ sent' = sent
        BY <3>3, <2>3 DEF Dropped
      <4>2. Partition'
        BY <2>0, <3>1, <4>1, <1>q, <1>z DEF PlaceInv, Partition
      <4> QED BY <2>0, <2>3, <3>1, <3>3, <4>2, <1>q
              DEF Dropped, PlaceInv, NoCopies, EndedIsEmpty
    <3> QED BY <2>8, <3>2, <3>3 DEF WriteAgain
  <2>9. CASE GiveBack(k)
    <3>1. h \in InHand /\ h \in Msgs /\ sent' = sent
      BY <2>9, <1>h DEF GiveBack
    <3>2. /\ InHand' = InHand \ {h}
          /\ \A i, j \in Coros :
               coro'[i].hand = coro'[j].hand /\ coro'[i].hand # NoMsg => i = j
      BY <2>9, <2>3 DEF GiveBack
    <3>3. CASE Full
      <4>1. lost' = lost \cup {h} /\ UNCHANGED queue
        BY <2>9, <3>3 DEF GiveBack
      <4>2. Partition'
        BY <2>0, <3>1, <3>2, <4>1, <1>q, <1>z DEF PlaceInv, Partition
      <4> QED BY <2>0, <3>2, <4>1, <4>2, <1>q DEF PlaceInv, NoCopies, EndedIsEmpty
    <3>4. CASE ~Full
      <4>1. queue' = <<h>> \o queue /\ lost' = lost
        BY <2>9, <3>4 DEF GiveBack
      <4>2. h \notin Queued
        BY <3>1 DEF PlaceInv, Partition
      <4>3. /\ Queued' = Queued \cup {h}
            /\ \A i, j \in DOMAIN queue' : queue'[i] = queue'[j] => i = j
        <5>1. Distinct(queue)
          BY DEF PlaceInv, NoCopies, Distinct
        <5>2. queue \in Seq(Msgs) /\ h \notin Elems(queue)
          BY <1>t, <4>2 DEF Queued, Elems
        <5> HIDE DEF h
        <5>3. Elems(queue') = Elems(queue) \cup {h} /\ Distinct(queue')
          BY <3>1, <4>1, <5>1, <5>2, QueueFront
        <5> QED BY ONLY <5>3 DEF Queued, Elems, Distinct
      <4>4. Partition'
        BY <2>0, <3>1, <3>2, <4>1, <4>3, <1>z DEF PlaceInv, Partition
      <4> QED BY <2>0, <3>2, <4>3, <4>4 DEF PlaceInv, NoCopies, EndedIsEmpty
    <3> QED BY <3>3, <3>4
  <2> QED BY <1>6, <2>5, <2>6, <2>7, <2>8, <2>9 DEF BackEnd
<1>7. CASE SenderEnds
  <2>1. /\ lost' = lost \cup InHand /\ coro' = [k \in Coros |-> Free]
        /\ UNCHANGED <<queue, received, sent, rcv, zframe>>
    BY <1>7 DEF SenderEnds
  <2>2. Partition'
    BY <2>1, <1>f, <1>q, <1>z DEF PlaceInv, Partition
  <2> QED BY <2>1, <2>2, <1>f, <1>q DEF PlaceInv, NoCopies, EndedIsEmpty
<1>8. CASE Restart
  <2>1. /\ zframe = NoMsg /\ coro = [k \in Coros |-> Free]
        /\ zframe' = NoMsg /\ coro' = [k \in Coros |-> Free]
        /\ UNCHANGED <<queue, received, sent, lost>>
        /\ rcv' = "run" /\ snd' = "run"
    BY <1>8 DEF Restart, Exited, Fresh, PlaceInv, EndedIsEmpty
  <2> QED BY <2>1, <1>q, <1>c, <1>z DEF PlaceInv, Partition, NoCopies, EndedIsEmpty
<1>9. CASE Crash
  <2>1. /\ lost' = lost \cup InHand \cup InReceiver
        /\ InReceiver' = {} /\ coro' = [k \in Coros |-> Free]
        /\ UNCHANGED <<queue, received, sent>>
        /\ rcv' = "run" /\ snd' = "run"
    BY <1>9 DEF Crash, Fresh, InReceiver
  <2>2. Partition'
    BY <2>1, <1>f, <1>q DEF PlaceInv, Partition
  <2> QED BY <2>1, <2>2, <1>f, <1>q DEF PlaceInv, NoCopies, EndedIsEmpty
<1>10. ASSUME NEW n \in Names, Request(n) PROVE PlaceInv'
  BY <1>10, <1>4, <1>5 DEF Request
<1>11. CASE Retry
  BY <1>11, <1>5 DEF Retry, ConnInv, TypeOK
<1>12. CASE BadRequest \/ Signal \/ UNCHANGED vars
  BY <1>12, <1>4 DEF BadRequest, Signal, vars
<1> QED BY <1>1, <1>2, <1>3, <1>6, <1>7, <1>8, <1>9, <1>10, <1>11, <1>12 DEF Next

\* The parts of a partition are counted apart.
LEMMA DisjointCount ==
  ASSUME NEW S, NEW T, IsFiniteSet(S), IsFiniteSet(T), S \cap T = {}
  PROVE  /\ IsFiniteSet(S \cup T)
         /\ Cardinality(S \cup T) = Cardinality(S) + Cardinality(T)
         /\ Cardinality(S) \in Nat /\ Cardinality(T) \in Nat
<1>1. Cardinality(S \cup T) = Cardinality(S) + Cardinality(T) - Cardinality(S \cap T)
  BY FS_Union
<1>2. Cardinality(S \cap T) = 0
  BY FS_EmptySet
<1>3. Cardinality(S) \in Nat /\ Cardinality(T) \in Nat
  BY FS_CardinalityType
<1>4. IsFiniteSet(S \cup T)
  BY FS_Union
<1> QED BY <1>1, <1>2, <1>3, <1>4

\* The counts of OnePlaceEach follow from the partition.
LEMMA PlacesCounted ==
  ASSUME TypeOK, PlaceInv
  PROVE  OnePlaceEach
<1>0. received \in Nat /\ queue \in Seq(Msgs) /\ coro \in [Coros -> Coro]
  BY DamConstants DEF TypeOK
<1>i. ASSUME NEW n \in Nat PROVE IsFiniteSet(1..n) /\ Cardinality(1..n) = n
  BY FS_Interval
<1>1. IsFiniteSet(1..received) /\ Cardinality(1..received) = received
  BY <1>0, <1>i
<1>2. /\ IsFiniteSet(Queued) /\ IsFiniteSet(InHand) /\ IsFiniteSet(InReceiver)
      /\ IsFiniteSet(sent) /\ IsFiniteSet(lost)
  BY <1>1, FS_Subset DEF PlaceInv, Partition
<1>3. Cardinality(Queued) = Len(queue)
  <2> DEFINE f == [i \in 1..Len(queue) |-> queue[i]]
  <2>1. Len(queue) \in Nat /\ DOMAIN queue = 1..Len(queue)
    BY <1>0
  <2>2. f \in Bijection(1..Len(queue), Queued)
    BY <2>1 DEF Bijection, Injection, Surjection, IsInjective, Queued, PlaceInv, NoCopies
  <2>3. IsFiniteSet(1..Len(queue)) /\ Cardinality(1..Len(queue)) = Len(queue)
    BY <2>1, <1>i
  <2> QED BY <2>2, <2>3, FS_Bijection DEF ExistsBijection
<1>4. Cardinality(InHand) = Cardinality({k \in Coros : coro[k].hand # NoMsg})
  <2> DEFINE H == {k \in Coros : coro[k].hand # NoMsg}
             f == [k \in H |-> coro[k].hand]
  <2>1. f \in Bijection(H, InHand)
    BY DEF Bijection, Injection, Surjection, IsInjective, InHand, PlaceInv, NoCopies
  <2>2. IsFiniteSet(H)
    BY FS_Subset, DamConstants
  <2> QED BY <2>1, <2>2, FS_Bijection DEF ExistsBijection
<1> DEFINE U1 == sent \cup lost
           U2 == InReceiver \cup U1
           U3 == InHand \cup U2
           U4 == Queued \cup U3
<1>5. /\ sent \cap lost = {} /\ InReceiver \cap U1 = {} /\ InHand \cap U2 = {}
      /\ Queued \cap U3 = {} /\ U4 = 1..received
  BY DEF PlaceInv, Partition
<1>6. /\ IsFiniteSet(U1) /\ Cardinality(U1) = Cardinality(sent) + Cardinality(lost)
      /\ Cardinality(sent) \in Nat /\ Cardinality(lost) \in Nat
  BY <1>2, <1>5, DisjointCount
<1>7. /\ IsFiniteSet(U2) /\ Cardinality(U2) = Cardinality(InReceiver) + Cardinality(U1)
      /\ Cardinality(InReceiver) \in Nat
  BY <1>2, <1>5, <1>6, DisjointCount
<1>8. /\ IsFiniteSet(U3) /\ Cardinality(U3) = Cardinality(InHand) + Cardinality(U2)
      /\ Cardinality(InHand) \in Nat
  BY <1>2, <1>5, <1>7, DisjointCount
<1>9. Cardinality(U4) = Cardinality(Queued) + Cardinality(U3)
  BY <1>2, <1>5, <1>8, DisjointCount
<1> HIDE DEF U1, U2, U3, U4
<1>10. received = Len(queue) + Cardinality(InHand) + Cardinality(InReceiver)
                  + Cardinality(sent) + Cardinality(lost)
  <2>1. Len(queue) \in Nat
    BY <1>0
  <2> QED BY <1>1, <1>3, <1>5, <1>6, <1>7, <1>8, <1>9, <2>1
<1> QED BY <1>4, <1>10 DEF OnePlaceEach, PlaceInv, Partition, InReceiver

\* No run of damR copies a message or forgets one.
LEMMA PlaceAlways == Spec => []PlaceInv
<1>1. Init => PlaceInv
  <2> SUFFICES ASSUME Init PROVE PlaceInv
    OBVIOUS
  <2>1. InHand = {} /\ Queued = {} /\ InReceiver = {}
    BY CoroShapes DEF Init, InHand, Queued, InReceiver
  <2>2. \A k \in Coros : coro[k].hand = NoMsg
    BY CoroShapes DEF Init
  <2> QED BY <2>1, <2>2 DEF Init, PlaceInv, Partition, NoCopies, EndedIsEmpty
<1> QED BY <1>1, PlaceStep, ServedAlways, PTL DEF Spec

\* Every message damR has read is in exactly one place: the receiver's hands,
\* the queue, one coroutine's hands, sent or lost.  So it is for any number of
\* back ends, capacity and traffic, with failing writes, threads that end with
\* messages in their hands, restarts and crashes.
THEOREM OnePlace == Spec => []OnePlaceEach
BY PlaceAlways, ServedAlways, PlacesCounted, PTL

-----------------------------------------------------------------------------
(* The order of the queue *)

\* From place c on, q is in the order of arrival; and m came before all that.
SortedFrom(q, c) == \A i, j \in DOMAIN q : i < j /\ c < j => q[i] < q[j]
Before(m, q, c) == \A j \in DOMAIN q : c < j => m < q[j]

\* push of a message younger than all of the queue.
LEMMA OrderAppend ==
  ASSUME NEW q \in Seq(Msgs), NEW m \in Msgs, NEW c \in Nat, SortedFrom(q, c),
         \A i \in DOMAIN q : q[i] < m
  PROVE  /\ SortedFrom(Append(q, m), c)
         /\ \A h \in Msgs : h < m /\ Before(h, q, c) => Before(h, Append(q, m), c)
<1> DEFINE r == Append(q, m)
<1>1. /\ DOMAIN q = 1..Len(q) /\ DOMAIN r = 1..(Len(q) + 1) /\ Len(q) \in Nat
      /\ r[Len(q) + 1] = m
      /\ \A i \in 1..Len(q) : r[i] = q[i]
  OBVIOUS
<1> HIDE DEF r
<1>2. ASSUME NEW i \in DOMAIN r PROVE i \in DOMAIN q \/ i = Len(q) + 1
  BY <1>1
<1>3. SortedFrom(r, c)
  <2> SUFFICES ASSUME NEW i \in DOMAIN r, NEW j \in DOMAIN r, i < j, c < j
               PROVE  r[i] < r[j]
    BY DEF SortedFrom
  <2>1. i \in DOMAIN q
    BY <1>1
  <2> QED BY <1>1, <1>2, <2>1 DEF SortedFrom
<1>4. ASSUME NEW h \in Msgs, h < m, Before(h, q, c) PROVE Before(h, r, c)
  BY <1>1, <1>2, <1>4 DEF Before
<1> QED BY <1>3, <1>4 DEF r

\* pull: what is left is in order from one place earlier on, and what was
\* pulled came before that.
LEMMA OrderTail ==
  ASSUME NEW q \in Seq(Msgs), q # <<>>, NEW c \in Nat, NEW d \in Nat, c <= d + 1,
         SortedFrom(q, c)
  PROVE  /\ SortedFrom(Tail(q), d) /\ Before(Head(q), Tail(q), d)
         /\ \A h \in Msgs : Before(h, q, c) => Before(h, Tail(q), d)
<1> DEFINE r == Tail(q)
<1>1. /\ DOMAIN q = 1..Len(q) /\ DOMAIN r = 1..(Len(q) - 1) /\ Len(q) \in Nat \ {0}
      /\ Head(q) = q[1]
      /\ \A i \in 1..(Len(q) - 1) : r[i] = q[i + 1]
  OBVIOUS
<1> HIDE DEF r
<1>2. ASSUME NEW i \in DOMAIN r
      PROVE  i \in Nat /\ i + 1 \in DOMAIN q /\ r[i] = q[i + 1] /\ 1 < i + 1
  BY <1>1
<1>3. ASSUME NEW i \in DOMAIN r, d < i PROVE c < i + 1
  BY <1>2, <1>3
<1>4. SortedFrom(r, d)
  <2> SUFFICES ASSUME NEW i \in DOMAIN r, NEW j \in DOMAIN r, i < j, d < j
               PROVE  r[i] < r[j]
    BY DEF SortedFrom
  <2>1. i + 1 < j + 1 /\ c < j + 1
    BY <1>2, <1>3
  <2> QED BY <1>2, <2>1 DEF SortedFrom
<1>5. Before(Head(q), r, d)
  <2>1. 1 \in DOMAIN q
    BY <1>1
  <2> QED BY <1>1, <1>2, <1>3, <2>1 DEF SortedFrom, Before
<1>6. ASSUME NEW h \in Msgs, Before(h, q, c) PROVE Before(h, r, d)
  BY <1>2, <1>3, <1>6 DEF Before
<1> QED BY <1>4, <1>5, <1>6 DEF r

\* priopush: in order from one place later on.
LEMMA OrderFront ==
  ASSUME NEW q \in Seq(Msgs), NEW m \in Msgs, NEW c \in Nat, SortedFrom(q, c),
         Before(m, q, c)
  PROVE  /\ SortedFrom(<<m>> \o q, c + 1)
         /\ \A h \in Msgs : Before(h, q, c) => Before(h, <<m>> \o q, c + 1)
<1> DEFINE r == <<m>> \o q
<1>1. /\ DOMAIN q = 1..Len(q) /\ DOMAIN r = 1..(Len(q) + 1) /\ Len(q) \in Nat
      /\ r[1] = m
      /\ \A i \in 1..(Len(q) + 1) : i # 1 => r[i] = q[i - 1]
  OBVIOUS
<1> HIDE DEF r
<1>2. ASSUME NEW i \in DOMAIN r, i # 1
      PROVE  i \in Nat /\ i - 1 \in DOMAIN q /\ r[i] = q[i - 1]
  BY <1>1, <1>2
<1>3. ASSUME NEW i \in DOMAIN r, c + 1 < i PROVE i # 1 /\ c < i - 1
  BY <1>1, <1>3
<1>4. SortedFrom(r, c + 1)
  <2> SUFFICES ASSUME NEW i \in DOMAIN r, NEW j \in DOMAIN r, i < j, c + 1 < j
               PROVE  r[i] < r[j]
    BY DEF SortedFrom
  <2>1. CASE i = 1
    BY <1>1, <1>2, <1>3, <2>1 DEF Before
  <2>2. CASE i # 1
    <3>1. i - 1 < j - 1 /\ c < j - 1 /\ j # 1
      BY <1>2, <1>3, <2>2
    <3> QED BY <1>2, <2>2, <3>1 DEF SortedFrom
  <2> QED BY <2>1, <2>2
<1>5. ASSUME NEW h \in Msgs, Before(h, q, c) PROVE Before(h, r, c + 1)
  BY <1>2, <1>3, <1>5 DEF Before
<1> QED BY <1>4, <1>5 DEF r

\* The coroutines that may still give a message back.
Holders == {k \in Coros : coro[k].hand # NoMsg}

\* The queue is in order from place c on, whatever is given back was read
\* before that, and with it the disorder reaches no further than there are
\* back ends.
Cut(c) ==
  /\ c + Cardinality(Holders) <= Cardinality(Names)
  /\ SortedFrom(queue, c)
  /\ \A k \in Holders : Before(coro[k].hand, queue, c)

OrderInv ==
  /\ zframe # NoMsg => zframe = received
  /\ \E c \in Nat : Cut(c)

\* While every back end has one coroutine at most, no more messages are in
\* their hands than there are back ends.  (The coroutines are a parameter: the
\* lemma is used of the state after a step.)
LEMMA HoldersNamed ==
  ASSUME NEW co \in [Coros -> Coro],
         \A j, k \in Coros : co[j] # Free /\ co[k] # Free /\ co[j].name = co[k].name => j = k
  PROVE  Cardinality({k \in Coros : co[k].hand # NoMsg}) <= Cardinality(Names)
<1> DEFINE H == {k \in Coros : co[k].hand # NoMsg}
           f == [k \in H |-> co[k].name]
<1>1. \A k \in H : k \in Coros /\ co[k] # Free /\ co[k].name \in Names
  BY CoroSteps, CoroShapes
<1>2. f \in Injection(H, Names)
  BY <1>1 DEF Injection, IsInjective
<1>3. Cardinality(H) <= Cardinality(Names)
  BY <1>2, FS_Injection, DamConstants
<1> QED BY <1>3

\* Every step keeps the disorder in front: a pull moves the cut towards the
\* front, and what is given back moves it by one and has one holder less.
LEMMA OrderStep ==
  ASSUME TypeOK, ConnInv, PoolIsServed, PlaceInv, OrderInv, [Next]_vars
  PROVE  OrderInv'
<1> USE DEF queueVars, rcvVars, accVars
<1>t. /\ NoMsg \notin Msgs /\ Msgs \subseteq Nat /\ received \in Nat
      /\ queue \in Seq(Msgs) /\ coro \in [Coros -> Coro]
      /\ zframe \in Msgs \cup {NoMsg}
  BY DamConstants DEF TypeOK, Msgs
<1>n. /\ TypeOK' /\ PoolIsServed'
  BY TypeStep, PoolStep
<1>f. /\ IsFiniteSet(Holders) /\ Cardinality(Holders) \in Nat
      /\ Cardinality(Names) \in Nat
      /\ \A k \in Holders : k \in Coros /\ coro[k].hand \in Msgs
  <2>1. IsFiniteSet(Holders)
    BY FS_Subset, DamConstants DEF Holders
  <2>2. \A k \in Holders : k \in Coros /\ coro[k].hand \in Msgs
    BY <1>t, CoroSteps, CoroShapes DEF Holders
  <2> QED BY <2>1, <2>2, FS_CardinalityType, DamConstants
<1>c. PICK c \in Nat : Cut(c)
  BY DEF OrderInv
<1>c1. /\ c + Cardinality(Holders) <= Cardinality(Names)
       /\ SortedFrom(queue, c)
       /\ \A k \in Holders : Before(coro[k].hand, queue, c)
  BY <1>c DEF Cut
<1>k. ASSUME UNCHANGED queue, Holders' \subseteq Holders,
             \A k \in Holders' : coro'[k].hand = coro[k].hand
      PROVE  Cut(c)'
  <2>1. Cardinality(Holders') <= Cardinality(Holders) /\ Cardinality(Holders') \in Nat
    BY <1>f, <1>k, FS_Subset, FS_CardinalityType
  <2>2. c + Cardinality(Holders') <= Cardinality(Names)
    BY ONLY <2>1, <1>f, <1>c1, c \in Nat
  <2>3. SortedFrom(queue', c) /\ \A k \in Holders' : Before(coro'[k].hand, queue', c)
    BY <1>k, <1>c1
  <2> QED BY <2>2, <2>3 DEF Cut
<1>u. ASSUME UNCHANGED coro PROVE Holders' = Holders
  BY <1>u DEF Holders
<1>e. ASSUME coro' = [k \in Coros |-> Free] PROVE Holders' = {}
  BY <1>e, CoroShapes DEF Holders
<1>d. ASSUME NEW k \in Coros, NEW r, coro' = [coro EXCEPT ![k] = r], r.hand = NoMsg
      PROVE  /\ Holders' = Holders \ {k}
             /\ \A j \in Holders' : coro'[j].hand = coro[j].hand
  BY <1>d, <1>t DEF Holders
<1>1. CASE Read
  <2>1. zframe' = received' /\ UNCHANGED <<queue, coro>>
    BY <1>1 DEF Read
  <2> QED BY <2>1, <1>u, <1>k DEF OrderInv
<1>2. CASE Push
  <2>1. /\ zframe \in Msgs /\ zframe = received /\ zframe' = NoMsg
        /\ queue' = Append(queue, zframe) /\ UNCHANGED coro
    BY <1>2, <1>t DEF Push, OrderInv
  <2>2. ASSUME NEW m \in Queued \cup InHand PROVE m \in Nat /\ m < zframe
    <3>1. m \in 1..received /\ m # zframe
      BY <2>1, <1>t DEF PlaceInv, Partition, InReceiver
    <3> QED BY <3>1, <2>1, <1>t
  <2>3. \A i \in DOMAIN queue : queue[i] < zframe
    BY <2>2 DEF Queued
  <2>4. \A k \in Holders : coro[k].hand < zframe
    BY <2>2 DEF Holders, InHand
  <2>5. /\ SortedFrom(queue', c)
        /\ \A h \in Msgs : h < zframe /\ Before(h, queue, c) => Before(h, queue', c)
    BY ONLY OrderAppend, <2>1, <2>3, <1>c1, <1>t, c \in Nat
  <2>6. \A k \in Holders : Before(coro[k].hand, queue', c)
    BY ONLY <2>4, <2>5, <1>f, <1>c1
  <2>7. Holders' = Holders
    BY <2>1, <1>u
  <2>8. Cut(c)'
    BY <2>1, <2>5, <2>6, <2>7, <1>c1 DEF Cut
  <2> QED BY <2>1, <2>8 DEF OrderInv
<1>3. CASE ReceiverEnds
  <2>1. zframe' = NoMsg /\ UNCHANGED <<queue, coro>>
    BY <1>3 DEF ReceiverEnds
  <2> QED BY <2>1, <1>u, <1>k DEF OrderInv
<1>4. ASSUME UNCHANGED <<queue, received, zframe, coro>> PROVE OrderInv'
  BY <1>4, <1>u, <1>k DEF OrderInv
<1>5. ASSUME NEW n \in Names, Start(n), snd = "run", UNCHANGED <<queue, received, zframe>>
      PROVE  OrderInv'
  <2> DEFINE k == CHOOSE x \in Coros : coro[x] = Free
  <2> DEFINE new == [name |-> n, pc |-> "connect", hand |-> NoMsg]
  <2>1. k \in Coros
    BY <1>5, OneIsFree DEF PoolIsServed
  <2>2. coro' = [coro EXCEPT ![k] = new] /\ new.hand = NoMsg
    BY <1>5 DEF Start
  <2> HIDE DEF k, new
  <2>3. Cut(c)'
    BY <2>1, <2>2, <1>d, <1>k, <1>5
  <2> QED BY <2>3, <1>5 DEF OrderInv
<1>6. ASSUME NEW k \in Coros, BackEnd(k) PROVE OrderInv'
  <2>0. snd = "run" /\ UNCHANGED <<received, zframe, snd>>
    BY <1>6 DEF BackEnd, ConnectOk, ConnectFails, Pull, WriteAgain, GiveBack
  <2>i. ASSUME NEW d \in Nat, Cut(d)' PROVE OrderInv'
    BY <2>0, <2>i DEF OrderInv
  <2>e. ASSUME End(k)
        PROVE  /\ Holders' = Holders \ {k}
               /\ \A j \in Holders' : coro'[j].hand = coro[j].hand
    BY <2>e, <1>d, CoroShapes DEF End
  <2>s. ASSUME NEW m, Sent(k, m) \/ Dropped(k, m)
        PROVE  /\ Holders' = Holders \ {k}
               /\ \A j \in Holders' : coro'[j].hand = coro[j].hand
    <3> DEFINE r == [coro[k] EXCEPT !.pc = "pull", !.hand = NoMsg]
    <3>1. CASE Sent(k, m)
      <4>1. coro' = [coro EXCEPT ![k] = r]
        BY <3>1 DEF Sent
      <4>2. r.hand = NoMsg
        BY <1>t DEF Coro, Free
      <4> QED BY <4>1, <4>2, <1>d
    <3>2. CASE Dropped(k, m)
      BY <3>2, <2>e DEF Dropped
    <3> QED BY <2>s, <3>1, <3>2
  <2>1. CASE ConnectOk(k)
    <3> DEFINE r == [coro[k] EXCEPT !.pc = "pull"]
    <3>1. coro' = [coro EXCEPT ![k] = r] /\ UNCHANGED queue /\ coro[k].hand = NoMsg
      BY <2>1, <1>t, CoroSteps, CoroShapes DEF ConnectOk
    <3>2. r.hand = NoMsg
      BY <1>t, <3>1 DEF Coro, Free
    <3> HIDE DEF r
    <3>3. Cut(c)'
      BY <3>1, <3>2, <1>d, <1>k
    <3> QED BY <3>3, <2>i
  <2>2. CASE ConnectFails(k)
    <3>1. End(k) /\ UNCHANGED queue
      BY <2>2 DEF ConnectFails
    <3>2. Cut(c)'
      BY <3>1, <2>e, <1>k
    <3> QED BY <3>2, <2>i
  <2>3. CASE Pull(k)
    <3> DEFINE m == Head(queue)
               d == IF c = 0 THEN 0 ELSE c - 1
    <3>1. /\ queue' = Tail(queue) /\ queue # <<>>
          /\ Sent(k, m) \/ Held(k, m) \/ Dropped(k, m)
      BY <2>3 DEF Pull
    <3>2. d \in Nat /\ c <= d + 1 /\ d <= c /\ (c = 0 => d = 0) /\ (c # 0 => d + 1 = c)
      BY c \in Nat
    <3>3. m \in Msgs
      BY <3>1, <1>t
    <3> HIDE DEF d
    <3>4. /\ SortedFrom(queue', d) /\ Before(m, queue', d)
          /\ \A h \in Msgs : Before(h, queue, c) => Before(h, queue', d)
      BY ONLY OrderTail, <3>1, <3>2, <1>c1, <1>t, c \in Nat
    <3>5. \A j \in Holders : Before(coro[j].hand, queue', d)
      BY ONLY <3>4, <1>f, <1>c1
    <3> HIDE DEF m
    <3>6. CASE Sent(k, m) \/ Dropped(k, m)
      <4>1. /\ Holders' = Holders \ {k}
            /\ \A j \in Holders' : coro'[j].hand = coro[j].hand
        BY <3>6, <2>s
      <4>2. Cardinality(Holders') <= Cardinality(Holders) /\ Cardinality(Holders') \in Nat
        BY <4>1, <1>f, FS_Subset, FS_CardinalityType
      <4>3. d + Cardinality(Holders') <= Cardinality(Names)
        BY ONLY <4>2, <3>2, <1>f, <1>c1, c \in Nat
      <4>4. \A j \in Holders' : Before(coro'[j].hand, queue', d)
        BY <4>1, <3>5
      <4>5. Cut(d)'
        BY <4>3, <4>4, <3>4 DEF Cut
      <4> QED BY <4>5, <3>2, <2>i
    <3>7. CASE Held(k, m)
      <4> DEFINE r == [coro[k] EXCEPT !.pc = "hold", !.hand = m]
      <4>1. coro' = [coro EXCEPT ![k] = r] /\ snd' = "run"
        BY <3>7, <2>0 DEF Held
      <4>2. r.hand = m
        BY <1>t DEF Coro, Free
      <4> HIDE DEF r
      <4>3. /\ Holders' = Holders \cup {k}
            /\ coro'[k].hand = m
            /\ \A j \in Holders \ {k} : coro'[j].hand = coro[j].hand
        BY <4>1, <4>2, <3>3, <1>t DEF Holders
      <4>4. k \notin Holders
        BY <2>3, <1>t, CoroSteps, CoroShapes DEF Pull, Holders
      <4>5. Cardinality(Holders') = Cardinality(Holders) + 1
        BY <4>3, <4>4, <1>f, FS_AddElement
      <4>6. Cardinality(Holders') <= Cardinality(Names)
        <5>1. coro' \in [Coros -> Coro]
          BY <1>n DEF TypeOK
        <5>2. \A i, j \in Coros : coro'[i] # Free /\ coro'[j] # Free
                                  /\ coro'[i].name = coro'[j].name => i = j
          BY <4>1, <1>n DEF PoolIsServed, Live
        <5>3. Holders' = {i \in Coros : coro'[i].hand # NoMsg}
          BY DEF Holders
        <5> QED BY <5>1, <5>2, <5>3, HoldersNamed
      <4>7. d + Cardinality(Holders') <= Cardinality(Names)
        BY ONLY <4>5, <4>6, <3>2, <1>f, <1>c1, c \in Nat
      <4>8. \A j \in Holders' : Before(coro'[j].hand, queue', d)
        BY <4>3, <3>4, <3>5
      <4>9. Cut(d)'
        BY <4>7, <4>8, <3>4 DEF Cut
      <4> QED BY <4>9, <3>2, <2>i
    <3> QED BY <3>1, <3>6, <3>7
  <2>4. CASE WriteAgain(k)
    <3>1. /\ Sent(k, coro[k].hand) \/ Dropped(k, coro[k].hand)
          /\ UNCHANGED queue
      BY <2>4 DEF WriteAgain
    <3>2. Cut(c)'
      BY <3>1, <2>s, <1>k
    <3> QED BY <3>2, <2>i
  <2>5. CASE GiveBack(k)
    <3> DEFINE h == coro[k].hand
    <3>1. /\ Holders' = Holders \ {k}
          /\ \A j \in Holders' : coro'[j].hand = coro[j].hand
      BY <2>5, <2>e DEF GiveBack
    <3>2. CASE Full
      <4>1. UNCHANGED queue
        BY <2>5, <3>2 DEF GiveBack
      <4>2. Cut(c)'
        BY <4>1, <3>1, <1>k
      <4> QED BY <4>2, <2>i
    <3>3. CASE ~Full
      <4>1. queue' = <<h>> \o queue
        BY <2>5, <3>3 DEF GiveBack
      <4>2. k \in Holders /\ h \in Msgs
        BY <2>5, <1>t, CoroSteps, CoroShapes DEF GiveBack, Holders
      <4>3. Before(h, queue, c)
        BY <4>2, <1>c1
      <4> HIDE DEF h
      <4>4. /\ SortedFrom(queue', c + 1)
            /\ \A x \in Msgs : Before(x, queue, c) => Before(x, queue', c + 1)
        BY ONLY OrderFront, <4>1, <4>2, <4>3, <1>c1, <1>t, c \in Nat
      <4>5. Cardinality(Holders') = Cardinality(Holders) - 1
        BY <3>1, <4>2, <1>f, FS_RemoveElement
      <4>6. (c + 1) + Cardinality(Holders') <= Cardinality(Names)
        BY ONLY <4>5, <1>f, <1>c1, c \in Nat
      <4>7. \A j \in Holders' : Before(coro'[j].hand, queue', c + 1)
        BY <3>1, <4>4, <1>f, <1>c1
      <4>8. Cut(c + 1)'
        BY <4>4, <4>6, <4>7 DEF Cut
      <4>9. c + 1 \in Nat
        OBVIOUS
      <4> QED BY <4>8, <4>9, <2>i
    <3> QED BY <3>2, <3>3
  <2> QED BY <1>6, <2>1, <2>2, <2>3, <2>4, <2>5 DEF BackEnd
<1>7. CASE SenderEnds
  <2>1. Holders' = {} /\ UNCHANGED <<queue, received, zframe>>
    BY <1>7, <1>e DEF SenderEnds
  <2> QED BY <2>1, <1>k DEF OrderInv
<1>8. CASE Restart \/ Crash
  <2>1. Holders' = {} /\ zframe' = NoMsg /\ UNCHANGED queue
    BY <1>8, <1>e DEF Restart, Crash, Fresh
  <2> QED BY <2>1, <1>k DEF OrderInv
<1>9. ASSUME NEW n \in Names, Request(n) PROVE OrderInv'
  BY <1>9, <1>4, <1>5 DEF Request
<1>10. CASE Retry
  BY <1>10, <1>5 DEF Retry, ConnInv, TypeOK
<1>11. CASE BadRequest \/ Signal \/ UNCHANGED vars
  BY <1>11, <1>4 DEF BadRequest, Signal, vars
<1> QED BY <1>1, <1>2, <1>3, <1>6, <1>7, <1>8, <1>9, <1>10, <1>11 DEF Next

\* No run of damR puts more out of order.
LEMMA OrderAlways == Spec => []OrderInv
<1>1. Init => OrderInv
  <2> SUFFICES ASSUME Init PROVE OrderInv
    OBVIOUS
  <2>1. Holders = {} /\ queue = <<>> /\ zframe = NoMsg
    BY CoroShapes DEF Init, Holders
  <2>2. Cardinality(Holders) = 0 /\ Cardinality(Names) \in Nat
    BY <2>1, FS_EmptySet, FS_CardinalityType, DamConstants
  <2>3. Cut(0)
    BY <2>1, <2>2 DEF Cut, SortedFrom
  <2> QED BY <2>1, <2>3 DEF OrderInv
<1> QED BY <1>1, OrderStep, PlaceAlways, ServedAlways, PTL DEF Spec

\* Back ends that fail and give their messages back with priopush put damR's
\* queue out of order only among its first places, no more than there are back
\* ends, however many of them fail one after the other, while the receiver goes
\* on pushing and whatever restarts: the pool lets no back end hold two.
THEOREM DisorderBounded == Spec => []DisorderInFront
<1>1. TypeOK /\ OrderInv => DisorderInFront
  <2> SUFFICES ASSUME TypeOK, OrderInv PROVE DisorderInFront
    OBVIOUS
  <2>1. PICK c \in Nat : Cut(c)
    BY DEF OrderInv
  <2>2. Cardinality(Holders) \in Nat /\ Cardinality(Names) \in Nat
    BY FS_Subset, FS_CardinalityType, DamConstants DEF Holders
  <2>3. c <= Cardinality(Names) /\ SortedFrom(queue, c)
    BY <2>1, <2>2 DEF Cut
  <2>4. DOMAIN queue \subseteq Nat
    BY DEF TypeOK
  <2> QED BY <2>2, <2>3, <2>4 DEF SortedFrom, DisorderInFront
<1> QED BY <1>1, OrderAlways, ServedAlways, PTL

-----------------------------------------------------------------------------
(* What is lost at once *)

\* A step loses what the coroutines have in their hands and one message more at
\* most: the receiver's, or the one it is about.
LEMMA LostFrom ==
  ASSUME [Next]_vars
  PROVE  \E x : lost' \subseteq lost \cup InHand \cup {x}
<1> USE DEF queueVars
<1>w. ASSUME NEW k, NEW m, Sent(k, m) \/ Held(k, m) \/ Dropped(k, m)
      PROVE  lost' \subseteq lost \cup {m}
  BY <1>w DEF Sent, Held, Dropped
<1>1. CASE UNCHANGED lost
  BY <1>1
<1>2. CASE ReceiverEnds \/ Crash
  BY <1>2 DEF ReceiverEnds, Crash
<1>3. CASE SenderEnds
  BY <1>3 DEF SenderEnds
<1>4. ASSUME NEW k \in Coros, Pull(k)
      PROVE  lost' \subseteq lost \cup {Head(queue)}
  BY <1>4, <1>w DEF Pull
<1>5. ASSUME NEW k \in Coros, WriteAgain(k) \/ GiveBack(k)
      PROVE  lost' \subseteq lost \cup {coro[k].hand}
  BY <1>5, <1>w DEF WriteAgain, GiveBack
<1>6. UNCHANGED lost \/ ReceiverEnds \/ Crash \/ SenderEnds
      \/ \E k \in Coros : Pull(k) \/ WriteAgain(k) \/ GiveBack(k)
  BY DEF Next, vars, Read, Push, Request, Retry, BadRequest, BackEnd, ConnectOk,
         ConnectFails, Signal, Restart
<1> QED BY <1>1, <1>2, <1>3, <1>4, <1>5, <1>6

\* While the pool lets no back end have two coroutines, there are no more
\* messages in their hands than back ends.
LEMMA LossStep ==
  ASSUME TypeOK, PlaceInv, OrderInv, [Next]_vars
  PROVE  Cardinality(lost' \ lost) <= Cardinality(Names) + 1
<1>1. Cardinality(Names) \in Nat /\ IsFiniteSet(Holders) /\ Cardinality(Holders) \in Nat
  BY FS_Subset, FS_CardinalityType, DamConstants DEF Holders
<1>2. PICK c \in Nat : c + Cardinality(Holders) <= Cardinality(Names)
  BY DEF OrderInv, Cut
<1>3. Cardinality(InHand) = Cardinality(Holders)
  BY PlacesCounted DEF OnePlaceEach, Holders
<1>4. IsFiniteSet(InHand)
  <2>1. received \in Nat /\ InHand \subseteq 1..received
    BY DamConstants DEF TypeOK, PlaceInv, Partition
  <2>2. ASSUME NEW n \in Nat PROVE IsFiniteSet(1..n)
    BY FS_Interval
  <2> QED BY <2>1, <2>2, FS_Subset
<1>5. PICK x : lost' \subseteq lost \cup InHand \cup {x}
  BY LostFrom
<1> DEFINE S == InHand \cup {x}
<1>6. /\ IsFiniteSet(S)
      /\ Cardinality(S) = Cardinality(InHand) \/ Cardinality(S) = Cardinality(InHand) + 1
  BY <1>4, FS_AddElement
<1>7. lost' \ lost \subseteq S
  BY <1>5
<1> HIDE DEF S
<1>8. Cardinality(lost' \ lost) <= Cardinality(S) /\ Cardinality(lost' \ lost) \in Nat
  BY <1>6, <1>7, FS_Subset, FS_CardinalityType
<1> DEFINE l == Cardinality(lost' \ lost)
           n == Cardinality(Names)
           h == Cardinality(Holders)
<1>9. l \in Nat /\ n \in Nat /\ h \in Nat /\ c + h <= n /\ (l <= h \/ l <= h + 1)
  BY <1>1, <1>2, <1>3, <1>6, <1>8
<1> HIDE DEF l, n, h
<1>10. l <= n + 1
  BY <1>9, c \in Nat
<1> QED BY <1>10 DEF l, n

\* damR loses no more than one message per back end and the receiver's at once,
\* whether a write fails, a thread ends with messages in the hands of its
\* coroutines, or the process is killed: the pool gives each back end one
\* coroutine, and the queue is in its file.
THEOREM LossIsBounded == Spec => LossBounded
<1>1. TypeOK /\ PlaceInv /\ OrderInv /\ [Next]_vars
      => [Cardinality(lost' \ lost) <= Cardinality(Names) + 1]_vars
  BY LossStep
<1> QED BY <1>1, OrderAlways, PlaceAlways, ServedAlways, PTL DEF Spec, LossBounded
=============================================================================
