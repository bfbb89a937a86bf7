-------------------------------- MODULE Dam --------------------------------
(***************************************************************************)
(* damR, the dam between producers and back ends: a receiver thread puts   *)
(* what it reads from ZeroMQ into a bounded queue in a file, and a sender  *)
(* thread runs one coroutine per back end that has asked for data, which   *)
(* takes messages from the queue and writes them to the back end.          *)
(* (src/programs/damR/src, src/programs/zmq_wrap.c)                        *)
(*                                                                         *)
(* Coroutines of a thread only change at a switch: from a pull to the      *)
(* result of the write no other coroutine runs, and as the receiver thread *)
(* shares nothing but the queue with them, that is one step.               *)
(***************************************************************************)
EXTENDS Naturals, Sequences, FiniteSets

CONSTANTS
  Names,       \* the addresses of back ends
  Coros,       \* the coroutines the sender thread may run
  NoName, NoMsg,
  Capacity,    \* of the queue
  PoolSize,    \* the size of the connection pool, _CONNECTION_POOL_SIZE
  MaxMsgs,     \* bound: messages read by the receiver
  WriteErrors, \* whether write_zmqdata may return -1
  PushErrors,  \* whether evcoro_push may fail
  BadRequests, \* whether requests may be malformed
  Signals,     \* whether SIGINT may come
  Crashes      \* whether the process may be killed

ASSUME DamConstants ==
  /\ Capacity \in Nat \ {0} /\ PoolSize \in Nat \ {0} /\ MaxMsgs \in Nat
  /\ IsFiniteSet(Names) /\ IsFiniteSet(Coros)
  /\ Cardinality(Names) < Cardinality(Coros)
  /\ NoName \notin Names /\ NoMsg \notin Nat
  /\ WriteErrors \in BOOLEAN /\ PushErrors \in BOOLEAN /\ BadRequests \in BOOLEAN
  /\ Signals \in BOOLEAN /\ Crashes \in BOOLEAN

VARIABLES
  queue,    \* the queue in the file; messages are numbered as they are read
  stat,     \* frame->stat
  rcv,      \* the receiver thread: "run" or "end"
  zframe,   \* the message the receiver has read and not yet pushed, or NoMsg
  snd,      \* the sender thread
  acceptor, \* its coroutine recv_data: "read", "retry" or "end"
  conn,     \* the connection it could not start a coroutine for, or NoName
  pool,     \* the names in _g_cntpool->pools
  coro,     \* coroutine -> its connection, place and message
  \* Auxiliary: how many messages were read, which of them ZeroMQ has taken
  \* for a back end, and which are gone.
  received, sent, lost

queueVars == <<queue, received, sent, lost>>
rcvVars   == <<rcv, zframe>>
accVars   == <<acceptor, conn>>
vars      == <<queueVars, stat, rcvVars, snd, accVars, pool, coro>>

Msgs == 1..MaxMsgs
Free == [name |-> NoName, pc |-> "free", hand |-> NoMsg]
Coro == {Free}
        \cup [name : Names, pc : {"connect", "pull"}, hand : {NoMsg}]
        \cup [name : Names, pc : {"hold"}, hand : Msgs]

Live   == {k \in Coros : coro[k] # Free}
InHand == {coro[k].hand : k \in Coros} \ {NoMsg}

\* Mutant of Full: one message too many.
Overfull == Len(queue) > Capacity

\* push and priopush return false.
Full == Len(queue) >= Capacity

-----------------------------------------------------------------------------
(* The threads as _start_proc finds them *)

Fresh ==
  /\ stat' = "run"
  /\ rcv' = "run" /\ zframe' = NoMsg
  /\ snd' = "run" /\ acceptor' = "read" /\ conn' = NoName
  /\ pool' = {} /\ coro' = [k \in Coros |-> Free]

Init ==
  /\ queue = <<>> /\ received = 0 /\ sent = {} /\ lost = {}
  /\ stat = "run"
  /\ rcv = "run" /\ zframe = NoMsg
  /\ snd = "run" /\ acceptor = "read" /\ conn = NoName
  /\ pool = {} /\ coro = [k \in Coros |-> Free]

-----------------------------------------------------------------------------
(* The receiver thread *)

\* read_zmqdata returns a message.  (It is called again at once when there is
\* none, and when one is refused.)
Read ==
  /\ rcv = "run" /\ zframe = NoMsg
  /\ received < MaxMsgs
  /\ received' = received + 1 /\ zframe' = received + 1
  /\ UNCHANGED <<queue, sent, lost, stat, rcv, snd, accVars, pool, coro>>

\* Mutant of Push: the result of push is not looked at.
PushOnce ==
  /\ rcv = "run" /\ zframe # NoMsg
  /\ queue' = IF Full THEN queue ELSE Append(queue, zframe)
  /\ zframe' = NoMsg
  /\ UNCHANGED <<received, sent, lost, stat, rcv, snd, accVars, pool, coro>>

\* push; while the queue is full the coroutine goes round.
Push ==
  /\ rcv = "run" /\ zframe # NoMsg
  /\ ~Full
  /\ queue' = Append(queue, zframe)
  /\ zframe' = NoMsg
  /\ UNCHANGED <<received, sent, lost, stat, rcv, snd, accVars, pool, coro>>

\* recv_idle stops the loop; the message that was not yet pushed is freed.
ReceiverEnds ==
  /\ rcv = "run" /\ stat = "stop"
  /\ rcv' = "end" /\ zframe' = NoMsg
  /\ lost' = lost \cup ({zframe} \ {NoMsg})
  /\ UNCHANGED <<queue, received, sent, stat, snd, accVars, pool, coro>>

-----------------------------------------------------------------------------
(* The coroutine of the sender thread that takes requests of back ends *)

\* evcoro_push: a coroutine that starts at the top of send_data.
Start(n) ==
  LET k == CHOOSE k \in Coros : coro[k] = Free IN
  coro' = [coro EXCEPT ![k] = [name |-> n, pc |-> "connect", hand |-> NoMsg]]

\* Mutant of AddConnection: a name may be in the pool already.
AddConnectionAnew(n) ==
  /\ Cardinality(pool) < PoolSize
  /\ Live # Coros
  /\ pool' = pool \cup {n}

\* add_connection: the name is not in the pool, and the pool is not full.  The
\* other requests are dropped.
AddConnection(n) ==
  /\ n \notin pool /\ Cardinality(pool) < PoolSize
  /\ pool' = pool \cup {n}

Request(n) ==
  /\ snd = "run" /\ acceptor = "read"
  /\ AddConnection(n)
  /\ \/ Start(n) /\ UNCHANGED accVars
     \/ /\ PushErrors
        /\ acceptor' = "retry" /\ conn' = n
        /\ UNCHANGED coro
  /\ UNCHANGED <<queueVars, stat, rcvVars, snd>>

\* A try, half a second later, that succeeds.
Retry ==
  /\ snd = "run" /\ acceptor = "retry"
  /\ Start(conn)
  /\ acceptor' = "read" /\ conn' = NoName
  /\ UNCHANGED <<queueVars, stat, rcvVars, snd, pool>>

\* A message that is no request ends the coroutine.
BadRequest ==
  /\ BadRequests
  /\ snd = "run" /\ acceptor = "read"
  /\ acceptor' = "end"
  /\ UNCHANGED <<queueVars, stat, rcvVars, snd, conn, pool, coro>>

-----------------------------------------------------------------------------
(* The coroutine of a back end *)

\* The end of send_data, with its cleanups.
End(k) ==
  /\ coro' = [coro EXCEPT ![k] = Free]
  /\ pool' = pool \ {coro[k].name}

\* zmq_connect and the wait for the connection
ConnectOk(k) ==
  /\ snd = "run" /\ coro[k].pc = "connect"
  /\ coro' = [coro EXCEPT ![k].pc = "pull"]
  /\ UNCHANGED <<queueVars, stat, rcvVars, snd, accVars, pool>>

ConnectFails(k) ==
  /\ snd = "run" /\ coro[k].pc = "connect"
  /\ End(k)
  /\ UNCHANGED <<queueVars, stat, rcvVars, snd, accVars>>

\* What becomes of message m after write_zmqdata: taken by ZeroMQ, ...
Sent(k, m) ==
  /\ sent' = sent \cup {m}
  /\ coro' = [coro EXCEPT ![k].pc = "pull", ![k].hand = NoMsg]
  /\ UNCHANGED <<lost, pool>>

\* ... to be tried again after a millisecond, ...
Held(k, m) ==
  /\ coro' = [coro EXCEPT ![k].pc = "hold", ![k].hand = m]
  /\ UNCHANGED <<sent, lost, pool>>

\* ... or dropped with the connection.
Dropped(k, m) ==
  /\ WriteErrors
  /\ lost' = lost \cup {m}
  /\ End(k)
  /\ UNCHANGED sent

\* Mutant of Pull: the last message stays in the queue.
PullButLast(k) ==
  /\ snd = "run" /\ coro[k].pc = "pull"
  /\ Len(queue) > 1
  /\ queue' = Tail(queue)
  /\ Sent(k, Head(queue)) \/ Held(k, Head(queue)) \/ Dropped(k, Head(queue))
  /\ UNCHANGED <<received, stat, rcvVars, snd, accVars>>

\* pull, and the first write_zmqdata.  (With nothing to pull the coroutine
\* lets the others run.)
Pull(k) ==
  /\ snd = "run" /\ coro[k].pc = "pull"
  /\ queue # <<>>
  /\ queue' = Tail(queue)
  /\ Sent(k, Head(queue)) \/ Held(k, Head(queue)) \/ Dropped(k, Head(queue))
  /\ UNCHANGED <<received, stat, rcvVars, snd, accVars>>

\* check_zmqwrite says yes and the message is written.  (When the write has to
\* be tried once more nothing has changed.)
WriteAgain(k) ==
  /\ snd = "run" /\ coro[k].pc = "hold"
  /\ Sent(k, coro[k].hand) \/ Dropped(k, coro[k].hand)
  /\ UNCHANGED <<queue, received, stat, rcvVars, snd, accVars>>

\* Mutant of GiveBack: the message goes to the tail.
GiveBackToTail(k) ==
  /\ snd = "run" /\ coro[k].pc = "hold"
  /\ IF Full THEN lost' = lost \cup {coro[k].hand} /\ UNCHANGED queue
             ELSE queue' = Append(queue, coro[k].hand) /\ UNCHANGED lost
  /\ End(k)
  /\ UNCHANGED <<received, sent, stat, rcvVars, snd, accVars>>

\* check_zmqwrite says no: priopush puts the message back in front, if there is
\* still room (its result is not looked at).
GiveBack(k) ==
  /\ snd = "run" /\ coro[k].pc = "hold"
  /\ IF Full THEN lost' = lost \cup {coro[k].hand} /\ UNCHANGED queue
             ELSE queue' = <<coro[k].hand>> \o queue /\ UNCHANGED lost
  /\ End(k)
  /\ UNCHANGED <<received, sent, stat, rcvVars, snd, accVars>>

-----------------------------------------------------------------------------
(* The end of the process *)

\* Mutant of SenderEnds: stop_proc is not called, the receiver is not told.
SenderEndsSilently ==
  /\ snd = "run"
  /\ stat = "stop" \/ (acceptor = "end" /\ Live = {})
  /\ snd' = "end"
  /\ lost' = lost \cup InHand
  /\ coro' = [k \in Coros |-> Free]
  /\ pool' = pool \ {coro[k].name : k \in Live}
  /\ acceptor' = "end" /\ conn' = NoName
  /\ UNCHANGED <<queue, received, sent, stat, rcvVars>>

\* send_idle stops the loop when the frame stops or no coroutine is left;
\* evcoro_destroy runs their cleanups, and stop_proc stops the frame.
SenderEnds ==
  /\ snd = "run"
  /\ stat = "stop" \/ (acceptor = "end" /\ Live = {})
  /\ snd' = "end" /\ stat' = "stop"
  /\ lost' = lost \cup InHand
  /\ coro' = [k \in Coros |-> Free]
  /\ pool' = pool \ {coro[k].name : k \in Live}
  /\ acceptor' = "end" /\ conn' = NoName
  /\ UNCHANGED <<queue, received, sent, rcvVars>>

\* _ctrl_signal or _deal_signal: stop_proc for both threads.
Signal ==
  /\ Signals
  /\ stat = "run"
  /\ stat' = "stop"
  /\ UNCHANGED <<queueVars, rcvVars, snd, accVars, pool, coro>>

\* The threads are joined and the process is started again; queue_init finds
\* the queue in its file.
Exited == rcv = "end" /\ snd = "end"
Restart ==
  /\ Exited
  /\ Fresh
  /\ UNCHANGED queueVars

\* The process is killed and started again.
Crash ==
  /\ Crashes
  /\ lost' = lost \cup InHand \cup ({zframe} \ {NoMsg})
  /\ Fresh
  /\ UNCHANGED <<queue, received, sent>>

-----------------------------------------------------------------------------

BackEnd(k) ==
  \/ ConnectOk(k) \/ ConnectFails(k)
  \/ Pull(k) \/ WriteAgain(k) \/ GiveBack(k)

Next ==
  \/ Read \/ Push \/ ReceiverEnds
  \/ (\E n \in Names : Request(n)) \/ Retry \/ BadRequest
  \/ \E k \in Coros : BackEnd(k)
  \/ SenderEnds \/ Signal \/ Restart \/ Crash

Spec == Init /\ [][Next]_vars

\* Both threads go on, and the sender thread lets its coroutines run in turn.
\* A coroutine that finds the queue empty finds something in it when another
\* one has given a message back, since that one's successor is not there
\* before the round is over: hence strong fairness of Pull.
Fairness ==
  /\ WF_vars(Push) /\ WF_vars(ReceiverEnds) /\ WF_vars(SenderEnds)
  /\ WF_vars(Retry)
  /\ \A k \in Coros :
       /\ WF_vars(ConnectOk(k) \/ ConnectFails(k))
       /\ SF_vars(Pull(k))
       /\ WF_vars(WriteAgain(k) \/ GiveBack(k))

FairSpec == Spec /\ Fairness

-----------------------------------------------------------------------------
(* Properties *)

\* The variables of both threads have the values the code gives them.
TypeOK ==
  /\ queue \in Seq(Msgs) /\ Len(queue) <= Capacity
  /\ stat \in {"run", "stop"}
  /\ rcv \in {"run", "end"} /\ zframe \in Msgs \cup {NoMsg}
  /\ snd \in {"run", "end"}
  /\ acceptor \in {"read", "retry", "end"} /\ conn \in Names \cup {NoName}
  /\ pool \subseteq Names
  /\ coro \in [Coros -> Coro]
  /\ received \in 0..MaxMsgs /\ sent \subseteq Msgs /\ lost \subseteq Msgs

Queued == {queue[i] : i \in DOMAIN queue}

\* Every message the receiver has read is in one place only: in its hands, in
\* the queue, in the hands of one coroutine, sent, or lost.  No message is sent
\* twice, sent and given back as well, or forgotten without a trace.
OnePlaceEach ==
  /\ 1..received = Queued \cup InHand \cup ({zframe} \ {NoMsg}) \cup sent \cup lost
  /\ received = Len(queue) + Cardinality(InHand)
                + Cardinality({zframe} \ {NoMsg})
                + Cardinality(sent) + Cardinality(lost)
  /\ Cardinality(InHand) = Cardinality({k \in Coros : coro[k].hand # NoMsg})

\* Back ends that fail disturb the order only at the front: messages that were
\* given back are the first of the queue, at most as many as there are back
\* ends, and from there on the queue is in the order of arrival.  With one back
\* end all of it is.
DisorderInFront ==
  \A i, j \in DOMAIN queue :
    i < j /\ Cardinality(Names) < j => queue[i] < queue[j]

\* A name is in the pool exactly while a coroutine serves it or waits to be
\* started for it, and no name has two: a back end that has ended can ask
\* again.
PoolIsServed ==
  snd = "run" =>
    /\ pool = {coro[k].name : k \in Live} \cup ({conn} \ {NoName})
    /\ \A j, k \in Live : coro[j].name = coro[k].name => j = k
    /\ conn \notin {coro[k].name : k \in Live}

\* As long as one back end stays connected, everything that was read gets out:
\* the receiver does not stand before a full queue, and no message that other
\* back ends give back again and again stays behind.
Drains ==
  \A k \in Coros :
    <>[](coro[k].pc \in {"pull", "hold"}) => <>[](queue = <<>> /\ zframe = NoMsg)

\* Nothing is lost while no write fails and no process ends: what a back end
\* does not take is given back to the queue.  False: the receiver may have
\* filled the queue meanwhile.
NothingLost == lost = {}

\* No step loses more than one message per back end and the one the receiver
\* has: not the end of the sender thread, and not a crash, which find a message
\* in the hands of every coroutine there is.  The queue is in its file.
LossBounded == [][Cardinality(lost' \ lost) <= Cardinality(Names) + 1]_vars

\* When one thread has ended or the frame stops, by a signal or because the
\* sender thread has nothing left to run, both threads end: neither goes on
\* alone, and the receiver ends before a full queue too.
FrameStops ==
  (stat = "stop" \/ "end" \in {rcv, snd})
    ~> (Exited \/ (stat = "run" /\ rcv = "run" /\ snd = "run"))
=============================================================================
