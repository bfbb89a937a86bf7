---------------------------- MODULE XmqRefinement ----------------------------
(***************************************************************************)
(* XmqQueue implements XmqLog.  The log is read off the key-value store: a  *)
(* queue's payloads are those of the messages stored under 1, 2, ... up to  *)
(* its stored capacity.                                                     *)
(***************************************************************************)
EXTENDS XmqQueue

storedLog == [q \in Queues |->
                [i \in 1..InitValue(kvCap, q) |-> kvMsg[i].data]]

inHand == [c \in Consumers |-> IF cpc[c] = "ret" THEN cmsg[c] ELSE NoMsg]

Log == INSTANCE XmqLog WITH
         log      <- storedLog,
         fetchPos <- [c \in Consumers |-> InitValue(kvFetch, c)],
         markPos  <- [c \in Consumers |-> InitValue(kvMark, c)],
         hand     <- inHand

\* Under a single producer and a single blocking queue, everything the threads
\* of libmixmq do to the store is a step of a log with durable positions:
\* queue_push_tail appends, queue_fetch_nth hands out what is at the index it
\* stores (or, when the store refuses to read, nothing), and a crash loses only
\* a message in hand.
ImplementsLog == Log!Spec
=============================================================================
