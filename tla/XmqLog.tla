------------------------------- MODULE XmqLog -------------------------------
(***************************************************************************)
(* What libmixmq promises of its queues (the comments of                   *)
(* src/lib/libmixmq/include/xmq.h): a queue is a log that only grows at    *)
(* its tail, and every consumer has a fetch position and a mark position   *)
(* in the log of its queue, which outlive the process.                     *)
(***************************************************************************)
EXTENDS Naturals, Sequences

CONSTANTS
  Queues, Consumers, CQueue, Data, NoMsg,
  StoreFails   \* whether the store may refuse to read a message

VARIABLES
  log,       \* queue -> the payloads pushed so far
  fetchPos,  \* consumer -> index of the message it fetched last, or 0
  markPos,   \* consumer -> index of the message it marked last, or 0
  hand       \* consumer -> the message being handed to it, or NoMsg

logVars == <<log, fetchPos, markPos, hand>>

Init ==
  /\ log = [q \in Queues |-> <<>>]
  /\ fetchPos = [c \in Consumers |-> 0]
  /\ markPos = [c \in Consumers |-> 0]
  /\ hand = [c \in Consumers |-> NoMsg]

PushTail(q, d) ==
  /\ log' = [log EXCEPT ![q] = Append(@, d)]
  /\ UNCHANGED <<fetchPos, markPos, hand>>

FetchNth(c, i) ==
  /\ fetchPos' = [fetchPos EXCEPT ![c] = i]
  /\ hand' = [hand EXCEPT ![c] = [index |-> i, data |-> log[CQueue[c]][i]]]
  /\ UNCHANGED <<log, markPos>>

\* Index 0 names no message; asking for it moves the position back to the
\* start of the log.
Rewind(c) ==
  /\ fetchPos' = [fetchPos EXCEPT ![c] = 0]
  /\ UNCHANGED <<log, markPos, hand>>

\* The store does not give the message: the position moves all the same, and
\* the message is skipped.
Skip(c, i) ==
  /\ StoreFails
  /\ fetchPos' = [fetchPos EXCEPT ![c] = i]
  /\ UNCHANGED <<log, markPos, hand>>

Return(c) ==
  /\ hand' = [hand EXCEPT ![c] = NoMsg]
  /\ UNCHANGED <<log, fetchPos, markPos>>

MarkNth(c, i) ==
  /\ markPos' = [markPos EXCEPT ![c] = i]
  /\ UNCHANGED <<log, fetchPos, hand>>

\* A process that ends forgets what it was handing out, and nothing else.
Restart ==
  /\ hand' = [c \in Consumers |-> NoMsg]
  /\ UNCHANGED <<log, fetchPos, markPos>>

Next ==
  \/ \E q \in Queues, d \in Data : PushTail(q, d)
  \/ \E c \in Consumers :
       \/ \E i \in 1..Len(log[CQueue[c]]) : FetchNth(c, i) \/ Skip(c, i)
       \/ \E i \in 0..Len(log[CQueue[c]]) : MarkNth(c, i)
       \/ Rewind(c)
       \/ Return(c)
  \/ Restart

Spec == Init /\ [][Next]_logVars
=============================================================================
