----------------------------- MODULE XmqDeadline -----------------------------
(***************************************************************************)
(* The deadline of a timed fetch of libmixmq: the loop of queue_fetch_nth  *)
(* in src/lib/libmixmq/src/xmq.c that reads the clock, adds millis to it   *)
(* and calls pthread_cond_timedwait.  A deadline whose microseconds are    *)
(* not those of a second is refused (EINVAL) before the mutex is released, *)
(* and the loop goes round again with wait_lock held.                      *)
(*                                                                         *)
(* One call is modelled against a clock that ticks; the thread is prompt,  *)
(* that is, the clock does not tick while it has a step to take.  This is  *)
(* what justifies the constants Timed and Overlong of XmqQueue.            *)
(***************************************************************************)
EXTENDS Integers

CONSTANTS
  Second,   \* the number of ticks (microseconds in the code) of a second
  Waits,    \* the arguments: 1000 * millis, in ticks
  MaxSec    \* bound: the clock stops at this second

ASSUME DeadlineConstants ==
  /\ Second \in Nat \ {0}
  /\ Waits \subseteq Nat \ {0}
  /\ MaxSec \in Nat

VARIABLES
  sec, usec,    \* gettimeofday
  pc,           \* queue_fetch_nth
  millis,       \* its argument, in ticks
  dsec, dusec,  \* the deadline that was accepted
  \* History: ticks since the call, and since the call or the last wake-up.
  waited, age

clock    == <<sec, usec>>
deadline == <<dsec, dusec>>
vars     == <<clock, pc, millis, deadline, waited, age>>

\* Whether the microseconds of the clock and of the wait make a second.
Carries == usec + millis >= Second

\* timeout.tv_sec and timeout.tv_nsec, computed from the clock.
\* Mutants of TimeoutSec: the carry is added twice; it is forgotten.
TimeoutSecTwice   == IF Carries THEN sec + 2 ELSE sec
TimeoutSecNoCarry == sec

TimeoutSec == IF Carries THEN sec + 1 ELSE sec

\* Mutant of TimeoutUsec: no carry.
TimeoutUsecPlain == usec + millis

TimeoutUsec == IF Carries THEN usec + (Second - millis) ELSE usec + millis

\* The deadlines that pthread_cond_timedwait does not refuse.
Valid == TimeoutUsec >= 0 /\ TimeoutUsec < Second

Reached == sec > dsec \/ (sec = dsec /\ usec >= dusec)

Init ==
  /\ sec = 0 /\ usec \in 0..(Second - 1)
  /\ pc = "idle"
  /\ millis = 0
  /\ dsec = 0 /\ dusec = 0
  /\ waited = 0 /\ age = 0

\* queue_fetch_nth with millis # 0 for a message that is not there.
Call(m) ==
  /\ pc = "idle"
  /\ pc' = "loop"
  /\ millis' = m
  /\ waited' = 0 /\ age' = 0
  /\ UNCHANGED <<clock, deadline>>

\* The thread sleeps, with wait_lock released.  (A refused deadline changes
\* nothing: the loop is entered again.)
TimedWait ==
  /\ pc = "loop"
  /\ Valid
  /\ pc' = "asleep"
  /\ dsec' = TimeoutSec /\ dusec' = TimeoutUsec
  /\ UNCHANGED <<clock, millis, waited, age>>

\* A broadcast for another message, or a wake-up without one: the loop
\* computes a new deadline from the full argument.
Wake ==
  /\ pc = "asleep"
  /\ pc' = "loop"
  /\ age' = 0
  /\ UNCHANGED <<clock, millis, deadline, waited>>

\* The message came.
Served ==
  /\ pc = "asleep"
  /\ pc' = "idle"
  /\ UNCHANGED <<clock, millis, deadline, waited, age>>

\* ETIMEDOUT.
Expire ==
  /\ pc = "asleep"
  /\ Reached
  /\ pc' = "expired"
  /\ UNCHANGED <<clock, millis, deadline, waited, age>>

Return ==
  /\ pc = "expired"
  /\ pc' = "idle"
  /\ UNCHANGED <<clock, millis, deadline, waited, age>>

\* The clock; it waits for a prompt thread.
Tick ==
  /\ ~(pc = "loop" /\ Valid)
  /\ ~(pc = "asleep" /\ Reached)
  /\ \/ /\ usec + 1 < Second
        /\ usec' = usec + 1 /\ sec' = sec
     \/ /\ usec + 1 = Second
        /\ sec < MaxSec
        /\ usec' = 0 /\ sec' = sec + 1
  /\ IF pc \in {"loop", "asleep"}
       THEN waited' = waited + 1 /\ age' = age + 1
       ELSE UNCHANGED <<waited, age>>
  /\ UNCHANGED <<pc, millis, deadline>>

Next == \/ \E m \in Waits : Call(m)
        \/ TimedWait \/ Wake \/ Served \/ Expire \/ Return \/ Tick

Spec == Init /\ [][Next]_vars

-----------------------------------------------------------------------------
(* Properties *)

\* The clock reads a time, and the argument is one of Waits once it is given.
TypeOK ==
  /\ sec \in Nat /\ usec \in 0..(Second - 1)
  /\ pc \in {"idle", "loop", "asleep", "expired"}
  /\ millis \in Waits \cup {0}
  /\ pc # "idle" => millis \in Waits
  /\ dsec \in Nat /\ dusec \in 0..(Second - 1)
  /\ waited \in Nat /\ age \in Nat

\* With less than two seconds to wait, queue_fetch_nth holds wait_lock for less
\* than a second before a deadline is accepted: producers get through.
SpinsUnderASecond == pc = "loop" /\ millis < 2 * Second => age < Second

\* A fetch that times out has waited no less than it was asked to, in whatever
\* part of a second it began, however often it was refused and woken: the carry
\* of xmq.c never cuts a wait of at most a second short.
NeverCutShort == pc = "expired" /\ millis <= Second => waited >= millis

\* And it is late by less than a second: a fetch of less than two seconds that
\* nothing wakes is over by then, the time it was refused included.
LateByUnderASecond ==
  pc \in {"loop", "asleep", "expired"} /\ millis < 2 * Second
    => age < millis + Second

\* A fetch that times out has waited for the milliseconds it was given
\* (millis of queue_fetch_nth).
WaitsMillis == pc = "expired" => waited = millis
=============================================================================
