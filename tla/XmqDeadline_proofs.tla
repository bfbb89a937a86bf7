------------------------- MODULE XmqDeadline_proofs -------------------------
(* Theorems about the deadline of a timed fetch (XmqDeadline).             *)
EXTENDS XmqDeadline, TLAPS

\* No clock makes a deadline of two seconds or more a valid time.
LEMMA OverlongInvalid ==
  ASSUME Second \in Nat \ {0}, millis \in Nat, usec \in 0..(Second - 1),
         millis >= 2 * Second
  PROVE  ~Valid
  BY DEF Valid, TimeoutUsec, Carries

\* The ticks from the clock to the deadline.
Left == IF dsec = sec THEN dusec - usec ELSE dusec + (Second - usec)

\* While deadlines are refused, the clock is in the refused part of the
\* second, or has just left it.
SpinInv ==
  pc = "loop" /\ millis < 2 * Second /\ age > 0 =>
    IF millis < Second
      THEN \/ usec >= age + millis /\ usec >= age + (Second - millis)
           \/ usec = 0 /\ age <= millis /\ age <= Second - millis
      ELSE age <= usec /\ usec <= millis - Second

\* The deadline that was accepted is in this second or the next, no nearer than
\* what is left of the argument, and less than a second further.
SleepInv ==
  /\ age <= waited
  /\ pc = "asleep" =>
       /\ millis < 2 * Second
       /\ dsec = sec \/ dsec = sec + 1
       /\ Left >= 0
       /\ age + Left < millis + Second
       /\ millis <= Second => waited + Left >= millis
  /\ pc = "expired" =>
       /\ age < millis + Second
       /\ millis <= Second => waited >= millis

IndInv == TypeOK /\ SpinInv /\ SleepInv

\* A wait of less than two seconds holds wait_lock for less than a second and
\* is late by less than a second, and none of at most a second is cut short: for
\* any length of the second (in microseconds, 1000000), any arguments and any
\* clock.
THEOREM DeadlineBounds ==
  Spec => [](SpinsUnderASecond /\ NeverCutShort /\ LateByUnderASecond)
<1> USE DeadlineConstants
<1>1. Init => IndInv
  BY DEF Init, IndInv, TypeOK, SpinInv, SleepInv
<1>2. IndInv /\ [Next]_vars => IndInv'
  <2> SUFFICES ASSUME IndInv, [Next]_vars
               PROVE  IndInv'
    OBVIOUS
  <2> USE DEF IndInv, TypeOK, SpinInv, SleepInv
  <2>1. ASSUME NEW m \in Waits, Call(m)
        PROVE  IndInv'
    BY <2>1 DEF Call, clock, deadline
  <2>2. CASE TimedWait
    <3>1. TypeOK' /\ SpinInv'
      BY <2>2 DEF TimedWait, Valid, TimeoutSec, TimeoutUsec, Carries, clock
    <3>2. millis < 2 * Second
      BY <2>2, OverlongInvalid DEF TimedWait
    <3>3. SleepInv'
      BY <2>2, <3>2 DEF TimedWait, Valid, TimeoutSec, TimeoutUsec, Carries,
                        clock, Left
    <3> QED
      BY <3>1, <3>3
  <2>3. CASE Wake \/ Served \/ Return
    BY <2>3 DEF Wake, Served, Return, clock, deadline
  <2>4. CASE Expire
    BY <2>4 DEF Expire, Reached, Left, clock, deadline
  <2>5. CASE Tick
    <3>1. TypeOK'
      BY <2>5 DEF Tick, deadline
    <3>2. SpinInv'
      BY <2>5 DEF Tick, Valid, TimeoutUsec, Carries
    <3>3. SleepInv'
      BY <2>5 DEF Tick, Reached, Left, deadline
    <3> QED
      BY <3>1, <3>2, <3>3
  <2>6. CASE UNCHANGED vars
    BY <2>6 DEF vars, clock, deadline, Left
  <2> QED
    BY <2>1, <2>2, <2>3, <2>4, <2>5, <2>6 DEF Next
<1>3. IndInv => SpinsUnderASecond /\ NeverCutShort /\ LateByUnderASecond
  BY DEF IndInv, TypeOK, SpinInv, SleepInv, Left, SpinsUnderASecond,
         NeverCutShort, LateByUnderASecond
<1> QED
  BY <1>1, <1>2, <1>3, PTL DEF Spec

\* The first of these bounds by itself: a wait of less than two seconds that is
\* still refused has held wait_lock for less than a second.
THEOREM SpinsBriefly == Spec => []SpinsUnderASecond
BY DeadlineBounds, PTL

\* The second: a wait of at most a second that times out has lasted for the
\* milliseconds it was given.
THEOREM NoneCutShort == Spec => []NeverCutShort
BY DeadlineBounds, PTL

\* The third: a wait of less than two seconds that nothing wakes is over within
\* a second of its time.
THEOREM LateByLittle == Spec => []LateByUnderASecond
BY DeadlineBounds, PTL
=============================================================================
