---------------------------- MODULE MCXmqDeadline ----------------------------
(* XmqDeadline for TLC: short seconds and all waits up to two and a half.   *)
EXTENDS XmqDeadline

MCWaits == 1..((5 * Second) \div 2)
=============================================================================
