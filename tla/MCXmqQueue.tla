----------------------------- MODULE MCXmqQueue -----------------------------
(* Instances of XmqQueue for TLC. *)
EXTENDS XmqRefinement

CONSTANTS q1, q2, p1, p2, c1, c2, d1, d2

P1OnQ1         == [p \in {p1} |-> q1]
P12OnQ1        == [p \in {p1, p2} |-> q1]
P12Apart       == [p \in {p1, p2} |-> IF p = p1 THEN q1 ELSE q2]
C1OnQ1         == [c \in {c1} |-> q1]
C12OnQ1        == [c \in {c1, c2} |-> q1]
C12Apart       == [c \in {c1, c2} |-> IF c = c1 THEN q1 ELSE q2]
=============================================================================
