--------------------------- MODULE MCXmqRegistry ---------------------------
(* Instances of XmqRegistry for TLC. *)
EXTENDS XmqRegistry, TLC

CONSTANTS t1, t2, a, b, c, d

\* Threads that do not open or close the queue, and identities of one role,
\* are interchangeable.
ThreadsAndUsers == Permutations(Threads \ Opener) \cup Permutations(Producers)
                   \cup Permutations(Consumers)
=============================================================================
