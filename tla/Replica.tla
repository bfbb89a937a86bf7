------------------------------- MODULE Replica -------------------------------
(***************************************************************************)
(* What the replication of TSDB promises: a second copy of a key-value     *)
(* store that may only differ on the keys known to be out of date, and     *)
(* that is written on those keys only.  TsdbSync implements it (the keys   *)
(* out of date are those of the pending binlog records).                   *)
(***************************************************************************)
CONSTANTS Keys, Values

VARIABLES
  master,  \* the store clients write
  slave,   \* its copy
  dirty    \* the keys that are to be copied

vars == <<master, slave, dirty>>

Init ==
  /\ master \in [Keys -> Values]
  /\ slave = master
  /\ dirty = {}

\* Clients write some keys.
Update ==
  /\ \E K \in SUBSET Keys :
       /\ dirty' = dirty \cup K
       /\ \A k \in Keys \ K : master'[k] = master[k]
  /\ master' \in [Keys -> Values]
  /\ UNCHANGED slave

\* A key that is out of date is overwritten, with an old value perhaps.
Deliver(k) ==
  /\ k \in dirty
  /\ \E v \in Values : slave' = [slave EXCEPT ![k] = v]
  /\ UNCHANGED <<master, dirty>>

\* A key is up to date.
Settle(k) ==
  /\ k \in dirty
  /\ slave[k] = master[k]
  /\ dirty' = dirty \ {k}
  /\ UNCHANGED <<master, slave>>

Next == Update \/ \E k \in Keys : Deliver(k) \/ Settle(k)

Spec == Init /\ [][Next]_vars
=============================================================================
