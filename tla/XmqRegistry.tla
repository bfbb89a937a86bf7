---------------------------- MODULE XmqRegistry ----------------------------
(***************************************************************************)
(* The tree of libmixmq (src/lib/libmixmq/src/xmq.c): a queue of a context *)
(* and the producers and consumers registered with it, kept in lists of    *)
(* active and dead nodes under node_tree_lock and, as comma-separated      *)
(* identities, in the key-value store.                                     *)
(*                                                                         *)
(* The lookups lock and unlock by themselves; open, close, register and    *)
(* unregister then lock again to change the lists.  A thread may be        *)
(* overtaken between the two.  A section that changes the lists calls the  *)
(* store, so entering and leaving it are separate steps.                   *)
(*                                                                         *)
(* One queue is modelled, and one thread at a time opens or closes it.     *)
(***************************************************************************)
EXTENDS Integers, Sequences, FiniteSets

CONSTANTS
  Threads,
  Producers,    \* identities used with xmq_register_as_producer
  Consumers,    \* identities used with xmq_register_as_consumer
  NoThread,     \* the lock is free
  MaxNodes,     \* bound: no register starts once so many nodes were allocated
  MaxStored,    \* bound: nor once a stored list has so many identities
  MaxLoads,     \* bound: no open starts once this many nodes were allocated
  StoreFails,   \* whether put_KVs_cb and get_KVs_cb may return -1
  Crashes,      \* whether the process may be killed
  Opener,       \* the threads that open and close the queue
  ClosesInUse,  \* whether it is closed while other threads are in a call
  Repeats       \* whether open and register are called for what is open,
                \* registered or in another thread's hands

ASSUME RegistryConstants ==
  /\ Producers \cap Consumers = {}
  /\ NoThread \notin Threads
  /\ Opener \subseteq Threads
  /\ {MaxNodes, MaxStored, MaxLoads} \subseteq Nat
  /\ {StoreFails, Crashes, ClosesInUse, Repeats} \subseteq BOOLEAN

VARIABLES
  kvQueue,         \* whether the queue is in the stored list of queues
  kvUsers,         \* role -> stored identities
  up,              \* whether the context is initialised
  qplace,          \* the list the queue is on
  active, dead,    \* role -> list of nodes
  ident, slot,     \* node -> identity, node -> consumer->slot
  amount,          \* role -> producer_amount, consumer_amount
  allocated,       \* nodes are 1..allocated
  freed,           \* nodes that were freed
  lock,            \* owner of node_tree_lock
  pc, op, user, node  \* per thread: where it is, the call and its locals

storeVars  == <<kvQueue, kvUsers>>
treeVars   == <<up, qplace, active, dead, ident, slot, amount, allocated, freed>>
threadVars == <<pc, op, user, node>>
vars == <<storeVars, treeVars, lock, threadVars>>

Roles == {"producer", "consumer"}
Users == Producers \cup Consumers
RoleOf(u) == IF u \in Producers THEN "producer" ELSE "consumer"

Elements(list) == {list[i] : i \in DOMAIN list}

\* The first node of a list with the identity, or 0.
Find(list, u) ==
  LET found == {i \in DOMAIN list : ident[list[i]] = u} IN
  IF found = {} THEN 0
  ELSE list[CHOOSE i \in found : \A j \in found : i <= j]

\* __list_del: the neighbours of the node, if it is on the list, are linked.
Without(list, n) ==
  LET k == CHOOSE i \in DOMAIN list : list[i] = n IN
  IF n \notin Elements(list) THEN list
  ELSE [i \in 1..(Len(list) - 1) |-> IF i < k THEN list[i] ELSE list[i + 1]]

\* list_del: the node leaves whatever list it is on.
Unlinked(lists, n) == [r \in Roles |-> Without(lists[r], n)]

Init ==
  /\ kvQueue = FALSE
  /\ kvUsers = [r \in Roles |-> <<>>]
  /\ up = FALSE
  /\ qplace = "none"
  /\ active = [r \in Roles |-> <<>>]
  /\ dead = [r \in Roles |-> <<>>]
  /\ ident = <<>>
  /\ slot = <<>>
  /\ amount = [r \in Roles |-> 0]
  /\ allocated = 0
  /\ freed = {}
  /\ lock = NoThread
  /\ pc = [t \in Threads |-> "idle"]
  /\ op = [t \in Threads |-> "none"]
  /\ user = [t \in Threads |-> "none"]
  /\ node = [t \in Threads |-> 0]

\* The thread goes on at l.
Goto(t, l) == pc' = [pc EXCEPT ![t] = l]

\* The call is over.
Return(t) ==
  /\ pc' = [pc EXCEPT ![t] = "idle"]
  /\ op' = [op EXCEPT ![t] = "none"]
  /\ user' = [user EXCEPT ![t] = "none"]
  /\ node' = [node EXCEPT ![t] = 0]

-----------------------------------------------------------------------------
(* The context *)

\* __queues_load: a stored queue is a dead one.
QueuesLoad == qplace' = IF kvQueue THEN "dead" ELSE "none"

\* xmq_context_init: the queues of the store are loaded as dead queues.  (When
\* they cannot be, the application is told and there is no context.)
ContextInit ==
  /\ ~up
  /\ up' = TRUE
  /\ QueuesLoad
  /\ UNCHANGED <<storeVars, active, dead, ident, slot, amount, allocated, freed,
                 lock, threadVars>>

\* The memory of the process is gone.
LoseMemory ==
  /\ up' = FALSE
  /\ qplace' = "none"
  /\ active' = [r \in Roles |-> <<>>]
  /\ dead' = [r \in Roles |-> <<>>]
  /\ ident' = <<>>
  /\ slot' = <<>>
  /\ amount' = [r \in Roles |-> 0]
  /\ allocated' = 0
  /\ freed' = {}
  /\ lock' = NoThread
  /\ pc' = [t \in Threads |-> "idle"]
  /\ op' = [t \in Threads |-> "none"]
  /\ user' = [t \in Threads |-> "none"]
  /\ node' = [t \in Threads |-> 0]
  /\ UNCHANGED kvQueue

\* xmq_context_term, called when no thread uses the context.
ContextTerm ==
  /\ up
  /\ \A t \in Threads : pc[t] = "idle"
  /\ lock = NoThread
  /\ qplace # "active"
  /\ LoseMemory
  /\ UNCHANGED kvUsers

Crash == up /\ Crashes /\ LoseMemory /\ UNCHANGED kvUsers

-----------------------------------------------------------------------------
(* Calls and lookups *)

Begin(t, o, u, l) ==
  /\ pc[t] = "idle"
  /\ op' = [op EXCEPT ![t] = o]
  /\ user' = [user EXCEPT ![t] = u]
  /\ node' = [node EXCEPT ![t] = 0]
  /\ Goto(t, l)
  /\ UNCHANGED <<storeVars, treeVars, lock>>

\* Whether the application may work on a user of the open queue now.
Free(u) ==
  /\ qplace = "active"
  /\ Repeats \/ \A s \in Threads : user[s] # u
  /\ ClosesInUse \/ \A s \in Threads : op[s] # "close"

CallRegister(t) ==
  \E u \in Users :
    /\ Free(u)
    /\ Repeats \/ Find(active[RoleOf(u)], u) = 0
    /\ allocated < MaxNodes
    /\ Len(kvUsers[RoleOf(u)]) < MaxStored
    /\ Begin(t, "register", u, "active")

CallUnregister(t) ==
  \E u \in Users :
    /\ Free(u)
    /\ Find(active[RoleOf(u)], u) # 0
    /\ Begin(t, "unregister", u, "active")

CallOpen(t) ==
  /\ t \in Opener
  /\ up
  /\ Repeats \/ qplace # "active"
  /\ allocated < MaxLoads
  /\ Begin(t, "open", "none", "qactive")

CallClose(t) ==
  /\ t \in Opener
  /\ qplace = "active"
  /\ ClosesInUse \/ \A s \in Threads : pc[s] = "idle"
  /\ Begin(t, "close", "none", "qactive")

\* xmq_producer_is_active and xmq_consumer_is_active, under the lock.  Where
\* the caller goes on: to the stray unlock of xmq_register_as_consumer, back to
\* the application, or to the lock.
FindActive(t) ==
  LET u == user[t]
      n == Find(active[RoleOf(u)], u)
  IN
  /\ pc[t] = "active"
  /\ lock = NoThread
  /\ \/ /\ op[t] = "register" /\ n # 0 /\ u \in Consumers
        /\ Goto(t, "unlock")
        /\ UNCHANGED <<op, user, node>>
     \/ /\ op[t] = "register" /\ n # 0 /\ u \in Producers
        /\ Return(t)
     \/ /\ op[t] = "register" /\ n = 0
        /\ Goto(t, "exist")
        /\ UNCHANGED <<op, user, node>>
     \/ /\ op[t] = "unregister" /\ n # 0
        /\ node' = [node EXCEPT ![t] = n]
        /\ Goto(t, "lock")
        /\ UNCHANGED <<op, user>>
     \/ /\ op[t] = "unregister" /\ n = 0
        /\ Return(t)
  /\ UNCHANGED <<storeVars, treeVars, lock>>

\* xmq_producer_exist and xmq_consumer_exist look at the active list again ...
FindAgain(t) ==
  LET n == Find(active[RoleOf(user[t])], user[t]) IN
  /\ pc[t] = "exist"
  /\ lock = NoThread
  /\ node' = [node EXCEPT ![t] = n]
  /\ Goto(t, IF n # 0 THEN "lock" ELSE "dead")
  /\ UNCHANGED <<storeVars, treeVars, lock, op, user>>

\* ... and, in a section of its own, at the dead list.
FindDead(t) ==
  /\ pc[t] = "dead"
  /\ lock = NoThread
  /\ node' = [node EXCEPT ![t] = Find(dead[RoleOf(user[t])], user[t])]
  /\ Goto(t, "lock")
  /\ UNCHANGED <<storeVars, treeVars, lock, op, user>>

\* xmq_queue_is_active and xmq_queue_exist.  (They look at the queue's place
\* three times; only the caller opens and closes queues.)
FindQueue(t) ==
  /\ pc[t] = "qactive"
  /\ lock = NoThread
  /\ qplace # "dangling"
  /\ \/ /\ op[t] = "open" /\ qplace = "active"
        /\ Goto(t, "unlock")
        /\ UNCHANGED <<op, user, node>>
     \/ /\ \/ op[t] = "open" /\ qplace # "active"
           \/ op[t] = "close" /\ qplace = "active"
        /\ Goto(t, "lock")
        /\ UNCHANGED <<op, user, node>>
     \/ /\ op[t] = "close" /\ qplace # "active"
        /\ Return(t)
  /\ UNCHANGED <<storeVars, treeVars, lock>>

\* xmq_queue_open and xmq_register_as_consumer unlock a mutex they do not hold
\* when there was nothing to do: it is free afterwards, whoever had it.
StrayUnlock(t) ==
  /\ pc[t] = "unlock"
  /\ lock' = NoThread
  /\ Return(t)
  /\ UNCHANGED <<storeVars, treeVars>>

Acquire(t) ==
  /\ pc[t] = "lock"
  /\ lock = NoThread
  /\ lock' = t
  /\ Goto(t, "in")
  /\ UNCHANGED <<storeVars, treeVars, op, user, node>>

-----------------------------------------------------------------------------
(* Sections under node_tree_lock *)

\* The thread is in the section of a call, with the node it looked up.
InSection(t, o) == pc[t] = "in" /\ op[t] = o

Unlock(t) == lock' = NoThread /\ Return(t)

\* Mutant: list_add_tail without list_del.
ActivateStillLinked(t) ==
  LET r == RoleOf(user[t]) IN
  /\ InSection(t, "register")
  /\ node[t] # 0 /\ node[t] \notin freed
  /\ active' = [active EXCEPT ![r] = Append(@, node[t])]
  /\ Unlock(t)
  /\ UNCHANGED <<storeVars, up, qplace, dead, ident, slot, amount, allocated, freed>>

\* A known user is moved to the tail of the active list.
Activate(t) ==
  LET u == user[t]
      n == node[t]
      r == RoleOf(u)
  IN
  /\ InSection(t, "register")
  /\ n # 0 /\ n \notin freed
  /\ active' = [Unlinked(active, n) EXCEPT ![r] = Append(@, n)]
  /\ dead' = Unlinked(dead, n)
  /\ Unlock(t)
  /\ UNCHANGED <<storeVars, up, qplace, ident, slot, amount, allocated, freed>>

\* __consumer_active cannot read a position: NULL is returned.
ActivateFails(t) ==
  /\ StoreFails
  /\ InSection(t, "register")
  /\ node[t] # 0 /\ user[t] \in Consumers
  /\ Unlock(t)
  /\ UNCHANGED <<storeVars, treeVars>>

\* Mutant: the stored list is overwritten instead of appended to.
StoreUserAlone(u) ==
  kvUsers' = [kvUsers EXCEPT ![RoleOf(u)] = <<u>>]

\* Mutants: it is written in front; nothing is written.
StoreUserFirst(u) ==
  kvUsers' = [kvUsers EXCEPT ![RoleOf(u)] = <<u>> \o @]

StoreUserSkipped(u) == UNCHANGED kvUsers

\* The stored list with one more identity (__write_back_append).
StoreUser(u) ==
  kvUsers' = [kvUsers EXCEPT ![RoleOf(u)] = Append(@, u)]

\* Mutant: consumer_amount and producer_amount are not incremented.
CreateUncounted(t) ==
  LET u == user[t]
      n == allocated + 1
      r == RoleOf(u)
  IN
  /\ InSection(t, "register")
  /\ node[t] = 0
  /\ StoreUser(u)
  /\ allocated' = n
  /\ ident' = Append(ident, u)
  /\ slot' = Append(slot, IF r = "consumer" THEN amount[r] ELSE 0)
  /\ active' = [active EXCEPT ![r] = Append(@, n)]
  /\ Unlock(t)
  /\ UNCHANGED <<kvQueue, up, qplace, dead, amount, freed>>

\* Mutant: the identity is not copied into the new node.
CreateUnnamed(t) ==
  LET n == allocated + 1
      r == RoleOf(user[t])
  IN
  /\ InSection(t, "register")
  /\ node[t] = 0
  /\ StoreUser(user[t])
  /\ allocated' = n
  /\ ident' = Append(ident, "none")
  /\ slot' = Append(slot, IF r = "consumer" THEN amount[r] ELSE 0)
  /\ active' = [active EXCEPT ![r] = Append(@, n)]
  /\ amount' = [amount EXCEPT ![r] = @ + 1]
  /\ Unlock(t)
  /\ UNCHANGED <<kvQueue, up, qplace, dead, freed>>

\* A new user is stored, allocated and made active.
Create(t) ==
  LET u == user[t]
      n == allocated + 1
      r == RoleOf(u)
  IN
  /\ InSection(t, "register")
  /\ node[t] = 0
  /\ StoreUser(u)
  /\ allocated' = n
  /\ ident' = Append(ident, u)
  /\ slot' = Append(slot, IF r = "consumer" THEN amount[r] ELSE 0)
  /\ active' = [active EXCEPT ![r] = Append(@, n)]
  /\ amount' = [amount EXCEPT ![r] = @ + 1]
  /\ Unlock(t)
  /\ UNCHANGED <<kvQueue, up, qplace, dead, freed>>

\* The stored list of producers cannot be read or written: the call returns
\* NULL and keeps the lock.
CreateProducerFails(t) ==
  /\ StoreFails
  /\ InSection(t, "register")
  /\ node[t] = 0 /\ user[t] \in Producers
  /\ Return(t)
  /\ UNCHANGED <<storeVars, treeVars, lock>>

\* The same for a consumer, which unlocks; the list may have been written
\* already when a position cannot be.
CreateConsumerFails(t) ==
  /\ StoreFails
  /\ InSection(t, "register")
  /\ node[t] = 0 /\ user[t] \in Consumers
  /\ UNCHANGED kvUsers \/ StoreUser(user[t])
  /\ Unlock(t)
  /\ UNCHANGED <<kvQueue, treeVars>>

\* The process ends between the put of the list and what follows it.
CrashInCreate(t) ==
  /\ Crashes
  /\ InSection(t, "register")
  /\ node[t] = 0
  /\ StoreUser(user[t])
  /\ LoseMemory

\* xmq_unregister_producer and xmq_unregister_consumer.
Deactivate(t) ==
  LET n == node[t]
      r == RoleOf(user[t])
  IN
  /\ InSection(t, "unregister")
  /\ n \notin freed
  /\ active' = Unlinked(active, n)
  /\ dead' = [Unlinked(dead, n) EXCEPT ![r] = Append(@, n)]
  /\ Unlock(t)
  /\ UNCHANGED <<storeVars, up, qplace, ident, slot, amount, allocated, freed>>

\* __load_string_list: the stored string of a role as new nodes, in its order.
LoadList(r) ==
  [i \in DOMAIN kvUsers[r] |->
     [ident |-> kvUsers[r][i], slot |-> IF r = "consumer" THEN i - 1 ELSE 0]]

\* __producers_load and __consumers_load for the roles in rs whose dead list is
\* empty.  The roles in failed cannot be read, which leaves no users counted.
Load(rs, failed) ==
  LET loading == {r \in rs : dead[r] = <<>>}
      new(r)  == IF r \in loading THEN LoadList(r) ELSE <<>>
      all     == new("producer") \o new("consumer")
      base(r) == allocated + IF r = "consumer" THEN Len(new("producer")) ELSE 0
  IN
  /\ allocated' = allocated + Len(all)
  /\ dead' = [r \in Roles |-> IF r \in loading
                                THEN [i \in DOMAIN new(r) |-> base(r) + i]
                                ELSE dead[r]]
  /\ ident' = ident \o [i \in DOMAIN all |-> all[i].ident]
  /\ slot' = slot \o [i \in DOMAIN all |-> all[i].slot]
  /\ amount' = [r \in Roles |-> IF r \in loading THEN Len(new(r))
                                ELSE IF r \in failed THEN 0 ELSE amount[r]]

\* __queue_active, and __queue_new_active for a queue the context does not know.
OpenQueue(t) ==
  /\ InSection(t, "open")
  /\ Load(Roles, {})
  /\ qplace' = "active"
  /\ kvQueue' = TRUE
  /\ Unlock(t)
  /\ UNCHANGED <<kvUsers, up, active, freed>>

\* A dead queue stays dead: its capacity cannot be read, or its producers, or
\* the producers are loaded and its consumers cannot be read.
OpenDeadFails(t) ==
  /\ StoreFails
  /\ InSection(t, "open")
  /\ qplace = "dead"
  /\ \/ Load({}, {})
     \/ dead["producer"] = <<>> /\ Load({}, {"producer"})
     \/ dead["consumer"] = <<>> /\ Load({"producer"}, {"consumer"})
  /\ Unlock(t)
  /\ UNCHANGED <<storeVars, up, qplace, active, freed>>

\* A new queue is freed.  When __queue_active failed it is still linked into
\* dead_queues; when the list of queues could not be written it is not.
OpenNewFails(t) ==
  /\ StoreFails
  /\ InSection(t, "open")
  /\ qplace = "none"
  /\ qplace' \in {"dangling", "none"}
  /\ Unlock(t)
  /\ UNCHANGED <<storeVars, up, active, dead, ident, slot, amount, allocated,
                 freed>>

\* xmq_queue_close frees the dead users and keeps the queue as a dead one.
CloseQueue(t) ==
  /\ InSection(t, "close")
  /\ \A r \in Roles : active[r] = <<>>
  /\ freed' = freed \cup UNION {Elements(dead[r]) : r \in Roles}
  /\ dead' = [r \in Roles |-> <<>>]
  /\ qplace' = "dead"
  /\ Unlock(t)
  /\ UNCHANGED <<storeVars, up, active, ident, slot, amount, allocated>>

\* Mutant: the early return does not unlock.
CloseRefusedLocked(t) ==
  /\ InSection(t, "close")
  /\ \E r \in Roles : active[r] # <<>>
  /\ Return(t)
  /\ UNCHANGED <<storeVars, treeVars, lock>>

CloseRefused(t) ==
  /\ InSection(t, "close")
  /\ \E r \in Roles : active[r] # <<>>
  /\ Unlock(t)
  /\ UNCHANGED <<storeVars, treeVars>>

\* A freed node is unlinked, or a freed queue is compared with a name: the
\* process ends (anything may happen; this is what it comes to).
UseAfterFree(t) ==
  /\ \/ pc[t] = "in" /\ node[t] \in freed
     \/ pc[t] = "qactive" /\ lock = NoThread /\ qplace = "dangling"
  /\ LoseMemory
  /\ UNCHANGED kvUsers

-----------------------------------------------------------------------------
Call(t) == CallRegister(t) \/ CallUnregister(t) \/ CallOpen(t) \/ CallClose(t)

Lookup(t) == FindActive(t) \/ FindAgain(t) \/ FindDead(t) \/ FindQueue(t)

Section(t) ==
  \/ Activate(t) \/ ActivateFails(t) \/ Create(t) \/ CreateProducerFails(t)
  \/ CreateConsumerFails(t) \/ Deactivate(t) \/ OpenQueue(t)
  \/ OpenDeadFails(t) \/ OpenNewFails(t) \/ CloseQueue(t) \/ CloseRefused(t)

Next ==
  \/ ContextInit \/ ContextTerm \/ Crash
  \/ \E t \in Threads : \/ Call(t) \/ Lookup(t) \/ StrayUnlock(t)
                        \/ Acquire(t) \/ Section(t) \/ CrashInCreate(t)
                        \/ UseAfterFree(t)

Spec == Init /\ [][Next]_vars

\* A thread that holds the lock runs on: what it does there does not block.
FairSpec == Spec /\ \A t \in Threads : WF_vars(Section(t) \/ UseAfterFree(t))
-----------------------------------------------------------------------------
(* Properties *)

ThreadPC == {"idle", "active", "exist", "dead", "qactive", "unlock", "lock", "in"}

\* Every variable holds a value of its type; the lists hold allocated nodes.
TypeOK ==
  /\ kvQueue \in BOOLEAN /\ up \in BOOLEAN
  /\ kvUsers \in [Roles -> Seq(Users)]
  /\ qplace \in {"none", "dead", "active", "dangling"}
  /\ allocated \in Nat
  /\ active \in [Roles -> Seq(1..allocated)]
  /\ dead \in [Roles -> Seq(1..allocated)]
  /\ ident \in [1..allocated -> Users]
  /\ slot \in [1..allocated -> Nat]
  /\ amount \in [Roles -> Nat]
  /\ freed \subseteq 1..allocated
  /\ lock \in Threads \cup {NoThread}
  /\ pc \in [Threads -> ThreadPC]
  /\ op \in [Threads -> {"none", "register", "unregister", "open", "close"}]
  /\ user \in [Threads -> Users \cup {"none"}]
  /\ node \in [Threads -> 0..allocated]

\* node_tree_lock serialises every change of the lists (xmq.h: the mutex of all
\* list operations).
TreeLockExcludes ==
  \A s, t \in Threads : pc[s] = "in" /\ pc[t] = "in" => s = t

\* An identity names one user of its role in a queue (xmq.h on the identity of
\* xmq_register_as_producer and xmq_register_as_consumer).
IdentityUnique ==
  \A r \in Roles :
    LET all == active[r] \o dead[r] IN
    \A i, j \in DOMAIN all : ident[all[i]] = ident[all[j]] => i = j

\* No identity is stored twice, so that a restart yields one user for it.
StoredOnce ==
  \A r \in Roles :
    \A i, j \in DOMAIN kvUsers[r] : kvUsers[r][i] = kvUsers[r][j] => i = j

\* While a queue is open its users in memory are those in the store, as many
\* times, and the count kept beside the lists is right: a restart would bring
\* back exactly these.
MemoryMatchesStore ==
  qplace = "active" =>
    \A r \in Roles :
      LET all == active[r] \o dead[r] IN
      /\ amount[r] = Len(all)
      /\ \A u \in Users :
           Cardinality({i \in DOMAIN all : ident[all[i]] = u}) =
           Cardinality({i \in DOMAIN kvUsers[r] : kvUsers[r][i] = u})

\* A consumer's slot, which addresses its status bits, is below the number of
\* consumers and no other consumer has it.
SlotsDistinct ==
  LET all == active["consumer"] \o dead["consumer"] IN
  \A i, j \in DOMAIN all :
    /\ slot[all[i]] = slot[all[j]] => i = j
    /\ slot[all[i]] < amount["consumer"]

\* The slot a consumer was given when it was registered is the one it gets when
\* its queue is loaded again (xmq.h: initialised when the consumer is loaded), so
\* that its status bits stay its own across a restart: the place in the stored
\* list and the counter from which slots are taken keep in step.
SlotSurvivesReload ==
  qplace = "active" =>
    LET stored == kvUsers["consumer"] IN
    \A n \in Elements(active["consumer"]) \cup Elements(dead["consumer"]) :
      slot[n] + 1 \in DOMAIN stored /\ stored[slot[n] + 1] = ident[n]

\* Whoever is registered, or was and may be activated again, survives a restart:
\* no node is linked whose identity is not in the stored list of its role, also
\* when a call failed half-way and was repeated.
UsersDurable ==
  \A r \in Roles :
    \A n \in Elements(active[r]) \cup Elements(dead[r]) :
      ident[n] \in Elements(kvUsers[r])

\* A section never works on a node that was freed: users are deactivated and
\* never deleted, says the comment on the unregister calls.
NodeNotFreed == \A t \in Threads : pc[t] = "in" => node[t] \notin freed

\* dead_queues holds queues that exist (xmq.h), never one that was freed.
NoDanglingQueue == qplace # "dangling"

\* Whoever takes the lock gives it back.
LockReleased == \A t \in Threads : lock = t ~> lock # t
=============================================================================
