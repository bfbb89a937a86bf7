-------------------------- MODULE XmqRegistry_proofs --------------------------
(***************************************************************************)
(* Proofs about XmqRegistry, for any number of threads, identities and     *)
(* nodes.  What may happen (StoreFails, ClosesInUse, Repeats, Opener) is a *)
(* hypothesis of a theorem where the theorem needs it; the process may be  *)
(* killed in all of them.                                                  *)
(***************************************************************************)
EXTENDS XmqRegistry, TLAPS, WellFoundedInduction, FiniteSetTheorems

-----------------------------------------------------------------------------
(* Invariants *)

\* The calls that work on a user.
UserCalls == {"register", "unregister"}

\* A node on one of the lists of a role.
Linked(r) == Elements(active[r]) \cup Elements(dead[r])

\* A thread is in a call exactly when it is not idle, and its locals are those
\* of the call: the node it looked up has the identity it was asked for.
CallOK(t) ==
  /\ pc[t] = "idle" <=> op[t] = "none"
  /\ pc[t] = "active" => op[t] \in UserCalls
  /\ pc[t] \in {"exist", "dead"} => op[t] = "register"
  /\ pc[t] = "qactive" => op[t] \in {"open", "close"}
  /\ op[t] \in UserCalls => user[t] \in Users
  /\ op[t] \notin UserCalls => user[t] = "none" /\ node[t] = 0
  /\ op[t] \in {"open", "close"} => t \in Opener
  /\ node[t] # 0 => ident[node[t]] = user[t]
  /\ op[t] = "unregister" /\ pc[t] \in {"lock", "in"} => node[t] # 0
  /\ pc[t] \in {"active", "exist", "dead"} => node[t] = 0

\* Nodes that were freed are on no list, and nothing runs without a context.
TreeOK ==
  /\ \A r \in Roles : Linked(r) \cap freed = {}
  /\ ~up => qplace = "none" /\ \A t \in Threads : op[t] = "none"

\* The inductive invariant behind type correctness.
TypeInv ==
  /\ TypeOK
  /\ \A t \in Threads : CallOK(t)
  /\ TreeOK

\* ~ClosesInUse: a queue is closed while nobody works on its users, so the node
\* in a thread's hands stays allocated.
HeldInv ==
  /\ \A t \in Threads : node[t] \notin freed
  /\ \A s, t \in Threads : op[t] = "close" => op[s] \notin UserCalls

\* One thread opens and closes queues.
OneOpener == \A s, t \in Opener : s = t

\* ~Repeats and OneOpener: no thread works on a user of another, or opens what
\* is open; the stray unlock is never reached.
LockInv ==
  /\ \A t \in Threads : pc[t] = "in" => lock = t
  /\ \A t \in Threads : pc[t] # "unlock"
  /\ \A t \in Threads : op[t] = "open" => qplace # "active"
  /\ \A t \in Threads : op[t] \in UserCalls => user[t] # "none"
  /\ \A s, t \in Threads : user[s] = user[t] /\ user[s] # "none" => s = t
  /\ \A t \in Threads : op[t] = "register" =>
       \A n \in Elements(active[RoleOf(user[t])]) : ident[n] # user[t]

\* ~ClosesInUse and OneOpener: only an open queue has active users or calls on
\* users, and the lists are loaded when there are none.
OpenInv ==
  /\ \A t \in Threads : op[t] \in UserCalls => qplace = "active"
  /\ \A t \in Threads :
       op[t] = "open" /\ pc[t] \in {"lock", "in"} => qplace # "active"
  /\ qplace # "active" => \A r \in Roles : active[r] = <<>>

\* A list holds no node twice.
Distinct(list) == \A i, j \in DOMAIN list : list[i] = list[j] => i = j

\* The lists of a role share no node, and what a thread has looked up is on one.
ListInv ==
  /\ \A r \in Roles : /\ Distinct(active[r]) /\ Distinct(dead[r])
                      /\ Elements(active[r]) \cap Elements(dead[r]) = {}
  /\ \A t \in Threads : node[t] # 0 => node[t] \in Linked(RoleOf(user[t]))

\* Consumers' slots.
SlotInv ==
  /\ \A m, n \in Linked("consumer") : slot[m] = slot[n] => m = n
  /\ \A n \in Linked("consumer") : slot[n] < amount["consumer"]

\* The number of users of a role in memory.
Size(r) == Len(active[r]) + Len(dead[r])

\* No identity of a role is stored twice or has two nodes.
OneEach(r) ==
  /\ Distinct(kvUsers[r])
  /\ \A u \in Elements(kvUsers[r]) : RoleOf(u) = r
  /\ \A n \in Linked(r) : RoleOf(ident[n]) = r
  /\ \A m, n \in Linked(r) : ident[m] = ident[n] => m = n

\* The nodes of a role have the stored identities, and are counted.
SameUsers(r) ==
  /\ \A n \in Linked(r) : ident[n] \in Elements(kvUsers[r])
  /\ \A u \in Elements(kvUsers[r]) : \E n \in Linked(r) : ident[n] = u
  /\ amount[r] = Size(r)

\* ~Repeats, ~StoreFails, ~ClosesInUse and OneOpener: the users of an open
\* queue are those of the store, one node for each.
StoreInv ==
  /\ \A r \in Roles : OneEach(r)
  /\ qplace # "active" => \A r \in Roles : dead[r] = <<>>
  /\ qplace = "active" => \A r \in Roles : SameUsers(r)

\* A user that a thread found on no list, or on no active list so far, is on
\* none when the thread comes to create it.
AbsentInv ==
  \A t \in Threads :
    op[t] = "register" /\ pc[t] \in {"lock", "in"} /\ node[t] = 0
      => user[t] \notin Elements(kvUsers[RoleOf(user[t])])

\* The same conditions: the places of consumers in the stored list are their
\* slots, and the next slot is the next place.
PlaceInv ==
  qplace = "active" =>
    /\ amount["consumer"] = Len(kvUsers["consumer"])
    /\ \A n \in Linked("consumer") :
         /\ slot[n] + 1 \in 1..Len(kvUsers["consumer"])
         /\ kvUsers["consumer"][slot[n] + 1] = ident[n]

\* Users are stored when they are linked, and so is who a thread looked up.
DurableInv ==
  /\ \A r \in Roles : \A n \in Linked(r) : ident[n] \in Elements(kvUsers[r])
  /\ \A t \in Threads :
       node[t] # 0 => user[t] \in Elements(kvUsers[RoleOf(user[t])])

-----------------------------------------------------------------------------
(* Lists *)

LEMMA ElementsOf ==
  ASSUME NEW S, NEW list \in Seq(S)
  PROVE  /\ DOMAIN list = 1..Len(list) /\ Len(list) \in Nat
         /\ Elements(list) \subseteq S
         /\ Elements(list) = {} <=> list = <<>>
         /\ \A i \in DOMAIN list : list[i] \in Elements(list)
         /\ \A n \in Elements(list) : \E i \in DOMAIN list : list[i] = n
  BY DEF Elements

LEMMA EmptyList == Elements(<<>>) = {} /\ Distinct(<<>>)
  BY DEF Elements, Distinct

\* list_add_tail.
LEMMA AppendFacts ==
  ASSUME NEW S, NEW list \in Seq(S), NEW T, NEW n \in T
  PROVE  /\ Append(list, n) \in Seq(S \cup T)
         /\ Len(Append(list, n)) = Len(list) + 1
         /\ Elements(Append(list, n)) = Elements(list) \cup {n}
         /\ Distinct(list) /\ n \notin Elements(list) => Distinct(Append(list, n))
  <1>1. Append(list, n) \in Seq(S \cup T) /\ Len(Append(list, n)) = Len(list) + 1
    OBVIOUS
  <1>2. /\ DOMAIN Append(list, n) = 1..(Len(list) + 1)
        /\ DOMAIN list = 1..Len(list) /\ Len(list) \in Nat
        /\ Append(list, n)[Len(list) + 1] = n
        /\ \A i \in 1..Len(list) : Append(list, n)[i] = list[i]
    OBVIOUS
  <1>3. Elements(Append(list, n)) = Elements(list) \cup {n}
    BY <1>2 DEF Elements
  <1>4. ASSUME Distinct(list), n \notin Elements(list)
        PROVE  Distinct(Append(list, n))
    BY <1>2, <1>4 DEF Distinct, Elements
  <1>5. QED
    BY <1>1, <1>3, <1>4

\* list_del.
LEMMA WithoutFacts ==
  ASSUME NEW S, NEW list \in Seq(S), NEW n
  PROVE  /\ Without(list, n) \in Seq(S)
         /\ Elements(Without(list, n)) \subseteq Elements(list)
         /\ Distinct(list) => /\ Distinct(Without(list, n))
                              /\ Elements(Without(list, n)) = Elements(list) \ {n}
         /\ n \in Elements(list) => Len(Without(list, n)) = Len(list) - 1
         /\ n \notin Elements(list) => Without(list, n) = list
  <1>1. CASE n \notin Elements(list)
    BY <1>1 DEF Without
  <1>2. CASE n \in Elements(list)
    <2> DEFINE k == CHOOSE i \in DOMAIN list : list[i] = n
               w == [i \in 1..(Len(list) - 1) |-> IF i < k THEN list[i] ELSE list[i + 1]]
    <2>1. k \in 1..Len(list) /\ list[k] = n /\ Len(list) \in Nat \ {0}
      BY <1>2 DEF Elements
    <2>2. Without(list, n) = w
      BY <1>2 DEF Without
    <2> HIDE DEF k
    <2>3. w \in Seq(S) /\ Len(w) = Len(list) - 1
      BY <2>1
    <2>4. /\ DOMAIN w = 1..(Len(list) - 1) /\ DOMAIN list = 1..Len(list)
          /\ \A i \in 1..(Len(list) - 1) : w[i] = IF i < k THEN list[i] ELSE list[i + 1]
      BY <2>1
    <2> HIDE DEF w
    <2>5. Elements(w) \subseteq Elements(list)
      BY <2>1, <2>4 DEF Elements
    <2>6. ASSUME Distinct(list)
          PROVE  Distinct(w) /\ Elements(w) = Elements(list) \ {n}
      <3>1. Distinct(w)
        <4>1. ASSUME NEW i \in 1..(Len(list) - 1), NEW j \in 1..(Len(list) - 1),
                     w[i] = w[j]
              PROVE  i = j
          <5>1. PICK a \in 1..Len(list) : w[i] = list[a] /\ a = IF i < k THEN i ELSE i + 1
            BY <2>1, <2>4
          <5>2. PICK b \in 1..Len(list) : w[j] = list[b] /\ b = IF j < k THEN j ELSE j + 1
            BY <2>1, <2>4
          <5>3. a = b
            BY ONLY <2>4, <2>6, <4>1, <5>1, <5>2 DEF Distinct
          <5>4. QED
            BY ONLY <2>1, <5>1, <5>2, <5>3, i \in Nat, j \in Nat
        <4>2. QED
          BY ONLY <2>4, <4>1 DEF Distinct
      <3>2. n \notin Elements(w)
        BY <2>1, <2>4, <2>6 DEF Distinct, Elements
      <3>3. ASSUME NEW m \in Elements(list), m # n
            PROVE  m \in Elements(w)
        <4>1. PICK j \in 1..Len(list) : list[j] = m
          BY <2>4 DEF Elements
        <4>2. CASE j < k
          BY <2>1, <2>4, <4>1, <4>2 DEF Elements
        <4>3. CASE j > k
          <5>1. j - 1 \in 1..(Len(list) - 1) /\ w[j - 1] = m
            BY <2>1, <2>4, <4>1, <4>3
          <5>2. QED
            BY <2>4, <5>1 DEF Elements
        <4>4. QED
          BY <2>1, <3>3, <4>1, <4>2, <4>3
      <3>4. QED
        BY <2>5, <3>1, <3>2, <3>3
    <2>7. QED
      BY <1>2, <2>2, <2>3, <2>5, <2>6
  <1>3. QED
    BY <1>1, <1>2

\* A set of positions that is not empty has a first one.
LEMMA FirstExists ==
  ASSUME NEW P \in SUBSET Nat, P # {}
  PROVE  \E i \in P : \A j \in P : i <= j
  <1>1. PICK i \in P : \A j \in P : ~(<<j, i>> \in OpToRel(<, Nat))
    BY WFMin, NatLessThanWellFounded
  <1>2. ASSUME NEW j \in P, j < i
        PROVE  FALSE
    <2>1. <<j, i>> \in Nat \X Nat /\ <<j, i>>[1] < <<j, i>>[2]
      BY <1>2
    <2>2. <<j, i>> \in OpToRel(<, Nat)
      BY <2>1 DEF OpToRel
    <2>3. QED
      BY <1>1, <2>2
  <1>3. QED
    BY <1>2

\* The lookups of xmq.c: a node of the list with the identity, if there is one.
LEMMA FindFacts ==
  ASSUME NEW S \in SUBSET (Nat \ {0}), NEW list \in Seq(S), NEW u
  PROVE  /\ Find(list, u) = 0 => \A n \in Elements(list) : ident[n] # u
         /\ Find(list, u) # 0 => /\ Find(list, u) \in Elements(list)
                                 /\ ident[Find(list, u)] = u
         /\ Find(list, u) \in S \cup {0}
  <1> DEFINE found == {i \in DOMAIN list : ident[list[i]] = u}
             first == CHOOSE i \in found : \A j \in found : i <= j
  <1>1. CASE found = {}
    BY <1>1 DEF Find, Elements
  <1>2. CASE found # {}
    <2>1. found \in SUBSET Nat
      OBVIOUS
    <2>2. \E i \in found : \A j \in found : i <= j
      BY <1>2, <2>1, FirstExists
    <2>3. first \in found
      BY <2>2
    <2>4. Find(list, u) = list[first]
      BY <1>2 DEF Find
    <2>5. first \in DOMAIN list /\ ident[list[first]] = u
      BY <2>3
    <2> HIDE DEF first, found
    <2>6. list[first] \in S
      BY <2>5
    <2>7. QED
      BY <2>4, <2>5, <2>6 DEF Elements
  <1>3. QED
    BY <1>1, <1>2

\* A function on 1..n is a list of n elements, and the other way round.
LEMMA ListIsFunction ==
  ASSUME NEW n \in Nat, NEW S, NEW f \in [1..n -> S]
  PROVE  f \in Seq(S) /\ Len(f) = n
  OBVIOUS

LEMMA ConcatFacts ==
  ASSUME NEW S, NEW k \in Seq(S), NEW l \in Seq(S)
  PROVE  /\ k \o l \in Seq(S) /\ Len(k \o l) = Len(k) + Len(l)
         /\ \A i \in 1..Len(k) : (k \o l)[i] = k[i]
         /\ \A i \in 1..Len(l) : (k \o l)[Len(k) + i] = l[i]
  OBVIOUS

-----------------------------------------------------------------------------
(* __producers_load and __consumers_load *)

\* The stored users of a role become the nodes behind b, in their order.
LoadedAt(r, b) ==
  /\ allocated <= b /\ b + Len(kvUsers[r]) <= allocated'
  /\ dead'[r] = [i \in 1..Len(kvUsers[r]) |-> b + i]
  /\ \A i \in 1..Len(kvUsers[r]) : /\ ident'[b + i] = kvUsers[r][i]
                                   /\ r = "consumer" => slot'[b + i] = i - 1
  /\ amount'[r] = Len(kvUsers[r])

LEMMA LoadFacts ==
  ASSUME TypeOK, NEW rs \in SUBSET Roles, NEW failed, Load(rs, failed)
  PROVE  /\ allocated' \in Nat /\ allocated <= allocated'
         /\ ident' \in [1..allocated' -> Users] /\ slot' \in [1..allocated' -> Nat]
         /\ \A n \in 1..allocated : ident'[n] = ident[n] /\ slot'[n] = slot[n]
         /\ \A r \in Roles :
              \/ r \in rs /\ dead[r] = <<>> /\ \E b \in Nat : LoadedAt(r, b)
              \/ /\ ~(r \in rs /\ dead[r] = <<>>)
                 /\ dead'[r] = dead[r]
                 /\ amount'[r] = IF r \in failed THEN 0 ELSE amount[r]
         /\ dead' = [r \in Roles |-> dead'[r]] /\ amount' = [r \in Roles |-> amount'[r]]
  <1> DEFINE loading == {r \in rs : dead[r] = <<>>}
             new(r)  == IF r \in loading THEN LoadList(r) ELSE <<>>
             all     == new("producer") \o new("consumer")
             base(r) == allocated + IF r = "consumer" THEN Len(new("producer")) ELSE 0
             Node    == [ident : Users, slot : Nat]
  <1>1. ASSUME NEW r \in Roles
        PROVE  /\ LoadList(r) \in Seq(Node) /\ Len(LoadList(r)) = Len(kvUsers[r])
               /\ \A i \in 1..Len(kvUsers[r]) :
                    /\ LoadList(r)[i].ident = kvUsers[r][i]
                    /\ r = "consumer" => LoadList(r)[i].slot = i - 1
    <2>1. kvUsers[r] \in Seq(Users) /\ DOMAIN kvUsers[r] = 1..Len(kvUsers[r])
          /\ Len(kvUsers[r]) \in Nat
      BY DEF TypeOK
    <2>2. \A i \in 1..Len(kvUsers[r]) : kvUsers[r][i] \in Users
                                      /\ (IF r = "consumer" THEN i - 1 ELSE 0) \in Nat
      BY <2>1
    <2>3. LoadList(r) \in [1..Len(kvUsers[r]) -> Node]
      BY <2>1, <2>2 DEF LoadList
    <2>4. \A i \in 1..Len(kvUsers[r]) :
            LoadList(r)[i] = [ident |-> kvUsers[r][i],
                              slot |-> IF r = "consumer" THEN i - 1 ELSE 0]
      BY <2>1 DEF LoadList
    <2> HIDE DEF Node
    <2>5. LoadList(r) \in Seq(Node) /\ Len(LoadList(r)) = Len(kvUsers[r])
      BY <2>1, <2>3, ListIsFunction
    <2>6. ASSUME NEW i \in 1..Len(kvUsers[r])
          PROVE  /\ LoadList(r)[i].ident = kvUsers[r][i]
                 /\ r = "consumer" => LoadList(r)[i].slot = i - 1
      <3> DEFINE h == IF r = "consumer" THEN i - 1 ELSE 0
      <3>1. LoadList(r)[i] = [ident |-> kvUsers[r][i], slot |-> h]
        BY <2>4
      <3>2. r = "consumer" => h = i - 1
        OBVIOUS
      <3> HIDE DEF h
      <3>3. QED
        BY ONLY <3>1, <3>2
    <2>7. QED
      BY ONLY <2>5, <2>6
  <1>2. \A r \in Roles : /\ new(r) \in Seq(Node)
                         /\ r \in loading => new(r) = LoadList(r)
                         /\ r \notin loading => Len(new(r)) = 0
    <2> HIDE DEF Node, loading
    <2>1. <<>> \in Seq(Node) /\ Len(<<>>) = 0
      OBVIOUS
    <2>2. QED
      BY <1>1, <2>1
  <1> DEFINE np == Len(new("producer"))
             nc == Len(new("consumer"))
  <1>3. /\ all \in Seq(Node) /\ Len(all) = np + nc /\ np \in Nat /\ nc \in Nat
        /\ \A i \in 1..np : all[i] = new("producer")[i]
        /\ \A i \in 1..nc : all[np + i] = new("consumer")[i]
        /\ DOMAIN all = 1..(np + nc)
    <2>1. new("producer") \in Seq(Node) /\ new("consumer") \in Seq(Node)
      BY <1>2 DEF Roles
    <2> HIDE DEF new
    <2>2. QED
      BY <2>1
  <1> HIDE DEF all, new, np, nc
  <1>14. \A i \in 1..(np + nc) : all[i].ident \in Users /\ all[i].slot \in Nat
    <2>1. \A i \in 1..(np + nc) : all[i] \in Node
      <3> HIDE DEF Node
      <3>1. QED
        BY <1>3
    <2>2. QED
      BY ONLY <2>1
  <1>4. /\ allocated' = allocated + Len(all)
        /\ dead' = [r \in Roles |-> IF r \in loading
                                      THEN [i \in DOMAIN new(r) |-> base(r) + i]
                                      ELSE dead[r]]
        /\ ident' = ident \o [i \in DOMAIN all |-> all[i].ident]
        /\ slot' = slot \o [i \in DOMAIN all |-> all[i].slot]
        /\ amount' = [r \in Roles |-> IF r \in loading THEN Len(new(r))
                                      ELSE IF r \in failed THEN 0 ELSE amount[r]]
    BY DEF Load, all, new
  <1>5. /\ allocated \in Nat
        /\ ident \in Seq(Users) /\ Len(ident) = allocated
        /\ slot \in Seq(Nat) /\ Len(slot) = allocated
    BY ListIsFunction DEF TypeOK
  <1>6. /\ ident' \in Seq(Users) /\ Len(ident') = allocated + (np + nc)
        /\ \A n \in 1..allocated : ident'[n] = ident[n]
        /\ \A i \in 1..(np + nc) : ident'[allocated + i] = all[i].ident
    <2> DEFINE f == [i \in DOMAIN all |-> all[i].ident]
    <2>1. f \in [1..(np + nc) -> Users]
      BY <1>3, <1>14
    <2>3. \A i \in 1..(np + nc) : f[i] = all[i].ident
      BY <1>3
    <2> HIDE DEF f
    <2>2. f \in Seq(Users) /\ Len(f) = np + nc
      <3>1. np + nc \in Nat
        BY ONLY <1>3
      <3>2. QED
        BY ONLY <2>1, <3>1, ListIsFunction
    <2>4. ident' = ident \o f
      BY <1>4 DEF f
    <2>5. ident \in Seq(Users) /\ f \in Seq(Users)
      BY <1>5, <2>2
    <2>6. ident' \in Seq(Users) /\ Len(ident') = Len(ident) + Len(f)
      BY ONLY <2>4, <2>5
    <2>7. \A i \in 1..Len(ident) : ident'[i] = ident[i]
      BY ONLY <2>4, <2>5
    <2>8. \A i \in 1..Len(f) : ident'[Len(ident) + i] = f[i]
      BY ONLY <2>4, <2>5
    <2>9. QED
      BY ONLY <1>5, <2>2, <2>3, <2>6, <2>7, <2>8
  <1>7. /\ slot' \in Seq(Nat) /\ Len(slot') = allocated + (np + nc)
        /\ \A n \in 1..allocated : slot'[n] = slot[n]
        /\ \A i \in 1..(np + nc) : slot'[allocated + i] = all[i].slot
    <2> DEFINE f == [i \in DOMAIN all |-> all[i].slot]
    <2>1. f \in [1..(np + nc) -> Nat]
      BY <1>3, <1>14
    <2>2. f \in Seq(Nat) /\ Len(f) = np + nc
      BY <1>3, <2>1, ListIsFunction
    <2>3. \A i \in 1..(np + nc) : f[i] = all[i].slot
      BY <1>3
    <2> HIDE DEF f
    <2>4. slot' = slot \o f
      BY <1>4 DEF f
    <2>5. slot \in Seq(Nat) /\ f \in Seq(Nat)
      BY <1>5, <2>2
    <2>6. slot' \in Seq(Nat) /\ Len(slot') = Len(slot) + Len(f)
      BY ONLY <2>4, <2>5
    <2>7. \A i \in 1..Len(slot) : slot'[i] = slot[i]
      BY ONLY <2>4, <2>5
    <2>8. \A i \in 1..Len(f) : slot'[Len(slot) + i] = f[i]
      BY ONLY <2>4, <2>5
    <2>9. QED
      BY ONLY <1>5, <2>2, <2>3, <2>6, <2>7, <2>8
  <1>8. allocated' = allocated + (np + nc) /\ allocated' \in Nat /\ allocated <= allocated'
    BY <1>3, <1>4, <1>5
  <1>9. ident' \in [1..allocated' -> Users] /\ slot' \in [1..allocated' -> Nat]
    BY <1>6, <1>7, <1>8
  <1>10. ASSUME NEW r \in Roles, r \in loading
         PROVE  \E b \in Nat : LoadedAt(r, b)
    <2> DEFINE b == allocated + IF r = "consumer" THEN np ELSE 0
               k == Len(kvUsers[r])
    <2>0. (r = "producer" => b = allocated) /\ (r = "consumer" => b = allocated + np)
      BY <1>5
    <2> HIDE DEF b
    <2>1. new(r) = LoadList(r) /\ Len(new(r)) = k /\ DOMAIN new(r) = 1..k /\ k \in Nat
      BY <1>1, <1>2, <1>10
    <2>2. dead'[r] = [i \in 1..k |-> b + i] /\ amount'[r] = k
      <3>1. base(r) = b
        BY DEF np, b
      <3>2. QED
        BY <1>4, <1>10, <2>1, <3>1
    <2>3. ASSUME NEW i \in 1..k
          PROVE  ident'[b + i] = new(r)[i].ident /\ slot'[b + i] = new(r)[i].slot
      <3>1. CASE r = "producer"
        <4>1. k = np /\ b = allocated /\ i \in 1..np /\ i \in 1..(np + nc)
          BY <1>3, <1>5, <2>0, <2>1, <3>1 DEF np
        <4>2. QED
          BY <1>3, <1>6, <1>7, <3>1, <4>1
      <3>2. CASE r = "consumer"
        <4>0. k = nc /\ b = allocated + np /\ i \in 1..nc
          BY <2>0, <2>1, <3>2 DEF nc
        <4>1. k = nc /\ b = allocated + np /\ i \in 1..nc /\ np + i \in 1..(np + nc)
          BY ONLY <1>3, <4>0
        <4>2. b + i = allocated + (np + i)
          BY ONLY <1>3, <1>5, <4>1
        <4>3. QED
          BY <1>3, <1>6, <1>7, <3>2, <4>1, <4>2
      <3>3. QED
        BY <3>1, <3>2 DEF Roles
    <2>4. b \in Nat /\ allocated <= b /\ b + k <= allocated'
      <3>1. r = "producer" => k = np
        BY <2>1 DEF np
      <3>2. r = "consumer" => k = nc
        BY <2>1 DEF nc
      <3>3. CASE r = "producer"
        BY ONLY <1>3, <1>5, <1>8, <2>0, <3>1, <3>3
      <3>4. CASE r = "consumer"
        BY ONLY <1>3, <1>5, <1>8, <2>0, <3>2, <3>4
      <3>5. QED
        BY <3>3, <3>4 DEF Roles
    <2>5. LoadedAt(r, b)
      BY <1>1, <2>1, <2>2, <2>3, <2>4 DEF LoadedAt
    <2>6. QED
      BY <2>4, <2>5
  <1>11. ASSUME NEW r \in Roles, r \notin loading
         PROVE  dead'[r] = dead[r] /\ amount'[r] = IF r \in failed THEN 0 ELSE amount[r]
    BY <1>4, <1>11
  <1>12. dead' = [r \in Roles |-> dead'[r]] /\ amount' = [r \in Roles |-> amount'[r]]
    BY ONLY <1>4
  <1>15. QED
    BY <1>6, <1>7, <1>8, <1>9, <1>10, <1>11, <1>12
-----------------------------------------------------------------------------
(* Moving a node between the lists of its role *)

LEMMA RoleOfUser == \A u : RoleOf(u) \in Roles
  BY DEF RoleOf, Roles

\* What the lists from1 and to1 hold after a node was moved from one to the other.
Moved(S, from, to, n, r, from1, to1) ==
  /\ from1 \in [Roles -> Seq(S)] /\ to1 \in [Roles -> Seq(S)]
  /\ \A x \in Roles : /\ Elements(from1[x]) \subseteq Elements(from[x])
                      /\ Elements(to1[x]) \subseteq Elements(to[x]) \cup {n}
                      /\ x # r => Elements(to1[x]) \subseteq Elements(to[x])
  /\ \A x \in Roles :
       Distinct(from[x]) /\ Distinct(to[x]) =>
         /\ Distinct(from1[x]) /\ Distinct(to1[x])
         /\ Elements(from1[x]) = Elements(from[x]) \ {n}
         /\ Elements(to1[x]) = IF x = r THEN Elements(to[x]) \cup {n}
                               ELSE Elements(to[x]) \ {n}
  /\ \A x \in Roles \ {r} :
       n \notin Elements(from[x]) \cup Elements(to[x]) =>
         from1[x] = from[x] /\ to1[x] = to[x]
  /\ n \in Elements(from[r]) /\ n \notin Elements(to[r]) =>
       Len(from1[r]) = Len(from[r]) - 1 /\ Len(to1[r]) = Len(to[r]) + 1
  /\ n \notin Elements(from[r]) /\ n \in Elements(to[r]) =>
       Len(from1[r]) = Len(from[r]) /\ Len(to1[r]) = Len(to[r])
  /\ \A x \in Roles : Len(from1[x]) \in Nat /\ Len(to1[x]) \in Nat

\* Activate moves a node from the dead lists to the active ones, Deactivate the
\* other way.
LEMMA MoveFacts ==
  ASSUME NEW S, NEW from \in [Roles -> Seq(S)], NEW to \in [Roles -> Seq(S)],
         NEW n \in S, NEW r \in Roles, NEW from1, NEW to1,
         to1 = [Unlinked(to, n) EXCEPT ![r] = Append(@, n)],
         from1 = Unlinked(from, n)
  PROVE  Moved(S, from, to, n, r, from1, to1)
  <1>1. \A x \in Roles : /\ from1[x] = Without(from[x], n)
                         /\ to1[x] = IF x = r THEN Append(Without(to[x], n), n)
                                     ELSE Without(to[x], n)
    BY DEF Unlinked
  <1>2. ASSUME NEW x \in Roles
        PROVE  /\ from1[x] \in Seq(S) /\ to1[x] \in Seq(S)
               /\ Elements(from1[x]) \subseteq Elements(from[x])
               /\ Elements(to1[x]) \subseteq Elements(to[x]) \cup {n}
               /\ x # r => Elements(to1[x]) \subseteq Elements(to[x])
               /\ Distinct(from[x]) /\ Distinct(to[x]) =>
                    /\ Distinct(from1[x]) /\ Distinct(to1[x])
                    /\ Elements(from1[x]) = Elements(from[x]) \ {n}
                    /\ Elements(to1[x]) = IF x = r THEN Elements(to[x]) \cup {n}
                                          ELSE Elements(to[x]) \ {n}
    <2>1. from[x] \in Seq(S) /\ to[x] \in Seq(S)
      OBVIOUS
    <2> DEFINE w == Without(to[x], n)
    <2>2. /\ w \in Seq(S) /\ Elements(w) \subseteq Elements(to[x])
          /\ Distinct(to[x]) => Distinct(w) /\ Elements(w) = Elements(to[x]) \ {n}
      BY <2>1, WithoutFacts
    <2>3. /\ Append(w, n) \in Seq(S)
          /\ Elements(Append(w, n)) = Elements(w) \cup {n}
          /\ Distinct(w) /\ n \notin Elements(w) => Distinct(Append(w, n))
      <3>1. S \cup S = S
        OBVIOUS
      <3> HIDE DEF w
      <3>2. QED
        BY <2>2, <3>1, AppendFacts
    <2>4. /\ from1[x] \in Seq(S) /\ Elements(from1[x]) \subseteq Elements(from[x])
          /\ Distinct(from[x]) => /\ Distinct(from1[x])
                                  /\ Elements(from1[x]) = Elements(from[x]) \ {n}
      BY <1>1, <2>1, WithoutFacts
    <2>5. to1[x] = IF x = r THEN Append(w, n) ELSE w
      BY <1>1
    <2> HIDE DEF w
    <2>6. QED
      BY ONLY <2>2, <2>3, <2>4, <2>5
  <1>3. from1 \in [Roles -> Seq(S)] /\ to1 \in [Roles -> Seq(S)]
    <2>1. from1 = [x \in Roles |-> from1[x]] /\ to1 = [x \in Roles |-> to1[x]]
      BY DEF Unlinked
    <2>2. QED
      BY <1>2, <2>1
  <1>4. ASSUME NEW x \in Roles \ {r}, n \notin Elements(from[x]) \cup Elements(to[x])
        PROVE  from1[x] = from[x] /\ to1[x] = to[x]
    BY <1>1, <1>4 DEF Without
  <1>5. /\ from[r] \in Seq(S) /\ to[r] \in Seq(S) /\ Without(to[r], n) \in Seq(S)
        /\ Len(from[r]) \in Nat /\ Len(to[r]) \in Nat
        /\ Len(to1[r]) = Len(Without(to[r], n)) + 1
    <2>1. from[r] \in Seq(S) /\ to[r] \in Seq(S)
      OBVIOUS
    <2>2. Without(to[r], n) \in Seq(S)
      BY <2>1, WithoutFacts
    <2>3. to1[r] = Append(Without(to[r], n), n)
      BY <1>1
    <2>4. QED
      BY <2>1, <2>2, <2>3, AppendFacts
  <1>6. ASSUME n \in Elements(from[r]), n \notin Elements(to[r])
        PROVE  Len(from1[r]) = Len(from[r]) - 1 /\ Len(to1[r]) = Len(to[r]) + 1
    BY <1>1, <1>5, <1>6, WithoutFacts
  <1>7. ASSUME n \notin Elements(from[r]), n \in Elements(to[r])
        PROVE  Len(from1[r]) = Len(from[r]) /\ Len(to1[r]) = Len(to[r])
    <2>1. from1[r] = from[r] /\ Len(Without(to[r], n)) = Len(to[r]) - 1
      BY <1>1, <1>5, <1>7, WithoutFacts
    <2>2. QED
      BY ONLY <1>5, <2>1
  <1>8. \A x \in Roles : Len(from1[x]) \in Nat /\ Len(to1[x]) \in Nat
    BY <1>2
  <1>9. QED
    BY ONLY <1>2, <1>3, <1>4, <1>6, <1>7, <1>8 DEF Moved

LEMMA ActivateFacts ==
  ASSUME TypeOK, NEW t \in Threads, Activate(t)
  PROVE  Moved(1..allocated, dead, active, node[t], RoleOf(user[t]), dead', active')
  <1>1. /\ active \in [Roles -> Seq(1..allocated)] /\ dead \in [Roles -> Seq(1..allocated)]
        /\ node[t] \in 1..allocated /\ RoleOf(user[t]) \in Roles
    BY RoleOfUser DEF TypeOK, Activate
  <1>2. /\ active' = [Unlinked(active, node[t]) EXCEPT ![RoleOf(user[t])] = Append(@, node[t])]
        /\ dead' = Unlinked(dead, node[t])
    BY DEF Activate
  <1>3. QED
    BY ONLY <1>1, <1>2, MoveFacts

LEMMA DeactivateFacts ==
  ASSUME TypeOK, NEW t \in Threads, Deactivate(t), node[t] # 0
  PROVE  Moved(1..allocated, active, dead, node[t], RoleOf(user[t]), active', dead')
  <1>1. /\ active \in [Roles -> Seq(1..allocated)] /\ dead \in [Roles -> Seq(1..allocated)]
        /\ node[t] \in 1..allocated /\ RoleOf(user[t]) \in Roles
    BY RoleOfUser DEF TypeOK
  <1>2. /\ dead' = [Unlinked(dead, node[t]) EXCEPT ![RoleOf(user[t])] = Append(@, node[t])]
        /\ active' = Unlinked(active, node[t])
    BY DEF Deactivate
  <1>3. QED
    BY ONLY <1>1, <1>2, MoveFacts

LEMMA ListOf ==
  ASSUME NEW S, NEW list \in Seq(S)
  PROVE  list \in [1..Len(list) -> S]
  OBVIOUS

LEMMA AppendFunction ==
  ASSUME NEW n \in Nat, NEW S, NEW f \in [1..n -> S], NEW v \in S
  PROVE  /\ Append(f, v) \in [1..(n + 1) -> S]
         /\ \A i \in 1..n : Append(f, v)[i] = f[i]
         /\ Append(f, v)[n + 1] = v
  <1>1. f \in Seq(S) /\ Len(f) = n
    BY ListIsFunction
  <1>2. Append(f, v) \in Seq(S) /\ Len(Append(f, v)) = n + 1
    BY ONLY <1>1, v \in S
  <1>3. Append(f, v) \in [1..(n + 1) -> S]
    BY <1>2, ListOf
  <1>4. (\A i \in 1..n : Append(f, v)[i] = f[i]) /\ Append(f, v)[n + 1] = v
    BY ONLY <1>1, v \in S, n \in Nat
  <1>5. QED
    BY ONLY <1>3, <1>4

\* A new node comes last on the active list of its role.
LEMMA CreateFacts ==
  ASSUME TypeOK, NEW t \in Threads, Create(t), user[t] \in Users
  PROVE  LET r == RoleOf(user[t]) IN
         /\ r \in Roles
         /\ allocated' = allocated + 1 /\ allocated \in Nat
         /\ ident' \in [1..allocated' -> Users] /\ slot' \in [1..allocated' -> Nat]
         /\ \A n \in 1..allocated : ident'[n] = ident[n] /\ slot'[n] = slot[n]
         /\ ident'[allocated'] = user[t]
         /\ r = "consumer" => slot'[allocated'] = amount[r]
         /\ active' = [active EXCEPT ![r] = Append(@, allocated')]
         /\ active'[r] \in Seq(1..allocated') /\ Len(active'[r]) = Len(active[r]) + 1
         /\ Elements(active'[r]) = Elements(active[r]) \cup {allocated'}
         /\ Distinct(active[r]) => Distinct(active'[r])
  <1> DEFINE r == RoleOf(user[t])
             h == IF r = "consumer" THEN amount[r] ELSE 0
  <1>1. /\ allocated' = allocated + 1 /\ allocated \in Nat /\ r \in Roles
        /\ ident' = Append(ident, user[t]) /\ slot' = Append(slot, h)
        /\ active' = [active EXCEPT ![r] = Append(@, allocated')]
    BY RoleOfUser DEF Create, TypeOK
  <1>2. h \in Nat
    BY <1>1 DEF TypeOK
  <1>3. ident \in [1..allocated -> Users] /\ slot \in [1..allocated -> Nat]
    BY DEF TypeOK
  <1>4. active[r] \in Seq(1..allocated) /\ active'[r] = Append(active[r], allocated')
    BY <1>1 DEF TypeOK
  <1>5. r = "consumer" => h = amount[r]
    OBVIOUS
  <1> HIDE DEF h, r
  <1>6. /\ ident' \in [1..allocated' -> Users]
        /\ \A n \in 1..allocated : ident'[n] = ident[n]
        /\ ident'[allocated'] = user[t]
    BY ONLY <1>1, <1>3, user[t] \in Users, AppendFunction
  <1>7. /\ slot' \in [1..allocated' -> Nat]
        /\ \A n \in 1..allocated : slot'[n] = slot[n]
        /\ slot'[allocated'] = h
    <2> DEFINE N == Nat
    <2>1. h \in N /\ slot \in [1..allocated -> N]
      BY <1>2, <1>3
    <2> HIDE DEF N
    <2>2. /\ Append(slot, h) \in [1..(allocated + 1) -> N]
          /\ \A n \in 1..allocated : Append(slot, h)[n] = slot[n]
          /\ Append(slot, h)[allocated + 1] = h
      BY ONLY <1>1, <2>1, AppendFunction
    <2>3. QED
      BY ONLY <1>1, <2>2 DEF N
  <1>8. /\ 1..allocated' = 1..allocated \cup {allocated'} /\ allocated' \notin 1..allocated
        /\ Elements(active[r]) \subseteq 1..allocated
    BY <1>1, <1>4, ElementsOf
  <1>9. /\ active'[r] \in Seq(1..allocated') /\ Len(active'[r]) = Len(active[r]) + 1
        /\ Elements(active'[r]) = Elements(active[r]) \cup {allocated'}
        /\ Distinct(active[r]) => Distinct(active'[r])
    <2>1. /\ Append(active[r], allocated') \in Seq(1..allocated \cup {allocated'})
          /\ Len(Append(active[r], allocated')) = Len(active[r]) + 1
          /\ Elements(Append(active[r], allocated')) = Elements(active[r]) \cup {allocated'}
          /\ Distinct(active[r]) /\ allocated' \notin Elements(active[r])
               => Distinct(Append(active[r], allocated'))
      BY ONLY <1>4, AppendFacts, allocated' \in {allocated'}
    <2>2. QED
      BY ONLY <1>4, <1>8, <2>1
  <1>10. QED
    BY <1>1, <1>5, <1>6, <1>7, <1>9 DEF r

\* A list of nodes stays one when more nodes are allocated.
LEMMA ListsGrow ==
  ASSUME NEW m \in Nat, NEW n \in Nat, m <= n, NEW lists \in [Roles -> Seq(1..m)]
  PROVE  lists \in [Roles -> Seq(1..n)]
  <1>1. 1..m \subseteq 1..n
    OBVIOUS
  <1> DEFINE A == 1..m
             B == 1..n
  <1> HIDE DEF A, B
  <1>2. ASSUME NEW r \in Roles PROVE lists[r] \in Seq(B)
    <2>1. lists[r] \in Seq(A) /\ A \subseteq B
      BY <1>1 DEF A, B
    <2>2. QED
      BY ONLY <2>1
  <1>3. QED
    BY <1>2 DEF B

\* What the lookups return.
LEMMA LookedUp ==
  ASSUME TypeOK, NEW u, NEW list \in {active[RoleOf(u)], dead[RoleOf(u)]}
  PROVE  /\ Find(list, u) \in 0..allocated
         /\ Find(list, u) # 0 => /\ Find(list, u) \in Elements(list)
                                 /\ ident[Find(list, u)] = u
         /\ Find(list, u) = 0 => \A n \in Elements(list) : ident[n] # u
  <1>1. list \in Seq(1..allocated) /\ allocated \in Nat
    BY RoleOfUser DEF TypeOK
  <1>2. 1..allocated \in SUBSET (Nat \ {0}) /\ 0..allocated = 1..allocated \cup {0}
    BY <1>1
  <1>3. QED
    BY ONLY <1>1, <1>2, FindFacts

\* The stored lists stay lists of identities.
LEMMA StoreUserTypes ==
  ASSUME kvUsers \in [Roles -> Seq(Users)], NEW u \in Users, StoreUser(u)
  PROVE  /\ kvUsers' \in [Roles -> Seq(Users)]
         /\ kvUsers'[RoleOf(u)] = Append(kvUsers[RoleOf(u)], u)
         /\ \A r \in Roles \ {RoleOf(u)} : kvUsers'[r] = kvUsers[r]
  <1>1. RoleOf(u) \in Roles /\ kvUsers[RoleOf(u)] \in Seq(Users)
    BY RoleOfUser
  <1>2. Append(kvUsers[RoleOf(u)], u) \in Seq(Users)
    BY ONLY <1>1, u \in Users
  <1>3. kvUsers' = [kvUsers EXCEPT ![RoleOf(u)] = Append(kvUsers[RoleOf(u)], u)]
    BY DEF StoreUser
  <1>4. QED
    BY <1>1, <1>2, <1>3

-----------------------------------------------------------------------------
(* Type correctness *)

LEMMA EmptyTypes ==
  /\ \A S : <<>> \in Seq(S) /\ <<>> \in [1..0 -> S]
  /\ {} \subseteq 1..0 /\ 0 \in 0..0 /\ 0 \in Nat
  <1>1. ASSUME NEW S PROVE <<>> \in Seq(S) /\ <<>> \in [1..0 -> S]
    <2>1. <<>> \in Seq(S) /\ Len(<<>>) = 0
      OBVIOUS
    <2>2. QED
      BY <2>1, ListOf
  <1>2. QED
    BY <1>1

\* A restart leaves nothing but the store.
LEMMA LoseTypes ==
  ASSUME LoseMemory, kvQueue \in BOOLEAN, kvUsers' \in [Roles -> Seq(Users)]
  PROVE  TypeInv'
  <1> USE EmptyList DEF LoseMemory
  <1>1. TypeOK'
    BY EmptyTypes DEF TypeOK, ThreadPC
  <1>2. \A t \in Threads : CallOK(t)'
    BY DEF CallOK, UserCalls
  <1>3. TreeOK'
    BY DEF TreeOK, Linked
  <1>4. QED
    BY <1>1, <1>2, <1>3 DEF TypeInv

LEMMA TypeInit == Init => TypeInv
  <1> SUFFICES ASSUME Init PROVE TypeInv
    OBVIOUS
  <1> USE EmptyList DEF Init
  <1>1. TypeOK
    BY EmptyTypes DEF TypeOK, ThreadPC
  <1>2. \A t \in Threads : CallOK(t)
    BY DEF CallOK, UserCalls
  <1>3. TreeOK
    BY DEF TreeOK, Linked
  <1>4. QED
    BY <1>1, <1>2, <1>3 DEF TypeInv

\* A thread begins a call.
LEMMA BeginTypes ==
  ASSUME TypeInv, NEW t \in Threads, up, NEW o, NEW u, NEW l, Begin(t, o, u, l),
         \/ o \in UserCalls /\ u \in Users /\ l = "active"
         \/ o \in {"open", "close"} /\ u = "none" /\ l = "qactive" /\ t \in Opener
  PROVE  TypeInv'
  <1>1. /\ pc' = [pc EXCEPT ![t] = l] /\ op' = [op EXCEPT ![t] = o]
        /\ user' = [user EXCEPT ![t] = u] /\ node' = [node EXCEPT ![t] = 0]
        /\ UNCHANGED <<kvQueue, kvUsers, up, qplace, active, dead, ident, slot, amount,
                       allocated, freed, lock>>
    BY DEF Begin, Goto, storeVars, treeVars
  <1>2. TypeOK'
    BY <1>1 DEF TypeInv, TypeOK, UserCalls, ThreadPC
  <1>3. ASSUME NEW s \in Threads PROVE CallOK(s)'
    <2>1. CASE s # t
      BY <1>1, <2>1 DEF TypeInv, CallOK
    <2>2. CASE s = t
      BY <1>1, <2>2 DEF TypeInv, TypeOK, CallOK, UserCalls
    <2>3. QED
      BY <2>1, <2>2
  <1>4. TreeOK'
    BY <1>1 DEF TypeInv, TreeOK, Linked
  <1>5. QED
    BY <1>2, <1>3, <1>4 DEF TypeInv

\* A call returns: the locals of the others still fit.
LEMMA ReturnCalls ==
  ASSUME TypeInv, NEW t \in Threads, Return(t),
         \A n \in 1..allocated : ident'[n] = ident[n]
  PROVE  \A s \in Threads : CallOK(s)'
  <1>1. ASSUME NEW s \in Threads PROVE CallOK(s)'
    <2>1. CASE s # t
      <3>1. pc'[s] = pc[s] /\ op'[s] = op[s] /\ user'[s] = user[s] /\ node'[s] = node[s]
        BY <2>1 DEF Return, TypeInv, TypeOK
      <3>2. CallOK(s) /\ (node[s] # 0 => node[s] \in 1..allocated)
        BY DEF TypeInv, TypeOK
      <3>3. QED
        BY ONLY <3>1, <3>2, \A n \in 1..allocated : ident'[n] = ident[n] DEF CallOK
    <2>2. CASE s = t
      BY <2>2 DEF Return, TypeInv, TypeOK, CallOK, UserCalls
    <2>3. QED
      BY <2>1, <2>2
  <1>2. QED
    BY <1>1

\* A call returns and the tree is as it was.
LEMMA ReturnTypes ==
  ASSUME TypeInv, NEW t \in Threads, Return(t), lock' = NoThread \/ lock' = lock,
         UNCHANGED <<storeVars, treeVars>>
  PROVE  TypeInv'
  <1>1. UNCHANGED <<kvQueue, kvUsers, up, qplace, active, dead, ident, slot, amount,
                    allocated, freed>>
    BY DEF storeVars, treeVars
  <1>2. TypeOK'
    BY <1>1 DEF TypeInv, TypeOK, Return, ThreadPC
  <1>3. \A s \in Threads : CallOK(s)'
    BY <1>1, ReturnCalls
  <1>4. TreeOK'
    BY <1>1 DEF TypeInv, TypeOK, TreeOK, Linked, Return
  <1>5. QED
    BY <1>2, <1>3, <1>4 DEF TypeInv

\* Loading the users of a queue.
LEMMA LoadTypes ==
  ASSUME TypeInv, NEW t \in Threads, op[t] = "open",
         NEW rs \in SUBSET Roles, NEW failed, Load(rs, failed),
         kvQueue' \in BOOLEAN, qplace' \in {"dead", "active"},
         UNCHANGED <<kvUsers, up, active, freed>>, Return(t), lock' = NoThread
  PROVE  TypeInv'
  <1> USE DEF TypeInv
  <1>1. /\ allocated' \in Nat /\ allocated \in Nat /\ allocated <= allocated'
        /\ ident' \in [1..allocated' -> Users] /\ slot' \in [1..allocated' -> Nat]
        /\ \A n \in 1..allocated : ident'[n] = ident[n]
        /\ \A r \in Roles : \/ \E b \in Nat : LoadedAt(r, b)
                            \/ dead'[r] = dead[r] /\ amount'[r] \in Nat
        /\ dead' = [r \in Roles |-> dead'[r]] /\ amount' = [r \in Roles |-> amount'[r]]
    <2>1. /\ allocated' \in Nat /\ allocated <= allocated'
          /\ ident' \in [1..allocated' -> Users] /\ slot' \in [1..allocated' -> Nat]
          /\ \A n \in 1..allocated : ident'[n] = ident[n]
          /\ dead' = [r \in Roles |-> dead'[r]] /\ amount' = [r \in Roles |-> amount'[r]]
      BY ONLY TypeInv, rs \in SUBSET Roles, Load(rs, failed), LoadFacts DEF TypeInv
    <2>2. \A r \in Roles : \/ \E b \in Nat : LoadedAt(r, b)
                           \/ /\ dead'[r] = dead[r]
                              /\ amount'[r] = IF r \in failed THEN 0 ELSE amount[r]
      <3>1. \A r \in Roles :
              \/ r \in rs /\ dead[r] = <<>> /\ \E b \in Nat : LoadedAt(r, b)
              \/ /\ ~(r \in rs /\ dead[r] = <<>>)
                 /\ dead'[r] = dead[r]
                 /\ amount'[r] = IF r \in failed THEN 0 ELSE amount[r]
        <4>1. TypeOK /\ rs \in SUBSET Roles /\ Load(rs, failed)
          OBVIOUS
        <4>2. QED
          BY ONLY <4>1, LoadFacts, Zenon
      <3>2. QED
        BY ONLY <3>1
    <2>3. allocated \in Nat /\ \A r \in Roles : amount[r] \in Nat
      BY DEF TypeOK
    <2>4. QED
      BY ONLY <2>1, <2>2, <2>3
  <1>2. /\ active \in [Roles -> Seq(1..allocated')] /\ dead \in [Roles -> Seq(1..allocated')]
        /\ \A r \in Roles : Elements(dead[r]) \subseteq 1..allocated
    BY <1>1, ListsGrow, ElementsOf DEF TypeOK
  <1>3. ASSUME NEW r \in Roles, NEW b \in Nat, LoadedAt(r, b)
        PROVE  /\ dead'[r] \in Seq(1..allocated') /\ amount'[r] \in Nat
               /\ \A n \in Elements(dead'[r]) : n > allocated
    <2>1. Len(kvUsers[r]) \in Nat
      BY DEF TypeOK
    <2>2. /\ allocated <= b /\ b + Len(kvUsers[r]) <= allocated'
          /\ dead'[r] = [i \in 1..Len(kvUsers[r]) |-> b + i]
          /\ amount'[r] = Len(kvUsers[r])
      BY <1>3 DEF LoadedAt
    <2> DEFINE k == Len(kvUsers[r])
    <2> HIDE DEF k
    <2>3. dead'[r] \in [1..k -> 1..allocated'] /\ k \in Nat
      BY <1>1, <2>1, <2>2 DEF k
    <2>4. dead'[r] \in Seq(1..allocated')
      BY <2>3, ListIsFunction
    <2>5. \A n \in Elements(dead'[r]) : n > allocated
      BY <1>1, <2>1, <2>2 DEF Elements
    <2>6. QED
      BY <2>1, <2>2, <2>4, <2>5
  <1>4. dead' \in [Roles -> Seq(1..allocated')] /\ amount' \in [Roles -> Nat]
    <2>1. \A r \in Roles : dead'[r] \in Seq(1..allocated') /\ amount'[r] \in Nat
      BY <1>1, <1>2, <1>3
    <2>2. QED
      BY ONLY <1>1, <2>1
  <1>5. TypeOK'
    BY <1>1, <1>2, <1>4 DEF TypeOK, Return, ThreadPC
  <1>6. \A s \in Threads : CallOK(s)'
    BY <1>1, ReturnCalls
  <1>7. TreeOK'
    <2>1. \A r \in Roles : \A n \in Elements(dead'[r]) : n > allocated \/ n \in Elements(dead[r])
      BY <1>1, <1>3
    <2>2. \A n \in freed : ~(n > allocated)
      BY <1>1 DEF TypeOK
    <2>3. \A r \in Roles : Linked(r)' \cap freed' = {}
      BY <2>1, <2>2 DEF Linked, TreeOK
    <2>4. up' /\ up
      BY DEF TreeOK
    <2>5. QED
      BY <2>3, <2>4 DEF TreeOK
  <1>8. QED
    BY <1>5, <1>6, <1>7

\* Every step keeps the types and the threads' locals.
LEMMA TypeStep ==
  ASSUME TypeInv, [Next]_vars
  PROVE  TypeInv'
  <1> USE RegistryConstants DEF TypeInv, TypeOK, CallOK, TreeOK, Linked,
             storeVars, treeVars, threadVars, Goto, UserCalls, ThreadPC
  <1>1. CASE ContextInit
    BY <1>1 DEF ContextInit, QueuesLoad
  <1>2. CASE ContextTerm
    BY <1>2, LoseTypes DEF ContextTerm, TypeInv, TypeOK
  <1>3. CASE Crash
    BY <1>3, LoseTypes DEF Crash, TypeInv, TypeOK
  <1>4. ASSUME NEW t \in Threads, CallRegister(t) PROVE TypeInv'
    BY ONLY TypeInv, <1>4, BeginTypes DEF CallRegister, Free, TypeInv, TreeOK, UserCalls
  <1>5. ASSUME NEW t \in Threads, CallUnregister(t) PROVE TypeInv'
    BY ONLY TypeInv, <1>5, BeginTypes DEF CallUnregister, Free, TypeInv, TreeOK, UserCalls
  <1>6. ASSUME NEW t \in Threads, CallOpen(t) PROVE TypeInv'
    BY ONLY TypeInv, <1>6, BeginTypes DEF CallOpen
  <1>7. ASSUME NEW t \in Threads, CallClose(t) PROVE TypeInv'
    BY ONLY TypeInv, <1>7, BeginTypes DEF CallClose, TypeInv, TreeOK
  <1>8. ASSUME NEW t \in Threads, FindActive(t) PROVE TypeInv'
    <2> DEFINE n == Find(active[RoleOf(user[t])], user[t])
    <2>1. n \in 0..allocated /\ (n # 0 => ident[n] = user[t])
      BY LookedUp
    <2>2. /\ pc[t] = "active"
          /\ \/ op[t] = "register" /\ Goto(t, "unlock") /\ UNCHANGED <<op, user, node>>
             \/ Return(t)
             \/ op[t] = "register" /\ Goto(t, "exist") /\ UNCHANGED <<op, user, node>>
             \/ /\ op[t] = "unregister" /\ n # 0
                /\ node' = [node EXCEPT ![t] = n]
                /\ Goto(t, "lock") /\ UNCHANGED <<op, user>>
          /\ UNCHANGED <<storeVars, treeVars, lock>>
      BY ONLY <1>8 DEF FindActive
    <2> HIDE DEF n
    <2>3. CASE op[t] = "register" /\ Goto(t, "unlock") /\ UNCHANGED <<op, user, node>>
      BY <2>2, <2>3
    <2>4. CASE Return(t)
      BY <2>2, <2>4 DEF Return
    <2>5. CASE op[t] = "register" /\ Goto(t, "exist") /\ UNCHANGED <<op, user, node>>
      BY <2>2, <2>5
    <2>6. CASE /\ op[t] = "unregister" /\ n # 0
               /\ node' = [node EXCEPT ![t] = n]
               /\ Goto(t, "lock") /\ UNCHANGED <<op, user>>
      BY <2>1, <2>2, <2>6
    <2>7. QED
      BY ONLY <2>2, <2>3, <2>4, <2>5, <2>6
  <1>9. ASSUME NEW t \in Threads, FindAgain(t) PROVE TypeInv'
    <2> DEFINE n == Find(active[RoleOf(user[t])], user[t])
    <2>1. n \in 0..allocated /\ (n # 0 => ident[n] = user[t])
      BY LookedUp
    <2>2. /\ pc[t] = "exist" /\ node' = [node EXCEPT ![t] = n]
          /\ pc' = [pc EXCEPT ![t] = IF n # 0 THEN "lock" ELSE "dead"]
          /\ UNCHANGED <<storeVars, treeVars, lock, op, user>>
      BY ONLY <1>9 DEF FindAgain, Goto
    <2> HIDE DEF n
    <2>3. QED
      BY <2>1, <2>2
  <1>10. ASSUME NEW t \in Threads, FindDead(t) PROVE TypeInv'
    <2> DEFINE n == Find(dead[RoleOf(user[t])], user[t])
    <2>1. n \in 0..allocated /\ (n # 0 => ident[n] = user[t])
      BY LookedUp
    <2>2. /\ pc[t] = "dead" /\ node' = [node EXCEPT ![t] = n]
          /\ pc' = [pc EXCEPT ![t] = "lock"]
          /\ UNCHANGED <<storeVars, treeVars, lock, op, user>>
      BY ONLY <1>10 DEF FindDead, Goto
    <2> HIDE DEF n
    <2>3. QED
      BY <2>1, <2>2
  <1>11. ASSUME NEW t \in Threads, FindQueue(t) PROVE TypeInv'
    <2>1. /\ pc[t] = "qactive" /\ op[t] \in {"open", "close"}
          /\ \/ op[t] = "open" /\ Goto(t, "unlock") /\ UNCHANGED <<op, user, node>>
             \/ Goto(t, "lock") /\ UNCHANGED <<op, user, node>>
             \/ Return(t)
          /\ UNCHANGED <<storeVars, treeVars, lock>>
      BY ONLY <1>11 DEF FindQueue
    <2>2. CASE op[t] = "open" /\ Goto(t, "unlock") /\ UNCHANGED <<op, user, node>>
      BY <2>1, <2>2
    <2>3. CASE Goto(t, "lock") /\ UNCHANGED <<op, user, node>>
      BY <2>1, <2>3
    <2>4. CASE Return(t)
      BY <2>1, <2>4 DEF Return
    <2>5. QED
      BY ONLY <2>1, <2>2, <2>3, <2>4
  <1>12. ASSUME NEW t \in Threads, StrayUnlock(t) PROVE TypeInv'
    BY ONLY TypeInv, <1>12, ReturnTypes DEF StrayUnlock
  <1>13. ASSUME NEW t \in Threads, Acquire(t) PROVE TypeInv'
    BY <1>13 DEF Acquire
  <1>14. ASSUME NEW t \in Threads, Activate(t) PROVE TypeInv'
    <2>1. /\ Return(t) /\ lock' = NoThread
          /\ UNCHANGED <<storeVars, up, qplace, ident, slot, amount, allocated, freed>>
          /\ node[t] \notin freed
      BY <1>14 DEF Activate, Unlock
    <2>2. /\ active' \in [Roles -> Seq(1..allocated)] /\ dead' \in [Roles -> Seq(1..allocated)]
          /\ \A r \in Roles : /\ Elements(dead'[r]) \subseteq Elements(dead[r])
                              /\ Elements(active'[r]) \subseteq Elements(active[r]) \cup {node[t]}
      BY <1>14, ActivateFacts DEF Moved
    <2>3. TypeOK' /\ \A s \in Threads : CallOK(s)'
      <3>1. TypeOK'
        BY ONLY TypeInv, t \in Threads, <2>1, <2>2
           DEF TypeInv, TypeOK, Return, ThreadPC, storeVars
      <3>2. QED
        BY ONLY TypeInv, t \in Threads, <2>1, <3>1, ReturnCalls
    <2>4. TreeOK'
      BY <2>1, <2>2 DEF Return
    <2>5. QED
      BY <2>3, <2>4
  <1>15. ASSUME NEW t \in Threads, ActivateFails(t) PROVE TypeInv'
    BY ONLY TypeInv, <1>15, ReturnTypes DEF ActivateFails, Unlock
  <1>16. ASSUME NEW t \in Threads, Create(t) PROVE TypeInv'
    <2>1. /\ Return(t) /\ lock' = NoThread /\ user[t] \in Users
          /\ UNCHANGED <<kvQueue, up, qplace, dead, freed>> /\ StoreUser(user[t])
          /\ amount' = [amount EXCEPT ![RoleOf(user[t])] = amount[RoleOf(user[t])] + 1]
      BY <1>16 DEF Create, Unlock, InSection
    <2> DEFINE r == RoleOf(user[t])
    <2>2. /\ r \in Roles /\ allocated' = allocated + 1 /\ allocated \in Nat
          /\ ident' \in [1..allocated' -> Users] /\ slot' \in [1..allocated' -> Nat]
          /\ \A n \in 1..allocated : ident'[n] = ident[n]
          /\ active' = [active EXCEPT ![r] = Append(active[r], allocated')]
          /\ active'[r] \in Seq(1..allocated')
          /\ Elements(active'[r]) = Elements(active[r]) \cup {allocated'}
      BY <1>16, <2>1, CreateFacts
    <2>3. kvUsers' \in [Roles -> Seq(Users)]
      BY <2>1, StoreUserTypes
    <2>4. active \in [Roles -> Seq(1..allocated')] /\ dead \in [Roles -> Seq(1..allocated')]
      <3>1. /\ active \in [Roles -> Seq(1..allocated)] /\ dead \in [Roles -> Seq(1..allocated)]
            /\ allocated' \in Nat /\ allocated <= allocated'
        BY <2>2
      <3>2. QED
        BY ONLY <2>2, <3>1, ListsGrow
    <2> HIDE DEF r
    <2>5. active' \in [Roles -> Seq(1..allocated')]
      BY ONLY <2>2, <2>4
    <2>6. amount' \in [Roles -> Nat]
      <3>1. amount' = [amount EXCEPT ![r] = amount[r] + 1] /\ r \in Roles
        BY <2>1, <2>2 DEF r
      <3>2. amount \in [Roles -> Nat]
        OBVIOUS
      <3>3. QED
        BY ONLY <3>1, <3>2
    <2>7. TypeOK'
      <3>1. freed' \subseteq 1..allocated' /\ \A n \in 0..allocated : n \in 0..allocated'
        BY <2>1, <2>2
      <3>2. node' \in [Threads -> 0..allocated']
        BY <2>1, <3>1 DEF Return
      <3>3. /\ kvQueue' \in BOOLEAN /\ up' \in BOOLEAN
            /\ qplace' \in {"none", "dead", "active", "dangling"}
            /\ lock' \in Threads \cup {NoThread} /\ allocated' \in Nat
        BY <2>1, <2>2
      <3>4. /\ pc' \in [Threads -> ThreadPC]
            /\ op' \in [Threads -> {"none", "register", "unregister", "open", "close"}]
            /\ user' \in [Threads -> Users \cup {"none"}]
        BY ONLY TypeInv, <2>1 DEF TypeInv, TypeOK, Return, ThreadPC
      <3>5. dead' = dead
        BY <2>1
      <3>6. QED
        BY ONLY <2>2, <2>3, <2>4, <2>5, <2>6, <3>1, <3>2, <3>3, <3>4, <3>5 DEF TypeOK
    <2>8. \A s \in Threads : CallOK(s)'
      BY ONLY TypeInv, t \in Threads, <2>1, <2>2, ReturnCalls
    <2>9. TreeOK'
      <3>1. \A x \in Roles : Linked(x)' \subseteq Linked(x) \cup {allocated'}
        <4>1. dead' = dead /\ \A x \in Roles \ {r} : active'[x] = active[x]
          BY <2>1, <2>2
        <4>2. QED
          BY ONLY <2>2, <4>1 DEF Linked
      <3>2. allocated' \notin freed
        BY <2>2
      <3>3. QED
        BY <2>1, <3>1, <3>2 DEF Return
    <2>10. QED
      BY <2>7, <2>8, <2>9
  <1>17. ASSUME NEW t \in Threads, CreateProducerFails(t) PROVE TypeInv'
    BY ONLY TypeInv, <1>17, ReturnTypes DEF CreateProducerFails
  <1>18. ASSUME NEW t \in Threads, CreateConsumerFails(t) PROVE TypeInv'
    <2>1. /\ Return(t) /\ lock' = NoThread /\ user[t] \in Users
          /\ UNCHANGED <<kvQueue, treeVars>>
          /\ UNCHANGED kvUsers \/ StoreUser(user[t])
      BY <1>18 DEF CreateConsumerFails, Unlock, InSection
    <2>2. kvUsers' \in [Roles -> Seq(Users)]
      BY <2>1, StoreUserTypes
    <2>3. QED
      BY <2>1, <2>2 DEF Return
  <1>19. ASSUME NEW t \in Threads, Deactivate(t) PROVE TypeInv'
    <2>1. /\ Return(t) /\ lock' = NoThread
          /\ UNCHANGED <<storeVars, up, qplace, ident, slot, amount, allocated, freed>>
          /\ node[t] \notin freed /\ node[t] # 0
      BY <1>19 DEF Deactivate, Unlock, InSection
    <2>2. /\ active' \in [Roles -> Seq(1..allocated)] /\ dead' \in [Roles -> Seq(1..allocated)]
          /\ \A r \in Roles : /\ Elements(active'[r]) \subseteq Elements(active[r])
                              /\ Elements(dead'[r]) \subseteq Elements(dead[r]) \cup {node[t]}
      BY <1>19, <2>1, DeactivateFacts DEF Moved
    <2>3. TypeOK' /\ \A s \in Threads : CallOK(s)'
      <3>1. TypeOK'
        BY ONLY TypeInv, t \in Threads, <2>1, <2>2
           DEF TypeInv, TypeOK, Return, ThreadPC, storeVars
      <3>2. QED
        BY ONLY TypeInv, t \in Threads, <2>1, <3>1, ReturnCalls
    <2>4. TreeOK'
      BY <2>1, <2>2 DEF Return
    <2>5. QED
      BY <2>3, <2>4
  <1>20. ASSUME NEW t \in Threads, OpenQueue(t) PROVE TypeInv'
    BY <1>20, LoadTypes DEF OpenQueue, InSection, Unlock
  <1>21. ASSUME NEW t \in Threads, OpenDeadFails(t) PROVE TypeInv'
    BY <1>21, LoadTypes DEF OpenDeadFails, InSection, Unlock, Roles
  <1>22. ASSUME NEW t \in Threads, OpenNewFails(t) PROVE TypeInv'
    BY <1>22 DEF OpenNewFails, InSection, Unlock, Return
  <1>23. ASSUME NEW t \in Threads, CloseQueue(t) PROVE TypeInv'
    <2>1. /\ Return(t) /\ lock' = NoThread /\ op[t] = "close"
          /\ qplace' = "dead" /\ dead' = [r \in Roles |-> <<>>]
          /\ freed' = freed \cup UNION {Elements(dead[r]) : r \in Roles}
          /\ \A r \in Roles : active[r] = <<>>
          /\ UNCHANGED <<storeVars, up, active, ident, slot, amount, allocated>>
      BY <1>23 DEF CloseQueue, Unlock, InSection
    <2>2. \A r \in Roles : Elements(dead[r]) \subseteq 1..allocated
      <3>1. \A r \in Roles : dead[r] \in Seq(1..allocated)
        OBVIOUS
      <3>2. QED
        BY ONLY <3>1, ElementsOf
    <2>3. dead' \in [Roles -> Seq(1..allocated)]
      <3>1. <<>> \in Seq(1..allocated)
        OBVIOUS
      <3>2. QED
        BY <2>1, <3>1
    <2>4. freed' \subseteq 1..allocated
      <3>1. freed \subseteq 1..allocated
        OBVIOUS
      <3>2. freed' = freed \cup UNION {Elements(dead[r]) : r \in Roles}
        BY <2>1
      <3>3. QED
        BY ONLY <2>2, <3>1, <3>2, Zenon
    <2>5. TypeOK' /\ \A s \in Threads : CallOK(s)'
      <3>1. TypeOK'
        BY ONLY TypeInv, t \in Threads, <2>1, <2>3, <2>4
           DEF TypeInv, TypeOK, Return, ThreadPC, storeVars
      <3>2. QED
        BY ONLY TypeInv, t \in Threads, <2>1, <3>1, ReturnCalls
    <2>6. TreeOK'
      <3>1. \A r \in Roles : Linked(r)' = {}
        BY <2>1, EmptyList
      <3>2. up' = up /\ up
        BY <2>1
      <3>3. QED
        BY <3>1, <3>2
    <2>7. QED
      BY <2>5, <2>6
  <1>24. ASSUME NEW t \in Threads, CloseRefused(t) PROVE TypeInv'
    BY ONLY TypeInv, <1>24, ReturnTypes DEF CloseRefused, Unlock
  <1>25. ASSUME NEW t \in Threads, CrashInCreate(t) PROVE TypeInv'
    <2>1. kvUsers' \in [Roles -> Seq(Users)]
      BY <1>25, StoreUserTypes DEF CrashInCreate, InSection
    <2>2. QED
      BY <1>25, <2>1, LoseTypes DEF CrashInCreate
  <1>26. ASSUME NEW t \in Threads, UseAfterFree(t) PROVE TypeInv'
    BY <1>26, LoseTypes DEF UseAfterFree, TypeInv, TypeOK
  <1>27. CASE UNCHANGED vars
    BY <1>27 DEF vars
  <1>28. QED
    BY ONLY [Next]_vars, <1>1, <1>2, <1>3, <1>4, <1>5, <1>6, <1>7, <1>8, <1>9,
            <1>10, <1>11, <1>12, <1>13, <1>14, <1>15, <1>16, <1>17, <1>18,
            <1>19, <1>20, <1>21, <1>22, <1>23, <1>24, <1>25, <1>26, <1>27
       DEF Next, Call, Lookup, Section

LEMMA TypeInvariant == Spec => []TypeInv
  <1>1. TypeInv /\ [Next]_vars => TypeInv'
    BY TypeStep
  <1>2. QED
    BY TypeInit, <1>1, PTL DEF Spec

\* Whatever the calls, their interleavings, the failures of the store and the
\* restarts, the variables of the tree keep their types: the lists hold nodes
\* that were allocated and a thread's locals name one of them or none.
THEOREM RegistryTypes == Spec => []TypeOK
  <1>1. TypeInv => TypeOK
    BY DEF TypeInv
  <1>2. QED
    BY <1>1, TypeInvariant, PTL

-----------------------------------------------------------------------------
(* Nodes in a thread's hands *)

LEMMA LoseHeldInv ==
  ASSUME LoseMemory
  PROVE  HeldInv'
  BY EmptyList DEF LoseMemory, HeldInv, UserCalls

\* Closing is the only call that frees nodes.
LEMMA HeldStep ==
  ASSUME ~ClosesInUse, TypeInv, HeldInv, [Next]_vars
  PROVE  HeldInv'
  <1> USE RegistryConstants DEF TypeInv, TypeOK, CallOK, TreeOK, HeldInv, storeVars,
             treeVars, threadVars, Goto, UserCalls
  <1>1. CASE ContextInit
    BY <1>1 DEF ContextInit, QueuesLoad
  <1>2. CASE ContextTerm
    BY <1>2, LoseHeldInv DEF ContextTerm
  <1>3. CASE Crash
    BY <1>3, LoseHeldInv DEF Crash
  <1>4. ASSUME NEW t \in Threads, CallRegister(t) PROVE HeldInv'
    BY <1>4 DEF CallRegister, Begin, Free
  <1>5. ASSUME NEW t \in Threads, CallUnregister(t) PROVE HeldInv'
    BY <1>5 DEF CallUnregister, Begin, Free
  <1>6. ASSUME NEW t \in Threads, CallOpen(t) PROVE HeldInv'
    BY <1>6 DEF CallOpen, Begin
  <1>7. ASSUME NEW t \in Threads, CallClose(t) PROVE HeldInv'
    BY <1>7 DEF CallClose, Begin
  <1>8. ASSUME NEW t \in Threads, FindActive(t) PROVE HeldInv'
    <2> DEFINE n == Find(active[RoleOf(user[t])], user[t])
    <2>1. n \notin freed
      <3>1. n # 0 => n \in Elements(active[RoleOf(user[t])])
        BY LookedUp
      <3>2. 0 \notin freed
        OBVIOUS
      <3>3. QED
        BY <3>1, <3>2, RoleOfUser DEF Linked
    <2>2. /\ \/ node' = [node EXCEPT ![t] = n] /\ UNCHANGED op
             \/ Return(t)
             \/ UNCHANGED <<op, node>>
          /\ UNCHANGED treeVars
      BY ONLY <1>8 DEF FindActive
    <2> HIDE DEF n
    <2>3. 0 \notin freed
      OBVIOUS
    <2>4. /\ node \in [Threads -> Nat] /\ freed' = freed
          /\ op \in [Threads -> {"none", "register", "unregister", "open", "close"}]
      BY <2>2
    <2>5. CASE node' = [node EXCEPT ![t] = n] /\ UNCHANGED op
      BY ONLY HeldInv, <2>1, <2>4, <2>5 DEF HeldInv
    <2>6. CASE Return(t)
      BY ONLY HeldInv, <2>3, <2>4, <2>6 DEF HeldInv, Return, UserCalls
    <2>7. CASE UNCHANGED <<op, node>>
      BY ONLY HeldInv, <2>4, <2>7 DEF HeldInv
    <2>8. QED
      BY ONLY <2>2, <2>5, <2>6, <2>7
  <1>9. ASSUME NEW t \in Threads, FindAgain(t) PROVE HeldInv'
    <2> DEFINE n == Find(active[RoleOf(user[t])], user[t])
    <2>1. n \notin freed
      <3>1. n # 0 => n \in Elements(active[RoleOf(user[t])])
        BY LookedUp
      <3>2. 0 \notin freed
        OBVIOUS
      <3>3. QED
        BY <3>1, <3>2, RoleOfUser DEF Linked
    <2>2. /\ \/ node' = [node EXCEPT ![t] = n] /\ UNCHANGED op
             \/ Return(t)
             \/ UNCHANGED <<op, node>>
          /\ UNCHANGED treeVars
      BY ONLY <1>9 DEF FindAgain
    <2> HIDE DEF n
    <2>3. 0 \notin freed
      OBVIOUS
    <2>4. /\ node \in [Threads -> Nat] /\ freed' = freed
          /\ op \in [Threads -> {"none", "register", "unregister", "open", "close"}]
      BY <2>2
    <2>5. CASE node' = [node EXCEPT ![t] = n] /\ UNCHANGED op
      BY ONLY HeldInv, <2>1, <2>4, <2>5 DEF HeldInv
    <2>6. CASE Return(t)
      BY ONLY HeldInv, <2>3, <2>4, <2>6 DEF HeldInv, Return, UserCalls
    <2>7. CASE UNCHANGED <<op, node>>
      BY ONLY HeldInv, <2>4, <2>7 DEF HeldInv
    <2>8. QED
      BY ONLY <2>2, <2>5, <2>6, <2>7
  <1>10. ASSUME NEW t \in Threads, FindDead(t) PROVE HeldInv'
    <2> DEFINE n == Find(dead[RoleOf(user[t])], user[t])
    <2>1. n \notin freed
      <3>1. n # 0 => n \in Elements(dead[RoleOf(user[t])])
        BY LookedUp
      <3>2. 0 \notin freed
        OBVIOUS
      <3>3. QED
        BY <3>1, <3>2, RoleOfUser DEF Linked
    <2>2. /\ \/ node' = [node EXCEPT ![t] = n] /\ UNCHANGED op
             \/ Return(t)
             \/ UNCHANGED <<op, node>>
          /\ UNCHANGED treeVars
      BY ONLY <1>10 DEF FindDead
    <2> HIDE DEF n
    <2>3. 0 \notin freed
      OBVIOUS
    <2>4. /\ node \in [Threads -> Nat] /\ freed' = freed
          /\ op \in [Threads -> {"none", "register", "unregister", "open", "close"}]
      BY <2>2
    <2>5. CASE node' = [node EXCEPT ![t] = n] /\ UNCHANGED op
      BY ONLY HeldInv, <2>1, <2>4, <2>5 DEF HeldInv
    <2>6. CASE Return(t)
      BY ONLY HeldInv, <2>3, <2>4, <2>6 DEF HeldInv, Return, UserCalls
    <2>7. CASE UNCHANGED <<op, node>>
      BY ONLY HeldInv, <2>4, <2>7 DEF HeldInv
    <2>8. QED
      BY ONLY <2>2, <2>5, <2>6, <2>7
  <1>11. ASSUME NEW t \in Threads, FindQueue(t) PROVE HeldInv'
    BY <1>11 DEF FindQueue, Return
  <1>12. ASSUME NEW t \in Threads, StrayUnlock(t) PROVE HeldInv'
    BY <1>12 DEF StrayUnlock, Return
  <1>13. ASSUME NEW t \in Threads, Acquire(t) PROVE HeldInv'
    BY <1>13 DEF Acquire
  <1>14. ASSUME NEW t \in Threads, Activate(t) PROVE HeldInv'
    BY <1>14 DEF Activate, InSection, Unlock, Return
  <1>15. ASSUME NEW t \in Threads, ActivateFails(t) PROVE HeldInv'
    BY <1>15 DEF ActivateFails, InSection, Unlock, Return
  <1>16. ASSUME NEW t \in Threads, Create(t) PROVE HeldInv'
    BY <1>16 DEF Create, InSection, StoreUser, Unlock, Return
  <1>17. ASSUME NEW t \in Threads, CreateProducerFails(t) PROVE HeldInv'
    BY <1>17 DEF CreateProducerFails, InSection, Return
  <1>18. ASSUME NEW t \in Threads, CreateConsumerFails(t) PROVE HeldInv'
    BY <1>18 DEF CreateConsumerFails, InSection, StoreUser, Unlock, Return
  <1>19. ASSUME NEW t \in Threads, Deactivate(t) PROVE HeldInv'
    BY <1>19 DEF Deactivate, InSection, Unlock, Return
  <1>20. ASSUME NEW t \in Threads, OpenQueue(t) PROVE HeldInv'
    BY <1>20 DEF OpenQueue, InSection, Unlock, Return
  <1>21. ASSUME NEW t \in Threads, OpenDeadFails(t) PROVE HeldInv'
    BY <1>21 DEF OpenDeadFails, InSection, Unlock, Return
  <1>22. ASSUME NEW t \in Threads, OpenNewFails(t) PROVE HeldInv'
    BY <1>22 DEF OpenNewFails, InSection, Unlock, Return
  <1>23. ASSUME NEW t \in Threads, CloseQueue(t) PROVE HeldInv'
    <2>1. \A s \in Threads : node[s] = 0
      BY <1>23 DEF CloseQueue, InSection
    <2>2. TypeInv'
      BY <1>23, TypeStep DEF Next, Section
    <2>3. op' = [op EXCEPT ![t] = "none"] /\ node' = [node EXCEPT ![t] = 0]
      BY <1>23 DEF CloseQueue, Unlock, Return
    <2>4. 0 \notin freed'
      BY <2>2
    <2>5. QED
      BY <2>1, <2>3, <2>4
  <1>24. ASSUME NEW t \in Threads, CloseRefused(t) PROVE HeldInv'
    BY <1>24 DEF CloseRefused, InSection, Unlock, Return
  <1>25. ASSUME NEW t \in Threads, CrashInCreate(t) PROVE HeldInv'
    BY <1>25, LoseHeldInv DEF CrashInCreate
  <1>26. ASSUME NEW t \in Threads, UseAfterFree(t) PROVE HeldInv'
    BY <1>26, LoseHeldInv DEF UseAfterFree
  <1>27. CASE UNCHANGED vars
    BY <1>27 DEF vars
  <1>28. QED
    BY ONLY [Next]_vars, <1>1, <1>2, <1>3, <1>4, <1>5, <1>6, <1>7, <1>8, <1>9,
            <1>10, <1>11, <1>12, <1>13, <1>14, <1>15, <1>16, <1>17, <1>18,
            <1>19, <1>20, <1>21, <1>22, <1>23, <1>24, <1>25, <1>26, <1>27
       DEF Next, Call, Lookup, Section

LEMMA HeldInvariant ==
  ASSUME ~ClosesInUse
  PROVE  Spec => []HeldInv
  <1>1. Init => HeldInv
    BY DEF Init, HeldInv, UserCalls
  <1>2. TypeInv /\ HeldInv /\ [Next]_vars => HeldInv'
    BY HeldStep
  <1>3. QED
    BY <1>1, <1>2, TypeInvariant, PTL DEF Spec

-----------------------------------------------------------------------------
(* node_tree_lock *)

LEMMA LoseLockInv ==
  ASSUME LoseMemory
  PROVE  LockInv'
  BY EmptyList DEF LoseMemory, LockInv, UserCalls

\* Leaving a section, when the active lists got no user but the thread's.
LEMMA LeaveSection ==
  ASSUME OneOpener, TypeInv, LockInv, NEW t \in Threads, pc[t] = "in", Unlock(t),
         qplace' = qplace \/ qplace' # "active" \/ op[t] = "open",
         \A r \in Roles : \A n \in Elements(active'[r]) :
           (n \in Elements(active[r]) /\ ident'[n] = ident[n]) \/ ident'[n] = user[t]
  PROVE  LockInv'
  <1>1. /\ pc' = [pc EXCEPT ![t] = "idle"] /\ op' = [op EXCEPT ![t] = "none"]
        /\ user' = [user EXCEPT ![t] = "none"] /\ lock' = NoThread
    BY DEF Unlock, Return
  <1>2. /\ pc \in [Threads -> ThreadPC] /\ user \in [Threads -> Users \cup {"none"}]
        /\ op \in [Threads -> {"none", "register", "unregister", "open", "close"}]
    BY DEF TypeInv, TypeOK
  <1>3. \A s \in Threads : pc'[s] # "in"
    BY <1>1, <1>2 DEF LockInv
  <1>4. \A s \in Threads : pc'[s] # "unlock"
    BY <1>1, <1>2 DEF LockInv
  <1>5. ASSUME NEW s \in Threads, op'[s] = "open" PROVE qplace' # "active"
    <2>1. s # t /\ op[s] = "open"
      BY <1>1, <1>2, <1>5
    <2>2. s \in Opener /\ (op[t] = "open" => t \in Opener)
      BY <2>1 DEF TypeInv, CallOK
    <2>3. QED
      BY <2>1, <2>2 DEF LockInv, OneOpener
  <1>6. \A s \in Threads : op'[s] \in UserCalls => user'[s] # "none"
    BY <1>1, <1>2 DEF LockInv, UserCalls
  <1>7. \A s1, s2 \in Threads : user'[s1] = user'[s2] /\ user'[s1] # "none" => s1 = s2
    BY <1>1, <1>2 DEF LockInv
  <1>8. ASSUME NEW s \in Threads, op'[s] = "register",
               NEW n \in Elements(active'[RoleOf(user'[s])])
        PROVE  ident'[n] # user'[s]
    <2>1. s # t /\ op[s] = "register" /\ user'[s] = user[s] /\ user[s] # "none"
      BY <1>1, <1>2, <1>8 DEF LockInv, UserCalls
    <2>2. user[s] # user[t]
      BY <2>1 DEF LockInv
    <2>3. (n \in Elements(active[RoleOf(user[s])]) /\ ident'[n] = ident[n]) \/ ident'[n] = user[t]
      BY <1>8, <2>1, RoleOfUser
    <2>4. n \in Elements(active[RoleOf(user[s])]) => ident[n] # user[s]
      BY <2>1 DEF LockInv
    <2>5. QED
      BY <2>1, <2>2, <2>3, <2>4
  <1>9. QED
    BY ONLY <1>3, <1>4, <1>5, <1>6, <1>7, <1>8 DEF LockInv

\* The stray unlocks are not reached, so the lock is its owner's.
LEMMA LockStep ==
  ASSUME ~Repeats, OneOpener, TypeInv, LockInv, [Next]_vars
  PROVE  LockInv'
  <1> USE RegistryConstants, RoleOfUser DEF TypeInv, TypeOK, CallOK, LockInv, storeVars,
             treeVars, threadVars, Goto, UserCalls
  <1>1. CASE ContextInit
    BY <1>1 DEF ContextInit, QueuesLoad
  <1>2. CASE ContextTerm
    BY <1>2, LoseLockInv DEF ContextTerm
  <1>3. CASE Crash
    BY <1>3, LoseLockInv DEF Crash
  <1>4. ASSUME NEW t \in Threads, CallRegister(t) PROVE LockInv'
    <2>1. PICK u \in Users : /\ \A s \in Threads : user[s] # u
                             /\ Find(active[RoleOf(u)], u) = 0
                             /\ Begin(t, "register", u, "active")
      BY <1>4 DEF CallRegister, Free
    <2>2. \A n \in Elements(active[RoleOf(u)]) : ident[n] # u
      BY <2>1, LookedUp
    <2>3. u # "none"
      BY <2>1 DEF Begin
    <2>4. /\ pc' = [pc EXCEPT ![t] = "active"] /\ op' = [op EXCEPT ![t] = "register"]
          /\ user' = [user EXCEPT ![t] = u]
          /\ UNCHANGED <<qplace, active, ident, lock>>
      BY <2>1 DEF Begin
    <2>5. /\ pc \in [Threads -> ThreadPC] /\ user \in [Threads -> Users \cup {"none"}]
          /\ op \in [Threads -> {"none", "register", "unregister", "open", "close"}]
      OBVIOUS
    <2>6. ASSUME NEW s \in Threads, op'[s] = "register"
          PROVE  \A n \in Elements(active'[RoleOf(user'[s])]) : ident'[n] # user'[s]
      BY ONLY LockInv, t \in Threads, <2>2, <2>4, <2>5, <2>6 DEF LockInv
    <2>7. \A s1, s2 \in Threads : user'[s1] = user'[s2] /\ user'[s1] # "none" => s1 = s2
      BY ONLY LockInv, t \in Threads, <2>1, <2>4, <2>5 DEF LockInv
    <2>8. /\ \A s \in Threads : pc'[s] = "in" => lock' = s
          /\ \A s \in Threads : pc'[s] # "unlock"
          /\ \A s \in Threads : op'[s] = "open" => qplace' # "active"
          /\ \A s \in Threads : op'[s] \in UserCalls => user'[s] # "none"
      BY ONLY LockInv, t \in Threads, <2>3, <2>4, <2>5 DEF LockInv, UserCalls
    <2>9. QED
      BY ONLY <2>6, <2>7, <2>8 DEF LockInv
  <1>5. ASSUME NEW t \in Threads, CallUnregister(t) PROVE LockInv'
    BY <1>5 DEF CallUnregister, Begin, Free
  <1>6. ASSUME NEW t \in Threads, CallOpen(t) PROVE LockInv'
    BY <1>6 DEF CallOpen, Begin
  <1>7. ASSUME NEW t \in Threads, CallClose(t) PROVE LockInv'
    BY <1>7 DEF CallClose, Begin
  <1>8. ASSUME NEW t \in Threads, FindActive(t) PROVE LockInv'
    <2> DEFINE n == Find(active[RoleOf(user[t])], user[t])
    <2>1. op[t] = "register" => n = 0
      <3>1. n # 0 => n \in Elements(active[RoleOf(user[t])]) /\ ident[n] = user[t]
        BY LookedUp
      <3>2. QED
        BY ONLY LockInv, t \in Threads, <3>1 DEF LockInv
    <2>2. /\ pc[t] = "active"
          /\ \/ op[t] = "register" /\ n # 0 /\ Goto(t, "unlock")
             \/ Return(t)
             \/ Goto(t, "exist") /\ UNCHANGED <<op, user, node>>
             \/ Goto(t, "lock") /\ UNCHANGED <<op, user>>
          /\ UNCHANGED <<storeVars, treeVars, lock>>
      BY ONLY <1>8 DEF FindActive
    <2> HIDE DEF n
    <2>3. CASE Return(t)
      BY <2>2, <2>3 DEF Return
    <2>4. CASE Goto(t, "exist") /\ UNCHANGED <<op, user, node>>
      BY <2>2, <2>4
    <2>5. CASE Goto(t, "lock") /\ UNCHANGED <<op, user>>
      BY <2>2, <2>5
    <2>6. QED
      BY ONLY <2>1, <2>2, <2>3, <2>4, <2>5
  <1>9. ASSUME NEW t \in Threads, FindAgain(t) PROVE LockInv'
    BY <1>9 DEF FindAgain
  <1>10. ASSUME NEW t \in Threads, FindDead(t) PROVE LockInv'
    BY <1>10 DEF FindDead
  <1>11. ASSUME NEW t \in Threads, FindQueue(t) PROVE LockInv'
    <2>1. /\ pc[t] = "qactive" /\ op[t] \in {"open", "close"}
          /\ \/ Goto(t, "lock") /\ UNCHANGED <<op, user, node>>
             \/ Return(t)
          /\ UNCHANGED <<storeVars, treeVars, lock>>
      BY ONLY LockInv, t \in Threads, <1>11 DEF LockInv, FindQueue
    <2>2. CASE Goto(t, "lock") /\ UNCHANGED <<op, user, node>>
      BY <2>1, <2>2
    <2>3. CASE Return(t)
      BY <2>1, <2>3 DEF Return
    <2>4. QED
      BY ONLY <2>1, <2>2, <2>3
  <1>12. ASSUME NEW t \in Threads, StrayUnlock(t) PROVE LockInv'
    BY <1>12 DEF StrayUnlock, Return
  <1>13. ASSUME NEW t \in Threads, Acquire(t) PROVE LockInv'
    BY <1>13 DEF Acquire
  <1>14. ASSUME NEW t \in Threads, Activate(t) PROVE LockInv'
    <2>1. \A r \in Roles : Elements(active'[r]) \subseteq Elements(active[r]) \cup {node[t]}
      BY <1>14, ActivateFacts DEF Moved
    <2>2. ident[node[t]] = user[t] /\ ident' = ident
      BY <1>14 DEF Activate, InSection
    <2>3. pc[t] = "in" /\ Unlock(t) /\ qplace' = qplace
      BY <1>14 DEF Activate, InSection
    <2>4. \A r \in Roles : \A n \in Elements(active'[r]) :
            (n \in Elements(active[r]) /\ ident'[n] = ident[n]) \/ ident'[n] = user[t]
      BY ONLY <2>1, <2>2
    <2>5. QED
      BY ONLY OneOpener, TypeInv, LockInv, t \in Threads, <2>3, <2>4, LeaveSection
  <1>15. ASSUME NEW t \in Threads, ActivateFails(t) PROVE LockInv'
    BY <1>15 DEF ActivateFails, InSection, Unlock, Return
  <1>16. ASSUME NEW t \in Threads, Create(t) PROVE LockInv'
    <2>1. user[t] \in Users
      BY <1>16 DEF Create, InSection
    <2> DEFINE r == RoleOf(user[t])
    <2>2. /\ Elements(active'[r]) = Elements(active[r]) \cup {allocated'}
          /\ active' = [active EXCEPT ![r] = Append(active[r], allocated')]
          /\ ident'[allocated'] = user[t] /\ r \in Roles
          /\ \A n \in 1..allocated : ident'[n] = ident[n]
      BY <1>16, <2>1, CreateFacts
    <2>3. \A x \in Roles : Elements(active[x]) \subseteq 1..allocated
      <3>1. \A x \in Roles : active[x] \in Seq(1..allocated)
        OBVIOUS
      <3>2. QED
        BY ONLY <3>1, ElementsOf
    <2>4. \A x \in Roles \ {r} : active'[x] = active[x]
      BY <2>2
    <2> HIDE DEF r
    <2>5. \A x \in Roles : \A n \in Elements(active'[x]) :
            (n \in Elements(active[x]) /\ ident'[n] = ident[n]) \/ ident'[n] = user[t]
      BY ONLY <2>2, <2>3, <2>4
    <2>6. QED
      BY ONLY OneOpener, TypeInv, LockInv, <1>16, <2>5, LeaveSection
         DEF Create, InSection
  <1>17. ASSUME NEW t \in Threads, CreateProducerFails(t) PROVE LockInv'
    BY <1>17 DEF CreateProducerFails, InSection, Return
  <1>18. ASSUME NEW t \in Threads, CreateConsumerFails(t) PROVE LockInv'
    BY <1>18 DEF CreateConsumerFails, InSection, StoreUser, Unlock, Return
  <1>19. ASSUME NEW t \in Threads, Deactivate(t) PROVE LockInv'
    <2>1. \A r \in Roles : Elements(active'[r]) \subseteq Elements(active[r])
      BY <1>19, DeactivateFacts DEF Moved, Deactivate, InSection
    <2>2. QED
      BY ONLY OneOpener, TypeInv, LockInv, <1>19, <2>1, LeaveSection
         DEF Deactivate, InSection
  <1>20. ASSUME NEW t \in Threads, OpenQueue(t) PROVE LockInv'
    <2>1. PICK rs \in SUBSET Roles, failed \in SUBSET Roles : Load(rs, failed)
      BY <1>20 DEF OpenQueue, Roles
    <2>2. \A n \in 1..allocated : ident'[n] = ident[n]
      BY <2>1, LoadFacts
    <2>3. \A r \in Roles : Elements(active[r]) \subseteq 1..allocated
      <3>1. \A r \in Roles : active[r] \in Seq(1..allocated)
        OBVIOUS
      <3>2. QED
        BY ONLY <3>1, ElementsOf
    <2>4. active' = active
      BY <1>20 DEF OpenQueue
    <2>5. \A r \in Roles : \A n \in Elements(active'[r]) :
            (n \in Elements(active[r]) /\ ident'[n] = ident[n]) \/ ident'[n] = user[t]
      BY ONLY <2>2, <2>3, <2>4
    <2>6. pc[t] = "in" /\ Unlock(t) /\ op[t] = "open"
      BY <1>20 DEF OpenQueue, InSection
    <2>7. QED
      BY ONLY OneOpener, TypeInv, LockInv, t \in Threads, <2>5, <2>6, LeaveSection
  <1>21. ASSUME NEW t \in Threads, OpenDeadFails(t) PROVE LockInv'
    <2>1. PICK rs \in SUBSET Roles, failed \in SUBSET Roles : Load(rs, failed)
      BY <1>21 DEF OpenDeadFails, Roles
    <2>2. \A n \in 1..allocated : ident'[n] = ident[n]
      BY <2>1, LoadFacts
    <2>3. \A r \in Roles : Elements(active[r]) \subseteq 1..allocated
      <3>1. \A r \in Roles : active[r] \in Seq(1..allocated)
        OBVIOUS
      <3>2. QED
        BY ONLY <3>1, ElementsOf
    <2>4. active' = active
      BY <1>21 DEF OpenDeadFails
    <2>5. \A r \in Roles : \A n \in Elements(active'[r]) :
            (n \in Elements(active[r]) /\ ident'[n] = ident[n]) \/ ident'[n] = user[t]
      BY ONLY <2>2, <2>3, <2>4
    <2>6. pc[t] = "in" /\ Unlock(t) /\ op[t] = "open"
      BY <1>21 DEF OpenDeadFails, InSection
    <2>7. QED
      BY ONLY OneOpener, TypeInv, LockInv, t \in Threads, <2>5, <2>6, LeaveSection
  <1>22. ASSUME NEW t \in Threads, OpenNewFails(t) PROVE LockInv'
    BY <1>22 DEF OpenNewFails, InSection, Unlock, Return
  <1>23. ASSUME NEW t \in Threads, CloseQueue(t) PROVE LockInv'
    BY <1>23 DEF CloseQueue, InSection, Unlock, Return
  <1>24. ASSUME NEW t \in Threads, CloseRefused(t) PROVE LockInv'
    <2>1. pc[t] = "in" /\ Unlock(t) /\ qplace' = qplace /\ active' = active /\ ident' = ident
      BY <1>24 DEF CloseRefused, InSection
    <2>2. QED
      BY ONLY OneOpener, TypeInv, LockInv, t \in Threads, <2>1, LeaveSection
  <1>25. ASSUME NEW t \in Threads, CrashInCreate(t) PROVE LockInv'
    BY <1>25, LoseLockInv DEF CrashInCreate
  <1>26. ASSUME NEW t \in Threads, UseAfterFree(t) PROVE LockInv'
    BY <1>26, LoseLockInv DEF UseAfterFree
  <1>27. CASE UNCHANGED vars
    BY <1>27 DEF vars
  <1>28. QED
    BY ONLY [Next]_vars, <1>1, <1>2, <1>3, <1>4, <1>5, <1>6, <1>7, <1>8, <1>9,
            <1>10, <1>11, <1>12, <1>13, <1>14, <1>15, <1>16, <1>17, <1>18,
            <1>19, <1>20, <1>21, <1>22, <1>23, <1>24, <1>25, <1>26, <1>27
       DEF Next, Call, Lookup, Section

LEMMA LockInvariant ==
  ASSUME ~Repeats, OneOpener
  PROVE  Spec => []LockInv
  <1>1. Init => LockInv
    BY EmptyList DEF Init, LockInv, UserCalls
  <1>2. TypeInv /\ LockInv /\ [Next]_vars => LockInv'
    BY LockStep
  <1>3. QED
    BY <1>1, <1>2, TypeInvariant, PTL DEF Spec

-----------------------------------------------------------------------------
(* Open queues *)

LEMMA LoseOpenInv ==
  ASSUME LoseMemory
  PROVE  OpenInv'
  BY EmptyList DEF LoseMemory, OpenInv, UserCalls

\* Only an open queue has calls on users and active users.
LEMMA OpenStep ==
  ASSUME ~ClosesInUse, OneOpener, TypeInv, HeldInv, OpenInv, [Next]_vars
  PROVE  OpenInv'
  <1> USE RegistryConstants DEF TypeInv, TypeOK, CallOK, HeldInv, OpenInv, storeVars,
             treeVars, threadVars, Goto, UserCalls
  <1>1. CASE ContextInit
    BY <1>1 DEF ContextInit, QueuesLoad, TreeOK
  <1>2. CASE ContextTerm
    BY <1>2, LoseOpenInv DEF ContextTerm
  <1>3. CASE Crash
    BY <1>3, LoseOpenInv DEF Crash
  <1>4. ASSUME NEW t \in Threads, CallRegister(t) PROVE OpenInv'
    BY <1>4 DEF CallRegister, Begin, Free
  <1>5. ASSUME NEW t \in Threads, CallUnregister(t) PROVE OpenInv'
    BY <1>5 DEF CallUnregister, Begin, Free
  <1>6. ASSUME NEW t \in Threads, CallOpen(t) PROVE OpenInv'
    BY <1>6 DEF CallOpen, Begin
  <1>7. ASSUME NEW t \in Threads, CallClose(t) PROVE OpenInv'
    BY <1>7 DEF CallClose, Begin
  <1>8. ASSUME NEW t \in Threads, FindActive(t) PROVE OpenInv'
    BY <1>8 DEF FindActive, Return
  <1>9. ASSUME NEW t \in Threads, FindAgain(t) PROVE OpenInv'
    BY <1>9 DEF FindAgain
  <1>10. ASSUME NEW t \in Threads, FindDead(t) PROVE OpenInv'
    BY <1>10 DEF FindDead
  <1>11. ASSUME NEW t \in Threads, FindQueue(t) PROVE OpenInv'
    <2>1. /\ pc[t] = "qactive"
          /\ \/ op[t] = "open" /\ Goto(t, "unlock") /\ UNCHANGED <<op, user, node>>
             \/ /\ Goto(t, "lock") /\ UNCHANGED <<op, user, node>>
                /\ op[t] = "open" => qplace # "active"
             \/ Return(t)
          /\ UNCHANGED <<storeVars, treeVars, lock>>
      BY ONLY <1>11 DEF FindQueue
    <2>2. CASE op[t] = "open" /\ Goto(t, "unlock") /\ UNCHANGED <<op, user, node>>
      BY <2>1, <2>2
    <2>3. CASE /\ Goto(t, "lock") /\ UNCHANGED <<op, user, node>>
               /\ op[t] = "open" => qplace # "active"
      BY <2>1, <2>3
    <2>4. CASE Return(t)
      BY <2>1, <2>4 DEF Return
    <2>5. QED
      BY ONLY <2>1, <2>2, <2>3, <2>4
  <1>12. ASSUME NEW t \in Threads, StrayUnlock(t) PROVE OpenInv'
    BY <1>12 DEF StrayUnlock, Return
  <1>13. ASSUME NEW t \in Threads, Acquire(t) PROVE OpenInv'
    BY <1>13 DEF Acquire
  <1>14. ASSUME NEW t \in Threads, Activate(t) PROVE OpenInv'
    BY <1>14 DEF Activate, InSection, Unlock, Return
  <1>15. ASSUME NEW t \in Threads, ActivateFails(t) PROVE OpenInv'
    BY <1>15 DEF ActivateFails, InSection, Unlock, Return
  <1>16. ASSUME NEW t \in Threads, Create(t) PROVE OpenInv'
    BY <1>16 DEF Create, InSection, StoreUser, Unlock, Return
  <1>17. ASSUME NEW t \in Threads, CreateProducerFails(t) PROVE OpenInv'
    BY <1>17 DEF CreateProducerFails, InSection, Return
  <1>18. ASSUME NEW t \in Threads, CreateConsumerFails(t) PROVE OpenInv'
    BY <1>18 DEF CreateConsumerFails, InSection, StoreUser, Unlock, Return
  <1>19. ASSUME NEW t \in Threads, Deactivate(t) PROVE OpenInv'
    BY <1>19 DEF Deactivate, InSection, Unlock, Return
  <1>20. ASSUME NEW t \in Threads, OpenQueue(t) PROVE OpenInv'
    <2>1. qplace' = "active" /\ op[t] = "open" /\ op' = [op EXCEPT ![t] = "none"]
      BY <1>20 DEF OpenQueue, InSection, Unlock, Return
    <2>2. ASSUME NEW s \in Threads PROVE op'[s] # "open"
      BY <2>1 DEF OneOpener
    <2>3. QED
      BY ONLY <2>1, <2>2 DEF OpenInv
  <1>21. ASSUME NEW t \in Threads, OpenDeadFails(t) PROVE OpenInv'
    <2>1. qplace' = qplace /\ active' = active /\ Return(t)
      BY <1>21 DEF OpenDeadFails, Unlock
    <2>2. QED
      BY ONLY TypeInv, OpenInv, <2>1 DEF TypeInv, TypeOK, OpenInv, Return, UserCalls
  <1>22. ASSUME NEW t \in Threads, OpenNewFails(t) PROVE OpenInv'
    BY <1>22 DEF OpenNewFails, InSection, Unlock, Return
  <1>23. ASSUME NEW t \in Threads, CloseQueue(t) PROVE OpenInv'
    BY <1>23 DEF CloseQueue, InSection, Unlock, Return
  <1>24. ASSUME NEW t \in Threads, CloseRefused(t) PROVE OpenInv'
    BY <1>24 DEF CloseRefused, InSection, Unlock, Return
  <1>25. ASSUME NEW t \in Threads, CrashInCreate(t) PROVE OpenInv'
    BY <1>25, LoseOpenInv DEF CrashInCreate
  <1>26. ASSUME NEW t \in Threads, UseAfterFree(t) PROVE OpenInv'
    BY <1>26, LoseOpenInv DEF UseAfterFree
  <1>27. CASE UNCHANGED vars
    BY <1>27 DEF vars
  <1>28. QED
    BY ONLY [Next]_vars, <1>1, <1>2, <1>3, <1>4, <1>5, <1>6, <1>7, <1>8, <1>9,
            <1>10, <1>11, <1>12, <1>13, <1>14, <1>15, <1>16, <1>17, <1>18,
            <1>19, <1>20, <1>21, <1>22, <1>23, <1>24, <1>25, <1>26, <1>27
       DEF Next, Call, Lookup, Section

LEMMA OpenInvariant ==
  ASSUME ~ClosesInUse, OneOpener
  PROVE  Spec => []OpenInv
  <1>1. Init => OpenInv
    BY EmptyList DEF Init, OpenInv, UserCalls
  <1>2. TypeInv /\ HeldInv /\ OpenInv /\ [Next]_vars => OpenInv'
    BY OpenStep
  <1>3. QED
    BY <1>1, <1>2, TypeInvariant, HeldInvariant, PTL DEF Spec

-----------------------------------------------------------------------------
(* Lists of distinct nodes *)

\* The nodes of a list that was loaded follow b.
LEMMA LoadedElements ==
  ASSUME TypeOK, NEW r \in Roles, NEW b \in Nat, LoadedAt(r, b)
  PROVE  /\ Distinct(dead'[r])
         /\ Elements(dead'[r]) = {b + i : i \in 1..Len(kvUsers[r])}
         /\ \A n \in Elements(dead'[r]) : n > allocated
         /\ Len(dead'[r]) = Len(kvUsers[r])
  <1> DEFINE k == Len(kvUsers[r])
  <1>1. k \in Nat /\ allocated \in Nat
    BY DEF TypeOK
  <1>2. allocated <= b /\ dead'[r] = [i \in 1..k |-> b + i]
    BY DEF LoadedAt
  <1> HIDE DEF k
  <1>3. DOMAIN dead'[r] = 1..k /\ \A i \in 1..k : dead'[r][i] = b + i
    BY <1>2
  <1>4. Distinct(dead'[r])
    BY ONLY <1>1, <1>3, b \in Nat DEF Distinct
  <1>5. Elements(dead'[r]) = {b + i : i \in 1..k}
    BY ONLY <1>3 DEF Elements
  <1>6. \A n \in Elements(dead'[r]) : n > allocated
    BY <1>1, <1>2, <1>5
  <1>7. Len(dead'[r]) = k
    BY <1>1, <1>2
  <1>8. QED
    BY <1>4, <1>5, <1>6, <1>7 DEF k

\* The two calls that load users, for a queue that is not open.
LEMMA OpenSection ==
  ASSUME TypeInv, OpenInv, NEW t \in Threads, OpenQueue(t) \/ OpenDeadFails(t)
  PROVE  /\ allocated \in Nat /\ allocated' \in Nat /\ allocated <= allocated'
         /\ \A n \in 1..allocated : ident'[n] = ident[n] /\ slot'[n] = slot[n]
         /\ \A r \in Roles : active[r] = <<>> /\ active'[r] = <<>>
         /\ \A r \in Roles :
              \/ dead[r] = <<>> /\ \E b \in Nat : LoadedAt(r, b)
              \/ dead'[r] = dead[r] /\ (dead[r] = <<>> \/ amount'[r] = amount[r])
         /\ op[t] = "open" /\ Return(t) /\ kvUsers' = kvUsers
         /\ qplace # "active"
  <1>1. PICK rs \in SUBSET Roles, failed \in SUBSET Roles :
           Load(rs, failed) /\ \A r \in failed : dead[r] = <<>>
    BY DEF OpenQueue, OpenDeadFails, Roles
  <1>2. /\ allocated' \in Nat /\ allocated <= allocated'
        /\ \A n \in 1..allocated : ident'[n] = ident[n] /\ slot'[n] = slot[n]
    BY <1>1, LoadFacts DEF TypeInv
  <1>3. \A r \in Roles :
          \/ r \in rs /\ dead[r] = <<>> /\ \E b \in Nat : LoadedAt(r, b)
          \/ /\ ~(r \in rs /\ dead[r] = <<>>)
             /\ dead'[r] = dead[r]
             /\ amount'[r] = IF r \in failed THEN 0 ELSE amount[r]
    <2>1. TypeOK /\ rs \in SUBSET Roles /\ Load(rs, failed)
      BY <1>1 DEF TypeInv
    <2>2. QED
      BY ONLY <2>1, LoadFacts, Zenon
  <1>4. \A r \in Roles :
          \/ dead[r] = <<>> /\ \E b \in Nat : LoadedAt(r, b)
          \/ dead'[r] = dead[r] /\ (dead[r] = <<>> \/ amount'[r] = amount[r])
    BY ONLY <1>1, <1>3
  <1>5. /\ op[t] = "open" /\ pc[t] = "in" /\ Return(t)
        /\ active' = active /\ kvUsers' = kvUsers
    BY DEF OpenQueue, OpenDeadFails, InSection, Unlock, storeVars
  <1>6. qplace # "active"
    BY <1>5 DEF OpenInv
  <1>7. \A r \in Roles : active[r] = <<>>
    BY <1>6 DEF OpenInv
  <1>8. allocated \in Nat
    BY DEF TypeInv, TypeOK
  <1>9. QED
    BY ONLY <1>2, <1>4, <1>5, <1>6, <1>7, <1>8

LEMMA LoseListInv ==
  ASSUME LoseMemory
  PROVE  ListInv'
  BY EmptyList DEF LoseMemory, ListInv, Linked

\* Every step keeps a user on one list of its role, once.
LEMMA ListStep ==
  ASSUME TypeInv, HeldInv, OpenInv, ListInv, [Next]_vars
  PROVE  ListInv'
  <1> USE RegistryConstants DEF TypeInv, TypeOK, ListInv, storeVars,
             treeVars, threadVars, Goto
  <1>1. CASE ContextInit
    BY <1>1 DEF ContextInit, QueuesLoad, Linked
  <1>2. CASE ContextTerm
    BY <1>2, LoseListInv DEF ContextTerm
  <1>3. CASE Crash
    BY <1>3, LoseListInv DEF Crash
  <1>4. ASSUME NEW t \in Threads, CallRegister(t) PROVE ListInv'
    <2>1. PICK u \in Users : Begin(t, "register", u, "active")
      BY <1>4 DEF CallRegister
    <2>2. /\ user' = [user EXCEPT ![t] = u] /\ node' = [node EXCEPT ![t] = 0]
          /\ UNCHANGED <<active, dead>>
      BY <2>1 DEF Begin
    <2>3. QED
      BY <2>2 DEF Linked
  <1>5. ASSUME NEW t \in Threads, CallUnregister(t) PROVE ListInv'
    <2>1. PICK u \in Users : Begin(t, "unregister", u, "active")
      BY <1>5 DEF CallUnregister
    <2>2. /\ user' = [user EXCEPT ![t] = u] /\ node' = [node EXCEPT ![t] = 0]
          /\ UNCHANGED <<active, dead>>
      BY <2>1 DEF Begin
    <2>3. QED
      BY <2>2 DEF Linked
  <1>6. ASSUME NEW t \in Threads, CallOpen(t) PROVE ListInv'
    BY <1>6 DEF CallOpen, Begin, Linked
  <1>7. ASSUME NEW t \in Threads, CallClose(t) PROVE ListInv'
    BY <1>7 DEF CallClose, Begin, Linked
  <1>8. ASSUME NEW t \in Threads, FindActive(t) PROVE ListInv'
    <2> DEFINE n == Find(active[RoleOf(user[t])], user[t])
    <2>1. n # 0 => n \in Linked(RoleOf(user[t]))
      BY LookedUp DEF Linked
    <2>2. /\ \/ node' = [node EXCEPT ![t] = n] /\ UNCHANGED user
             \/ Return(t)
             \/ UNCHANGED <<user, node>>
          /\ UNCHANGED <<active, dead>>
      BY ONLY <1>8 DEF FindActive, treeVars
    <2> HIDE DEF n
    <2>3. \A r : Linked(r)' = Linked(r)
      BY <2>2 DEF Linked
    <2>4. node \in [Threads -> Nat] /\ user \in [Threads -> Users \cup {"none"}]
      OBVIOUS
    <2>5. ASSUME NEW s \in Threads, node'[s] # 0
          PROVE  node'[s] \in Linked(RoleOf(user[s]))'
      BY ONLY ListInv, <2>1, <2>2, <2>3, <2>4, <2>5 DEF ListInv, Return
    <2>6. QED
      BY <2>2, <2>5
  <1>9. ASSUME NEW t \in Threads, FindAgain(t) PROVE ListInv'
    <2> DEFINE n == Find(active[RoleOf(user[t])], user[t])
    <2>1. n # 0 => n \in Linked(RoleOf(user[t]))
      BY LookedUp DEF Linked
    <2>2. /\ \/ node' = [node EXCEPT ![t] = n] /\ UNCHANGED user
             \/ Return(t)
             \/ UNCHANGED <<user, node>>
          /\ UNCHANGED <<active, dead>>
      BY ONLY <1>9 DEF FindAgain, treeVars
    <2> HIDE DEF n
    <2>3. \A r : Linked(r)' = Linked(r)
      BY <2>2 DEF Linked
    <2>4. node \in [Threads -> Nat] /\ user \in [Threads -> Users \cup {"none"}]
      OBVIOUS
    <2>5. ASSUME NEW s \in Threads, node'[s] # 0
          PROVE  node'[s] \in Linked(RoleOf(user[s]))'
      BY ONLY ListInv, <2>1, <2>2, <2>3, <2>4, <2>5 DEF ListInv, Return
    <2>6. QED
      BY <2>2, <2>5
  <1>10. ASSUME NEW t \in Threads, FindDead(t) PROVE ListInv'
    <2> DEFINE n == Find(dead[RoleOf(user[t])], user[t])
    <2>1. n # 0 => n \in Linked(RoleOf(user[t]))
      BY LookedUp DEF Linked
    <2>2. /\ \/ node' = [node EXCEPT ![t] = n] /\ UNCHANGED user
             \/ Return(t)
             \/ UNCHANGED <<user, node>>
          /\ UNCHANGED <<active, dead>>
      BY ONLY <1>10 DEF FindDead, treeVars
    <2> HIDE DEF n
    <2>3. \A r : Linked(r)' = Linked(r)
      BY <2>2 DEF Linked
    <2>4. node \in [Threads -> Nat] /\ user \in [Threads -> Users \cup {"none"}]
      OBVIOUS
    <2>5. ASSUME NEW s \in Threads, node'[s] # 0
          PROVE  node'[s] \in Linked(RoleOf(user[s]))'
      BY ONLY ListInv, <2>1, <2>2, <2>3, <2>4, <2>5 DEF ListInv, Return
    <2>6. QED
      BY <2>2, <2>5
  <1>11. ASSUME NEW t \in Threads, FindQueue(t) PROVE ListInv'
    <2>1. UNCHANGED <<active, dead>> /\ (Return(t) \/ UNCHANGED <<user, node>>)
      BY ONLY <1>11 DEF FindQueue, treeVars
    <2>2. CASE Return(t)
      BY <2>1, <2>2 DEF Return, Linked
    <2>3. CASE UNCHANGED <<user, node>>
      BY <2>1, <2>3 DEF Linked
    <2>4. QED
      BY ONLY <2>1, <2>2, <2>3
  <1>12. ASSUME NEW t \in Threads, StrayUnlock(t) PROVE ListInv'
    BY <1>12 DEF StrayUnlock, Return, Linked
  <1>13. ASSUME NEW t \in Threads, Acquire(t) PROVE ListInv'
    BY <1>13 DEF Acquire, Linked
  <1>14. ASSUME NEW t \in Threads, Activate(t) PROVE ListInv'
    <2> DEFINE n == node[t]
               r == RoleOf(user[t])
    <2>1. /\ Return(t) /\ n # 0 /\ r \in Roles /\ ident[n] = user[t]
      BY <1>14, RoleOfUser DEF Activate, InSection, Unlock, CallOK
    <2>2. Moved(1..allocated, dead, active, n, r, dead', active')
      BY <1>14, <2>1, ActivateFacts
    <2>3. \A z \in Roles : /\ Distinct(dead'[z]) /\ Distinct(active'[z])
                          /\ Elements(dead'[z]) = Elements(dead[z]) \ {n}
                          /\ Elements(active'[z]) = IF z = r THEN Elements(active[z]) \cup {n}
                                                 ELSE Elements(active[z]) \ {n}
      BY ONLY ListInv, <2>2 DEF ListInv, Moved
    <2> HIDE DEF n, r
    <2>4. \A z \in Roles : /\ Elements(active'[z]) \cap Elements(dead'[z]) = {}
                          /\ Linked(z)' = IF z = r THEN Linked(z) \cup {n} ELSE Linked(z) \ {n}
      BY ONLY ListInv, <2>3 DEF ListInv, Linked
    <2>5. ASSUME NEW s \in Threads, node'[s] # 0
          PROVE  node'[s] \in Linked(RoleOf(user[s]))'
      <3>1. s # t /\ node'[s] = node[s] /\ user'[s] = user[s] /\ node[s] # 0
        BY ONLY TypeInv, t \in Threads, <2>1, <2>5 DEF Return, TypeInv, TypeOK
      <3>2. node[s] \in Linked(RoleOf(user[s])) /\ RoleOf(user[s]) \in Roles
        BY <3>1, RoleOfUser
      <3>3. node[s] = n => user[s] = user[t]
        BY <2>1, <3>1 DEF CallOK
      <3>4. node[s] = n => RoleOf(user[s]) = r
        BY <3>3 DEF r
      <3>5. QED
        BY ONLY <2>4, <3>1, <3>2, <3>4
    <2>6. QED
      BY ONLY <2>3, <2>4, <2>5 DEF ListInv
  <1>15. ASSUME NEW t \in Threads, ActivateFails(t) PROVE ListInv'
    BY <1>15 DEF ActivateFails, InSection, Unlock, Return, Linked
  <1>16. ASSUME NEW t \in Threads, Create(t) PROVE ListInv'
    <2> DEFINE r == RoleOf(user[t])
    <2>1. Return(t) /\ dead' = dead /\ user[t] \in Users
      BY <1>16 DEF Create, InSection, Unlock, CallOK, UserCalls
    <2>2. /\ Elements(active'[r]) = Elements(active[r]) \cup {allocated'}
          /\ active' = [active EXCEPT ![r] = Append(active[r], allocated')]
          /\ allocated' = allocated + 1 /\ allocated \in Nat /\ r \in Roles
          /\ Distinct(active'[r])
      BY <1>16, <2>1, CreateFacts
    <2>3. \A x \in Roles \ {r} : active'[x] = active[x]
      BY <2>2
    <2>4. \A x \in Roles : Elements(dead[x]) \subseteq 1..allocated
      <3>1. \A x \in Roles : dead[x] \in Seq(1..allocated)
        OBVIOUS
      <3>2. QED
        BY ONLY <3>1, ElementsOf
    <2> HIDE DEF r
    <2>5. \A x \in Roles : /\ Distinct(active'[x]) /\ Distinct(dead'[x])
                          /\ Elements(active'[x]) \cap Elements(dead'[x]) = {}
                          /\ Linked(x) \subseteq Linked(x)'
      <3>1. allocated' \notin 1..allocated
        BY <2>2
      <3>2. QED
        BY ONLY ListInv, <2>1, <2>2, <2>3, <2>4, <3>1 DEF ListInv, Linked
    <2>6. ASSUME NEW s \in Threads, node'[s] # 0
          PROVE  node'[s] \in Linked(RoleOf(user[s]))'
      <3>1. node'[s] = node[s] /\ user'[s] = user[s] /\ node[s] # 0
        BY ONLY TypeInv, t \in Threads, <2>1, <2>6 DEF Return, TypeInv, TypeOK
      <3>2. QED
        BY <2>5, <3>1, RoleOfUser
    <2>7. QED
      BY ONLY <2>5, <2>6 DEF ListInv
  <1>17. ASSUME NEW t \in Threads, CreateProducerFails(t) PROVE ListInv'
    BY <1>17 DEF CreateProducerFails, InSection, Return, Linked
  <1>18. ASSUME NEW t \in Threads, CreateConsumerFails(t) PROVE ListInv'
    BY <1>18 DEF CreateConsumerFails, InSection, StoreUser, Unlock, Return,
                 Linked
  <1>19. ASSUME NEW t \in Threads, Deactivate(t) PROVE ListInv'
    <2> DEFINE n == node[t]
               r == RoleOf(user[t])
    <2>1. /\ Return(t) /\ n # 0 /\ r \in Roles /\ ident[n] = user[t]
      BY <1>19, RoleOfUser DEF Deactivate, InSection, Unlock, CallOK
    <2>2. Moved(1..allocated, active, dead, n, r, active', dead')
      BY <1>19, <2>1, DeactivateFacts
    <2>3. \A z \in Roles : /\ Distinct(active'[z]) /\ Distinct(dead'[z])
                          /\ Elements(active'[z]) = Elements(active[z]) \ {n}
                          /\ Elements(dead'[z]) = IF z = r THEN Elements(dead[z]) \cup {n}
                                                 ELSE Elements(dead[z]) \ {n}
      BY ONLY ListInv, <2>2 DEF ListInv, Moved
    <2> HIDE DEF n, r
    <2>4. \A z \in Roles : /\ Elements(active'[z]) \cap Elements(dead'[z]) = {}
                          /\ Linked(z)' = IF z = r THEN Linked(z) \cup {n} ELSE Linked(z) \ {n}
      BY ONLY ListInv, <2>3 DEF ListInv, Linked
    <2>5. ASSUME NEW s \in Threads, node'[s] # 0
          PROVE  node'[s] \in Linked(RoleOf(user[s]))'
      <3>1. s # t /\ node'[s] = node[s] /\ user'[s] = user[s] /\ node[s] # 0
        BY ONLY TypeInv, t \in Threads, <2>1, <2>5 DEF Return, TypeInv, TypeOK
      <3>2. node[s] \in Linked(RoleOf(user[s])) /\ RoleOf(user[s]) \in Roles
        BY <3>1, RoleOfUser
      <3>3. node[s] = n => user[s] = user[t]
        BY <2>1, <3>1 DEF CallOK
      <3>4. node[s] = n => RoleOf(user[s]) = r
        BY <3>3 DEF r
      <3>5. QED
        BY ONLY <2>4, <3>1, <3>2, <3>4
    <2>6. QED
      BY ONLY <2>3, <2>4, <2>5 DEF ListInv
  <1>20. ASSUME NEW t \in Threads, OpenQueue(t) PROVE ListInv'
    <2>1. /\ \A r \in Roles : active[r] = <<>> /\ active'[r] = <<>>
          /\ \A r \in Roles : \/ dead[r] = <<>> /\ \E b \in Nat : LoadedAt(r, b)
                              \/ dead'[r] = dead[r]
          /\ Return(t)
      BY <1>20, OpenSection
    <2>2. \A r \in Roles : /\ Distinct(dead'[r]) /\ Elements(dead[r]) \subseteq Elements(dead'[r])
                          /\ Distinct(active'[r])
                          /\ Elements(active[r]) = {} /\ Elements(active'[r]) = {}
      <3>1. ASSUME NEW r \in Roles, NEW b \in Nat, LoadedAt(r, b)
            PROVE  Distinct(dead'[r])
        BY <3>1, LoadedElements
      <3>2. QED
        BY ONLY ListInv, <2>1, <3>1, EmptyList DEF ListInv
    <2>3. ASSUME NEW s \in Threads, node'[s] # 0
          PROVE  node'[s] \in Linked(RoleOf(user[s]))'
      <3>1. node'[s] = node[s] /\ user'[s] = user[s] /\ node[s] # 0
        BY ONLY TypeInv, t \in Threads, <2>1, <2>3 DEF Return, TypeInv, TypeOK
      <3>2. QED
        BY <2>2, <3>1, RoleOfUser DEF Linked
    <2>4. QED
      BY ONLY <2>2, <2>3 DEF ListInv
  <1>21. ASSUME NEW t \in Threads, OpenDeadFails(t) PROVE ListInv'
    <2>1. /\ \A r \in Roles : active[r] = <<>> /\ active'[r] = <<>>
          /\ \A r \in Roles : \/ dead[r] = <<>> /\ \E b \in Nat : LoadedAt(r, b)
                              \/ dead'[r] = dead[r]
          /\ Return(t)
      BY <1>21, OpenSection
    <2>2. \A r \in Roles : /\ Distinct(dead'[r]) /\ Elements(dead[r]) \subseteq Elements(dead'[r])
                          /\ Distinct(active'[r])
                          /\ Elements(active[r]) = {} /\ Elements(active'[r]) = {}
      <3>1. ASSUME NEW r \in Roles, NEW b \in Nat, LoadedAt(r, b)
            PROVE  Distinct(dead'[r])
        BY <3>1, LoadedElements
      <3>2. QED
        BY ONLY ListInv, <2>1, <3>1, EmptyList DEF ListInv
    <2>3. ASSUME NEW s \in Threads, node'[s] # 0
          PROVE  node'[s] \in Linked(RoleOf(user[s]))'
      <3>1. node'[s] = node[s] /\ user'[s] = user[s] /\ node[s] # 0
        BY ONLY TypeInv, t \in Threads, <2>1, <2>3 DEF Return, TypeInv, TypeOK
      <3>2. QED
        BY <2>2, <3>1, RoleOfUser DEF Linked
    <2>4. QED
      BY ONLY <2>2, <2>3 DEF ListInv
  <1>22. ASSUME NEW t \in Threads, OpenNewFails(t) PROVE ListInv'
    BY <1>22 DEF OpenNewFails, InSection, Unlock, Return, Linked
  <1>23. ASSUME NEW t \in Threads, CloseQueue(t) PROVE ListInv'
    <2>1. \A s \in Threads : node[s] = 0
      BY <1>23 DEF CloseQueue, InSection, CallOK, HeldInv
    <2>2. \A r \in Roles : active'[r] = <<>> /\ dead'[r] = <<>>
      BY <1>23 DEF CloseQueue
    <2>3. node' = [node EXCEPT ![t] = 0]
      BY <1>23 DEF CloseQueue, Unlock, Return
    <2>4. QED
      BY ONLY TypeInv, <2>1, <2>2, <2>3, EmptyList DEF ListInv, TypeInv, TypeOK
  <1>24. ASSUME NEW t \in Threads, CloseRefused(t) PROVE ListInv'
    BY <1>24 DEF CloseRefused, InSection, Unlock, Return, Linked
  <1>25. ASSUME NEW t \in Threads, CrashInCreate(t) PROVE ListInv'
    BY <1>25, LoseListInv DEF CrashInCreate
  <1>26. ASSUME NEW t \in Threads, UseAfterFree(t) PROVE ListInv'
    BY <1>26, LoseListInv DEF UseAfterFree
  <1>27. CASE UNCHANGED vars
    BY <1>27 DEF vars, Linked
  <1>28. QED
    BY ONLY [Next]_vars, <1>1, <1>2, <1>3, <1>4, <1>5, <1>6, <1>7, <1>8, <1>9,
            <1>10, <1>11, <1>12, <1>13, <1>14, <1>15, <1>16, <1>17, <1>18,
            <1>19, <1>20, <1>21, <1>22, <1>23, <1>24, <1>25, <1>26, <1>27
       DEF Next, Call, Lookup, Section

LEMMA ListInvariant ==
  ASSUME ~ClosesInUse, OneOpener
  PROVE  Spec => []ListInv
  <1>1. Init => ListInv
    BY EmptyList DEF Init, ListInv
  <1>2. TypeInv /\ HeldInv /\ OpenInv /\ ListInv /\ [Next]_vars => ListInv'
    BY ListStep
  <1>3. QED
    BY <1>1, <1>2, TypeInvariant, HeldInvariant, OpenInvariant, PTL DEF Spec

\* Lists that share no node and hold none twice.
Apart(from, to) ==
  \A x \in Roles : /\ Distinct(from[x]) /\ Distinct(to[x])
                  /\ Elements(from[x]) \cap Elements(to[x]) = {}
                  /\ Len(from[x]) \in Nat /\ Len(to[x]) \in Nat

\* What moving a node leaves of the nodes of role x.
KeptOf(x, from, to, n, r, from1, to1) ==
  /\ Elements(from1[x]) \cup Elements(to1[x]) \subseteq Elements(from[x]) \cup Elements(to[x])
  /\ x = r \/ n \notin Elements(from[x]) \cup Elements(to[x]) =>
       /\ Elements(from1[x]) \cup Elements(to1[x]) = Elements(from[x]) \cup Elements(to[x])
       /\ Len(from1[x]) + Len(to1[x]) = Len(from[x]) + Len(to[x])

LEMMA MovedWithin ==
  ASSUME NEW S, NEW from, NEW to, NEW n, NEW r \in Roles, NEW from1, NEW to1,
         Moved(S, from, to, n, r, from1, to1), Apart(from, to),
         n \in Elements(from[r]) \cup Elements(to[r]), NEW x \in Roles
  PROVE  KeptOf(x, from, to, n, r, from1, to1)
  <1>1. /\ Elements(from1[x]) = Elements(from[x]) \ {n}
        /\ Elements(to1[x]) = IF x = r THEN Elements(to[x]) \cup {n}
                              ELSE Elements(to[x]) \ {n}
    BY DEF Moved, Apart
  <1>2. /\ Elements(from1[x]) \cup Elements(to1[x]) \subseteq Elements(from[x]) \cup Elements(to[x])
        /\ x = r \/ n \notin Elements(from[x]) \cup Elements(to[x]) =>
             Elements(from1[x]) \cup Elements(to1[x]) = Elements(from[x]) \cup Elements(to[x])
    BY <1>1
  <1>3. Len(from1[r]) + Len(to1[r]) = Len(from[r]) + Len(to[r])
    <2>1. Len(from[r]) \in Nat /\ Len(to[r]) \in Nat
      BY DEF Apart
    <2>2. CASE n \in Elements(from[r])
      <3>1. n \notin Elements(to[r])
        BY <2>2 DEF Apart
      <3>2. Len(from1[r]) = Len(from[r]) - 1 /\ Len(to1[r]) = Len(to[r]) + 1
        BY <2>2, <3>1 DEF Moved
      <3> DEFINE p == Len(from[r])
                 q == Len(to[r])
                 p1 == Len(from1[r])
                 q1 == Len(to1[r])
      <3>3. p \in Nat /\ q \in Nat /\ p1 = p - 1 /\ q1 = q + 1
        BY ONLY <2>1, <3>2
      <3> HIDE DEF p, q, p1, q1
      <3>4. p1 + q1 = p + q
        BY ONLY <3>3
      <3>5. QED
        BY ONLY <3>4 DEF p, q, p1, q1
    <2>3. CASE n \notin Elements(from[r])
      <3>1. Len(from1[r]) = Len(from[r]) /\ Len(to1[r]) = Len(to[r])
        BY <2>3 DEF Moved
      <3>2. QED
        BY ONLY <3>1
    <2>4. QED
      BY ONLY <2>2, <2>3
  <1>4. ASSUME x # r, n \notin Elements(from[x]) \cup Elements(to[x])
        PROVE  from1[x] = from[x] /\ to1[x] = to[x]
    BY <1>4 DEF Moved
  <1>5. QED
    BY ONLY <1>2, <1>3, <1>4 DEF KeptOf

\* Moving a node between the lists of its role leaves the role's nodes the same.
LEMMA MoveKeepsLinked ==
  ASSUME TypeInv, ListInv, NEW t \in Threads, Activate(t) \/ Deactivate(t)
  PROVE  /\ node[t] \in Linked(RoleOf(user[t])) /\ RoleOf(user[t]) \in Roles
         /\ ident[node[t]] = user[t]
         /\ \A x \in Roles :
              /\ Linked(x)' \subseteq Linked(x)
              /\ x = RoleOf(user[t]) \/ node[t] \notin Linked(x) =>
                   /\ Linked(x)' = Linked(x)
                   /\ Len(active'[x]) + Len(dead'[x]) = Len(active[x]) + Len(dead[x])
  <1> DEFINE n == node[t]
             r == RoleOf(user[t])
  <1>1. /\ n # 0 /\ r \in Roles /\ ident[n] = user[t] /\ n \in Linked(r)
    BY RoleOfUser DEF Activate, Deactivate, InSection, TypeInv, CallOK, ListInv
  <1>2. \/ Moved(1..allocated, dead, active, n, r, dead', active')
        \/ Moved(1..allocated, active, dead, n, r, active', dead')
    BY <1>1, ActivateFacts, DeactivateFacts DEF TypeInv
  <1>3. Apart(active, dead) /\ Apart(dead, active)
    BY DEF ListInv, TypeInv, TypeOK, Apart
  <1> HIDE DEF n, r
  <1>4. ASSUME NEW x \in Roles
        PROVE  /\ Linked(x)' \subseteq Linked(x)
               /\ x = r \/ n \notin Linked(x) =>
                    /\ Linked(x)' = Linked(x)
                    /\ Len(active'[x]) + Len(dead'[x]) = Len(active[x]) + Len(dead[x])
    <2>1. /\ Len(active'[x]) \in Nat /\ Len(dead'[x]) \in Nat
          /\ Len(active[x]) \in Nat /\ Len(dead[x]) \in Nat
      BY ONLY <1>2, <1>3, x \in Roles DEF Moved, Apart
    <2>2. /\ n \in Elements(dead[r]) \cup Elements(active[r])
          /\ n \in Elements(active[r]) \cup Elements(dead[r])
      BY ONLY <1>1 DEF Linked
    <2>3. CASE Moved(1..allocated, dead, active, n, r, dead', active')
      <3>1. KeptOf(x, dead, active, n, r, dead', active')
        BY ONLY <1>1, <1>3, <2>2, <2>3, x \in Roles, MovedWithin
      <3>2. /\ Linked(x)' \subseteq Linked(x)
            /\ x = r \/ n \notin Linked(x) =>
                 /\ Linked(x)' = Linked(x)
                 /\ Len(dead'[x]) + Len(active'[x]) = Len(dead[x]) + Len(active[x])
        BY ONLY <3>1 DEF Linked, KeptOf
      <3>3. QED
        <4> DEFINE p == Len(active[x])
                   q == Len(dead[x])
                   p1 == Len(active'[x])
                   q1 == Len(dead'[x])
        <4>1. p \in Nat /\ q \in Nat /\ p1 \in Nat /\ q1 \in Nat
          BY ONLY <2>1
        <4> HIDE DEF p, q, p1, q1
        <4>2. p + q = q + p /\ p1 + q1 = q1 + p1
          BY ONLY <4>1
        <4>3. QED
          BY ONLY <3>2, <4>2 DEF p, q, p1, q1
    <2>4. CASE Moved(1..allocated, active, dead, n, r, active', dead')
      <3>1. KeptOf(x, active, dead, n, r, active', dead')
        BY ONLY <1>1, <1>3, <2>2, <2>4, x \in Roles, MovedWithin
      <3>2. QED
        BY ONLY <3>1 DEF Linked, KeptOf
    <2>5. QED
      BY ONLY <1>2, <2>3, <2>4
  <1>5. QED
    BY <1>1, <1>4 DEF n, r

LEMMA LoseSlotInv ==
  ASSUME LoseMemory
  PROVE  SlotInv'
  BY EmptyList DEF LoseMemory, SlotInv, Linked, Roles

LEMMA LinkedTypes ==
  ASSUME TypeInv, NEW r \in Roles
  PROVE  Linked(r) \subseteq 1..allocated
  <1>1. active[r] \in Seq(1..allocated) /\ dead[r] \in Seq(1..allocated)
    BY DEF TypeInv, TypeOK
  <1>2. QED
    BY ONLY <1>1, ElementsOf DEF Linked

\* A new consumer gets the first slot behind the others', and loading numbers them
\* anew.
LEMMA SlotStep ==
  ASSUME TypeInv, OpenInv, ListInv, SlotInv, [Next]_vars
  PROVE  SlotInv'
  <1> USE RegistryConstants DEF TypeInv, TypeOK, SlotInv, Roles, storeVars,
             treeVars, threadVars, Goto
  <1>1. CASE ContextInit
    BY <1>1 DEF ContextInit, QueuesLoad, Linked
  <1>2. CASE ContextTerm
    BY <1>2, LoseSlotInv DEF ContextTerm
  <1>3. CASE Crash
    BY <1>3, LoseSlotInv DEF Crash
  <1>4. ASSUME NEW t \in Threads, CallRegister(t) PROVE SlotInv'
    BY <1>4 DEF CallRegister, Begin, Free, Linked
  <1>5. ASSUME NEW t \in Threads, CallUnregister(t) PROVE SlotInv'
    BY <1>5 DEF CallUnregister, Begin, Free, Linked
  <1>6. ASSUME NEW t \in Threads, CallOpen(t) PROVE SlotInv'
    BY <1>6 DEF CallOpen, Begin, Linked
  <1>7. ASSUME NEW t \in Threads, CallClose(t) PROVE SlotInv'
    BY <1>7 DEF CallClose, Begin, Linked
  <1>8. ASSUME NEW t \in Threads, FindActive(t) PROVE SlotInv'
    BY <1>8 DEF FindActive, Return, Linked
  <1>9. ASSUME NEW t \in Threads, FindAgain(t) PROVE SlotInv'
    BY <1>9 DEF FindAgain, Linked
  <1>10. ASSUME NEW t \in Threads, FindDead(t) PROVE SlotInv'
    BY <1>10 DEF FindDead, Linked
  <1>11. ASSUME NEW t \in Threads, FindQueue(t) PROVE SlotInv'
    BY <1>11 DEF FindQueue, Return, Linked
  <1>12. ASSUME NEW t \in Threads, StrayUnlock(t) PROVE SlotInv'
    BY <1>12 DEF StrayUnlock, Return, Linked
  <1>13. ASSUME NEW t \in Threads, Acquire(t) PROVE SlotInv'
    BY <1>13 DEF Acquire, Linked
  <1>14. ASSUME NEW t \in Threads, Activate(t) PROVE SlotInv'
    <2>1. Linked("consumer")' \subseteq Linked("consumer")
      BY <1>14, MoveKeepsLinked
    <2>2. slot' = slot /\ amount' = amount
      BY <1>14 DEF Activate
    <2>3. QED
      BY ONLY SlotInv, <2>1, <2>2 DEF SlotInv
  <1>15. ASSUME NEW t \in Threads, ActivateFails(t) PROVE SlotInv'
    BY <1>15 DEF ActivateFails, InSection, Unlock, Return, Linked
  <1>16. ASSUME NEW t \in Threads, Create(t) PROVE SlotInv'
    <2> DEFINE r == RoleOf(user[t])
    <2>1. dead' = dead /\ user[t] \in Users /\ amount' = [amount EXCEPT ![r] = amount[r] + 1]
      BY <1>16 DEF Create, InSection, CallOK, UserCalls
    <2>2. /\ Elements(active'[r]) = Elements(active[r]) \cup {allocated'}
          /\ active' = [active EXCEPT ![r] = Append(active[r], allocated')]
          /\ allocated' = allocated + 1 /\ allocated \in Nat /\ r \in Roles
          /\ \A n \in 1..allocated : slot'[n] = slot[n]
          /\ r = "consumer" => slot'[allocated'] = amount[r]
      BY <1>16, <2>1, CreateFacts
    <2>3. Linked("consumer") \subseteq 1..allocated
      BY LinkedTypes
    <2>4. /\ Linked("consumer")' = IF r = "consumer" THEN Linked("consumer") \cup {allocated'}
                                  ELSE Linked("consumer")
          /\ amount'["consumer"] = IF r = "consumer" THEN amount["consumer"] + 1
                                   ELSE amount["consumer"]
      BY <2>1, <2>2 DEF Linked
    <2>5. /\ amount["consumer"] \in Nat /\ allocated' \notin 1..allocated
          /\ \A n \in 1..allocated : slot[n] \in Nat
      <3>1. amount \in [Roles -> Nat] /\ slot \in [1..allocated -> Nat]
        OBVIOUS
      <3>2. allocated' \notin 1..allocated
        BY ONLY <2>2
      <3>3. QED
        BY ONLY <3>1, <3>2 DEF Roles
    <2> HIDE DEF r
    <2>6. CASE r # "consumer"
      BY ONLY SlotInv, <2>2, <2>3, <2>4, <2>6 DEF SlotInv
    <2>7. CASE r = "consumer"
      <3>1. \A n \in Linked("consumer") : /\ slot'[n] = slot[n] /\ slot[n] \in Nat
                                          /\ slot[n] < amount["consumer"]
        BY ONLY SlotInv, <2>2, <2>3, <2>5 DEF SlotInv
      <3>2. slot'[allocated'] = amount["consumer"]
        BY ONLY <2>2, <2>7
      <3>3. \A m, n \in Linked("consumer")' : slot'[m] = slot'[n] => m = n
        BY ONLY SlotInv, <2>4, <2>5, <2>7, <3>1, <3>2 DEF SlotInv
      <3>4. \A n \in Linked("consumer")' : slot'[n] < amount'["consumer"]
        BY ONLY <2>4, <2>5, <2>7, <3>1, <3>2
      <3>5. QED
        BY ONLY <3>3, <3>4 DEF SlotInv
    <2>8. QED
      BY ONLY <2>6, <2>7
  <1>17. ASSUME NEW t \in Threads, CreateProducerFails(t) PROVE SlotInv'
    BY <1>17 DEF CreateProducerFails, InSection, Return, Linked
  <1>18. ASSUME NEW t \in Threads, CreateConsumerFails(t) PROVE SlotInv'
    BY <1>18 DEF CreateConsumerFails, InSection, StoreUser, Unlock, Return,
                 Linked
  <1>19. ASSUME NEW t \in Threads, Deactivate(t) PROVE SlotInv'
    <2>1. Linked("consumer")' \subseteq Linked("consumer")
      BY <1>19, MoveKeepsLinked
    <2>2. slot' = slot /\ amount' = amount
      BY <1>19 DEF Deactivate
    <2>3. QED
      BY ONLY SlotInv, <2>1, <2>2 DEF SlotInv
  <1>20. ASSUME NEW t \in Threads, OpenQueue(t) PROVE SlotInv'
    <2> DEFINE c == "consumer"
    <2>1. /\ active[c] = <<>> /\ active'[c] = <<>>
          /\ \A n \in 1..allocated : slot'[n] = slot[n]
          /\ \/ \E b \in Nat : LoadedAt(c, b)
             \/ dead'[c] = dead[c] /\ (dead[c] = <<>> \/ amount'[c] = amount[c])
      BY <1>20, OpenSection
    <2>2. Linked(c)' = Elements(dead'[c]) /\ Linked(c) = Elements(dead[c])
      BY <2>1, EmptyList DEF Linked
    <2>3. Linked(c) \subseteq 1..allocated
      BY LinkedTypes
    <2>4. ASSUME NEW b \in Nat, LoadedAt(c, b) PROVE SlotInv'
      <3>1. /\ Linked(c)' = {b + i : i \in 1..Len(kvUsers[c])}
            /\ Len(kvUsers[c]) \in Nat
        <4>1. kvUsers[c] \in Seq(Users) /\ c \in Roles /\ TypeOK
          OBVIOUS
        <4>2. Elements(dead'[c]) = {b + i : i \in 1..Len(kvUsers[c])}
          BY ONLY <2>4, <4>1, LoadedElements
        <4>3. QED
          BY ONLY <2>2, <4>1, <4>2
      <3>2. /\ \A i \in 1..Len(kvUsers[c]) : slot'[b + i] = i - 1
            /\ amount'[c] = Len(kvUsers[c])
        BY <2>4 DEF LoadedAt
      <3>3. \A n \in Linked(c)' : /\ n \in Nat /\ slot'[n] = n - b - 1
                                  /\ n - b - 1 < Len(kvUsers[c])
        BY ONLY <3>1, <3>2, b \in Nat
      <3>4. QED
        BY ONLY <3>2, <3>3, b \in Nat DEF SlotInv
    <2>5. ASSUME dead'[c] = dead[c], dead[c] = <<>> \/ amount'[c] = amount[c] PROVE SlotInv'
      <3>1. Linked(c)' = Linked(c) /\ (Linked(c) = {} \/ amount'[c] = amount[c])
        BY <2>2, <2>5, EmptyList
      <3>2. QED
        BY ONLY SlotInv, <2>1, <2>3, <3>1 DEF SlotInv
    <2>6. QED
      BY ONLY <2>1, <2>4, <2>5
  <1>21. ASSUME NEW t \in Threads, OpenDeadFails(t) PROVE SlotInv'
    <2> DEFINE c == "consumer"
    <2>1. /\ active[c] = <<>> /\ active'[c] = <<>>
          /\ \A n \in 1..allocated : slot'[n] = slot[n]
          /\ \/ \E b \in Nat : LoadedAt(c, b)
             \/ dead'[c] = dead[c] /\ (dead[c] = <<>> \/ amount'[c] = amount[c])
      BY <1>21, OpenSection
    <2>2. Linked(c)' = Elements(dead'[c]) /\ Linked(c) = Elements(dead[c])
      BY <2>1, EmptyList DEF Linked
    <2>3. Linked(c) \subseteq 1..allocated
      BY LinkedTypes
    <2>4. ASSUME NEW b \in Nat, LoadedAt(c, b) PROVE SlotInv'
      <3>1. /\ Linked(c)' = {b + i : i \in 1..Len(kvUsers[c])}
            /\ Len(kvUsers[c]) \in Nat
        <4>1. kvUsers[c] \in Seq(Users) /\ c \in Roles /\ TypeOK
          OBVIOUS
        <4>2. Elements(dead'[c]) = {b + i : i \in 1..Len(kvUsers[c])}
          BY ONLY <2>4, <4>1, LoadedElements
        <4>3. QED
          BY ONLY <2>2, <4>1, <4>2
      <3>2. /\ \A i \in 1..Len(kvUsers[c]) : slot'[b + i] = i - 1
            /\ amount'[c] = Len(kvUsers[c])
        BY <2>4 DEF LoadedAt
      <3>3. \A n \in Linked(c)' : /\ n \in Nat /\ slot'[n] = n - b - 1
                                  /\ n - b - 1 < Len(kvUsers[c])
        BY ONLY <3>1, <3>2, b \in Nat
      <3>4. QED
        BY ONLY <3>2, <3>3, b \in Nat DEF SlotInv
    <2>5. ASSUME dead'[c] = dead[c], dead[c] = <<>> \/ amount'[c] = amount[c] PROVE SlotInv'
      <3>1. Linked(c)' = Linked(c) /\ (Linked(c) = {} \/ amount'[c] = amount[c])
        BY <2>2, <2>5, EmptyList
      <3>2. QED
        BY ONLY SlotInv, <2>1, <2>3, <3>1 DEF SlotInv
    <2>6. QED
      BY ONLY <2>1, <2>4, <2>5
  <1>22. ASSUME NEW t \in Threads, OpenNewFails(t) PROVE SlotInv'
    BY <1>22 DEF OpenNewFails, InSection, Unlock, Return, Linked
  <1>23. ASSUME NEW t \in Threads, CloseQueue(t) PROVE SlotInv'
    <2>1. Linked("consumer")' = {}
      BY <1>23, EmptyList DEF CloseQueue, Linked
    <2>2. QED
      BY ONLY <2>1 DEF SlotInv
  <1>24. ASSUME NEW t \in Threads, CloseRefused(t) PROVE SlotInv'
    BY <1>24 DEF CloseRefused, InSection, Unlock, Return, Linked
  <1>25. ASSUME NEW t \in Threads, CrashInCreate(t) PROVE SlotInv'
    BY <1>25, LoseSlotInv DEF CrashInCreate
  <1>26. ASSUME NEW t \in Threads, UseAfterFree(t) PROVE SlotInv'
    BY <1>26, LoseSlotInv DEF UseAfterFree
  <1>27. CASE UNCHANGED vars
    BY <1>27 DEF vars, Linked
  <1>28. QED
    BY ONLY [Next]_vars, <1>1, <1>2, <1>3, <1>4, <1>5, <1>6, <1>7, <1>8, <1>9,
            <1>10, <1>11, <1>12, <1>13, <1>14, <1>15, <1>16, <1>17, <1>18,
            <1>19, <1>20, <1>21, <1>22, <1>23, <1>24, <1>25, <1>26, <1>27
       DEF Next, Call, Lookup, Section

LEMMA SlotInvariant ==
  ASSUME ~ClosesInUse, OneOpener
  PROVE  Spec => []SlotInv
  <1>1. Init => SlotInv
    BY EmptyList DEF Init, SlotInv, Linked, Roles
  <1>2. TypeInv /\ OpenInv /\ ListInv /\ SlotInv /\ [Next]_vars => SlotInv'
    BY SlotStep
  <1>3. QED
    BY <1>1, <1>2, TypeInvariant, OpenInvariant, ListInvariant, PTL DEF Spec

\* The lists of a role, one behind the other, hold its nodes once each.
LEMMA AllOfRole ==
  ASSUME TypeInv, ListInv, NEW r \in Roles
  PROVE  LET all == active[r] \o dead[r] IN
         /\ DOMAIN all = 1..(Len(active[r]) + Len(dead[r]))
         /\ Len(all) = Len(active[r]) + Len(dead[r])
         /\ Distinct(all) /\ Elements(all) = Linked(r)
  <1> DEFINE a == active[r]
             d == dead[r]
             all == a \o d
             S == 1..allocated
  <1>1. /\ a \in Seq(S) /\ d \in Seq(S) /\ Distinct(a) /\ Distinct(d)
        /\ Elements(a) \cap Elements(d) = {} /\ Linked(r) = Elements(a) \cup Elements(d)
    BY DEF TypeInv, TypeOK, ListInv, Linked
  <1> HIDE DEF a, d, S
  <1>2. /\ all \in Seq(S) /\ Len(all) = Len(a) + Len(d)
        /\ \A i \in 1..Len(a) : all[i] = a[i]
        /\ \A i \in 1..Len(d) : all[Len(a) + i] = d[i]
    BY ONLY <1>1, ConcatFacts
  <1>3. /\ DOMAIN a = 1..Len(a) /\ DOMAIN d = 1..Len(d)
        /\ Len(a) \in Nat /\ Len(d) \in Nat
    BY ONLY <1>1, ElementsOf
  <1>4. DOMAIN all = 1..Len(all)
    BY ONLY <1>2, ElementsOf
  <1> HIDE DEF all
  <1>5. ASSUME NEW i \in DOMAIN all
        PROVE  \/ i \in DOMAIN a /\ all[i] = a[i] /\ all[i] \in Elements(a)
               \/ /\ i - Len(a) \in DOMAIN d /\ all[i] = d[i - Len(a)]
                  /\ all[i] \in Elements(d) /\ i \in Nat
    <2>1. i \in 1..(Len(a) + Len(d))
      BY ONLY <1>2, <1>4, <1>5
    <2>2. CASE i <= Len(a)
      <3>1. i \in 1..Len(a)
        BY ONLY <1>3, <2>1, <2>2
      <3>2. QED
        BY ONLY <1>2, <1>3, <3>1 DEF Elements
    <2>3. CASE ~(i <= Len(a))
      <3>1. i - Len(a) \in 1..Len(d) /\ Len(a) + (i - Len(a)) = i /\ i \in Nat
        BY ONLY <1>3, <2>1, <2>3
      <3>2. QED
        BY ONLY <1>2, <1>3, <3>1 DEF Elements
    <2>4. QED
      BY ONLY <2>2, <2>3
  <1>6. ASSUME NEW i \in DOMAIN all, NEW j \in DOMAIN all, all[i] = all[j]
        PROVE  i = j
    <2>1. CASE all[i] \in Elements(a)
      <3>1. all[i] \notin Elements(d) /\ all[j] \notin Elements(d)
        BY ONLY <1>1, <1>6, <2>1
      <3>2. i \in DOMAIN a /\ all[i] = a[i] /\ j \in DOMAIN a /\ all[j] = a[j]
        BY ONLY <1>5, <1>6, <3>1
      <3>3. QED
        BY ONLY <1>1, <1>6, <3>2 DEF Distinct
    <2>2. CASE all[i] \notin Elements(a)
      <3>1. /\ i - Len(a) \in DOMAIN d /\ all[i] = d[i - Len(a)] /\ i \in Nat
            /\ j - Len(a) \in DOMAIN d /\ all[j] = d[j - Len(a)] /\ j \in Nat
        BY ONLY <1>5, <1>6, <2>2
      <3>2. i - Len(a) = j - Len(a)
        BY ONLY <1>1, <1>6, <3>1 DEF Distinct
      <3>3. QED
        BY ONLY <1>3, <3>1, <3>2
    <2>3. QED
      BY ONLY <2>1, <2>2
  <1>7. Distinct(all)
    BY ONLY <1>6 DEF Distinct
  <1>8. ASSUME NEW n PROVE n \in Elements(all) <=> n \in Elements(a) \cup Elements(d)
    <2>1. ASSUME n \in Elements(all) PROVE n \in Elements(a) \cup Elements(d)
      BY ONLY <1>5, <2>1 DEF Elements
    <2>2. ASSUME n \in Elements(a) PROVE n \in Elements(all)
      <3>1. PICK i \in 1..Len(a) : a[i] = n
        BY <1>3, <2>2 DEF Elements
      <3>2. i \in DOMAIN all /\ all[i] = n
        BY ONLY <1>2, <1>3, <1>4, <3>1
      <3>3. QED
        BY ONLY <3>2 DEF Elements
    <2>3. ASSUME n \in Elements(d) PROVE n \in Elements(all)
      <3>1. PICK i \in 1..Len(d) : d[i] = n
        BY <1>3, <2>3 DEF Elements
      <3>2. Len(a) + i \in DOMAIN all /\ all[Len(a) + i] = n
        BY ONLY <1>2, <1>3, <1>4, <3>1
      <3>3. QED
        BY ONLY <3>2 DEF Elements
    <2>4. QED
      BY <2>1, <2>2, <2>3
  <1>9. Elements(all) = Linked(r)
    BY ONLY <1>1, <1>8
  <1>10. QED
    BY <1>2, <1>4, <1>7, <1>9 DEF all, a, d

\* When a queue is opened and closed from one thread, and closed while nobody
\* works on its users, no two consumers of the lists have the same slot and every
\* slot is below consumer_amount, whatever the store answers and however often
\* the process is killed: their status bits never overlap.
THEOREM SlotsStayDistinct ==
  ASSUME ~ClosesInUse, OneOpener
  PROVE  Spec => []SlotsDistinct
  <1>1. TypeInv /\ ListInv /\ SlotInv => SlotsDistinct
    <2> SUFFICES ASSUME TypeInv, ListInv, SlotInv PROVE SlotsDistinct
      OBVIOUS
    <2> DEFINE all == active["consumer"] \o dead["consumer"]
    <2>1. Distinct(all) /\ Elements(all) = Linked("consumer")
      BY AllOfRole DEF Roles
    <2> HIDE DEF all
    <2>2. \A i \in DOMAIN all : all[i] \in Linked("consumer")
      BY ONLY <2>1 DEF Elements
    <2>3. \A i, j \in DOMAIN all : /\ slot[all[i]] = slot[all[j]] => i = j
                                  /\ slot[all[i]] < amount["consumer"]
      BY ONLY SlotInv, <2>1, <2>2 DEF SlotInv, Distinct
    <2>4. QED
      BY <2>3 DEF SlotsDistinct, all
  <1>2. QED
    BY <1>1, TypeInvariant, ListInvariant, SlotInvariant, PTL

-----------------------------------------------------------------------------
(* Users in memory and in the store *)

\* Steps that leave the users of each role the same.
LEMMA StoreKept ==
  ASSUME StoreInv, UNCHANGED <<kvUsers, ident, amount>>,
         \A r \in Roles : Linked(r)' = Linked(r) /\ Size(r)' = Size(r),
         qplace' = "active" <=> qplace = "active",
         qplace # "active" => UNCHANGED dead
  PROVE  StoreInv'
  <1>1. ASSUME NEW r \in Roles, OneEach(r) PROVE OneEach(r)'
    BY <1>1 DEF OneEach
  <1>2. ASSUME NEW r \in Roles, SameUsers(r) PROVE SameUsers(r)'
    BY <1>2 DEF SameUsers
  <1>3. QED
    BY <1>1, <1>2 DEF StoreInv

\* Steps that change neither the users nor the store.
LEMMA StoreFrame ==
  ASSUME StoreInv, UNCHANGED <<kvUsers, active, dead, ident, amount, qplace>>
  PROVE  StoreInv'
  <1>1. \A r \in Roles : Linked(r)' = Linked(r) /\ Size(r)' = Size(r)
    BY DEF Linked, Size
  <1>2. QED
    BY <1>1, StoreKept

\* An identity that is not stored is appended.
LEMMA StoredList ==
  ASSUME TypeInv, StoreInv, NEW u \in Users, StoreUser(u), u \notin Elements(kvUsers[RoleOf(u)])
  PROVE  /\ RoleOf(u) \in Roles
         /\ \A r \in Roles : Distinct(kvUsers'[r])
         /\ \A r \in Roles : \A v \in Elements(kvUsers'[r]) : RoleOf(v) = r
         /\ Elements(kvUsers'[RoleOf(u)]) = Elements(kvUsers[RoleOf(u)]) \cup {u}
         /\ \A r \in Roles \ {RoleOf(u)} : kvUsers'[r] = kvUsers[r]
  <1> DEFINE q == RoleOf(u)
  <1>1. /\ q \in Roles /\ kvUsers \in [Roles -> Seq(Users)] /\ kvUsers[q] \in Seq(Users)
    BY RoleOfUser DEF TypeInv, TypeOK
  <1>2. /\ kvUsers'[q] = Append(kvUsers[q], u)
        /\ \A r \in Roles \ {q} : kvUsers'[r] = kvUsers[r]
    BY <1>1, StoreUserTypes
  <1>3. \A r \in Roles : Distinct(kvUsers[r]) /\ \A v \in Elements(kvUsers[r]) : RoleOf(v) = r
    BY DEF StoreInv, OneEach
  <1>4. q = RoleOf(u) /\ u \notin Elements(kvUsers[q])
    OBVIOUS
  <1> HIDE DEF q
  <1>5. Elements(kvUsers'[q]) = Elements(kvUsers[q]) \cup {u} /\ Distinct(kvUsers'[q])
    BY ONLY <1>1, <1>2, <1>3, <1>4, AppendFacts, u \in Users
  <1>6. \A r \in Roles : Distinct(kvUsers'[r])
    BY ONLY <1>2, <1>3, <1>5
  <1>7. \A r \in Roles : \A v \in Elements(kvUsers'[r]) : RoleOf(v) = r
    BY ONLY <1>2, <1>3, <1>4, <1>5
  <1>8. QED
    BY <1>1, <1>2, <1>5, <1>6, <1>7 DEF q

\* A restart keeps the store.
LEMMA LoseStoreInv ==
  ASSUME LoseMemory, \A r \in Roles : Distinct(kvUsers'[r]),
         \A r \in Roles : \A v \in Elements(kvUsers'[r]) : RoleOf(v) = r
  PROVE  StoreInv'
  <1>1. qplace' = "none" /\ \A r \in Roles : active'[r] = <<>> /\ dead'[r] = <<>>
    BY DEF LoseMemory
  <1>2. \A r \in Roles : Linked(r)' = {}
    BY <1>1, EmptyList DEF Linked
  <1>3. QED
    BY <1>1, <1>2 DEF StoreInv, OneEach

\* The store and the lists of an open queue change together.
LEMMA StoreStep ==
  ASSUME ~StoreFails, TypeInv, OpenInv, ListInv, AbsentInv, StoreInv, [Next]_vars
  PROVE  StoreInv'
  <1> USE DEF TypeInv
  <1>1. CASE ContextInit
    <2>1. /\ qplace = "none" /\ qplace' # "active"
          /\ UNCHANGED <<kvUsers, active, dead, ident, amount>>
      BY <1>1 DEF ContextInit, QueuesLoad, TreeOK, storeVars
    <2>2. \A r \in Roles : Linked(r)' = Linked(r) /\ Size(r)' = Size(r)
      BY ONLY <2>1 DEF Linked, Size
    <2>3. QED
      BY ONLY StoreInv, <2>1, <2>2, StoreKept
  <1>2. CASE ContextTerm
    BY <1>2, LoseStoreInv DEF ContextTerm, StoreInv, OneEach
  <1>3. CASE Crash
    BY <1>3, LoseStoreInv DEF Crash, StoreInv, OneEach
  <1>4. ASSUME NEW t \in Threads, CallRegister(t) PROVE StoreInv'
    BY <1>4, StoreFrame DEF CallRegister, storeVars, treeVars, Begin
  <1>5. ASSUME NEW t \in Threads, CallUnregister(t) PROVE StoreInv'
    BY <1>5, StoreFrame DEF CallUnregister, storeVars, treeVars, Begin
  <1>6. ASSUME NEW t \in Threads, CallOpen(t) PROVE StoreInv'
    BY <1>6, StoreFrame DEF CallOpen, storeVars, treeVars, Begin
  <1>7. ASSUME NEW t \in Threads, CallClose(t) PROVE StoreInv'
    BY <1>7, StoreFrame DEF CallClose, storeVars, treeVars, Begin
  <1>8. ASSUME NEW t \in Threads, FindActive(t) PROVE StoreInv'
    BY <1>8, StoreFrame DEF FindActive, storeVars, treeVars
  <1>9. ASSUME NEW t \in Threads, FindAgain(t) PROVE StoreInv'
    BY <1>9, StoreFrame DEF FindAgain, storeVars, treeVars
  <1>10. ASSUME NEW t \in Threads, FindDead(t) PROVE StoreInv'
    BY <1>10, StoreFrame DEF FindDead, storeVars, treeVars
  <1>11. ASSUME NEW t \in Threads, FindQueue(t) PROVE StoreInv'
    BY <1>11, StoreFrame DEF FindQueue, storeVars, treeVars
  <1>12. ASSUME NEW t \in Threads, StrayUnlock(t) PROVE StoreInv'
    BY <1>12, StoreFrame DEF StrayUnlock, storeVars, treeVars
  <1>13. ASSUME NEW t \in Threads, Acquire(t) PROVE StoreInv'
    BY <1>13, StoreFrame DEF Acquire, storeVars, treeVars
  <1>14. ASSUME NEW t \in Threads, Activate(t) PROVE StoreInv'
    <2>1. UNCHANGED <<kvUsers, ident, amount, qplace>> /\ InSection(t, "register")
      BY <1>14 DEF Activate, storeVars
    <2>2. qplace = "active"
      BY <2>1 DEF OpenInv, InSection, UserCalls
    <2>3. \A x \in Roles : Linked(x)' = Linked(x) /\ Size(x)' = Size(x)
      <3>1. /\ node[t] \in Linked(RoleOf(user[t])) /\ RoleOf(user[t]) \in Roles
            /\ \A x \in Roles :
                 x = RoleOf(user[t]) \/ node[t] \notin Linked(x) =>
                   /\ Linked(x)' = Linked(x)
                   /\ Len(active'[x]) + Len(dead'[x]) = Len(active[x]) + Len(dead[x])
        BY ONLY TypeInv, ListInv, <1>14, MoveKeepsLinked
      <3>2. \A x \in Roles : node[t] \in Linked(x) => x = RoleOf(ident[node[t]])
        BY DEF StoreInv, OneEach
      <3>3. QED
        BY ONLY <3>1, <3>2 DEF Size
    <2>4. QED
      BY ONLY StoreInv, <2>1, <2>2, <2>3, StoreKept
  <1>15. ASSUME NEW t \in Threads, ActivateFails(t) PROVE StoreInv'
    BY <1>15 DEF ActivateFails
  <1>16. ASSUME NEW t \in Threads, Create(t) PROVE StoreInv'
    <2> DEFINE q == RoleOf(user[t])
               m == allocated'
               u == user[t]
    <2>1. /\ UNCHANGED <<qplace, dead>> /\ InSection(t, "register") /\ node[t] = 0
          /\ StoreUser(user[t]) /\ amount' = [amount EXCEPT ![q] = amount[q] + 1]
      BY <1>16 DEF Create
    <2>2. qplace = "active" /\ user[t] \in Users
      BY <2>1 DEF OpenInv, InSection, UserCalls, CallOK
    <2>3. user[t] \notin Elements(kvUsers[RoleOf(user[t])])
      BY <2>1 DEF AbsentInv, InSection
    <2>4. /\ \A r \in Roles : Distinct(kvUsers'[r])
          /\ \A r \in Roles : \A v \in Elements(kvUsers'[r]) : RoleOf(v) = r
          /\ Elements(kvUsers'[q]) = Elements(kvUsers[q]) \cup {u}
          /\ \A r \in Roles \ {q} : kvUsers'[r] = kvUsers[r]
      BY <2>1, <2>2, <2>3, StoredList
    <2>5. /\ q \in Roles
          /\ m = allocated + 1 /\ allocated \in Nat
          /\ \A n \in 1..allocated : ident'[n] = ident[n]
          /\ ident'[m] = u
          /\ active' = [active EXCEPT ![q] = Append(active[q], m)]
          /\ Len(active'[q]) = Len(active[q]) + 1
          /\ Elements(active'[q]) = Elements(active[q]) \cup {m}
      BY <1>16, <2>2, CreateFacts
    <2>6. /\ \A x \in Roles \ {q} : active'[x] = active[x]
          /\ \A x \in Roles : Linked(x) \subseteq 1..allocated
      BY <2>5, LinkedTypes DEF TypeOK
    <2>7. RoleOf(u) = q
      OBVIOUS
    <2>8. \A x \in Roles : amount[x] \in Nat /\ Len(active[x]) \in Nat /\ Len(dead[x]) \in Nat
      BY DEF TypeOK
    <2>9. /\ amount'[q] = amount[q] + 1
          /\ \A x \in Roles \ {q} : amount'[x] = amount[x]
      BY <2>1, <2>5 DEF TypeOK
    <2> HIDE DEF q, m, u
    <2>10. /\ Elements(active'[q]) \cup Elements(dead[q]) = Linked(q) \cup {m}
           /\ \A x \in Roles \ {q} : Elements(active'[x]) \cup Elements(dead[x]) = Linked(x)
      BY ONLY <2>5, <2>6 DEF Linked
    <2>11. \A x \in Roles : Linked(x)' = IF x = q THEN Linked(x) \cup {m} ELSE Linked(x)
      BY ONLY <2>1, <2>10 DEF Linked
    <2>12. /\ m \notin 1..allocated
           /\ \A x \in Roles : \A n \in Linked(x) : ident'[n] = ident[n]
      BY ONLY <2>5, <2>6
    <2>13. /\ \A x \in Roles : \A n \in Linked(x) : /\ ident[n] \in Elements(kvUsers[x])
                                                    /\ RoleOf(ident[n]) = x
           /\ \A x \in Roles : \A v \in Elements(kvUsers[x]) : \E n \in Linked(x) : ident[n] = v
           /\ \A x \in Roles : amount[x] = Len(active[x]) + Len(dead[x])
           /\ \A x \in Roles : \A n, p \in Linked(x) : ident[n] = ident[p] => n = p
      BY ONLY StoreInv, <2>2 DEF StoreInv, OneEach, SameUsers, Size
    <2>14. u \notin Elements(kvUsers[q])
      BY <2>3 DEF u, q
    <2>15. \A x \in Roles : \A n \in Linked(x)' : RoleOf(ident'[n]) = x
      BY ONLY <2>5, <2>7, <2>11, <2>12, <2>13
    <2>16. \A x \in Roles : \A n, p \in Linked(x)' : ident'[n] = ident'[p] => n = p
      BY ONLY <2>5, <2>11, <2>12, <2>13, <2>14
    <2>17. \A x \in Roles : \A n \in Linked(x)' : ident'[n] \in Elements(kvUsers'[x])
      BY ONLY <2>4, <2>5, <2>11, <2>12, <2>13
    <2>18. ASSUME NEW x \in Roles, NEW v \in Elements(kvUsers'[x])
           PROVE  \E n \in Linked(x)' : ident'[n] = v
      BY ONLY <2>4, <2>5, <2>11, <2>12, <2>13, <2>18
    <2>19. \A x \in Roles : amount'[x] = Len(active'[x]) + Len(dead'[x])
      <3>1. \A x \in Roles \ {q} : amount'[x] = Len(active'[x]) + Len(dead'[x])
        BY ONLY <2>1, <2>6, <2>9, <2>13
      <3>2. amount'[q] = Len(active'[q]) + Len(dead'[q])
        <4> DEFINE a == Len(active[q])
                   d == Len(dead[q])
        <4>1. /\ a \in Nat /\ d \in Nat /\ amount'[q] = (a + d) + 1
              /\ Len(active'[q]) = a + 1 /\ Len(dead'[q]) = d
          BY ONLY <2>1, <2>5, <2>8, <2>9, <2>13
        <4> HIDE DEF a, d
        <4>2. QED
          BY ONLY <4>1
      <3>3. QED
        BY ONLY <3>1, <3>2
    <2>20. ASSUME NEW x \in Roles PROVE OneEach(x)'
      BY ONLY <2>4, <2>15, <2>16, x \in Roles DEF OneEach
    <2>21. ASSUME NEW x \in Roles PROVE SameUsers(x)'
      BY ONLY <2>17, <2>18, <2>19, x \in Roles DEF SameUsers, Size
    <2>22. QED
      BY ONLY <2>1, <2>2, <2>20, <2>21 DEF StoreInv
  <1>17. ASSUME NEW t \in Threads, CreateProducerFails(t) PROVE StoreInv'
    BY <1>17 DEF CreateProducerFails
  <1>18. ASSUME NEW t \in Threads, CreateConsumerFails(t) PROVE StoreInv'
    BY <1>18 DEF CreateConsumerFails
  <1>19. ASSUME NEW t \in Threads, Deactivate(t) PROVE StoreInv'
    <2>1. UNCHANGED <<kvUsers, ident, amount, qplace>> /\ InSection(t, "unregister")
      BY <1>19 DEF Deactivate, storeVars
    <2>2. qplace = "active"
      BY <2>1 DEF OpenInv, InSection, UserCalls
    <2>3. \A x \in Roles : Linked(x)' = Linked(x) /\ Size(x)' = Size(x)
      <3>1. /\ node[t] \in Linked(RoleOf(user[t])) /\ RoleOf(user[t]) \in Roles
            /\ \A x \in Roles :
                 x = RoleOf(user[t]) \/ node[t] \notin Linked(x) =>
                   /\ Linked(x)' = Linked(x)
                   /\ Len(active'[x]) + Len(dead'[x]) = Len(active[x]) + Len(dead[x])
        BY ONLY TypeInv, ListInv, <1>19, MoveKeepsLinked
      <3>2. \A x \in Roles : node[t] \in Linked(x) => x = RoleOf(ident[node[t]])
        BY DEF StoreInv, OneEach
      <3>3. QED
        BY ONLY <3>1, <3>2 DEF Size
    <2>4. QED
      BY ONLY StoreInv, <2>1, <2>2, <2>3, StoreKept
  <1>20. ASSUME NEW t \in Threads, OpenQueue(t) PROVE StoreInv'
    <2>1. /\ Load(Roles, {}) /\ qplace' = "active" /\ UNCHANGED <<kvUsers, active>>
          /\ pc[t] = "in" /\ op[t] = "open"
      BY <1>20 DEF OpenQueue, InSection
    <2>2. qplace # "active"
      BY <2>1 DEF OpenInv
    <2>3. \A r \in Roles : active'[r] = <<>> /\ dead[r] = <<>>
      BY <2>1, <2>2 DEF OpenInv, StoreInv
    <2>4. \A r \in Roles : \E b \in Nat : LoadedAt(r, b)
      <3> DEFINE none == {}
      <3>1. TypeOK /\ Roles \in SUBSET Roles /\ Load(Roles, none)
        BY <2>1
      <3> HIDE DEF none
      <3>2. \A r \in Roles :
              \/ r \in Roles /\ dead[r] = <<>> /\ \E b \in Nat : LoadedAt(r, b)
              \/ /\ ~(r \in Roles /\ dead[r] = <<>>)
                 /\ dead'[r] = dead[r]
                 /\ amount'[r] = IF r \in none THEN 0 ELSE amount[r]
        BY ONLY <3>1, LoadFacts, Zenon
      <3>3. QED
        BY ONLY <2>3, <3>2
    <2>5. ASSUME NEW r \in Roles
          PROVE  /\ Distinct(kvUsers'[r])
                 /\ \A v \in Elements(kvUsers'[r]) : RoleOf(v) = r
                 /\ \A n \in Linked(r)' : RoleOf(ident'[n]) = r
                 /\ \A m, n \in Linked(r)' : ident'[m] = ident'[n] => m = n
                 /\ \A n \in Linked(r)' : ident'[n] \in Elements(kvUsers'[r])
                 /\ \A v \in Elements(kvUsers'[r]) : \E n \in Linked(r)' : ident'[n] = v
                 /\ amount'[r] = Len(active'[r]) + Len(dead'[r])
      <3> DEFINE k == Len(kvUsers[r])
                 f == kvUsers[r]
      <3>1. PICK b \in Nat : LoadedAt(r, b)
        BY <2>4
      <3>2. f \in Seq(Users) /\ TypeOK
        BY DEF TypeOK
      <3>3. DOMAIN f = 1..k /\ k \in Nat
        BY <3>2
      <3>4. /\ Elements(dead'[r]) = {b + i : i \in 1..k} /\ Len(dead'[r]) = k
        BY <3>1, <3>2, LoadedElements
      <3>5. /\ \A i \in 1..k : ident'[b + i] = f[i]
            /\ amount'[r] = k
        BY <3>1 DEF LoadedAt
      <3>6. Linked(r)' = {b + i : i \in 1..k} /\ Len(active'[r]) = 0
        BY <2>3, <3>4, EmptyList DEF Linked
      <3>7. kvUsers'[r] = f /\ Distinct(f) /\ \A v \in Elements(f) : RoleOf(v) = r
        BY <2>1 DEF StoreInv, OneEach
      <3> HIDE DEF f, k
      <3>8. \A i \in 1..k : f[i] \in Elements(f)
        BY ONLY <3>3 DEF Elements
      <3>9. \A n \in Linked(r)' : n - b \in 1..k /\ n \in Nat /\ ident'[n] = f[n - b]
        <4>1. ASSUME NEW i \in 1..k
              PROVE  (b + i) - b = i /\ b + i \in Nat /\ ident'[b + i] = f[i]
          BY ONLY <3>3, <3>5, b \in Nat
        <4>2. QED
          BY ONLY <3>6, <4>1
      <3>10. \A m, n \in Linked(r)' : ident'[m] = ident'[n] => m = n
        <4>1. ASSUME NEW m \in Linked(r)', NEW n \in Linked(r)', ident'[m] = ident'[n]
              PROVE  m = n
          <5>1. m - b = n - b
            BY ONLY <3>3, <3>7, <3>9, <4>1 DEF Distinct
          <5>2. QED
            BY ONLY <3>9, <4>1, <5>1, b \in Nat
        <4>2. QED
          BY ONLY <4>1
      <3>11. \A v \in Elements(f) : \E n \in Linked(r)' : ident'[n] = v
        <4>1. ASSUME NEW v \in Elements(f) PROVE \E n \in Linked(r)' : ident'[n] = v
          <5>1. PICK i \in 1..k : f[i] = v
            BY ONLY <3>3, <4>1 DEF Elements
          <5>2. b + i \in Linked(r)' /\ ident'[b + i] = v
            BY ONLY <3>5, <3>6, <5>1
          <5>3. QED
            BY ONLY <5>2
        <4>2. QED
          BY ONLY <4>1
      <3>12. amount'[r] = Len(active'[r]) + Len(dead'[r])
        BY ONLY <3>3, <3>4, <3>5, <3>6
      <3>13. \A n \in Linked(r)' : ident'[n] \in Elements(f)
        BY ONLY <3>8, <3>9
      <3>14. QED
        BY ONLY <3>7, <3>10, <3>11, <3>12, <3>13
    <2>6. QED
      BY ONLY <2>1, <2>5 DEF StoreInv, OneEach, SameUsers, Size
  <1>21. ASSUME NEW t \in Threads, OpenDeadFails(t) PROVE StoreInv'
    BY <1>21 DEF OpenDeadFails
  <1>22. ASSUME NEW t \in Threads, OpenNewFails(t) PROVE StoreInv'
    BY <1>22 DEF OpenNewFails
  <1>23. ASSUME NEW t \in Threads, CloseQueue(t) PROVE StoreInv'
    <2>1. /\ qplace' = "dead" /\ kvUsers' = kvUsers
          /\ \A r \in Roles : active'[r] = <<>> /\ dead'[r] = <<>>
      BY <1>23 DEF CloseQueue, storeVars
    <2>2. \A r \in Roles : Linked(r)' = {}
      BY <2>1, EmptyList DEF Linked
    <2>3. QED
      BY ONLY StoreInv, <2>1, <2>2 DEF StoreInv, OneEach
  <1>24. ASSUME NEW t \in Threads, CloseRefused(t) PROVE StoreInv'
    BY <1>24, StoreFrame DEF CloseRefused, storeVars, treeVars
  <1>25. ASSUME NEW t \in Threads, CrashInCreate(t) PROVE StoreInv'
    <2>1. StoreUser(user[t]) /\ user[t] \in Users /\ LoseMemory
      BY <1>25 DEF CrashInCreate, InSection, CallOK, UserCalls
    <2>2. user[t] \notin Elements(kvUsers[RoleOf(user[t])])
      BY <1>25 DEF CrashInCreate, InSection, AbsentInv
    <2>3. QED
      BY <2>1, <2>2, StoredList, LoseStoreInv
  <1>26. ASSUME NEW t \in Threads, UseAfterFree(t) PROVE StoreInv'
    BY <1>26, LoseStoreInv DEF UseAfterFree, StoreInv, OneEach
  <1>27. CASE UNCHANGED vars
    BY <1>27, StoreFrame DEF vars, storeVars, treeVars
  <1>28. QED
    BY ONLY [Next]_vars, <1>1, <1>2, <1>3, <1>4, <1>5, <1>6, <1>7, <1>8, <1>9,
            <1>10, <1>11, <1>12, <1>13, <1>14, <1>15, <1>16, <1>17, <1>18,
            <1>19, <1>20, <1>21, <1>22, <1>23, <1>24, <1>25, <1>26, <1>27
       DEF Next, Call, Lookup, Section

\* Steps after which no thread has come closer to creating a user.
LEMMA AbsentKept ==
  ASSUME TypeInv, AbsentInv, NEW t \in Threads, UNCHANGED kvUsers,
         \A s \in Threads : s # t => /\ op'[s] = op[s] /\ pc'[s] = pc[s]
                                    /\ node'[s] = node[s] /\ user'[s] = user[s],
         \/ op'[t] # "register" \/ pc'[t] \notin {"lock", "in"} \/ node'[t] # 0
         \/ /\ op[t] = "register" /\ pc[t] \in {"lock", "in"} /\ node[t] = 0
            /\ user'[t] = user[t]
  PROVE  AbsentInv'
  BY DEF AbsentInv

LEMMA LoseAbsentInv ==
  ASSUME LoseMemory
  PROVE  AbsentInv'
  BY DEF LoseMemory, AbsentInv

\* What was looked up in vain stays absent until its thread creates it.
LEMMA AbsentStep ==
  ASSUME ~StoreFails, TypeInv, LockInv, OpenInv, StoreInv, AbsentInv, [Next]_vars
  PROVE  AbsentInv'
  <1> USE DEF TypeInv, TypeOK
  <1>1. CASE ContextInit
    BY <1>1 DEF ContextInit, AbsentInv, storeVars, threadVars
  <1>2. CASE ContextTerm
    BY <1>2, LoseAbsentInv DEF ContextTerm
  <1>3. CASE Crash
    BY <1>3, LoseAbsentInv DEF Crash
  <1>4. ASSUME NEW t \in Threads, CallRegister(t) PROVE AbsentInv'
    BY <1>4, AbsentKept DEF CallRegister, Goto, Begin, Free, storeVars
  <1>5. ASSUME NEW t \in Threads, CallUnregister(t) PROVE AbsentInv'
    BY <1>5, AbsentKept DEF CallUnregister, Goto, Begin, Free, storeVars
  <1>6. ASSUME NEW t \in Threads, CallOpen(t) PROVE AbsentInv'
    BY <1>6, AbsentKept DEF CallOpen, Goto, Begin, storeVars
  <1>7. ASSUME NEW t \in Threads, CallClose(t) PROVE AbsentInv'
    BY <1>7, AbsentKept DEF CallClose, Goto, Begin, storeVars
  <1>8. ASSUME NEW t \in Threads, FindActive(t) PROVE AbsentInv'
    <2>1. /\ \/ Goto(t, "unlock") /\ UNCHANGED <<op, user, node>>
             \/ Return(t)
             \/ Goto(t, "exist") /\ UNCHANGED <<op, user, node>>
             \/ /\ op[t] = "unregister" /\ Goto(t, "lock") /\ UNCHANGED <<op, user>>
                /\ \E n : node' = [node EXCEPT ![t] = n]
          /\ UNCHANGED kvUsers
      BY ONLY <1>8 DEF FindActive, storeVars
    <2>2. QED
      BY <2>1, AbsentKept DEF Return, Goto
  <1>9. ASSUME NEW t \in Threads, FindAgain(t) PROVE AbsentInv'
    <2> DEFINE n == Find(active[RoleOf(user[t])], user[t])
    <2>1. /\ node' = [node EXCEPT ![t] = n]
          /\ pc' = [pc EXCEPT ![t] = IF n # 0 THEN "lock" ELSE "dead"]
          /\ UNCHANGED <<kvUsers, op, user>>
      BY <1>9 DEF FindAgain, Goto, storeVars
    <2> HIDE DEF n
    <2>2. QED
      BY <2>1, AbsentKept
  <1>10. ASSUME NEW t \in Threads, FindDead(t) PROVE AbsentInv'
    <2> DEFINE n == Find(dead[RoleOf(user[t])], user[t])
    <2>1. /\ pc[t] = "dead" /\ op[t] = "register"
          /\ node' = [node EXCEPT ![t] = n] /\ pc' = [pc EXCEPT ![t] = "lock"]
          /\ UNCHANGED <<kvUsers, op, user>>
      BY <1>10 DEF FindDead, Goto, CallOK, storeVars
    <2>2. ASSUME n = 0 PROVE user[t] \notin Elements(kvUsers[RoleOf(user[t])])
      <3> DEFINE u == user[t]
                 r == RoleOf(user[t])
      <3>1. \A m \in Elements(dead[r]) : ident[m] # u
        BY <2>2, LookedUp
      <3>2. \A m \in Elements(active[r]) : ident[m] # u
        BY <2>1 DEF LockInv
      <3>3. qplace = "active" /\ r \in Roles
        BY <2>1, RoleOfUser DEF OpenInv, UserCalls
      <3>4. SameUsers(r)
        BY <3>3 DEF StoreInv
      <3> HIDE DEF u, r
      <3>5. u \notin Elements(kvUsers[r])
        BY ONLY <3>1, <3>2, <3>4 DEF SameUsers, Linked
      <3>6. QED
        BY <3>5 DEF u, r
    <2> HIDE DEF n
    <2>3. CASE n = 0
      BY <2>1, <2>2, <2>3 DEF AbsentInv
    <2>4. CASE n # 0
      BY <2>1, <2>4, AbsentKept
    <2>5. QED
      BY <2>3, <2>4
  <1>11. ASSUME NEW t \in Threads, FindQueue(t) PROVE AbsentInv'
    <2>1. /\ op[t] # "register"
          /\ \/ Goto(t, "unlock") /\ UNCHANGED <<op, user, node>>
             \/ Goto(t, "lock") /\ UNCHANGED <<op, user, node>>
             \/ Return(t)
          /\ UNCHANGED kvUsers
      BY <1>11 DEF FindQueue, storeVars
    <2>2. QED
      BY <2>1, AbsentKept DEF Return, Goto
  <1>12. ASSUME NEW t \in Threads, StrayUnlock(t) PROVE AbsentInv'
    BY <1>12, AbsentKept DEF StrayUnlock, Goto, Return, storeVars
  <1>13. ASSUME NEW t \in Threads, Acquire(t) PROVE AbsentInv'
    BY <1>13, AbsentKept DEF Acquire, Goto, storeVars
  <1>14. ASSUME NEW t \in Threads, Activate(t) PROVE AbsentInv'
    BY <1>14, AbsentKept DEF Activate, Goto, InSection, Unlock, Return, storeVars
  <1>15. ASSUME NEW t \in Threads, ActivateFails(t) PROVE AbsentInv'
    BY <1>15 DEF ActivateFails
  <1>16. ASSUME NEW t \in Threads, Create(t) PROVE AbsentInv'
    <2>1. Return(t) /\ StoreUser(user[t]) /\ user[t] \in Users
      BY <1>16 DEF Create, InSection, Unlock, CallOK, UserCalls
    <2>2. user[t] \notin Elements(kvUsers[RoleOf(user[t])])
      BY <1>16 DEF Create, InSection, AbsentInv
    <2>3. ASSUME NEW s \in Threads, op'[s] = "register", pc'[s] \in {"lock", "in"}, node'[s] = 0
          PROVE  user'[s] \notin Elements(kvUsers'[RoleOf(user'[s])])
      <3>1. /\ s # t /\ op[s] = "register" /\ pc[s] \in {"lock", "in"} /\ node[s] = 0
            /\ user'[s] = user[s]
        BY <2>1, <2>3 DEF Return
      <3>2. user[s] # user[t] /\ user[s] \notin Elements(kvUsers[RoleOf(user[s])])
        BY <3>1 DEF LockInv, AbsentInv, UserCalls
      <3>3. /\ Elements(kvUsers'[RoleOf(user[t])]) = Elements(kvUsers[RoleOf(user[t])]) \cup {user[t]}
            /\ \A r \in Roles \ {RoleOf(user[t])} : kvUsers'[r] = kvUsers[r]
        BY <2>1, <2>2, StoredList
      <3>4. QED
        BY <3>1, <3>2, <3>3, RoleOfUser
    <2>4. QED
      BY <2>3 DEF AbsentInv
  <1>17. ASSUME NEW t \in Threads, CreateProducerFails(t) PROVE AbsentInv'
    BY <1>17 DEF CreateProducerFails
  <1>18. ASSUME NEW t \in Threads, CreateConsumerFails(t) PROVE AbsentInv'
    BY <1>18 DEF CreateConsumerFails
  <1>19. ASSUME NEW t \in Threads, Deactivate(t) PROVE AbsentInv'
    BY <1>19, AbsentKept DEF Deactivate, Goto, InSection, Unlock, Return, storeVars
  <1>20. ASSUME NEW t \in Threads, OpenQueue(t) PROVE AbsentInv'
    BY <1>20, AbsentKept DEF OpenQueue, Goto, InSection, Unlock, Return, storeVars
  <1>21. ASSUME NEW t \in Threads, OpenDeadFails(t) PROVE AbsentInv'
    BY <1>21 DEF OpenDeadFails
  <1>22. ASSUME NEW t \in Threads, OpenNewFails(t) PROVE AbsentInv'
    BY <1>22 DEF OpenNewFails
  <1>23. ASSUME NEW t \in Threads, CloseQueue(t) PROVE AbsentInv'
    BY <1>23, AbsentKept DEF CloseQueue, Goto, InSection, Unlock, Return, storeVars
  <1>24. ASSUME NEW t \in Threads, CloseRefused(t) PROVE AbsentInv'
    BY <1>24, AbsentKept DEF CloseRefused, Goto, InSection, Unlock, Return, storeVars
  <1>25. ASSUME NEW t \in Threads, CrashInCreate(t) PROVE AbsentInv'
    BY <1>25, LoseAbsentInv DEF CrashInCreate
  <1>26. ASSUME NEW t \in Threads, UseAfterFree(t) PROVE AbsentInv'
    BY <1>26, LoseAbsentInv DEF UseAfterFree
  <1>27. CASE UNCHANGED vars
    BY <1>27 DEF vars, storeVars, threadVars, AbsentInv
  <1>28. QED
    BY ONLY [Next]_vars, <1>1, <1>2, <1>3, <1>4, <1>5, <1>6, <1>7, <1>8, <1>9,
            <1>10, <1>11, <1>12, <1>13, <1>14, <1>15, <1>16, <1>17, <1>18,
            <1>19, <1>20, <1>21, <1>22, <1>23, <1>24, <1>25, <1>26, <1>27
       DEF Next, Call, Lookup, Section

LEMMA StoreInvariant ==
  ASSUME ~Repeats, ~StoreFails, ~ClosesInUse, OneOpener
  PROVE  Spec => [](StoreInv /\ AbsentInv)
  <1>1. Init => StoreInv /\ AbsentInv
    <2> SUFFICES ASSUME Init PROVE StoreInv /\ AbsentInv
      OBVIOUS
    <2>1. \A r \in Roles : Linked(r) = {} /\ dead[r] = <<>> /\ kvUsers[r] = <<>>
      BY EmptyList DEF Init, Linked
    <2>2. \A r \in Roles : OneEach(r)
      BY <2>1, EmptyList DEF OneEach
    <2>3. qplace = "none" /\ \A t \in Threads : op[t] = "none"
      BY DEF Init
    <2>4. QED
      BY <2>1, <2>2, <2>3 DEF StoreInv, AbsentInv
  <1>2. TypeInv /\ LockInv /\ OpenInv /\ ListInv /\ (StoreInv /\ AbsentInv) /\ [Next]_vars
          => (StoreInv /\ AbsentInv)'
    BY StoreStep, AbsentStep
  <1>3. QED
    BY <1>1, <1>2, TypeInvariant, LockInvariant, OpenInvariant, ListInvariant, PTL DEF Spec

\* An application that registers a user only when it is not registered and from
\* one thread, that opens and closes queues from one thread and closes them when
\* no call is under way, never has two nodes for an identity in a role, although
\* the lookups and the change of the lists are sections of their own and the
\* process may be killed in any of them (while the store does not fail).
THEOREM IdentityStaysUnique ==
  ASSUME ~Repeats, ~StoreFails, ~ClosesInUse, OneOpener
  PROVE  Spec => []IdentityUnique
  <1>1. TypeInv /\ ListInv /\ StoreInv => IdentityUnique
    <2> SUFFICES ASSUME TypeInv, ListInv, StoreInv, NEW r \in Roles
                 PROVE  LET all == active[r] \o dead[r] IN
                        \A i, j \in DOMAIN all : ident[all[i]] = ident[all[j]] => i = j
      BY DEF IdentityUnique
    <2> DEFINE all == active[r] \o dead[r]
    <2>1. Distinct(all) /\ Elements(all) = Linked(r)
      BY AllOfRole
    <2>2. OneEach(r)
      BY DEF StoreInv
    <2> HIDE DEF all
    <2>3. \A i \in DOMAIN all : all[i] \in Linked(r)
      BY ONLY <2>1 DEF Elements
    <2>4. \A i, j \in DOMAIN all : ident[all[i]] = ident[all[j]] => i = j
      BY ONLY <2>1, <2>2, <2>3 DEF OneEach, Distinct
    <2>5. QED
      BY <2>4 DEF all
  <1>2. QED
    BY <1>1, TypeInvariant, ListInvariant, StoreInvariant, PTL

\* Two sets with at most one element each, both empty or neither.
LEMMA SameCount ==
  ASSUME NEW A, NEW B, \A i, j \in A : i = j, \A i, j \in B : i = j,
         A = {} <=> B = {}
  PROVE  Cardinality(A) = Cardinality(B)
  <1>1. CASE A = {}
    BY <1>1
  <1>2. CASE A # {}
    <2>1. PICK a \in A : TRUE
      BY <1>2
    <2>2. PICK b \in B : TRUE
      BY <1>2
    <2>3. A = {a} /\ B = {b}
      BY <2>1, <2>2
    <2>4. QED
      BY <2>3, FS_Singleton
  <1>3. QED
    BY <1>1, <1>2

\* Under the same use, while a queue is open the users in memory are exactly
\* those in the store and the amount kept beside the lists counts them, so that
\* closing and opening the queue, or a restart at any point, brings back the
\* same users.
THEOREM StoreIsMatched ==
  ASSUME ~Repeats, ~StoreFails, ~ClosesInUse, OneOpener
  PROVE  Spec => []MemoryMatchesStore
  <1>1. TypeInv /\ ListInv /\ StoreInv => MemoryMatchesStore
    <2> SUFFICES ASSUME TypeInv, ListInv, StoreInv, qplace = "active", NEW r \in Roles
                 PROVE  LET all == active[r] \o dead[r] IN
                        /\ amount[r] = Len(all)
                        /\ \A u \in Users :
                             Cardinality({i \in DOMAIN all : ident[all[i]] = u}) =
                             Cardinality({i \in DOMAIN kvUsers[r] : kvUsers[r][i] = u})
      BY DEF MemoryMatchesStore
    <2> DEFINE all == active[r] \o dead[r]
               f == kvUsers[r]
    <2>1. Distinct(all) /\ Elements(all) = Linked(r) /\ Len(all) = Size(r)
      BY AllOfRole DEF Size
    <2>2. OneEach(r) /\ SameUsers(r)
      BY DEF StoreInv
    <2>3. amount[r] = Len(all)
      BY <2>1, <2>2 DEF SameUsers
    <2>4. /\ Distinct(f) /\ \A m, n \in Linked(r) : ident[m] = ident[n] => m = n
          /\ \A n \in Linked(r) : ident[n] \in Elements(f)
          /\ \A u \in Elements(f) : \E n \in Linked(r) : ident[n] = u
      BY <2>2 DEF OneEach, SameUsers
    <2> HIDE DEF all, f
    <2>5. /\ \A i \in DOMAIN all : all[i] \in Linked(r)
          /\ \A n \in Linked(r) : \E i \in DOMAIN all : all[i] = n
      BY ONLY <2>1 DEF Elements
    <2>6. ASSUME NEW u \in Users
          PROVE  Cardinality({i \in DOMAIN all : ident[all[i]] = u}) =
                 Cardinality({i \in DOMAIN f : f[i] = u})
      <3> DEFINE A == {i \in DOMAIN all : ident[all[i]] = u}
                 B == {i \in DOMAIN f : f[i] = u}
      <3>1. \A i, j \in A : i = j
        BY ONLY <2>1, <2>4, <2>5 DEF Distinct
      <3>2. \A i, j \in B : i = j
        BY ONLY <2>4 DEF Distinct
      <3>3. ASSUME NEW i \in A PROVE B # {}
        <4>1. u \in Elements(f)
          BY ONLY <2>4, <2>5, <3>3
        <4>2. QED
          BY ONLY <4>1 DEF Elements
      <3>4. ASSUME NEW i \in B PROVE A # {}
        <4>1. u \in Elements(f)
          BY ONLY <3>4 DEF Elements
        <4>2. PICK n \in Linked(r) : ident[n] = u
          BY ONLY <2>4, <4>1
        <4>3. PICK j \in DOMAIN all : all[j] = n
          BY ONLY <2>5, <4>2
        <4>4. QED
          BY ONLY <4>2, <4>3
      <3>5. A = {} <=> B = {}
        BY <3>3, <3>4
      <3> HIDE DEF A, B
      <3>6. Cardinality(A) = Cardinality(B)
        BY ONLY <3>1, <3>2, <3>5, SameCount
      <3>7. QED
        BY <3>6 DEF A, B
    <2>7. QED
      BY <2>3, <2>6 DEF all, f
  <1>2. QED
    BY <1>1, TypeInvariant, ListInvariant, StoreInvariant, PTL

\* And no identity is stored twice, so a restart yields one user for it.
THEOREM StoredOnceOnly ==
  ASSUME ~Repeats, ~StoreFails, ~ClosesInUse, OneOpener
  PROVE  Spec => []StoredOnce
  <1>1. StoreInv => StoredOnce
    BY DEF StoreInv, OneEach, Distinct, StoredOnce
  <1>2. QED
    BY <1>1, StoreInvariant, PTL

-----------------------------------------------------------------------------
(* Slots and places in the store *)

\* Steps that add no consumer.
LEMMA PlaceKept ==
  ASSUME PlaceInv, UNCHANGED <<kvUsers, ident, slot, amount, qplace>>,
         Linked("consumer")' \subseteq Linked("consumer")
  PROVE  PlaceInv'
  BY DEF PlaceInv

LEMMA PlaceFrame ==
  ASSUME PlaceInv, UNCHANGED <<kvUsers, active, dead, ident, slot, amount, qplace>>
  PROVE  PlaceInv'
  BY DEF PlaceInv, Linked

\* A consumer is stored behind the others and takes the next slot in the same
\* section; loading numbers what is stored.
LEMMA PlaceStep ==
  ASSUME ~StoreFails, TypeInv, OpenInv, ListInv, StoreInv, PlaceInv, [Next]_vars
  PROVE  PlaceInv'
  <1> USE DEF TypeInv
  <1>1. CASE ContextInit
    BY <1>1 DEF ContextInit, QueuesLoad, PlaceInv
  <1>2. CASE ContextTerm
    BY <1>2 DEF ContextTerm, LoseMemory, PlaceInv
  <1>3. CASE Crash
    BY <1>3 DEF Crash, LoseMemory, PlaceInv
  <1>4. ASSUME NEW t \in Threads, CallRegister(t) PROVE PlaceInv'
    BY <1>4, PlaceFrame DEF CallRegister, Begin, storeVars, treeVars
  <1>5. ASSUME NEW t \in Threads, CallUnregister(t) PROVE PlaceInv'
    BY <1>5, PlaceFrame DEF CallUnregister, Begin, storeVars, treeVars
  <1>6. ASSUME NEW t \in Threads, CallOpen(t) PROVE PlaceInv'
    BY <1>6, PlaceFrame DEF CallOpen, Begin, storeVars, treeVars
  <1>7. ASSUME NEW t \in Threads, CallClose(t) PROVE PlaceInv'
    BY <1>7, PlaceFrame DEF CallClose, Begin, storeVars, treeVars
  <1>8. ASSUME NEW t \in Threads, FindActive(t) PROVE PlaceInv'
    BY <1>8, PlaceFrame DEF FindActive, storeVars, treeVars
  <1>9. ASSUME NEW t \in Threads, FindAgain(t) PROVE PlaceInv'
    BY <1>9, PlaceFrame DEF FindAgain, storeVars, treeVars
  <1>10. ASSUME NEW t \in Threads, FindDead(t) PROVE PlaceInv'
    BY <1>10, PlaceFrame DEF FindDead, storeVars, treeVars
  <1>11. ASSUME NEW t \in Threads, FindQueue(t) PROVE PlaceInv'
    BY <1>11, PlaceFrame DEF FindQueue, storeVars, treeVars
  <1>12. ASSUME NEW t \in Threads, StrayUnlock(t) PROVE PlaceInv'
    BY <1>12, PlaceFrame DEF StrayUnlock, storeVars, treeVars
  <1>13. ASSUME NEW t \in Threads, Acquire(t) PROVE PlaceInv'
    BY <1>13, PlaceFrame DEF Acquire, storeVars, treeVars
  <1>14. ASSUME NEW t \in Threads, Activate(t) PROVE PlaceInv'
    <2>1. Linked("consumer")' \subseteq Linked("consumer")
      BY <1>14, MoveKeepsLinked DEF Roles
    <2>2. UNCHANGED <<kvUsers, ident, slot, amount, qplace>>
      BY <1>14 DEF Activate, storeVars
    <2>3. QED
      BY ONLY PlaceInv, <2>1, <2>2, PlaceKept
  <1>15. ASSUME NEW t \in Threads, ActivateFails(t) PROVE PlaceInv'
    BY <1>15 DEF ActivateFails
  <1>16. ASSUME NEW t \in Threads, Create(t) PROVE PlaceInv'
    <2> DEFINE r == RoleOf(user[t])
               c == "consumer"
    <2>1. /\ dead' = dead /\ qplace' = qplace /\ user[t] \in Users
          /\ amount' = [amount EXCEPT ![r] = amount[r] + 1]
          /\ StoreUser(user[t]) /\ InSection(t, "register")
      BY <1>16 DEF Create, InSection, CallOK, UserCalls
    <2>2. qplace = "active"
      BY <2>1 DEF OpenInv, InSection, UserCalls
    <2>3. /\ Elements(active'[r]) = Elements(active[r]) \cup {allocated'}
          /\ active' = [active EXCEPT ![r] = Append(active[r], allocated')]
          /\ allocated' = allocated + 1 /\ allocated \in Nat /\ r \in Roles
          /\ \A n \in 1..allocated : ident'[n] = ident[n] /\ slot'[n] = slot[n]
          /\ ident'[allocated'] = user[t]
          /\ r = "consumer" => slot'[allocated'] = amount[r]
      BY <1>16, <2>1, CreateFacts
    <2>4. /\ kvUsers'[r] = Append(kvUsers[r], user[t])
          /\ \A x \in Roles \ {r} : kvUsers'[x] = kvUsers[x]
      BY <2>1, StoreUserTypes DEF TypeOK
    <2>5. c \in Roles /\ Linked(c) \subseteq 1..allocated
      BY LinkedTypes DEF Roles
    <2>6. /\ kvUsers[c] \in Seq(Users) /\ Len(kvUsers[c]) \in Nat /\ amount[c] \in Nat
          /\ slot \in [1..allocated -> Nat]
      BY <2>5 DEF TypeOK
    <2>7. /\ amount[c] = Len(kvUsers[c])
          /\ \A n \in Linked(c) : /\ slot[n] + 1 \in 1..Len(kvUsers[c])
                                  /\ kvUsers[c][slot[n] + 1] = ident[n]
      BY <2>2 DEF PlaceInv
    <2>8. CASE r # c
      <3>1. kvUsers'[c] = kvUsers[c] /\ amount'[c] = amount[c] /\ active'[c] = active[c]
        BY <2>1, <2>3, <2>4, <2>5, <2>8 DEF TypeOK
      <3>2. Linked(c)' = Linked(c)
        BY ONLY <2>1, <3>1 DEF Linked
      <3> HIDE DEF r, c
      <3>3. /\ amount'[c] = Len(kvUsers'[c])
            /\ \A n \in Linked(c)' : /\ slot'[n] + 1 \in 1..Len(kvUsers'[c])
                                     /\ kvUsers'[c][slot'[n] + 1] = ident'[n]
        BY ONLY <2>3, <2>5, <2>7, <3>1, <3>2
      <3>4. QED
        BY ONLY <3>3 DEF PlaceInv, c
    <2>9. CASE r = c
      <3>1. amount'[c] = amount[c] + 1 /\ kvUsers'[c] = Append(kvUsers[c], user[t])
        BY <2>1, <2>4, <2>5, <2>9 DEF TypeOK
      <3>2. Linked(c)' = Linked(c) \cup {allocated'}
        BY ONLY <2>1, <2>3, <2>9 DEF Linked
      <3> DEFINE L == kvUsers[c]
                 M == kvUsers'[c]
      <3>3. /\ Len(M) = Len(L) + 1 /\ M[Len(L) + 1] = user[t]
            /\ \A i \in 1..Len(L) : M[i] = L[i]
        BY ONLY <2>1, <2>6, <3>1
      <3> HIDE DEF r, c, L, M
      <3>4. amount'[c] = Len(M)
        BY ONLY <2>7, <3>1, <3>3 DEF L
      <3>5. ASSUME NEW n \in Linked(c)
            PROVE  slot'[n] + 1 \in 1..Len(M) /\ M[slot'[n] + 1] = ident'[n]
        <4>1. slot'[n] = slot[n] /\ ident'[n] = ident[n]
          BY ONLY <2>3, <2>5, <3>5
        <4>2. slot[n] + 1 \in 1..Len(L) /\ L[slot[n] + 1] = ident[n] /\ Len(L) \in Nat
          BY ONLY <2>6, <2>7, <3>5 DEF L
        <4>3. QED
          BY ONLY <3>3, <4>1, <4>2
      <3>6. slot'[allocated'] + 1 \in 1..Len(M) /\ M[slot'[allocated'] + 1] = ident'[allocated']
        <4>1. slot'[allocated'] = Len(L) /\ Len(L) \in Nat
          BY ONLY <2>3, <2>6, <2>7, <2>9 DEF L, c
        <4>2. QED
          BY ONLY <2>3, <3>3, <4>1
      <3>7. /\ amount'[c] = Len(kvUsers'[c])
            /\ \A n \in Linked(c)' : /\ slot'[n] + 1 \in 1..Len(kvUsers'[c])
                                     /\ kvUsers'[c][slot'[n] + 1] = ident'[n]
        BY ONLY <3>2, <3>4, <3>5, <3>6 DEF M
      <3>8. QED
        BY ONLY <3>7 DEF PlaceInv, c
    <2>10. QED
      BY ONLY <2>8, <2>9
  <1>17. ASSUME NEW t \in Threads, CreateProducerFails(t) PROVE PlaceInv'
    BY <1>17 DEF CreateProducerFails
  <1>18. ASSUME NEW t \in Threads, CreateConsumerFails(t) PROVE PlaceInv'
    BY <1>18 DEF CreateConsumerFails
  <1>19. ASSUME NEW t \in Threads, Deactivate(t) PROVE PlaceInv'
    <2>1. Linked("consumer")' \subseteq Linked("consumer")
      BY <1>19, MoveKeepsLinked DEF Roles
    <2>2. UNCHANGED <<kvUsers, ident, slot, amount, qplace>>
      BY <1>19 DEF Deactivate, storeVars
    <2>3. QED
      BY ONLY PlaceInv, <2>1, <2>2, PlaceKept
  <1>20. ASSUME NEW t \in Threads, OpenQueue(t) PROVE PlaceInv'
    <2> DEFINE c == "consumer"
    <2>1. /\ Load(Roles, {}) /\ UNCHANGED <<kvUsers, active>>
          /\ pc[t] = "in" /\ op[t] = "open" /\ c \in Roles
      BY <1>20 DEF OpenQueue, InSection, Roles
    <2>2. active'[c] = <<>> /\ dead[c] = <<>>
      BY <2>1 DEF OpenInv, StoreInv
    <2>3. PICK b \in Nat : LoadedAt(c, b)
      <3> DEFINE none == {}
      <3>1. TypeOK /\ Roles \in SUBSET Roles /\ Load(Roles, none)
        BY <2>1
      <3> HIDE DEF none
      <3>2. \A r \in Roles :
              \/ r \in Roles /\ dead[r] = <<>> /\ \E b \in Nat : LoadedAt(r, b)
              \/ /\ ~(r \in Roles /\ dead[r] = <<>>)
                 /\ dead'[r] = dead[r]
                 /\ amount'[r] = IF r \in none THEN 0 ELSE amount[r]
        BY ONLY <3>1, LoadFacts, Zenon
      <3>3. QED
        BY ONLY <2>1, <2>2, <3>2
    <2>4. TypeOK /\ Len(kvUsers[c]) \in Nat
      <3>1. TypeOK /\ kvUsers[c] \in Seq(Users)
        BY <2>1 DEF TypeOK
      <3>2. QED
        BY ONLY <3>1
    <2>5. Elements(dead'[c]) = {b + i : i \in 1..Len(kvUsers[c])}
      BY ONLY <2>1, <2>3, <2>4, LoadedElements
    <2>6. Linked(c)' = {b + i : i \in 1..Len(kvUsers[c])}
      BY <2>2, <2>5, EmptyList DEF Linked
    <2>7. /\ \A i \in 1..Len(kvUsers[c]) : slot'[b + i] = i - 1 /\ ident'[b + i] = kvUsers[c][i]
          /\ amount'[c] = Len(kvUsers[c]) /\ kvUsers' = kvUsers
      BY <2>1, <2>3 DEF LoadedAt
    <2> HIDE DEF c
    <2>8. ASSUME NEW i \in 1..Len(kvUsers[c])
          PROVE  /\ slot'[b + i] + 1 \in 1..Len(kvUsers[c])
                 /\ kvUsers[c][slot'[b + i] + 1] = ident'[b + i]
      <3>1. slot'[b + i] = i - 1 /\ (i - 1) + 1 = i
        BY ONLY <2>4, <2>7, <2>8
      <3>2. QED
        BY ONLY <2>7, <2>8, <3>1
    <2>9. /\ amount'[c] = Len(kvUsers'[c])
          /\ \A n \in Linked(c)' : /\ slot'[n] + 1 \in 1..Len(kvUsers'[c])
                                   /\ kvUsers'[c][slot'[n] + 1] = ident'[n]
      BY ONLY <2>6, <2>7, <2>8
    <2>10. QED
      BY ONLY <2>9 DEF PlaceInv, c
  <1>21. ASSUME NEW t \in Threads, OpenDeadFails(t) PROVE PlaceInv'
    BY <1>21 DEF OpenDeadFails
  <1>22. ASSUME NEW t \in Threads, OpenNewFails(t) PROVE PlaceInv'
    BY <1>22 DEF OpenNewFails
  <1>23. ASSUME NEW t \in Threads, CloseQueue(t) PROVE PlaceInv'
    BY <1>23 DEF CloseQueue, PlaceInv
  <1>24. ASSUME NEW t \in Threads, CloseRefused(t) PROVE PlaceInv'
    BY <1>24, PlaceFrame DEF CloseRefused, storeVars, treeVars
  <1>25. ASSUME NEW t \in Threads, CrashInCreate(t) PROVE PlaceInv'
    BY <1>25 DEF CrashInCreate, LoseMemory, PlaceInv
  <1>26. ASSUME NEW t \in Threads, UseAfterFree(t) PROVE PlaceInv'
    BY <1>26 DEF UseAfterFree, LoseMemory, PlaceInv
  <1>27. CASE UNCHANGED vars
    BY <1>27, PlaceFrame DEF vars, storeVars, treeVars
  <1>28. QED
    BY ONLY [Next]_vars, <1>1, <1>2, <1>3, <1>4, <1>5, <1>6, <1>7, <1>8, <1>9,
            <1>10, <1>11, <1>12, <1>13, <1>14, <1>15, <1>16, <1>17, <1>18,
            <1>19, <1>20, <1>21, <1>22, <1>23, <1>24, <1>25, <1>26, <1>27
       DEF Next, Call, Lookup, Section

\* Under the use of IdentityStaysUnique, the slot with which a consumer addresses
\* its status bits is the one it gets when its queue is closed and opened, or the
\* process is killed and started, at any point: xmq_register_as_consumer takes
\* it from consumer_amount, __consumers_load from the place in the stored list.
THEOREM SlotsSurvive ==
  ASSUME ~Repeats, ~StoreFails, ~ClosesInUse, OneOpener
  PROVE  Spec => []SlotSurvivesReload
  <1>1. Init => PlaceInv
    BY DEF Init, PlaceInv
  <1>2. TypeInv /\ OpenInv /\ ListInv /\ StoreInv /\ PlaceInv /\ [Next]_vars => PlaceInv'
    BY PlaceStep
  <1>3. TypeInv /\ PlaceInv => SlotSurvivesReload
    <2> SUFFICES ASSUME TypeInv, PlaceInv PROVE SlotSurvivesReload
      OBVIOUS
    <2>1. DOMAIN kvUsers["consumer"] = 1..Len(kvUsers["consumer"])
      BY DEF TypeInv, TypeOK, Roles
    <2>2. QED
      BY <2>1 DEF PlaceInv, SlotSurvivesReload, Linked
  <1>4. QED
    BY <1>1, <1>2, <1>3, TypeInvariant, OpenInvariant, ListInvariant, StoreInvariant, PTL
       DEF Spec

-----------------------------------------------------------------------------
(* Whoever is linked is stored *)

\* Steps that link nobody but stored users.
LEMMA DurableKept ==
  ASSUME TypeOK, DurableInv,
         \A x \in Roles : Elements(kvUsers[x]) \subseteq Elements(kvUsers'[x]),
         \A x \in Roles : \A n \in Linked(x)' :
           (n \in Linked(x) /\ ident'[n] = ident[n]) \/ ident'[n] \in Elements(kvUsers'[x]),
         \A s \in Threads : node'[s] # 0 => node'[s] = node[s] /\ user'[s] = user[s]
  PROVE  DurableInv'
  <1>1. \A x \in Roles : \A n \in Linked(x)' : ident'[n] \in Elements(kvUsers'[x])
    BY DEF DurableInv
  <1>2. \A s \in Threads : node'[s] # 0 => user'[s] \in Elements(kvUsers'[RoleOf(user'[s])])
    BY RoleOfUser DEF DurableInv
  <1>3. QED
    BY ONLY <1>1, <1>2 DEF DurableInv

\* Steps that change neither the lists nor the store.
LEMMA DurableFrame ==
  ASSUME DurableInv, UNCHANGED <<kvUsers, active, dead, ident>>,
         \A s \in Threads :
           \/ node'[s] = 0
           \/ node'[s] = node[s] /\ user'[s] = user[s]
           \/ user'[s] \in Elements(kvUsers[RoleOf(user'[s])])
  PROVE  DurableInv'
  <1>1. \A x \in Roles : Linked(x)' = Linked(x)
    BY DEF Linked
  <1>2. QED
    BY <1>1 DEF DurableInv

\* A thread whose call begins or is over holds no node, and the others keep theirs.
LEMMA HeldByOthers ==
  ASSUME TypeOK, NEW t \in Threads, Return(t) \/ \E o, u, l : Begin(t, o, u, l)
  PROVE  \A s \in Threads : node'[s] = 0 \/ (node'[s] = node[s] /\ user'[s] = user[s])
  BY DEF TypeOK, Return, Begin

LEMMA LoseDurable ==
  ASSUME LoseMemory
  PROVE  DurableInv'
  BY EmptyList DEF LoseMemory, DurableInv, Linked

\* Nothing is taken from the stored lists.
LEMMA StoreGrows ==
  ASSUME kvUsers \in [Roles -> Seq(Users)], NEW u \in Users, StoreUser(u)
  PROVE  /\ \A x \in Roles : Elements(kvUsers[x]) \subseteq Elements(kvUsers'[x])
         /\ u \in Elements(kvUsers'[RoleOf(u)])
  <1> DEFINE q == RoleOf(u)
  <1>1. /\ q \in Roles /\ kvUsers[q] \in Seq(Users)
        /\ kvUsers'[q] = Append(kvUsers[q], u)
        /\ \A x \in Roles \ {q} : kvUsers'[x] = kvUsers[x]
    BY RoleOfUser, StoreUserTypes
  <1> HIDE DEF q
  <1>2. Elements(kvUsers'[q]) = Elements(kvUsers[q]) \cup {u}
    BY ONLY <1>1, AppendFacts, u \in Users
  <1>3. (\A x \in Roles : Elements(kvUsers[x]) \subseteq Elements(kvUsers'[x]))
        /\ u \in Elements(kvUsers'[q])
    BY ONLY <1>1, <1>2
  <1>4. QED
    BY <1>3 DEF q

\* A user that a lookup finds is stored.
LEMMA FoundStored ==
  ASSUME DurableInv, NEW u, NEW n \in Linked(RoleOf(u)), ident[n] = u
  PROVE  u \in Elements(kvUsers[RoleOf(u)])
  BY RoleOfUser DEF DurableInv

\* What is loaded is what is stored.
LEMMA LoadDurable ==
  ASSUME TypeInv, DurableInv, NEW t \in Threads, UNCHANGED <<kvUsers, active>>, Return(t),
         \E rs, failed \in SUBSET Roles : Load(rs, failed)
  PROVE  DurableInv'
  <1>1. PICK rs \in SUBSET Roles, failed \in SUBSET Roles : Load(rs, failed)
    OBVIOUS
  <1>2. TypeOK /\ rs \in SUBSET Roles /\ Load(rs, failed)
    BY <1>1 DEF TypeInv
  <1>3. /\ \A n \in 1..allocated : ident'[n] = ident[n]
        /\ \A r \in Roles :
             \/ r \in rs /\ dead[r] = <<>> /\ \E b \in Nat : LoadedAt(r, b)
             \/ /\ ~(r \in rs /\ dead[r] = <<>>)
                /\ dead'[r] = dead[r]
                /\ amount'[r] = IF r \in failed THEN 0 ELSE amount[r]
    BY ONLY <1>2, LoadFacts, Zenon
  <1>4. ASSUME NEW x \in Roles, NEW n \in Linked(x)'
        PROVE  (n \in Linked(x) /\ ident'[n] = ident[n]) \/ ident'[n] \in Elements(kvUsers'[x])
    <2>1. Linked(x) \subseteq 1..allocated
      BY LinkedTypes
    <2>2. ASSUME n \in Elements(active[x]) \cup Elements(dead[x])
          PROVE  n \in Linked(x) /\ ident'[n] = ident[n]
      BY <1>3, <2>1, <2>2 DEF Linked
    <2>3. CASE dead'[x] = dead[x]
      BY <2>2, <2>3 DEF Linked
    <2>4. ASSUME NEW b \in Nat, LoadedAt(x, b), n \in Elements(dead'[x])
          PROVE  ident'[n] \in Elements(kvUsers'[x])
      <3>1. Elements(dead'[x]) = {b + i : i \in 1..Len(kvUsers[x])}
        BY ONLY <1>2, <2>4, x \in Roles, LoadedElements
      <3>2. PICK i \in 1..Len(kvUsers[x]) : n = b + i
        BY ONLY <2>4, <3>1
      <3>3. ident'[n] = kvUsers[x][i] /\ kvUsers'[x] = kvUsers[x]
        BY <2>4, <3>2 DEF LoadedAt
      <3>4. DOMAIN kvUsers[x] = 1..Len(kvUsers[x])
        BY <1>2 DEF TypeOK
      <3>5. QED
        BY ONLY <3>2, <3>3, <3>4 DEF Elements
    <2>5. QED
      BY <1>3, <2>2, <2>3, <2>4 DEF Linked
  <1>5. QED
    BY <1>2, <1>4, HeldByOthers, DurableKept

LEMMA DurableStep ==
  ASSUME TypeInv, DurableInv, [Next]_vars
  PROVE  DurableInv'
  <1> USE DEF TypeInv
  <1>1. CASE ContextInit
    BY <1>1, DurableFrame DEF ContextInit, storeVars, threadVars
  <1>2. CASE ContextTerm
    BY <1>2, LoseDurable DEF ContextTerm
  <1>3. CASE Crash
    BY <1>3, LoseDurable DEF Crash
  <1>4. ASSUME NEW t \in Threads, CallRegister(t) PROVE DurableInv'
    <2>1. (\E o, u, l : Begin(t, o, u, l)) /\ UNCHANGED <<kvUsers, active, dead, ident>>
      BY <1>4 DEF CallRegister, Begin, storeVars, treeVars
    <2>2. QED
      BY <2>1, HeldByOthers, DurableFrame
  <1>5. ASSUME NEW t \in Threads, CallUnregister(t) PROVE DurableInv'
    <2>1. (\E o, u, l : Begin(t, o, u, l)) /\ UNCHANGED <<kvUsers, active, dead, ident>>
      BY <1>5 DEF CallUnregister, Begin, storeVars, treeVars
    <2>2. QED
      BY <2>1, HeldByOthers, DurableFrame
  <1>6. ASSUME NEW t \in Threads, CallOpen(t) PROVE DurableInv'
    <2>1. (\E o, u, l : Begin(t, o, u, l)) /\ UNCHANGED <<kvUsers, active, dead, ident>>
      BY <1>6 DEF CallOpen, Begin, storeVars, treeVars
    <2>2. QED
      BY <2>1, HeldByOthers, DurableFrame
  <1>7. ASSUME NEW t \in Threads, CallClose(t) PROVE DurableInv'
    <2>1. (\E o, u, l : Begin(t, o, u, l)) /\ UNCHANGED <<kvUsers, active, dead, ident>>
      BY <1>7 DEF CallClose, Begin, storeVars, treeVars
    <2>2. QED
      BY <2>1, HeldByOthers, DurableFrame
  <1>8. ASSUME NEW t \in Threads, FindActive(t) PROVE DurableInv'
    <2> DEFINE u == user[t]
               n == Find(active[RoleOf(user[t])], user[t])
    <2>1. /\ UNCHANGED <<kvUsers, active, dead, ident>>
          /\ \/ UNCHANGED <<user, node>>
             \/ Return(t)
             \/ user' = user /\ n # 0 /\ node' = [node EXCEPT ![t] = n]
      BY ONLY <1>8 DEF FindActive, storeVars, treeVars
    <2>2. n # 0 => u \in Elements(kvUsers[RoleOf(u)])
      BY LookedUp, FoundStored DEF Linked
    <2> HIDE DEF n
    <2>3. QED
      BY <2>1, <2>2, HeldByOthers, DurableFrame DEF TypeOK
  <1>9. ASSUME NEW t \in Threads, FindAgain(t) PROVE DurableInv'
    <2> DEFINE u == user[t]
               n == Find(active[RoleOf(user[t])], user[t])
    <2>1. UNCHANGED <<kvUsers, active, dead, ident, user>> /\ node' = [node EXCEPT ![t] = n]
      BY <1>9 DEF FindAgain, storeVars, treeVars
    <2>2. n # 0 => u \in Elements(kvUsers[RoleOf(u)])
      BY LookedUp, FoundStored DEF Linked
    <2> HIDE DEF n
    <2>3. QED
      BY <2>1, <2>2, DurableFrame
  <1>10. ASSUME NEW t \in Threads, FindDead(t) PROVE DurableInv'
    <2> DEFINE u == user[t]
               n == Find(dead[RoleOf(user[t])], user[t])
    <2>1. UNCHANGED <<kvUsers, active, dead, ident, user>> /\ node' = [node EXCEPT ![t] = n]
      BY <1>10 DEF FindDead, storeVars, treeVars
    <2>2. n # 0 => u \in Elements(kvUsers[RoleOf(u)])
      BY LookedUp, FoundStored DEF Linked
    <2> HIDE DEF n
    <2>3. QED
      BY <2>1, <2>2, DurableFrame
  <1>11. ASSUME NEW t \in Threads, FindQueue(t) PROVE DurableInv'
    BY <1>11, HeldByOthers, DurableFrame DEF FindQueue, storeVars, treeVars
  <1>12. ASSUME NEW t \in Threads, StrayUnlock(t) PROVE DurableInv'
    BY <1>12, HeldByOthers, DurableFrame DEF StrayUnlock, storeVars, treeVars
  <1>13. ASSUME NEW t \in Threads, Acquire(t) PROVE DurableInv'
    BY <1>13, DurableFrame DEF Acquire, storeVars, treeVars
  <1>14. ASSUME NEW t \in Threads, Activate(t) PROVE DurableInv'
    <2> DEFINE n == node[t]
               r == RoleOf(user[t])
    <2>1. /\ UNCHANGED <<kvUsers, ident>> /\ Return(t)
          /\ n # 0 /\ r \in Roles /\ ident[n] = user[t]
      BY <1>14, RoleOfUser DEF Activate, InSection, Unlock, CallOK, storeVars
    <2>2. Moved(1..allocated, dead, active, n, r, dead', active')
      BY <1>14, <2>1, ActivateFacts
    <2>3. ident[n] \in Elements(kvUsers[r])
      BY <2>1 DEF DurableInv
    <2> HIDE DEF n, r
    <2>4. \A x \in Roles : \A m \in Linked(x)' :
            m \in Linked(x) \/ (x = r /\ m = n)
      BY ONLY <2>2 DEF Moved, Linked
    <2>5. \A x \in Roles : \A m \in Linked(x)' :
            (m \in Linked(x) /\ ident'[m] = ident[m]) \/ ident'[m] \in Elements(kvUsers'[x])
      BY ONLY <2>1, <2>3, <2>4
    <2>6. QED
      BY <2>1, <2>5, HeldByOthers, DurableKept
  <1>15. ASSUME NEW t \in Threads, ActivateFails(t) PROVE DurableInv'
    BY <1>15, HeldByOthers, DurableFrame DEF ActivateFails, Unlock, storeVars, treeVars
  <1>16. ASSUME NEW t \in Threads, Create(t) PROVE DurableInv'
    <2> DEFINE q == RoleOf(user[t])
               m == allocated'
    <2>1. /\ dead' = dead /\ StoreUser(user[t]) /\ user[t] \in Users /\ Return(t)
      BY <1>16 DEF Create, InSection, Unlock, CallOK, UserCalls
    <2>2. /\ q \in Roles
          /\ \A x \in Roles : Elements(kvUsers[x]) \subseteq Elements(kvUsers'[x])
          /\ user[t] \in Elements(kvUsers'[q])
      BY <2>1, StoreGrows, RoleOfUser DEF TypeOK
    <2>3. /\ \A n \in 1..allocated : ident'[n] = ident[n]
          /\ ident'[m] = user[t]
          /\ active' = [active EXCEPT ![q] = Append(active[q], m)]
          /\ Elements(active'[q]) = Elements(active[q]) \cup {m}
      BY <1>16, <2>1, CreateFacts
    <2>4. /\ \A x \in Roles \ {q} : active'[x] = active[x]
          /\ \A x \in Roles : Linked(x) \subseteq 1..allocated
      BY <2>3, LinkedTypes DEF TypeOK
    <2> HIDE DEF q, m
    <2>5. \A x \in Roles : \A n \in Linked(x)' : n \in Linked(x) \/ (x = q /\ n = m)
      BY ONLY <2>1, <2>3, <2>4 DEF Linked
    <2>6. \A x \in Roles : \A n \in Linked(x)' :
            (n \in Linked(x) /\ ident'[n] = ident[n]) \/ ident'[n] \in Elements(kvUsers'[x])
      BY ONLY <2>2, <2>3, <2>4, <2>5
    <2>7. QED
      BY <2>1, <2>2, <2>6, HeldByOthers, DurableKept
  <1>17. ASSUME NEW t \in Threads, CreateProducerFails(t) PROVE DurableInv'
    BY <1>17, HeldByOthers, DurableFrame DEF CreateProducerFails, storeVars, treeVars
  <1>18. ASSUME NEW t \in Threads, CreateConsumerFails(t) PROVE DurableInv'
    <2>1. /\ UNCHANGED kvUsers \/ (StoreUser(user[t]) /\ user[t] \in Users)
          /\ Return(t) /\ UNCHANGED <<active, dead, ident>>
      BY <1>18 DEF CreateConsumerFails, InSection, Unlock, CallOK, UserCalls, treeVars
    <2>2. \A x \in Roles : Elements(kvUsers[x]) \subseteq Elements(kvUsers'[x])
      BY <2>1, StoreGrows DEF TypeOK
    <2>3. \A x \in Roles : Linked(x)' = Linked(x)
      BY <2>1 DEF Linked
    <2>4. QED
      BY <2>1, <2>2, <2>3, HeldByOthers, DurableKept
  <1>19. ASSUME NEW t \in Threads, Deactivate(t) PROVE DurableInv'
    <2> DEFINE n == node[t]
               r == RoleOf(user[t])
    <2>1. /\ UNCHANGED <<kvUsers, ident>> /\ Return(t)
          /\ n # 0 /\ r \in Roles /\ ident[n] = user[t]
      BY <1>19, RoleOfUser DEF Deactivate, InSection, Unlock, CallOK, storeVars
    <2>2. Moved(1..allocated, active, dead, n, r, active', dead')
      BY <1>19, <2>1, DeactivateFacts
    <2>3. ident[n] \in Elements(kvUsers[r])
      BY <2>1 DEF DurableInv
    <2> HIDE DEF n, r
    <2>4. \A x \in Roles : \A m \in Linked(x)' :
            m \in Linked(x) \/ (x = r /\ m = n)
      BY ONLY <2>2 DEF Moved, Linked
    <2>5. \A x \in Roles : \A m \in Linked(x)' :
            (m \in Linked(x) /\ ident'[m] = ident[m]) \/ ident'[m] \in Elements(kvUsers'[x])
      BY ONLY <2>1, <2>3, <2>4
    <2>6. QED
      BY <2>1, <2>5, HeldByOthers, DurableKept
  <1>20. ASSUME NEW t \in Threads, OpenQueue(t) PROVE DurableInv'
    <2>1. /\ UNCHANGED <<kvUsers, active>> /\ Return(t)
          /\ \E rs, failed \in SUBSET Roles : Load(rs, failed)
      BY <1>20 DEF OpenQueue, Unlock, storeVars, Roles
    <2>2. QED
      BY <2>1, LoadDurable
  <1>21. ASSUME NEW t \in Threads, OpenDeadFails(t) PROVE DurableInv'
    <2>1. /\ UNCHANGED <<kvUsers, active>> /\ Return(t)
          /\ \E rs, failed \in SUBSET Roles : Load(rs, failed)
      BY <1>21 DEF OpenDeadFails, Unlock, storeVars, Roles
    <2>2. QED
      BY <2>1, LoadDurable
  <1>22. ASSUME NEW t \in Threads, OpenNewFails(t) PROVE DurableInv'
    BY <1>22, HeldByOthers, DurableFrame DEF OpenNewFails, Unlock, storeVars
  <1>23. ASSUME NEW t \in Threads, CloseQueue(t) PROVE DurableInv'
    <2>1. /\ UNCHANGED <<kvUsers, ident>> /\ Return(t)
          /\ active' = active /\ \A x \in Roles : dead'[x] = <<>>
      BY <1>23 DEF CloseQueue, Unlock, storeVars
    <2>2. \A x \in Roles : Linked(x)' \subseteq Linked(x)
      BY <2>1, EmptyList DEF Linked
    <2>3. QED
      BY <2>1, <2>2, HeldByOthers, DurableKept
  <1>24. ASSUME NEW t \in Threads, CloseRefused(t) PROVE DurableInv'
    BY <1>24, HeldByOthers, DurableFrame DEF CloseRefused, Unlock, storeVars, treeVars
  <1>25. ASSUME NEW t \in Threads, CrashInCreate(t) PROVE DurableInv'
    BY <1>25, LoseDurable DEF CrashInCreate
  <1>26. ASSUME NEW t \in Threads, UseAfterFree(t) PROVE DurableInv'
    BY <1>26, LoseDurable DEF UseAfterFree
  <1>27. CASE UNCHANGED vars
    BY <1>27, DurableFrame DEF vars, storeVars, treeVars, threadVars
  <1>28. QED
    BY ONLY [Next]_vars, <1>1, <1>2, <1>3, <1>4, <1>5, <1>6, <1>7, <1>8, <1>9,
            <1>10, <1>11, <1>12, <1>13, <1>14, <1>15, <1>16, <1>17, <1>18,
            <1>19, <1>20, <1>21, <1>22, <1>23, <1>24, <1>25, <1>26, <1>27
       DEF Next, Call, Lookup, Section

\* Whatever the store answers, however calls are repeated and overtake each other
\* and wherever the process is killed: a user that is on a list of its queue is in
\* the stored list of its role, so no register call returns a user that a restart
\* would not bring back.
THEOREM UsersAreDurable == Spec => []UsersDurable
  <1>1. Init => DurableInv
    BY EmptyList DEF Init, DurableInv, Linked
  <1>2. TypeInv /\ DurableInv /\ [Next]_vars => DurableInv'
    BY DurableStep
  <1>3. DurableInv => UsersDurable
    BY DEF DurableInv, UsersDurable, Linked
  <1>4. QED
    BY <1>1, <1>2, <1>3, TypeInvariant, PTL DEF Spec

=============================================================================
