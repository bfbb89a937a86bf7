--------------------------- MODULE Exchange_proofs ---------------------------
(***************************************************************************)
(* Proofs about Exchange, for every set of descriptors, users and groups   *)
(* and every number of connections.  What may happen (Commands, Orderly,   *)
(* Rebinds, Drops) is a hypothesis of a theorem where the theorem needs    *)
(* it.                                                                     *)
(***************************************************************************)
EXTENDS Exchange, TLAPS

-----------------------------------------------------------------------------
(* Where the threads are, and what their locals hold there *)

\* erase_client, and its part behind fdman_slot_del.
EraseSteps == {"slot", "getuid", "deluid", "delcid", "getgids", "remgid", "remcid"}
CommSteps  == EraseSteps \cup {"idle", "announce"}
WorkSteps  == EraseSteps \cup {"idle", "route", "cid", "uid", "uidsend", "gid",
                               "gidsend", "uidmap", "setuid", "gidmap", "addgid"}

\* The messages that name a connection, and all of them.
Naming   == {"client", "cid", "closed", "uidmap", "gidmap"}
MsgTypes == Naming \cup {"none", "uid", "gid"}

\* The message is well formed, and its cid is that of a connection.
MsgOK ==
  /\ msg \in [type : MsgTypes, uuid : 0..Len(home), fd : Fds \cup {NoFd},
              uid : Uids \cup {NoUid}, gids : SUBSET Gids]
  /\ msg.type \in Naming => msg.uuid \in Sessions /\ msg.fd \in Fds
                            /\ msg.fd = home[msg.uuid]
  /\ msg.type \notin Naming => msg.fd = NoFd
  /\ msg.type \in {"uid", "uidmap"} => msg.uid \in Uids
  /\ msg.type = "closed" => "closed" \in Commands

CommOK ==
  /\ pc["comm"] \in CommSteps
  /\ pc["comm"] # "idle" => fd["comm"] \in Fds
  /\ todo["comm"] \subseteq Gids
  /\ pc["comm"] \in EraseSteps => conn[fd["comm"]] = 0

\* A handler's steps belong to a message of its type.
WorkOK ==
  /\ pc["work"] \in WorkSteps
  /\ pc["work"] = "idle" => msg.type = "none"
  /\ pc["work"] = "route" => msg.type # "none"
  /\ pc["work"] = "cid" => msg.type = "cid"
  /\ pc["work"] \in {"uid", "uidsend"} => msg.type = "uid"
  /\ pc["work"] \in {"gid", "gidsend"} => msg.type = "gid"
  /\ pc["work"] \in {"uidmap", "setuid"} => msg.type = "uidmap"
  /\ pc["work"] \in {"gidmap", "addgid"} => msg.type = "gidmap"
                                            /\ todo["work"] \subseteq msg.gids
  /\ pc["work"] \in EraseSteps => /\ msg.type = "closed"
                                  /\ fd["work"] = msg.fd
                                  /\ todo["work"] \subseteq Gids
  /\ pc["work"] = "uidsend" => fd["work"] \in Fds
  /\ pc["work"] = "gidsend" => todo["work"] \subseteq Fds

\* A descriptor carries a connection that was accepted on it.
ConnOK == \A f \in Fds : conn[f] # 0 => home[conn[f]] = f

\* The inductive invariant behind type correctness: it holds whatever the
\* constants are.
LocalInv ==
  /\ TypeOK
  /\ pc \in [Threads -> CommSteps \cup WorkSteps]
  /\ MsgOK /\ CommOK /\ WorkOK /\ ConnOK

-----------------------------------------------------------------------------
(* What holds in every order of the two threads, whatever is asked of them *)

\* s is the last connection that was accepted on f.
Newest(f, s) ==
  /\ s \in Sessions /\ home[s] = f
  /\ \A r \in Sessions : home[r] = f => r <= s

\* A descriptor's connection and its slot are never behind.
NewestInv ==
  \A f \in Fds : /\ conn[f] # 0 => Newest(f, conn[f])
                 /\ slot[f].uuid # 0 => Newest(f, slot[f].uuid)

\* The user logged in on the descriptor f.
LoggedInOn(u, f) == bound[u] \in Sessions /\ home[bound[u]] = f

\* A user is mapped to the descriptor it logged in on last, but while the worker
\* is about to write the next one.
UserHomeInv ==
  /\ \A u \in Uids :
       uidCid[u] # NoFd => \/ LoggedInOn(u, uidCid[u])
                           \/ pc["work"] = "uidmap" /\ msg.uid = u
  /\ pc["work"] \in {"uidmap", "setuid"} => LoggedInOn(msg.uid, msg.fd)
  /\ pc["work"] = "uidsend" => LoggedInOn(msg.uid, fd["work"])

\* A connection on the descriptor f joined the group.
JoinedOn(g, f) == \E s \in joined[g] : s \in Sessions /\ home[s] = f

\* A group has only descriptors of connections that joined it.
GroupHomeInv ==
  /\ \A g \in Gids : \A f \in gidCid[g] : JoinedOn(g, f)
  /\ pc["work"] \in {"gidmap", "addgid"} => \A g \in msg.gids : JoinedOn(g, msg.fd)
  /\ pc["work"] = "gidsend" =>
       \A f \in todo["work"] : \E g \in msg.gids : JoinedOn(g, f)

-----------------------------------------------------------------------------
(* What holds when the exchange is used in an orderly way *)

\* The client a message names stays connected while the worker is at it.
NamedInv == msg.type \in Naming => conn[msg.fd] = msg.uuid

\* The pair of a client and a group that a thread is about to take out of, or
\* put into, the second of the two maps.
InHand(f, g) ==
  \/ \E t \in Threads : pc[t] = "remcid" /\ f = fd[t] /\ g \in gid[t]
  \/ pc["work"] = "addgid" /\ f = msg.fd /\ g \in gid["work"]

\* CID_GID and GID_CID say the same but for the pair in hand.
MirrorInv ==
  /\ \A f \in Fds, g \in Gids :
       InHand(f, g) \/ (f \in gidCid[g] <=> g \in cidGid[f])
  /\ \A t \in Threads : pc[t] = "remcid" => gid[t] \cap cidGid[fd[t]] = {}
  /\ pc["work"] = "addgid" => \A g \in gid["work"] : msg.fd \in gidCid[g]

\* The user whose login the worker has received and not yet written to CID_UID.
LoggingIn(u) ==
  msg.type = "uidmap" /\ msg.uid = u

\* A user is mapped to a client that is mapped to it, a client to one user.
UserInv ==
  /\ \A u \in Uids, f \in Fds :
       uidCid[u] = f => \/ cidUid[f] = u
                        \/ pc["work"] = "setuid" /\ LoggingIn(u) /\ msg.fd = f
  /\ \A u \in Uids, e, f \in Fds : cidUid[e] = u /\ cidUid[f] = u => e = f
  /\ msg.type = "uidmap" => /\ cidUid[msg.fd] = NoUid
                            /\ \A f \in Fds : cidUid[f] # msg.uid
  /\ \A t \in Threads :
       /\ pc[t] = "deluid" => uid[t] = cidUid[fd[t]]
       /\ pc[t] = "delcid" => \A u \in Uids : uidCid[u] # fd[t]

\* Nothing is left of a client that is gone but what its STEP_STOP is still to
\* take out.
Stopping(f, S) == pc["comm"] \in S /\ fd["comm"] = f

GoneInv ==
  \A f \in Fds : conn[f] = 0 =>
    /\ \/ cidUid[f] = NoUid
       \/ Stopping(f, {"slot", "getuid", "deluid", "delcid"})
    /\ \/ \A u \in Uids : uidCid[u] # f
       \/ Stopping(f, {"slot", "getuid", "deluid"})
    /\ \/ cidGid[f] = {}
       \/ Stopping(f, {"slot", "getuid", "deluid", "delcid", "getgids"})
       \/ Stopping(f, {"remgid", "remcid"}) /\ cidGid[f] \subseteq todo["comm"]

\* A user's and a group's descriptors carry connections the application put
\* there, or none.
UserAddressInv ==
  /\ \A u \in Uids : uidCid[u] # NoFd => conn[uidCid[u]] \in {bound[u], 0}
  /\ pc["work"] \in {"uidmap", "setuid"} => bound[msg.uid] = msg.uuid
  /\ pc["work"] = "uidsend" => conn[fd["work"]] \in {bound[msg.uid], 0}

GroupAddressInv ==
  /\ \A g \in Gids : \A f \in gidCid[g] : conn[f] \in joined[g] \cup {0}
  /\ pc["work"] \in {"gidmap", "addgid"} =>
       \A g \in msg.gids : msg.uuid \in joined[g]
  /\ pc["work"] = "gidsend" =>
       \A f \in todo["work"] : conn[f] = 0 \/ \E g \in msg.gids : conn[f] \in joined[g]

\* A connected user is mapped to its connection once the worker has written it.
ReachInv ==
  \A u \in Uids :
    bound[u] # 0 /\ conn[home[bound[u]]] = bound[u]
      => \/ uidCid[u] = home[bound[u]]
         \/ LoggingIn(u) /\ pc["work"] = "uidmap"

-----------------------------------------------------------------------------
(* Type correctness *)

LEMMA LocalInit == Init => LocalInv
  <1> SUFFICES ASSUME Init PROVE LocalInv
    OBVIOUS
  <1> USE ExchangeConstants DEF Init, Threads, Sessions, NoMsg
  <1>1. TypeOK
    <2>1. home \in Seq(Fds) /\ Len(home) = 0
      OBVIOUS
    <2>2. QED
      <3>1. slot \in [Fds -> [status : {0, 1}, uuid : 0..Len(home)]]
        BY <2>1 DEF Cleared
      <3>2. known \subseteq 1..Len(home) /\ conn \in [Fds -> 0..Len(home)]
            /\ bound \in [Uids -> 0..Len(home)]
            /\ joined \in [Gids -> SUBSET (1..Len(home))]
        BY <2>1
      <3>3. QED
        BY <2>1, <3>1, <3>2 DEF TypeOK, Gateways
  <1>2. pc \in [Threads -> CommSteps \cup WorkSteps] /\ CommOK /\ WorkOK /\ ConnOK
    BY DEF CommOK, WorkOK, ConnOK, EraseSteps, CommSteps, WorkSteps, Naming, MsgTypes
  <1>3. MsgOK
    BY DEF MsgOK, EraseSteps, CommSteps, WorkSteps, Naming, MsgTypes
  <1>4. QED
    BY ONLY <1>1, <1>2, <1>3 DEF LocalInv

LEMMA AcceptLocal ==
  ASSUME LocalInv, NEW f \in Fds, Accept(f)
  PROVE  LocalInv'
  <1> USE ExchangeConstants
      DEF LocalInv, TypeOK, MsgOK, CommOK, WorkOK, ConnOK, Threads, Sessions,
          Accept,
          connVars, mapVars, locals, histVars, At, Goto
  <1>1. TypeOK'
    <2>1. home' \in Seq(Fds) /\ Len(home') = Len(home) + 1 /\ Len(home) \in Nat
      OBVIOUS
    <2>2. /\ 0..Len(home) \subseteq 0..Len(home')
          /\ 1..Len(home) \subseteq 1..Len(home')
          /\ Len(home') \in 0..Len(home')
      BY ONLY <2>1
    <2>3. conn' \in [Fds -> 0..Len(home')]
      BY <2>1, <2>2
    <2>4. slot' \in [Fds -> [status : {0, 1}, uuid : 0..Len(home')]]
      BY <2>1, <2>2
    <2>5. /\ known' \subseteq 1..Len(home')
          /\ bound' \in [Uids -> 0..Len(home')]
          /\ joined' \in [Gids -> SUBSET (1..Len(home'))]
      BY <2>2
    <2>6. fd' \in [Threads -> Fds \cup {NoFd}]
      OBVIOUS
    <2>7. QED
      BY <2>1, <2>3, <2>4, <2>5, <2>6
  <1>2. pc' \in [Threads -> CommSteps \cup WorkSteps]
    BY DEF EraseSteps, CommSteps, WorkSteps, Naming, MsgTypes
  <1>3. MsgOK'
    BY DEF EraseSteps, CommSteps, WorkSteps, Naming, MsgTypes
  <1>4. CommOK'
    BY DEF EraseSteps, CommSteps, WorkSteps, Naming, MsgTypes
  <1>5. WorkOK'
    BY DEF EraseSteps, CommSteps, WorkSteps, Naming, MsgTypes
  <1>6. ConnOK'
    OBVIOUS
  <1>7. QED
    BY ONLY <1>1, <1>2, <1>3, <1>4, <1>5, <1>6 DEF LocalInv

LEMMA StopLocal ==
  ASSUME LocalInv, NEW f \in Fds, Stop(f)
  PROVE  LocalInv'
  <1> USE ExchangeConstants
      DEF LocalInv, TypeOK, MsgOK, CommOK, WorkOK, ConnOK, Threads, Sessions,
          Stop,
          connVars, mapVars, locals, histVars, At, Goto
  <1>1. TypeOK'
    <2>1. conn' \in [Fds -> 0..Len(home)] /\ closing' \subseteq Fds
      OBVIOUS
    <2>2. fd' \in [Threads -> Fds \cup {NoFd}]
      OBVIOUS
    <2>3. QED
      BY <2>1, <2>2
  <1>2. pc' \in [Threads -> CommSteps \cup WorkSteps]
    BY DEF EraseSteps, CommSteps, WorkSteps, Naming, MsgTypes
  <1>3. MsgOK'
    BY DEF EraseSteps, CommSteps, WorkSteps, Naming, MsgTypes
  <1>4. CommOK'
    BY DEF EraseSteps, CommSteps, WorkSteps, Naming, MsgTypes
  <1>5. WorkOK'
    BY DEF EraseSteps, CommSteps, WorkSteps, Naming, MsgTypes
  <1>6. ConnOK'
    OBVIOUS
  <1>7. QED
    BY ONLY <1>1, <1>2, <1>3, <1>4, <1>5, <1>6 DEF LocalInv

LEMMA RecvClientLocal ==
  ASSUME LocalInv, NEW f \in Fds, RecvClient(f)
  PROVE  LocalInv'
  <1> USE ExchangeConstants
      DEF LocalInv, TypeOK, MsgOK, CommOK, WorkOK, ConnOK, Threads, Sessions,
          RecvClient, NoMsg,
          connVars, mapVars, locals, histVars, At, Goto
  <1>1. TypeOK'
    BY DEF EraseSteps, CommSteps, WorkSteps, Naming, MsgTypes
  <1>2. pc' \in [Threads -> CommSteps \cup WorkSteps]
    BY DEF EraseSteps, CommSteps, WorkSteps, Naming, MsgTypes
  <1>3. MsgOK'
    <2>1. conn[f] \in Sessions /\ home[conn[f]] = f
      OBVIOUS
    <2>2. QED
      BY <2>1 DEF EraseSteps, CommSteps, WorkSteps, Naming, MsgTypes
  <1>4. CommOK'
    BY DEF EraseSteps, CommSteps, WorkSteps, Naming, MsgTypes
  <1>5. WorkOK'
    BY DEF EraseSteps, CommSteps, WorkSteps, Naming, MsgTypes
  <1>6. ConnOK'
    OBVIOUS
  <1>7. QED
    BY ONLY <1>1, <1>2, <1>3, <1>4, <1>5, <1>6 DEF LocalInv

LEMMA GatewayStopLocal ==
  ASSUME LocalInv, NEW g \in Gateways, GatewayStop(g)
  PROVE  LocalInv'
  <1> USE ExchangeConstants
      DEF LocalInv, TypeOK, MsgOK, CommOK, WorkOK, ConnOK, Threads, Sessions,
          GatewayStop,
          connVars, mapVars, locals, histVars, At, Goto
  <1>1. TypeOK'
    BY DEF EraseSteps, CommSteps, WorkSteps, Naming, MsgTypes
  <1>2. pc' \in [Threads -> CommSteps \cup WorkSteps]
    BY DEF EraseSteps, CommSteps, WorkSteps, Naming, MsgTypes
  <1>3. MsgOK'
    BY DEF EraseSteps, CommSteps, WorkSteps, Naming, MsgTypes
  <1>4. CommOK'
    BY DEF EraseSteps, CommSteps, WorkSteps, Naming, MsgTypes
  <1>5. WorkOK'
    BY DEF EraseSteps, CommSteps, WorkSteps, Naming, MsgTypes
  <1>6. ConnOK'
    OBVIOUS
  <1>7. QED
    BY ONLY <1>1, <1>2, <1>3, <1>4, <1>5, <1>6 DEF LocalInv

\* What exc_message_dispatch receives from a gateway, field by field.
LEMMA RecvGatewayCases ==
  ASSUME RecvGateway
  PROVE  \/ \E s \in Sessions, c \in Commands \cap {"cid", "closed"} :
              /\ Nameable(s)
              /\ msg' = [type |-> c, uuid |-> s, fd |-> home[s], uid |-> NoUid,
                         gids |-> {}]
         \/ \E s \in Sessions, u \in Uids :
              /\ Nameable(s) /\ MayBind(u, s)
              /\ msg' = [type |-> "uidmap", uuid |-> s, fd |-> home[s], uid |-> u,
                         gids |-> {}]
         \/ \E s \in Sessions, gs \in SUBSET Gids :
              /\ Nameable(s)
              /\ msg' = [type |-> "gidmap", uuid |-> s, fd |-> home[s], uid |-> NoUid,
                         gids |-> gs]
         \/ \E u \in Uids :
              msg' = [type |-> "uid", uuid |-> 0, fd |-> NoFd, uid |-> u, gids |-> {}]
         \/ \E g \in Gids :
              msg' = [type |-> "gid", uuid |-> 0, fd |-> NoFd, uid |-> NoUid,
                      gids |-> {g}]
  BY ZenonT(60) DEF RecvGateway, NoMsg

LEMMA RecvGatewayFrame ==
  ASSUME RecvGateway
  PROVE  /\ At("work", "idle")
         /\ pc' = [pc EXCEPT !["work"] = "route"]
         /\ out' = Nothing
         /\ UNCHANGED <<connVars, mapVars, locals, histVars>>
  BY DEF RecvGateway, Goto

LEMMA RecvGatewayLocal ==
  ASSUME LocalInv, RecvGateway
  PROVE  LocalInv'
  <1> USE ExchangeConstants
      DEF LocalInv, TypeOK, CommOK, WorkOK, ConnOK, Threads, Sessions,
          connVars, mapVars, locals, histVars, At
  <1>1. /\ UNCHANGED <<connVars, mapVars, locals, histVars>>
        /\ pc["work"] = "idle"
        /\ pc' = [pc EXCEPT !["work"] = "route"]
    BY RecvGatewayFrame
  <1>2. Len(home) \in Nat /\ \A s \in Sessions : home[s] \in Fds /\ s \in 0..Len(home)
    OBVIOUS
  <1>3. MsgOK' /\ msg'.type # "none"
    BY ONLY <1>1, <1>2, RecvGatewayCases, RecvGateway
       DEF MsgOK, connVars, Sessions, Naming, MsgTypes
  <1>4. TypeOK'
    BY <1>1
  <1>5. pc' \in [Threads -> CommSteps \cup WorkSteps] /\ CommOK' /\ WorkOK' /\ ConnOK'
    BY <1>1, <1>3 DEF EraseSteps, CommSteps, WorkSteps, Naming, MsgTypes
  <1>6. QED
    BY ONLY <1>3, <1>4, <1>5 DEF LocalInv

LEMMA AnnounceLocal ==
  ASSUME LocalInv, Announce
  PROVE  LocalInv'
  <1> USE ExchangeConstants
      DEF LocalInv, TypeOK, MsgOK, CommOK, WorkOK, ConnOK, Threads, Sessions,
          Announce, SendStatus, Send, Done,
          connVars, mapVars, locals, histVars, At, Goto
  <1>1. TypeOK'
    <2>1. slot[fd["comm"]].uuid \in 0..Len(home)
      BY DEF EraseSteps, CommSteps, WorkSteps, Naming, MsgTypes
    <2>2. known' \subseteq known \cup ({slot[fd["comm"]].uuid} \ {0}) /\ home' = home
      OBVIOUS
    <2>3. Len(home) \in Nat
      OBVIOUS
    <2>4. known' \subseteq Sessions'
      BY ONLY <2>1, <2>2, <2>3, known \subseteq Sessions DEF Sessions
    <2>5. QED
      BY <2>4
  <1>2. pc' \in [Threads -> CommSteps \cup WorkSteps]
    BY DEF EraseSteps, CommSteps, WorkSteps, Naming, MsgTypes
  <1>3. MsgOK'
    BY DEF EraseSteps, CommSteps, WorkSteps, Naming, MsgTypes
  <1>4. CommOK'
    BY DEF EraseSteps, CommSteps, WorkSteps, Naming, MsgTypes
  <1>5. WorkOK'
    BY DEF EraseSteps, CommSteps, WorkSteps, Naming, MsgTypes
  <1>6. ConnOK'
    OBVIOUS
  <1>7. QED
    BY ONLY <1>1, <1>2, <1>3, <1>4, <1>5, <1>6 DEF LocalInv

LEMMA ReportStopLocal ==
  ASSUME LocalInv, ReportStop
  PROVE  LocalInv'
  <1> USE ExchangeConstants
      DEF LocalInv, TypeOK, MsgOK, CommOK, WorkOK, ConnOK, Threads, Sessions,
          ReportStop, SendStatus, Send, Done,
          connVars, mapVars, locals, histVars, At, Goto
  <1>1. TypeOK'
    <2>1. slot[fd["comm"]].uuid \in 0..Len(home)
      BY DEF EraseSteps, CommSteps, WorkSteps, Naming, MsgTypes
    <2>2. known' \subseteq known \cup ({slot[fd["comm"]].uuid} \ {0}) /\ home' = home
      OBVIOUS
    <2>3. Len(home) \in Nat
      OBVIOUS
    <2>4. known' \subseteq Sessions'
      BY ONLY <2>1, <2>2, <2>3, known \subseteq Sessions DEF Sessions
    <2>5. QED
      BY <2>4
  <1>2. pc' \in [Threads -> CommSteps \cup WorkSteps]
    BY DEF EraseSteps, CommSteps, WorkSteps, Naming, MsgTypes
  <1>3. MsgOK'
    BY DEF EraseSteps, CommSteps, WorkSteps, Naming, MsgTypes
  <1>4. CommOK'
    BY DEF EraseSteps, CommSteps, WorkSteps, Naming, MsgTypes
  <1>5. WorkOK'
    BY DEF EraseSteps, CommSteps, WorkSteps, Naming, MsgTypes
  <1>6. ConnOK'
    OBVIOUS
  <1>7. QED
    BY ONLY <1>1, <1>2, <1>3, <1>4, <1>5, <1>6 DEF LocalInv

LEMMA CloseErasedLocal ==
  ASSUME LocalInv, CloseErased
  PROVE  LocalInv'
  <1> USE ExchangeConstants
      DEF LocalInv, TypeOK, MsgOK, CommOK, WorkOK, ConnOK, Threads, Sessions,
          CloseErased, Done, NoMsg,
          connVars, mapVars, locals, histVars, At, Goto
  <1>1. TypeOK'
    <2>1. fd["work"] \in Fds
      BY DEF EraseSteps, CommSteps, WorkSteps, Naming, MsgTypes
    <2>2. closing' \subseteq Fds
      BY <2>1
    <2>3. QED
      BY <2>2
  <1>2. pc' \in [Threads -> CommSteps \cup WorkSteps]
    BY DEF EraseSteps, CommSteps, WorkSteps, Naming, MsgTypes
  <1>3. MsgOK'
    BY DEF EraseSteps, CommSteps, WorkSteps, Naming, MsgTypes
  <1>4. CommOK'
    BY DEF EraseSteps, CommSteps, WorkSteps, Naming, MsgTypes
  <1>5. WorkOK'
    BY DEF EraseSteps, CommSteps, WorkSteps, Naming, MsgTypes
  <1>6. ConnOK'
    OBVIOUS
  <1>7. QED
    BY ONLY <1>1, <1>2, <1>3, <1>4, <1>5, <1>6 DEF LocalInv

LEMMA UpstreamLocal ==
  ASSUME LocalInv, Upstream
  PROVE  LocalInv'
  <1> USE ExchangeConstants
      DEF LocalInv, TypeOK, MsgOK, CommOK, WorkOK, ConnOK, Threads, Sessions,
          Upstream, Send, Done, NoMsg, Cleared,
          connVars, mapVars, locals, histVars, At, Goto
  <1>1. TypeOK'
    <2>1. msg.type = "client" => slot[msg.fd].uuid \in 0..Len(home)
      BY DEF EraseSteps, CommSteps, WorkSteps, Naming, MsgTypes
    <2>2. known' \subseteq known \cup ((IF msg.type = "client" THEN {slot[msg.fd].uuid} ELSE {}) \ {0}) /\ home' = home
      OBVIOUS
    <2>3. Len(home) \in Nat
      OBVIOUS
    <2>4. known' \subseteq Sessions'
      BY ONLY <2>1, <2>2, <2>3, known \subseteq Sessions DEF Sessions
    <2>5. QED
      BY <2>4
  <1>2. pc' \in [Threads -> CommSteps \cup WorkSteps]
    BY DEF EraseSteps, CommSteps, WorkSteps, Naming, MsgTypes
  <1>3. MsgOK'
    BY DEF EraseSteps, CommSteps, WorkSteps, Naming, MsgTypes
  <1>4. CommOK'
    BY DEF EraseSteps, CommSteps, WorkSteps, Naming, MsgTypes
  <1>5. WorkOK'
    BY DEF EraseSteps, CommSteps, WorkSteps, Naming, MsgTypes
  <1>6. ConnOK'
    OBVIOUS
  <1>7. QED
    BY ONLY <1>1, <1>2, <1>3, <1>4, <1>5, <1>6 DEF LocalInv

LEMMA RouteLocal ==
  ASSUME LocalInv, Route
  PROVE  LocalInv'
  <1> USE ExchangeConstants
      DEF LocalInv, TypeOK, MsgOK, CommOK, WorkOK, ConnOK, Threads, Sessions,
          Route, TakenForClient, FromGateway, StreamCommands, ManageCommands,
          connVars, mapVars, locals, histVars, At, Goto
  <1>1. TypeOK'
    <2>1. msg.type = "uidmap" => msg.uuid \in 0..Len(home)
      BY DEF Naming
    <2>2. bound' \in [Uids -> 0..Len(home')]
      BY <2>1
    <2>3. msg.type = "gidmap" => msg.uuid \in Sessions
      BY DEF Naming
    <2>4. joined' \in [Gids -> SUBSET Sessions']
      BY <2>3
    <2>5. QED
      BY <2>2, <2>4 DEF EraseSteps, CommSteps, WorkSteps, Naming, MsgTypes
  <1>2. pc' \in [Threads -> CommSteps \cup WorkSteps]
    BY DEF EraseSteps, CommSteps, WorkSteps, Naming, MsgTypes
  <1>3. MsgOK'
    BY DEF EraseSteps, CommSteps, WorkSteps, Naming, MsgTypes
  <1>4. CommOK'
    BY DEF EraseSteps, CommSteps, WorkSteps, Naming, MsgTypes
  <1>5. WorkOK'
    BY DEF EraseSteps, CommSteps, WorkSteps, Naming, MsgTypes
  <1>6. ConnOK'
    OBVIOUS
  <1>7. QED
    BY ONLY <1>1, <1>2, <1>3, <1>4, <1>5, <1>6 DEF LocalInv

LEMMA HandleCidLocal ==
  ASSUME LocalInv, HandleCid
  PROVE  LocalInv'
  <1> USE ExchangeConstants
      DEF LocalInv, TypeOK, MsgOK, CommOK, WorkOK, ConnOK, Threads, Sessions,
          HandleCid, Send, Done, NoMsg,
          connVars, mapVars, locals, histVars, At, Goto
  <1>1. TypeOK'
    BY DEF EraseSteps, CommSteps, WorkSteps, Naming, MsgTypes
  <1>2. pc' \in [Threads -> CommSteps \cup WorkSteps]
    BY DEF EraseSteps, CommSteps, WorkSteps, Naming, MsgTypes
  <1>3. MsgOK'
    BY DEF EraseSteps, CommSteps, WorkSteps, Naming, MsgTypes
  <1>4. CommOK'
    BY DEF EraseSteps, CommSteps, WorkSteps, Naming, MsgTypes
  <1>5. WorkOK'
    BY DEF EraseSteps, CommSteps, WorkSteps, Naming, MsgTypes
  <1>6. ConnOK'
    OBVIOUS
  <1>7. QED
    BY ONLY <1>1, <1>2, <1>3, <1>4, <1>5, <1>6 DEF LocalInv

LEMMA LookupUidLocal ==
  ASSUME LocalInv, LookupUid
  PROVE  LocalInv'
  <1> USE ExchangeConstants
      DEF LocalInv, TypeOK, MsgOK, CommOK, WorkOK, ConnOK, Threads, Sessions,
          LookupUid, Done, NoMsg,
          connVars, mapVars, locals, histVars, At, Goto
  <1>1. TypeOK'
    <2>1. uidCid[msg.uid] \in Fds \cup {NoFd}
      OBVIOUS
    <2>2. fd' \in [Threads -> Fds \cup {NoFd}]
      BY <2>1
    <2>3. /\ uid' \in [Threads -> Uids \cup {NoUid}]
          /\ gid' \in [Threads -> SUBSET Gids]
          /\ todo' \in [Threads -> SUBSET (Gids \cup Fds)]
      OBVIOUS
    <2>4. QED
      BY <2>2, <2>3
  <1>2. pc' \in [Threads -> CommSteps \cup WorkSteps]
    BY DEF EraseSteps, CommSteps, WorkSteps, Naming, MsgTypes
  <1>3. MsgOK'
    BY DEF EraseSteps, CommSteps, WorkSteps, Naming, MsgTypes
  <1>4. CommOK'
    BY DEF EraseSteps, CommSteps, WorkSteps, Naming, MsgTypes
  <1>5. WorkOK'
    BY DEF EraseSteps, CommSteps, WorkSteps, Naming, MsgTypes
  <1>6. ConnOK'
    OBVIOUS
  <1>7. QED
    BY ONLY <1>1, <1>2, <1>3, <1>4, <1>5, <1>6 DEF LocalInv

LEMMA SendUidLocal ==
  ASSUME LocalInv, SendUid
  PROVE  LocalInv'
  <1> USE ExchangeConstants
      DEF LocalInv, TypeOK, MsgOK, CommOK, WorkOK, ConnOK, Threads, Sessions,
          SendUid, Send, Done, NoMsg,
          connVars, mapVars, locals, histVars, At, Goto
  <1>1. TypeOK'
    BY DEF EraseSteps, CommSteps, WorkSteps, Naming, MsgTypes
  <1>2. pc' \in [Threads -> CommSteps \cup WorkSteps]
    BY DEF EraseSteps, CommSteps, WorkSteps, Naming, MsgTypes
  <1>3. MsgOK'
    BY DEF EraseSteps, CommSteps, WorkSteps, Naming, MsgTypes
  <1>4. CommOK'
    BY DEF EraseSteps, CommSteps, WorkSteps, Naming, MsgTypes
  <1>5. WorkOK'
    BY DEF EraseSteps, CommSteps, WorkSteps, Naming, MsgTypes
  <1>6. ConnOK'
    OBVIOUS
  <1>7. QED
    BY ONLY <1>1, <1>2, <1>3, <1>4, <1>5, <1>6 DEF LocalInv

LEMMA LookupGidLocal ==
  ASSUME LocalInv, LookupGid
  PROVE  LocalInv'
  <1> USE ExchangeConstants
      DEF LocalInv, TypeOK, MsgOK, CommOK, WorkOK, ConnOK, Threads, Sessions,
          LookupGid,
          connVars, mapVars, locals, histVars, At, Goto
  <1>1. TypeOK'
    BY DEF EraseSteps, CommSteps, WorkSteps, Naming, MsgTypes
  <1>2. pc' \in [Threads -> CommSteps \cup WorkSteps]
    BY DEF EraseSteps, CommSteps, WorkSteps, Naming, MsgTypes
  <1>3. MsgOK'
    BY DEF EraseSteps, CommSteps, WorkSteps, Naming, MsgTypes
  <1>4. CommOK'
    BY DEF EraseSteps, CommSteps, WorkSteps, Naming, MsgTypes
  <1>5. WorkOK'
    BY DEF EraseSteps, CommSteps, WorkSteps, Naming, MsgTypes
  <1>6. ConnOK'
    OBVIOUS
  <1>7. QED
    BY ONLY <1>1, <1>2, <1>3, <1>4, <1>5, <1>6 DEF LocalInv

LEMMA SendGidLocal ==
  ASSUME LocalInv, SendGid
  PROVE  LocalInv'
  <1> USE ExchangeConstants
      DEF LocalInv, TypeOK, MsgOK, CommOK, WorkOK, ConnOK, Threads, Sessions,
          SendGid, Send,
          connVars, mapVars, locals, histVars, At, Goto
  <1>1. TypeOK'
    BY DEF EraseSteps, CommSteps, WorkSteps, Naming, MsgTypes
  <1>2. pc' \in [Threads -> CommSteps \cup WorkSteps]
    BY DEF EraseSteps, CommSteps, WorkSteps, Naming, MsgTypes
  <1>3. MsgOK'
    BY DEF EraseSteps, CommSteps, WorkSteps, Naming, MsgTypes
  <1>4. CommOK'
    BY DEF EraseSteps, CommSteps, WorkSteps, Naming, MsgTypes
  <1>5. WorkOK'
    BY DEF EraseSteps, CommSteps, WorkSteps, Naming, MsgTypes
  <1>6. ConnOK'
    OBVIOUS
  <1>7. QED
    BY ONLY <1>1, <1>2, <1>3, <1>4, <1>5, <1>6 DEF LocalInv

LEMMA SetCidLocal ==
  ASSUME LocalInv, SetCid
  PROVE  LocalInv'
  <1> USE ExchangeConstants
      DEF LocalInv, TypeOK, MsgOK, CommOK, WorkOK, ConnOK, Threads, Sessions,
          SetCid,
          connVars, mapVars, locals, histVars, At, Goto
  <1>1. TypeOK'
    BY DEF EraseSteps, CommSteps, WorkSteps, Naming, MsgTypes
  <1>2. pc' \in [Threads -> CommSteps \cup WorkSteps]
    BY DEF EraseSteps, CommSteps, WorkSteps, Naming, MsgTypes
  <1>3. MsgOK'
    BY DEF EraseSteps, CommSteps, WorkSteps, Naming, MsgTypes
  <1>4. CommOK'
    BY DEF EraseSteps, CommSteps, WorkSteps, Naming, MsgTypes
  <1>5. WorkOK'
    BY DEF EraseSteps, CommSteps, WorkSteps, Naming, MsgTypes
  <1>6. ConnOK'
    OBVIOUS
  <1>7. QED
    BY ONLY <1>1, <1>2, <1>3, <1>4, <1>5, <1>6 DEF LocalInv

LEMMA SetUidLocal ==
  ASSUME LocalInv, SetUid
  PROVE  LocalInv'
  <1> USE ExchangeConstants
      DEF LocalInv, TypeOK, MsgOK, CommOK, WorkOK, ConnOK, Threads, Sessions,
          SetUid, Done, NoMsg,
          connVars, mapVars, locals, histVars, At, Goto
  <1>1. TypeOK'
    BY DEF EraseSteps, CommSteps, WorkSteps, Naming, MsgTypes
  <1>2. pc' \in [Threads -> CommSteps \cup WorkSteps]
    BY DEF EraseSteps, CommSteps, WorkSteps, Naming, MsgTypes
  <1>3. MsgOK'
    BY DEF EraseSteps, CommSteps, WorkSteps, Naming, MsgTypes
  <1>4. CommOK'
    BY DEF EraseSteps, CommSteps, WorkSteps, Naming, MsgTypes
  <1>5. WorkOK'
    BY DEF EraseSteps, CommSteps, WorkSteps, Naming, MsgTypes
  <1>6. ConnOK'
    OBVIOUS
  <1>7. QED
    BY ONLY <1>1, <1>2, <1>3, <1>4, <1>5, <1>6 DEF LocalInv

LEMMA AddCidLocal ==
  ASSUME LocalInv, AddCid
  PROVE  LocalInv'
  <1> USE ExchangeConstants
      DEF LocalInv, TypeOK, MsgOK, CommOK, WorkOK, ConnOK, Threads, Sessions,
          AddCid,
          connVars, mapVars, locals, histVars, At, Goto
  <1>1. TypeOK'
    BY DEF EraseSteps, CommSteps, WorkSteps, Naming, MsgTypes
  <1>2. pc' \in [Threads -> CommSteps \cup WorkSteps]
    BY DEF EraseSteps, CommSteps, WorkSteps, Naming, MsgTypes
  <1>3. MsgOK'
    BY DEF EraseSteps, CommSteps, WorkSteps, Naming, MsgTypes
  <1>4. CommOK'
    BY DEF EraseSteps, CommSteps, WorkSteps, Naming, MsgTypes
  <1>5. WorkOK'
    BY DEF EraseSteps, CommSteps, WorkSteps, Naming, MsgTypes
  <1>6. ConnOK'
    OBVIOUS
  <1>7. QED
    BY ONLY <1>1, <1>2, <1>3, <1>4, <1>5, <1>6 DEF LocalInv

LEMMA AddGidLocal ==
  ASSUME LocalInv, AddGid
  PROVE  LocalInv'
  <1> USE ExchangeConstants
      DEF LocalInv, TypeOK, MsgOK, CommOK, WorkOK, ConnOK, Threads, Sessions,
          AddGid,
          connVars, mapVars, locals, histVars, At, Goto
  <1>1. TypeOK'
    BY DEF EraseSteps, CommSteps, WorkSteps, Naming, MsgTypes
  <1>2. pc' \in [Threads -> CommSteps \cup WorkSteps]
    BY DEF EraseSteps, CommSteps, WorkSteps, Naming, MsgTypes
  <1>3. MsgOK'
    BY DEF EraseSteps, CommSteps, WorkSteps, Naming, MsgTypes
  <1>4. CommOK'
    BY DEF EraseSteps, CommSteps, WorkSteps, Naming, MsgTypes
  <1>5. WorkOK'
    BY DEF EraseSteps, CommSteps, WorkSteps, Naming, MsgTypes
  <1>6. ConnOK'
    OBVIOUS
  <1>7. QED
    BY ONLY <1>1, <1>2, <1>3, <1>4, <1>5, <1>6 DEF LocalInv

LEMMA LoopEndsLocal ==
  ASSUME LocalInv, LoopEnds
  PROVE  LocalInv'
  <1> USE ExchangeConstants
      DEF LocalInv, TypeOK, MsgOK, CommOK, WorkOK, ConnOK, Threads, Sessions,
          LoopEnds, Done, NoMsg,
          connVars, mapVars, locals, histVars, At, Goto
  <1>1. TypeOK'
    BY DEF EraseSteps, CommSteps, WorkSteps, Naming, MsgTypes
  <1>2. pc' \in [Threads -> CommSteps \cup WorkSteps]
    BY DEF EraseSteps, CommSteps, WorkSteps, Naming, MsgTypes
  <1>3. MsgOK'
    BY DEF EraseSteps, CommSteps, WorkSteps, Naming, MsgTypes
  <1>4. CommOK'
    BY DEF EraseSteps, CommSteps, WorkSteps, Naming, MsgTypes
  <1>5. WorkOK'
    BY DEF EraseSteps, CommSteps, WorkSteps, Naming, MsgTypes
  <1>6. ConnOK'
    OBVIOUS
  <1>7. QED
    BY ONLY <1>1, <1>2, <1>3, <1>4, <1>5, <1>6 DEF LocalInv

LEMMA SlotDelLocal ==
  ASSUME LocalInv, NEW t \in Threads, SlotDel(t)
  PROVE  LocalInv'
  <1> USE ExchangeConstants
      DEF LocalInv, TypeOK, MsgOK, CommOK, WorkOK, ConnOK, Threads, Sessions,
          SlotDel, Cleared,
          connVars, mapVars, locals, histVars, At, Goto
  <1>1. TypeOK'
    <2>1. fd[t] \in Fds
      BY DEF EraseSteps, CommSteps, WorkSteps, Naming, MsgTypes
    <2>2. slot' = slot \/ slot' = [slot EXCEPT ![fd[t]] = Cleared]
      OBVIOUS
    <2>3. Cleared \in [status : {0, 1}, uuid : 0..Len(home)]
      OBVIOUS
    <2>4. slot' \in [Fds -> [status : {0, 1}, uuid : 0..Len(home)]]
      BY ONLY <2>1, <2>2, <2>3, slot \in [Fds -> [status : {0, 1}, uuid : 0..Len(home)]]
    <2>5. QED
      BY <2>4
  <1>2. pc' \in [Threads -> CommSteps \cup WorkSteps]
    BY DEF EraseSteps, CommSteps, WorkSteps, Naming, MsgTypes
  <1>3. MsgOK'
    BY DEF EraseSteps, CommSteps, WorkSteps, Naming, MsgTypes
  <1>4. CommOK'
    BY DEF EraseSteps, CommSteps, WorkSteps, Naming, MsgTypes
  <1>5. WorkOK'
    BY DEF EraseSteps, CommSteps, WorkSteps, Naming, MsgTypes
  <1>6. ConnOK'
    OBVIOUS
  <1>7. QED
    BY ONLY <1>1, <1>2, <1>3, <1>4, <1>5, <1>6 DEF LocalInv

LEMMA GetUidLocal ==
  ASSUME LocalInv, NEW t \in Threads, GetUid(t)
  PROVE  LocalInv'
  <1> USE ExchangeConstants
      DEF LocalInv, TypeOK, MsgOK, CommOK, WorkOK, ConnOK, Threads, Sessions,
          GetUid,
          connVars, mapVars, locals, histVars, At, Goto
  <1>1. TypeOK'
    BY DEF EraseSteps, CommSteps, WorkSteps, Naming, MsgTypes
  <1>2. pc' \in [Threads -> CommSteps \cup WorkSteps]
    BY DEF EraseSteps, CommSteps, WorkSteps, Naming, MsgTypes
  <1>3. MsgOK'
    BY DEF EraseSteps, CommSteps, WorkSteps, Naming, MsgTypes
  <1>4. CommOK'
    BY DEF EraseSteps, CommSteps, WorkSteps, Naming, MsgTypes
  <1>5. WorkOK'
    BY DEF EraseSteps, CommSteps, WorkSteps, Naming, MsgTypes
  <1>6. ConnOK'
    OBVIOUS
  <1>7. QED
    BY ONLY <1>1, <1>2, <1>3, <1>4, <1>5, <1>6 DEF LocalInv

LEMMA DelUidLocal ==
  ASSUME LocalInv, NEW t \in Threads, DelUid(t)
  PROVE  LocalInv'
  <1> USE ExchangeConstants
      DEF LocalInv, TypeOK, MsgOK, CommOK, WorkOK, ConnOK, Threads, Sessions,
          DelUid,
          connVars, mapVars, locals, histVars, At, Goto
  <1>1. TypeOK'
    BY DEF EraseSteps, CommSteps, WorkSteps, Naming, MsgTypes
  <1>2. pc' \in [Threads -> CommSteps \cup WorkSteps]
    BY DEF EraseSteps, CommSteps, WorkSteps, Naming, MsgTypes
  <1>3. MsgOK'
    BY DEF EraseSteps, CommSteps, WorkSteps, Naming, MsgTypes
  <1>4. CommOK'
    BY DEF EraseSteps, CommSteps, WorkSteps, Naming, MsgTypes
  <1>5. WorkOK'
    BY DEF EraseSteps, CommSteps, WorkSteps, Naming, MsgTypes
  <1>6. ConnOK'
    OBVIOUS
  <1>7. QED
    BY ONLY <1>1, <1>2, <1>3, <1>4, <1>5, <1>6 DEF LocalInv

LEMMA DelCidLocal ==
  ASSUME LocalInv, NEW t \in Threads, DelCid(t)
  PROVE  LocalInv'
  <1> USE ExchangeConstants
      DEF LocalInv, TypeOK, MsgOK, CommOK, WorkOK, ConnOK, Threads, Sessions,
          DelCid,
          connVars, mapVars, locals, histVars, At, Goto
  <1>1. TypeOK'
    BY DEF EraseSteps, CommSteps, WorkSteps, Naming, MsgTypes
  <1>2. pc' \in [Threads -> CommSteps \cup WorkSteps]
    BY DEF EraseSteps, CommSteps, WorkSteps, Naming, MsgTypes
  <1>3. MsgOK'
    BY DEF EraseSteps, CommSteps, WorkSteps, Naming, MsgTypes
  <1>4. CommOK'
    BY DEF EraseSteps, CommSteps, WorkSteps, Naming, MsgTypes
  <1>5. WorkOK'
    BY DEF EraseSteps, CommSteps, WorkSteps, Naming, MsgTypes
  <1>6. ConnOK'
    OBVIOUS
  <1>7. QED
    BY ONLY <1>1, <1>2, <1>3, <1>4, <1>5, <1>6 DEF LocalInv

LEMMA GetGidsLocal ==
  ASSUME LocalInv, NEW t \in Threads, GetGids(t)
  PROVE  LocalInv'
  <1> USE ExchangeConstants
      DEF LocalInv, TypeOK, MsgOK, CommOK, WorkOK, ConnOK, Threads, Sessions,
          GetGids,
          connVars, mapVars, locals, histVars, At, Goto
  <1>1. TypeOK'
    BY DEF EraseSteps, CommSteps, WorkSteps, Naming, MsgTypes
  <1>2. pc' \in [Threads -> CommSteps \cup WorkSteps]
    BY DEF EraseSteps, CommSteps, WorkSteps, Naming, MsgTypes
  <1>3. MsgOK'
    BY DEF EraseSteps, CommSteps, WorkSteps, Naming, MsgTypes
  <1>4. CommOK'
    BY DEF EraseSteps, CommSteps, WorkSteps, Naming, MsgTypes
  <1>5. WorkOK'
    BY DEF EraseSteps, CommSteps, WorkSteps, Naming, MsgTypes
  <1>6. ConnOK'
    OBVIOUS
  <1>7. QED
    BY ONLY <1>1, <1>2, <1>3, <1>4, <1>5, <1>6 DEF LocalInv

LEMMA RemGidLocal ==
  ASSUME LocalInv, NEW t \in Threads, RemGid(t)
  PROVE  LocalInv'
  <1> USE ExchangeConstants
      DEF LocalInv, TypeOK, MsgOK, CommOK, WorkOK, ConnOK, Threads, Sessions,
          RemGid,
          connVars, mapVars, locals, histVars, At, Goto
  <1>1. TypeOK'
    <2>1. PICK g \in todo[t] : RemGid(t)!(g)
      OBVIOUS
    <2>2. g \in Gids /\ fd[t] \in Fds
      BY <2>1 DEF EraseSteps, CommSteps, WorkSteps, Naming, MsgTypes
    <2>3. cidGid' \in [Fds -> SUBSET Gids]
      BY <2>1, <2>2
    <2>4. gid' \in [Threads -> SUBSET Gids]
      BY <2>1, <2>2
    <2>5. todo' \in [Threads -> SUBSET (Gids \cup Fds)]
      BY <2>1, <2>2
    <2>6. QED
      BY <2>1, <2>3, <2>4, <2>5
  <1>2. pc' \in [Threads -> CommSteps \cup WorkSteps]
    BY DEF EraseSteps, CommSteps, WorkSteps, Naming, MsgTypes
  <1>3. MsgOK'
    BY DEF EraseSteps, CommSteps, WorkSteps, Naming, MsgTypes
  <1>4. CommOK'
    BY DEF EraseSteps, CommSteps, WorkSteps, Naming, MsgTypes
  <1>5. WorkOK'
    BY DEF EraseSteps, CommSteps, WorkSteps, Naming, MsgTypes
  <1>6. ConnOK'
    OBVIOUS
  <1>7. QED
    BY ONLY <1>1, <1>2, <1>3, <1>4, <1>5, <1>6 DEF LocalInv

LEMMA RemCidLocal ==
  ASSUME LocalInv, NEW t \in Threads, RemCid(t)
  PROVE  LocalInv'
  <1> USE ExchangeConstants
      DEF LocalInv, TypeOK, MsgOK, CommOK, WorkOK, ConnOK, Threads, Sessions,
          RemCid,
          connVars, mapVars, locals, histVars, At, Goto
  <1>1. TypeOK'
    BY DEF EraseSteps, CommSteps, WorkSteps, Naming, MsgTypes
  <1>2. pc' \in [Threads -> CommSteps \cup WorkSteps]
    BY DEF EraseSteps, CommSteps, WorkSteps, Naming, MsgTypes
  <1>3. MsgOK'
    BY DEF EraseSteps, CommSteps, WorkSteps, Naming, MsgTypes
  <1>4. CommOK'
    BY DEF EraseSteps, CommSteps, WorkSteps, Naming, MsgTypes
  <1>5. WorkOK'
    BY DEF EraseSteps, CommSteps, WorkSteps, Naming, MsgTypes
  <1>6. ConnOK'
    OBVIOUS
  <1>7. QED
    BY ONLY <1>1, <1>2, <1>3, <1>4, <1>5, <1>6 DEF LocalInv

\* Every step keeps the locals in order.
LEMMA LocalStep ==
  ASSUME LocalInv, [Next]_vars
  PROVE  LocalInv'
  <1>1. ASSUME NEW t \in Threads, Erase(t)
        PROVE  LocalInv'
    BY <1>1, SlotDelLocal, GetUidLocal, DelUidLocal, DelCidLocal, GetGidsLocal,
       RemGidLocal, RemCidLocal
       DEF Erase
  <1>2. CASE \E f \in Fds : Accept(f) \/ Stop(f) \/ RecvClient(f)
    BY <1>2, AcceptLocal, StopLocal, RecvClientLocal
  <1>3. CASE (\E g \in Gateways : GatewayStop(g)) \/ RecvGateway
    BY <1>3, GatewayStopLocal, RecvGatewayLocal
  <1>4. CASE Callback
    BY <1>1, <1>4, AnnounceLocal, ReportStopLocal DEF Callback, Threads
  <1>5. CASE Dispatch
    BY <1>1, <1>5, UpstreamLocal, RouteLocal, HandleCidLocal, LookupUidLocal,
       SendUidLocal, LookupGidLocal, SendGidLocal, SetCidLocal, SetUidLocal,
       AddCidLocal, AddGidLocal, LoopEndsLocal, CloseErasedLocal
       DEF Dispatch, Threads
  <1>6. CASE UNCHANGED vars
    BY <1>6
    DEF vars, connVars, mapVars, locals, histVars, LocalInv, TypeOK, MsgOK, CommOK,
        WorkOK, ConnOK, Sessions
  <1>7. QED
    BY <1>2, <1>3, <1>4, <1>5, <1>6 DEF Next

\* The locals of both threads are in order in every state.
LEMMA LocalsInOrder == Spec => []LocalInv
  BY LocalInit, LocalStep, PTL DEF Spec

(***************************************************************************)
(* Every variable keeps its type: the slots of exc_sockfd_manager.c, the   *)
(* maps of exc_cid_map.c, exc_uid_map.c and exc_gid_map.c and the locals   *)
(* of the two threads, whatever the gateways send and however the threads  *)
(* interleave.                                                             *)
(***************************************************************************)
THEOREM ExchangeTypes == Spec => []TypeOK
  BY LocalsInOrder, PTL DEF LocalInv


\* A slot is cleared by either thread, filled and left by libcomm's alone.
LEMMA SlotCurrentStep ==
  ASSUME LocalInv, SlotIsCurrent, [Next]_vars
  PROVE  SlotIsCurrent'
  <1> USE ExchangeConstants
      DEF LocalInv, CommOK, Threads, connVars, mapVars, locals, histVars, At, Goto,
          EraseSteps, CommSteps, TypeOK, SlotIsCurrent
  <1>1. ASSUME NEW f \in Fds, Accept(f) PROVE SlotIsCurrent'
    BY <1>1 DEF Accept
  <1>2. ASSUME NEW f \in Fds, Stop(f) PROVE SlotIsCurrent'
    BY <1>2 DEF Stop
  <1>3. ASSUME NEW f \in Fds, RecvClient(f) PROVE SlotIsCurrent'
    BY <1>3 DEF RecvClient, NoMsg
  <1>4. ASSUME NEW g \in Gateways, GatewayStop(g) PROVE SlotIsCurrent'
    BY <1>4 DEF GatewayStop
  <1>5. CASE RecvGateway
    BY <1>5 DEF RecvGateway, NoMsg, Nameable, MayBind, StreamCommands,
                ManageCommands
  <1>6. CASE Announce
    BY <1>6 DEF Announce, SendStatus, Send, Done
  <1>7. CASE ReportStop
    BY <1>7 DEF ReportStop, SendStatus, Send, Done
  <1>8. ASSUME NEW t \in Threads, SlotDel(t) PROVE SlotIsCurrent'
    BY <1>8 DEF SlotDel, Cleared
  <1>9. ASSUME NEW t \in Threads, GetUid(t) PROVE SlotIsCurrent'
    BY <1>9 DEF GetUid
  <1>10. ASSUME NEW t \in Threads, DelUid(t) PROVE SlotIsCurrent'
    BY <1>10 DEF DelUid
  <1>11. ASSUME NEW t \in Threads, DelCid(t) PROVE SlotIsCurrent'
    BY <1>11 DEF DelCid
  <1>12. ASSUME NEW t \in Threads, GetGids(t) PROVE SlotIsCurrent'
    BY <1>12 DEF GetGids
  <1>13. ASSUME NEW t \in Threads, RemGid(t) PROVE SlotIsCurrent'
    BY <1>13 DEF RemGid
  <1>14. ASSUME NEW t \in Threads, RemCid(t) PROVE SlotIsCurrent'
    BY <1>14 DEF RemCid
  <1>15. CASE CloseErased
    BY <1>15 DEF CloseErased, Done, NoMsg
  <1>16. CASE Upstream
    BY <1>16 DEF Upstream, Send, Done, NoMsg, TakenForClient, FromGateway,
                 StreamCommands, ManageCommands
  <1>17. CASE Route
    BY <1>17 DEF Route, TakenForClient, FromGateway, StreamCommands,
                 ManageCommands
  <1>18. CASE HandleCid
    BY <1>18 DEF HandleCid, Send, Done, NoMsg
  <1>19. CASE LookupUid
    BY <1>19 DEF LookupUid, Done, NoMsg
  <1>20. CASE SendUid
    BY <1>20 DEF SendUid, Send, Done, NoMsg
  <1>21. CASE LookupGid
    BY <1>21 DEF LookupGid
  <1>22. CASE SendGid
    BY <1>22 DEF SendGid, Send
  <1>23. CASE SetCid
    BY <1>23 DEF SetCid
  <1>24. CASE SetUid
    BY <1>24 DEF SetUid, Done, NoMsg
  <1>25. CASE AddCid
    BY <1>25 DEF AddCid
  <1>26. CASE AddGid
    BY <1>26 DEF AddGid
  <1>27. CASE LoopEnds
    BY <1>27 DEF LoopEnds, Done, NoMsg
  <1>28. CASE UNCHANGED vars
    BY <1>28 DEF vars
  <1>29. QED
    BY ONLY [Next]_vars, <1>1, <1>2, <1>3, <1>4, <1>5, <1>6, <1>7, <1>8, <1>9,
            <1>10, <1>11, <1>12, <1>13, <1>14, <1>15, <1>16, <1>17, <1>18,
            <1>19, <1>20, <1>21, <1>22, <1>23, <1>24, <1>25, <1>26, <1>27,
            <1>28
       DEF Next, Callback, Dispatch, Erase, Threads

\* No connection begins or ends on a descriptor the worker is at.
LEMMA NamedStep ==
  ASSUME Orderly, LocalInv, NamedInv, [Next]_vars
  PROVE  NamedInv'
  <1> USE ExchangeConstants
      DEF LocalInv, TypeOK, MsgOK, CommOK, WorkOK, ConnOK, Threads, Sessions, connVars, mapVars, locals, histVars, At, Goto,
          EraseSteps, CommSteps, WorkSteps, Naming, MsgTypes, NamedInv, Touched
  <1>1. ASSUME NEW f \in Fds, Accept(f) PROVE NamedInv'
    BY <1>1 DEF Accept
  <1>2. ASSUME NEW f \in Fds, Stop(f) PROVE NamedInv'
    BY <1>2 DEF Stop
  <1>3. ASSUME NEW f \in Fds, RecvClient(f) PROVE NamedInv'
    BY <1>3 DEF RecvClient, NoMsg
  <1>4. ASSUME NEW g \in Gateways, GatewayStop(g) PROVE NamedInv'
    BY <1>4 DEF GatewayStop
  <1>5. CASE RecvGateway
    BY <1>5, RecvGatewayCases, RecvGatewayFrame DEF Nameable, MayBind
  <1>6. CASE Announce
    BY <1>6 DEF Announce, SendStatus, Send, Done
  <1>7. CASE ReportStop
    BY <1>7 DEF ReportStop, SendStatus, Send, Done
  <1>8. ASSUME NEW t \in Threads, SlotDel(t) PROVE NamedInv'
    BY <1>8 DEF SlotDel, Cleared
  <1>9. ASSUME NEW t \in Threads, GetUid(t) PROVE NamedInv'
    BY <1>9 DEF GetUid
  <1>10. ASSUME NEW t \in Threads, DelUid(t) PROVE NamedInv'
    BY <1>10 DEF DelUid
  <1>11. ASSUME NEW t \in Threads, DelCid(t) PROVE NamedInv'
    BY <1>11 DEF DelCid
  <1>12. ASSUME NEW t \in Threads, GetGids(t) PROVE NamedInv'
    BY <1>12 DEF GetGids
  <1>13. ASSUME NEW t \in Threads, RemGid(t) PROVE NamedInv'
    BY <1>13 DEF RemGid
  <1>14. ASSUME NEW t \in Threads, RemCid(t) PROVE NamedInv'
    BY <1>14 DEF RemCid
  <1>15. CASE CloseErased
    BY <1>15 DEF CloseErased, Done, NoMsg
  <1>16. CASE Upstream
    BY <1>16 DEF Upstream, Send, Done, NoMsg, TakenForClient, FromGateway,
                 StreamCommands, ManageCommands
  <1>17. CASE Route
    BY <1>17 DEF Route, TakenForClient, FromGateway, StreamCommands,
                 ManageCommands
  <1>18. CASE HandleCid
    BY <1>18 DEF HandleCid, Send, Done, NoMsg
  <1>19. CASE LookupUid
    BY <1>19 DEF LookupUid, Done, NoMsg
  <1>20. CASE SendUid
    BY <1>20 DEF SendUid, Send, Done, NoMsg
  <1>21. CASE LookupGid
    BY <1>21 DEF LookupGid
  <1>22. CASE SendGid
    BY <1>22 DEF SendGid, Send
  <1>23. CASE SetCid
    BY <1>23 DEF SetCid
  <1>24. CASE SetUid
    BY <1>24 DEF SetUid, Done, NoMsg
  <1>25. CASE AddCid
    BY <1>25 DEF AddCid
  <1>26. CASE AddGid
    BY <1>26 DEF AddGid
  <1>27. CASE LoopEnds
    BY <1>27 DEF LoopEnds, Done, NoMsg
  <1>28. CASE UNCHANGED vars
    BY <1>28 DEF vars
  <1>29. QED
    BY ONLY [Next]_vars, <1>1, <1>2, <1>3, <1>4, <1>5, <1>6, <1>7, <1>8, <1>9,
            <1>10, <1>11, <1>12, <1>13, <1>14, <1>15, <1>16, <1>17, <1>18,
            <1>19, <1>20, <1>21, <1>22, <1>23, <1>24, <1>25, <1>26, <1>27,
            <1>28
       DEF Next, Callback, Dispatch, Erase, Threads

\* The two threads work on the groups of different clients.
LEMMA MirrorStep ==
  ASSUME Orderly, LocalInv, NamedInv, MirrorInv, [Next]_vars
  PROVE  MirrorInv'
  <1> USE ExchangeConstants
      DEF LocalInv, TypeOK, MsgOK, CommOK, WorkOK, ConnOK, Threads, Sessions, connVars, mapVars, locals, histVars, At, Goto,
          EraseSteps, CommSteps, WorkSteps, Naming, MsgTypes, NamedInv, MirrorInv, InHand
  <1>1. ASSUME NEW f \in Fds, Accept(f) PROVE MirrorInv'
    BY <1>1 DEF Accept
  <1>2. ASSUME NEW f \in Fds, Stop(f) PROVE MirrorInv'
    BY <1>2 DEF Stop
  <1>3. ASSUME NEW f \in Fds, RecvClient(f) PROVE MirrorInv'
    BY <1>3 DEF RecvClient, NoMsg
  <1>4. ASSUME NEW g \in Gateways, GatewayStop(g) PROVE MirrorInv'
    BY <1>4 DEF GatewayStop
  <1>5. CASE RecvGateway
    BY <1>5, RecvGatewayCases, RecvGatewayFrame DEF Nameable, MayBind
  <1>6. CASE Announce
    BY <1>6 DEF Announce, SendStatus, Send, Done
  <1>7. CASE ReportStop
    BY <1>7 DEF ReportStop, SendStatus, Send, Done
  <1>8. ASSUME NEW t \in Threads, SlotDel(t) PROVE MirrorInv'
    BY <1>8 DEF SlotDel, Cleared
  <1>9. ASSUME NEW t \in Threads, GetUid(t) PROVE MirrorInv'
    BY <1>9 DEF GetUid
  <1>10. ASSUME NEW t \in Threads, DelUid(t) PROVE MirrorInv'
    BY <1>10 DEF DelUid
  <1>11. ASSUME NEW t \in Threads, DelCid(t) PROVE MirrorInv'
    BY <1>11 DEF DelCid
  <1>12. ASSUME NEW t \in Threads, GetGids(t) PROVE MirrorInv'
    BY <1>12 DEF GetGids
  <1>13. ASSUME NEW t \in Threads, RemGid(t) PROVE MirrorInv'
    BY <1>13 DEF RemGid
  <1>14. ASSUME NEW t \in Threads, RemCid(t) PROVE MirrorInv'
    BY <1>14 DEF RemCid
  <1>15. CASE CloseErased
    BY <1>15 DEF CloseErased, Done, NoMsg
  <1>16. CASE Upstream
    BY <1>16 DEF Upstream, Send, Done, NoMsg, TakenForClient, FromGateway,
                 StreamCommands, ManageCommands
  <1>17. CASE Route
    BY <1>17 DEF Route, TakenForClient, FromGateway, StreamCommands,
                 ManageCommands
  <1>18. CASE HandleCid
    BY <1>18 DEF HandleCid, Send, Done, NoMsg
  <1>19. CASE LookupUid
    <2>1. /\ \/ pc' = [pc EXCEPT !["work"] = "idle"] /\ msg' = NoMsg
             \/ pc' = [pc EXCEPT !["work"] = "uidsend"] /\ UNCHANGED msg
          /\ pc["work"] = "uid" /\ fd'["comm"] = fd["comm"]
          /\ uid'["comm"] = uid["comm"] /\ gid'["comm"] = gid["comm"]
          /\ UNCHANGED <<connVars, mapVars>>
      BY <1>19 DEF LookupUid, Done, NoMsg
    <2>2. QED
      BY ONLY Orderly, LocalInv, NamedInv, MirrorInv, <2>1
      DEF LocalInv, TypeOK, MsgOK, CommOK, WorkOK, ConnOK, Threads, Sessions,
          connVars, mapVars, locals, histVars, At, Goto, EraseSteps, CommSteps, WorkSteps, Naming, MsgTypes,
          NoMsg, MirrorInv, InHand
  <1>20. CASE SendUid
    BY <1>20 DEF SendUid, Send, Done, NoMsg
  <1>21. CASE LookupGid
    BY <1>21 DEF LookupGid
  <1>22. CASE SendGid
    BY <1>22 DEF SendGid, Send
  <1>23. CASE SetCid
    BY <1>23 DEF SetCid
  <1>24. CASE SetUid
    BY <1>24 DEF SetUid, Done, NoMsg
  <1>25. CASE AddCid
    BY <1>25 DEF AddCid
  <1>26. CASE AddGid
    BY <1>26 DEF AddGid
  <1>27. CASE LoopEnds
    BY <1>27 DEF LoopEnds, Done, NoMsg
  <1>28. CASE UNCHANGED vars
    BY <1>28 DEF vars
  <1>29. QED
    BY ONLY [Next]_vars, <1>1, <1>2, <1>3, <1>4, <1>5, <1>6, <1>7, <1>8, <1>9,
            <1>10, <1>11, <1>12, <1>13, <1>14, <1>15, <1>16, <1>17, <1>18,
            <1>19, <1>20, <1>21, <1>22, <1>23, <1>24, <1>25, <1>26, <1>27,
            <1>28
       DEF Next, Callback, Dispatch, Erase, Threads

\* The two threads work on the users of different clients.
LEMMA UserStep ==
  ASSUME Orderly, ~Rebinds, LocalInv, NamedInv, UserInv, [Next]_vars
  PROVE  UserInv'
  <1> USE ExchangeConstants
      DEF LocalInv, TypeOK, MsgOK, CommOK, WorkOK, ConnOK, Threads, Sessions, connVars, mapVars, locals, histVars, At, Goto,
          EraseSteps, CommSteps, WorkSteps, Naming, MsgTypes, NamedInv, UserInv, LoggingIn
  <1>1. ASSUME NEW f \in Fds, Accept(f) PROVE UserInv'
    BY <1>1 DEF Accept
  <1>2. ASSUME NEW f \in Fds, Stop(f) PROVE UserInv'
    BY <1>2 DEF Stop
  <1>3. ASSUME NEW f \in Fds, RecvClient(f) PROVE UserInv'
    BY <1>3 DEF RecvClient, NoMsg
  <1>4. ASSUME NEW g \in Gateways, GatewayStop(g) PROVE UserInv'
    BY <1>4 DEF GatewayStop
  <1>5. CASE RecvGateway
    BY <1>5, RecvGatewayCases, RecvGatewayFrame DEF Nameable, MayBind
  <1>6. CASE Announce
    BY <1>6 DEF Announce, SendStatus, Send, Done
  <1>7. CASE ReportStop
    BY <1>7 DEF ReportStop, SendStatus, Send, Done
  <1>8. ASSUME NEW t \in Threads, SlotDel(t) PROVE UserInv'
    BY <1>8 DEF SlotDel, Cleared
  <1>9. ASSUME NEW t \in Threads, GetUid(t) PROVE UserInv'
    BY <1>9 DEF GetUid
  <1>10. ASSUME NEW t \in Threads, DelUid(t) PROVE UserInv'
    <2>1. ASSUME NEW u \in Uids, uidCid'[u] = fd[t]
          PROVE  FALSE
      <3>1. fd[t] \in Fds /\ pc[t] = "deluid" /\ uid[t] = cidUid[fd[t]]
        BY <1>10 DEF DelUid
      <3>2. uidCid[u] = fd[t] /\ u # uid[t]
        BY <1>10, <2>1, <3>1 DEF DelUid
      <3>3. pc["work"] = "setuid" /\ msg.fd = fd[t] /\ msg.type = "uidmap"
        BY ONLY <3>1, <3>2, UserInv DEF UserInv, LoggingIn
      <3>4. t = "comm" /\ conn[fd[t]] = 0
        BY <3>1, <3>3
      <3>5. conn[msg.fd] \in Sessions
        BY <3>3
      <3>6. QED
        BY <3>3, <3>4, <3>5
    <2>2. /\ pc[t] = "deluid" /\ pc' = [pc EXCEPT ![t] = "delcid"]
          /\ \A u \in Uids : uidCid'[u] \in {uidCid[u], NoFd}
          /\ UNCHANGED <<connVars, cidUid, gidCid, cidGid, locals, msg>>
      BY <1>10 DEF DelUid
    <2>3. QED
      BY <2>1, <2>2
  <1>11. ASSUME NEW t \in Threads, DelCid(t) PROVE UserInv'
    BY <1>11 DEF DelCid
  <1>12. ASSUME NEW t \in Threads, GetGids(t) PROVE UserInv'
    BY <1>12 DEF GetGids
  <1>13. ASSUME NEW t \in Threads, RemGid(t) PROVE UserInv'
    BY <1>13 DEF RemGid
  <1>14. ASSUME NEW t \in Threads, RemCid(t) PROVE UserInv'
    BY <1>14 DEF RemCid
  <1>15. CASE CloseErased
    BY <1>15 DEF CloseErased, Done, NoMsg
  <1>16. CASE Upstream
    BY <1>16 DEF Upstream, Send, Done, NoMsg, TakenForClient, FromGateway,
                 StreamCommands, ManageCommands
  <1>17. CASE Route
    BY <1>17 DEF Route, TakenForClient, FromGateway, StreamCommands,
                 ManageCommands
  <1>18. CASE HandleCid
    BY <1>18 DEF HandleCid, Send, Done, NoMsg
  <1>19. CASE LookupUid
    <2>1. /\ \/ pc' = [pc EXCEPT !["work"] = "idle"] /\ msg' = NoMsg
             \/ pc' = [pc EXCEPT !["work"] = "uidsend"] /\ UNCHANGED msg
          /\ pc["work"] = "uid" /\ fd'["comm"] = fd["comm"]
          /\ uid'["comm"] = uid["comm"] /\ gid'["comm"] = gid["comm"]
          /\ UNCHANGED <<connVars, mapVars>>
      BY <1>19 DEF LookupUid, Done, NoMsg
    <2>2. QED
      BY ONLY Orderly, ~Rebinds, LocalInv, NamedInv, UserInv, <2>1
      DEF LocalInv, TypeOK, MsgOK, CommOK, WorkOK, ConnOK, Threads, Sessions,
          connVars, mapVars, locals, histVars, At, Goto, EraseSteps, CommSteps, WorkSteps, Naming, MsgTypes,
          NoMsg, UserInv, LoggingIn
  <1>20. CASE SendUid
    BY <1>20 DEF SendUid, Send, Done, NoMsg
  <1>21. CASE LookupGid
    <2>1. /\ pc["work"] = "gid" /\ pc' = [pc EXCEPT !["work"] = "gidsend"]
          /\ UNCHANGED <<connVars, mapVars, fd, uid, gid, msg, histVars>>
      BY <1>21 DEF LookupGid
    <2>2. QED
      BY ONLY Orderly, ~Rebinds, LocalInv, NamedInv, UserInv, <2>1
      DEF LocalInv, TypeOK, MsgOK, CommOK, WorkOK, ConnOK, Threads, Sessions,
          connVars, mapVars, locals, histVars, At, Goto, EraseSteps, CommSteps, WorkSteps, Naming, MsgTypes,
          UserInv, LoggingIn
  <1>22. CASE SendGid
    BY <1>22 DEF SendGid, Send
  <1>23. CASE SetCid
    BY <1>23 DEF SetCid
  <1>24. CASE SetUid
    BY <1>24 DEF SetUid, Done, NoMsg
  <1>25. CASE AddCid
    BY <1>25 DEF AddCid
  <1>26. CASE AddGid
    BY <1>26 DEF AddGid
  <1>27. CASE LoopEnds
    BY <1>27 DEF LoopEnds, Done, NoMsg
  <1>28. CASE UNCHANGED vars
    BY <1>28 DEF vars
  <1>29. QED
    BY ONLY [Next]_vars, <1>1, <1>2, <1>3, <1>4, <1>5, <1>6, <1>7, <1>8, <1>9,
            <1>10, <1>11, <1>12, <1>13, <1>14, <1>15, <1>16, <1>17, <1>18,
            <1>19, <1>20, <1>21, <1>22, <1>23, <1>24, <1>25, <1>26, <1>27,
            <1>28
       DEF Next, Callback, Dispatch, Erase, Threads

\* The worker adds nothing to a client that is gone, and STEP_STOP takes out all.
LEMMA GoneStep ==
  ASSUME Orderly, ~Rebinds, LocalInv, NamedInv, UserInv, GoneInv, [Next]_vars
  PROVE  GoneInv'
  <1> USE ExchangeConstants
      DEF LocalInv, TypeOK, MsgOK, CommOK, WorkOK, ConnOK, Threads, Sessions, connVars, mapVars, locals, histVars, At, Goto,
          EraseSteps, CommSteps, WorkSteps, Naming, MsgTypes, NamedInv, UserInv, LoggingIn, GoneInv, Stopping
  <1>1. ASSUME NEW f \in Fds, Accept(f) PROVE GoneInv'
    BY <1>1 DEF Accept
  <1>2. ASSUME NEW f \in Fds, Stop(f) PROVE GoneInv'
    BY <1>2 DEF Stop
  <1>3. ASSUME NEW f \in Fds, RecvClient(f) PROVE GoneInv'
    <2>1. /\ pc'["comm"] = pc["comm"]
          /\ UNCHANGED <<connVars, mapVars, locals>>
      BY <1>3 DEF RecvClient
    <2>2. QED
      BY ONLY GoneInv, <2>1 DEF GoneInv, Stopping, connVars, mapVars, locals
  <1>4. ASSUME NEW g \in Gateways, GatewayStop(g) PROVE GoneInv'
    BY <1>4 DEF GatewayStop
  <1>5. CASE RecvGateway
    BY <1>5, RecvGatewayCases, RecvGatewayFrame DEF Nameable, MayBind
  <1>6. CASE Announce
    BY <1>6 DEF Announce, SendStatus, Send, Done
  <1>7. CASE ReportStop
    <2>1. /\ pc["comm"] = "remgid" /\ todo["comm"] = {}
          /\ pc' = [pc EXCEPT !["comm"] = "idle"]
          /\ UNCHANGED <<connVars, mapVars>>
      BY <1>7 DEF ReportStop, Done
    <2>2. \A f \in Fds : conn[f] = 0 =>
            cidUid[f] = NoUid /\ cidGid[f] = {} /\ \A u \in Uids : uidCid[u] # f
      BY ONLY GoneInv, <2>1 DEF GoneInv, Stopping
    <2>3. QED
      BY ONLY <2>1, <2>2 DEF GoneInv, connVars, mapVars
  <1>8. ASSUME NEW t \in Threads, SlotDel(t) PROVE GoneInv'
    BY <1>8 DEF SlotDel, Cleared
  <1>9. ASSUME NEW t \in Threads, GetUid(t) PROVE GoneInv'
    BY <1>9 DEF GetUid
  <1>10. ASSUME NEW t \in Threads, DelUid(t) PROVE GoneInv'
    BY <1>10 DEF DelUid
  <1>11. ASSUME NEW t \in Threads, DelCid(t) PROVE GoneInv'
    BY <1>11 DEF DelCid
  <1>12. ASSUME NEW t \in Threads, GetGids(t) PROVE GoneInv'
    BY <1>12 DEF GetGids
  <1>13. ASSUME NEW t \in Threads, RemGid(t) PROVE GoneInv'
    BY <1>13 DEF RemGid
  <1>14. ASSUME NEW t \in Threads, RemCid(t) PROVE GoneInv'
    BY <1>14 DEF RemCid
  <1>15. CASE CloseErased
    BY <1>15 DEF CloseErased, Done, NoMsg
  <1>16. CASE Upstream
    BY <1>16 DEF Upstream, Send, Done, NoMsg, TakenForClient, FromGateway,
                 StreamCommands, ManageCommands
  <1>17. CASE Route
    BY <1>17 DEF Route, TakenForClient, FromGateway, StreamCommands,
                 ManageCommands
  <1>18. CASE HandleCid
    BY <1>18 DEF HandleCid, Send, Done, NoMsg
  <1>19. CASE LookupUid
    BY <1>19 DEF LookupUid, Done, NoMsg
  <1>20. CASE SendUid
    BY <1>20 DEF SendUid, Send, Done, NoMsg
  <1>21. CASE LookupGid
    <2>1. /\ pc["work"] = "gid" /\ pc' = [pc EXCEPT !["work"] = "gidsend"]
          /\ todo'["comm"] = todo["comm"]
          /\ UNCHANGED <<connVars, mapVars, fd, uid, gid, msg, histVars>>
      BY <1>21 DEF LookupGid
    <2>2. QED
      BY ONLY Orderly, ~Rebinds, LocalInv, NamedInv, UserInv, GoneInv, <2>1
      DEF LocalInv, TypeOK, MsgOK, CommOK, WorkOK, ConnOK, Threads, Sessions,
          connVars, mapVars, locals, histVars, At, Goto, EraseSteps, CommSteps, WorkSteps, Naming, MsgTypes,
          GoneInv, Stopping
  <1>22. CASE SendGid
    <2>1. /\ todo'["comm"] = todo["comm"]
          /\ UNCHANGED <<connVars, mapVars, pc, fd, uid, gid, msg, histVars>>
      BY <1>22 DEF SendGid
    <2>2. QED
      BY ONLY Orderly, ~Rebinds, LocalInv, NamedInv, UserInv, GoneInv, <2>1
      DEF LocalInv, TypeOK, MsgOK, CommOK, WorkOK, ConnOK, Threads, Sessions,
          connVars, mapVars, locals, histVars, At, Goto, EraseSteps, CommSteps, WorkSteps, Naming, MsgTypes,
          GoneInv, Stopping
  <1>23. CASE SetCid
    BY <1>23 DEF SetCid
  <1>24. CASE SetUid
    <2>1. /\ cidUid' = [cidUid EXCEPT ![msg.fd] = msg.uid]
          /\ pc'["comm"] = pc["comm"] /\ fd'["comm"] = fd["comm"]
          /\ todo'["comm"] = todo["comm"]
          /\ UNCHANGED <<conn, uidCid, cidGid>>
      BY <1>24 DEF SetUid, Done
    <2>2. msg.fd \in Fds /\ conn[msg.fd] # 0
      BY <1>24 DEF SetUid
    <2>3. \A f \in Fds : conn[f] = 0 => cidUid'[f] = cidUid[f]
      BY <2>1, <2>2
    <2>4. QED
      BY ONLY GoneInv, <2>1, <2>3 DEF GoneInv, Stopping
  <1>25. CASE AddCid
    BY <1>25 DEF AddCid
  <1>26. CASE AddGid
    BY <1>26 DEF AddGid
  <1>27. CASE LoopEnds
    BY <1>27 DEF LoopEnds, Done, NoMsg
  <1>28. CASE UNCHANGED vars
    BY <1>28 DEF vars
  <1>29. QED
    BY ONLY [Next]_vars, <1>1, <1>2, <1>3, <1>4, <1>5, <1>6, <1>7, <1>8, <1>9,
            <1>10, <1>11, <1>12, <1>13, <1>14, <1>15, <1>16, <1>17, <1>18,
            <1>19, <1>20, <1>21, <1>22, <1>23, <1>24, <1>25, <1>26, <1>27,
            <1>28
       DEF Next, Callback, Dispatch, Erase, Threads

\* A descriptor a user is mapped to gets a new connection after it is unmapped.
LEMMA UserAddressStep ==
  ASSUME Orderly, ~Rebinds, LocalInv, NamedInv, UserInv, GoneInv, UserAddressInv, [Next]_vars
  PROVE  UserAddressInv'
  <1> USE ExchangeConstants
      DEF LocalInv, TypeOK, MsgOK, CommOK, WorkOK, ConnOK, Threads, Sessions, connVars, mapVars, locals, histVars, At, Goto,
          EraseSteps, CommSteps, WorkSteps, Naming, MsgTypes, NamedInv, UserInv, LoggingIn, GoneInv, Stopping, UserAddressInv, Touched
  <1>1. ASSUME NEW f \in Fds, Accept(f) PROVE UserAddressInv'
    BY <1>1 DEF Accept
  <1>2. ASSUME NEW f \in Fds, Stop(f) PROVE UserAddressInv'
    BY <1>2 DEF Stop
  <1>3. ASSUME NEW f \in Fds, RecvClient(f) PROVE UserAddressInv'
    BY <1>3 DEF RecvClient, NoMsg
  <1>4. ASSUME NEW g \in Gateways, GatewayStop(g) PROVE UserAddressInv'
    BY <1>4 DEF GatewayStop
  <1>5. CASE RecvGateway
    BY <1>5, RecvGatewayFrame, RecvGatewayLocal
  <1>6. CASE Announce
    BY <1>6 DEF Announce, SendStatus, Send, Done
  <1>7. CASE ReportStop
    BY <1>7 DEF ReportStop, SendStatus, Send, Done
  <1>8. ASSUME NEW t \in Threads, SlotDel(t) PROVE UserAddressInv'
    BY <1>8 DEF SlotDel, Cleared
  <1>9. ASSUME NEW t \in Threads, GetUid(t) PROVE UserAddressInv'
    BY <1>9 DEF GetUid
  <1>10. ASSUME NEW t \in Threads, DelUid(t) PROVE UserAddressInv'
    BY <1>10 DEF DelUid
  <1>11. ASSUME NEW t \in Threads, DelCid(t) PROVE UserAddressInv'
    BY <1>11 DEF DelCid
  <1>12. ASSUME NEW t \in Threads, GetGids(t) PROVE UserAddressInv'
    BY <1>12 DEF GetGids
  <1>13. ASSUME NEW t \in Threads, RemGid(t) PROVE UserAddressInv'
    BY <1>13 DEF RemGid
  <1>14. ASSUME NEW t \in Threads, RemCid(t) PROVE UserAddressInv'
    BY <1>14 DEF RemCid
  <1>15. CASE CloseErased
    BY <1>15 DEF CloseErased, Done, NoMsg
  <1>16. CASE Upstream
    BY <1>16 DEF Upstream, Send, Done, NoMsg, TakenForClient, FromGateway,
                 StreamCommands, ManageCommands
  <1>17. CASE Route
    <2>1. /\ pc["work"] = "route"
          /\ pc'["work"] = IF msg.type = "closed" THEN "slot" ELSE msg.type
          /\ \A u \in Uids : bound'[u] = IF msg.type = "uidmap" /\ u = msg.uid
                                           THEN msg.uuid ELSE bound[u]
          /\ UNCHANGED <<conn, uidCid, msg>>
      BY <1>17 DEF Route
    <2>2. msg.type = "uidmap" => msg.uid \in Uids /\ uidCid[msg.uid] \notin Fds
      BY ONLY <2>1, UserInv, MsgOK DEF UserInv, MsgOK
    <2>3. \A u \in Uids : uidCid[u] \in Fds \cup {NoFd}
      OBVIOUS
    <2>4. msg.type \in MsgTypes
      OBVIOUS
    <2>5. QED
      BY ONLY <2>1, <2>2, <2>3, <2>4, UserAddressInv DEF UserAddressInv, MsgTypes, Naming
  <1>18. CASE HandleCid
    BY <1>18 DEF HandleCid, Send, Done, NoMsg
  <1>19. CASE LookupUid
    BY <1>19 DEF LookupUid, Done, NoMsg
  <1>20. CASE SendUid
    BY <1>20 DEF SendUid, Send, Done, NoMsg
  <1>21. CASE LookupGid
    BY <1>21 DEF LookupGid
  <1>22. CASE SendGid
    BY <1>22 DEF SendGid, Send
  <1>23. CASE SetCid
    BY <1>23 DEF SetCid
  <1>24. CASE SetUid
    BY <1>24 DEF SetUid, Done, NoMsg
  <1>25. CASE AddCid
    BY <1>25 DEF AddCid
  <1>26. CASE AddGid
    BY <1>26 DEF AddGid
  <1>27. CASE LoopEnds
    BY <1>27 DEF LoopEnds, Done, NoMsg
  <1>28. CASE UNCHANGED vars
    BY <1>28 DEF vars
  <1>29. QED
    BY ONLY [Next]_vars, <1>1, <1>2, <1>3, <1>4, <1>5, <1>6, <1>7, <1>8, <1>9,
            <1>10, <1>11, <1>12, <1>13, <1>14, <1>15, <1>16, <1>17, <1>18,
            <1>19, <1>20, <1>21, <1>22, <1>23, <1>24, <1>25, <1>26, <1>27,
            <1>28
       DEF Next, Callback, Dispatch, Erase, Threads

\* The same of the descriptors of a group.
LEMMA GroupAddressStep ==
  ASSUME Orderly, LocalInv, NamedInv, MirrorInv, GoneInv, GroupAddressInv, [Next]_vars
  PROVE  GroupAddressInv'
  <1> USE ExchangeConstants
      DEF LocalInv, TypeOK, MsgOK, CommOK, WorkOK, ConnOK, Threads, Sessions, connVars, mapVars, locals, histVars, At, Goto,
          EraseSteps, CommSteps, WorkSteps, Naming, MsgTypes, NamedInv, MirrorInv, InHand, GoneInv, Stopping, GroupAddressInv, Touched
  <1>1. ASSUME NEW f \in Fds, Accept(f) PROVE GroupAddressInv'
    BY <1>1 DEF Accept
  <1>2. ASSUME NEW f \in Fds, Stop(f) PROVE GroupAddressInv'
    BY <1>2 DEF Stop
  <1>3. ASSUME NEW f \in Fds, RecvClient(f) PROVE GroupAddressInv'
    BY <1>3 DEF RecvClient, NoMsg
  <1>4. ASSUME NEW g \in Gateways, GatewayStop(g) PROVE GroupAddressInv'
    BY <1>4 DEF GatewayStop
  <1>5. CASE RecvGateway
    <2>1. pc'["work"] = "route" /\ UNCHANGED <<conn, gidCid, joined>>
      BY <1>5, RecvGatewayFrame
    <2>2. QED
      BY ONLY GroupAddressInv, <2>1 DEF GroupAddressInv
  <1>6. CASE Announce
    BY <1>6 DEF Announce, SendStatus, Send, Done
  <1>7. CASE ReportStop
    BY <1>7 DEF ReportStop, SendStatus, Send, Done
  <1>8. ASSUME NEW t \in Threads, SlotDel(t) PROVE GroupAddressInv'
    BY <1>8 DEF SlotDel, Cleared
  <1>9. ASSUME NEW t \in Threads, GetUid(t) PROVE GroupAddressInv'
    BY <1>9 DEF GetUid
  <1>10. ASSUME NEW t \in Threads, DelUid(t) PROVE GroupAddressInv'
    BY <1>10 DEF DelUid
  <1>11. ASSUME NEW t \in Threads, DelCid(t) PROVE GroupAddressInv'
    BY <1>11 DEF DelCid
  <1>12. ASSUME NEW t \in Threads, GetGids(t) PROVE GroupAddressInv'
    BY <1>12 DEF GetGids
  <1>13. ASSUME NEW t \in Threads, RemGid(t) PROVE GroupAddressInv'
    BY <1>13 DEF RemGid
  <1>14. ASSUME NEW t \in Threads, RemCid(t) PROVE GroupAddressInv'
    BY <1>14 DEF RemCid
  <1>15. CASE CloseErased
    BY <1>15 DEF CloseErased, Done, NoMsg
  <1>16. CASE Upstream
    BY <1>16 DEF Upstream, Send, Done, NoMsg, TakenForClient, FromGateway,
                 StreamCommands, ManageCommands
  <1>17. CASE Route
    <2>1. /\ pc'["work"] = IF msg.type = "closed" THEN "slot" ELSE msg.type
          /\ \A g \in Gids : joined'[g] = IF msg.type = "gidmap" /\ g \in msg.gids
                                            THEN joined[g] \cup {msg.uuid} ELSE joined[g]
          /\ UNCHANGED <<conn, gidCid, msg>>
      BY <1>17 DEF Route
    <2>2. msg.type \in MsgTypes /\ msg.gids \subseteq Gids
      OBVIOUS
    <2>3. QED
      BY ONLY <2>1, <2>2, GroupAddressInv DEF GroupAddressInv, MsgTypes, Naming
  <1>18. CASE HandleCid
    BY <1>18 DEF HandleCid, Send, Done, NoMsg
  <1>19. CASE LookupUid
    BY <1>19 DEF LookupUid, Done, NoMsg
  <1>20. CASE SendUid
    BY <1>20 DEF SendUid, Send, Done, NoMsg
  <1>21. CASE LookupGid
    <2>1. /\ pc["work"] = "gid" /\ todo' = [todo EXCEPT !["work"] = UNION {gidCid[g] : g \in msg.gids}]
          /\ UNCHANGED <<conn, gidCid, joined, msg>>
      BY <1>21 DEF LookupGid
    <2>2. msg.gids \subseteq Gids /\ msg.type = "gid" /\ pc'["work"] = "gidsend"
      BY <1>21 DEF LookupGid
    <2>3. todo'["work"] = UNION {gidCid[g] : g \in msg.gids}
      BY <2>1
    <2>4. ASSUME NEW f \in todo'["work"]
          PROVE  conn[f] = 0 \/ \E g \in msg.gids : conn[f] \in joined[g]
      <3>1. PICK g \in msg.gids : f \in gidCid[g]
        BY ONLY <2>3, <2>4
      <3>2. conn[f] \in joined[g] \cup {0}
        BY ONLY <2>2, <3>1, GroupAddressInv DEF GroupAddressInv
      <3>3. QED
        BY ONLY <3>1, <3>2
    <2>5. QED
      BY ONLY GroupAddressInv, <2>1, <2>2, <2>4 DEF GroupAddressInv
  <1>22. CASE SendGid
    BY <1>22 DEF SendGid, Send
  <1>23. CASE SetCid
    BY <1>23 DEF SetCid
  <1>24. CASE SetUid
    BY <1>24 DEF SetUid, Done, NoMsg
  <1>25. CASE AddCid
    BY <1>25 DEF AddCid
  <1>26. CASE AddGid
    BY <1>26 DEF AddGid
  <1>27. CASE LoopEnds
    BY <1>27 DEF LoopEnds, Done, NoMsg
  <1>28. CASE UNCHANGED vars
    BY <1>28 DEF vars
  <1>29. QED
    BY ONLY [Next]_vars, <1>1, <1>2, <1>3, <1>4, <1>5, <1>6, <1>7, <1>8, <1>9,
            <1>10, <1>11, <1>12, <1>13, <1>14, <1>15, <1>16, <1>17, <1>18,
            <1>19, <1>20, <1>21, <1>22, <1>23, <1>24, <1>25, <1>26, <1>27,
            <1>28
       DEF Next, Callback, Dispatch, Erase, Threads

\* STEP_STOP of a client unmaps no user that has logged in elsewhere.
LEMMA ReachStep ==
  ASSUME Orderly, ~Rebinds, "closed" \notin Commands,
         LocalInv, NamedInv, UserInv, UserAddressInv, ReachInv, [Next]_vars
  PROVE  ReachInv'
  <1> USE ExchangeConstants
      DEF LocalInv, TypeOK, MsgOK, CommOK, WorkOK, ConnOK, Threads, Sessions, connVars, mapVars, locals, histVars, At, Goto,
          EraseSteps, CommSteps, WorkSteps, Naming, MsgTypes, NamedInv, UserInv, LoggingIn, UserAddressInv, ReachInv
  <1>1. ASSUME NEW f \in Fds, Accept(f) PROVE ReachInv'
    BY <1>1 DEF Accept
  <1>2. ASSUME NEW f \in Fds, Stop(f) PROVE ReachInv'
    BY <1>2 DEF Stop
  <1>3. ASSUME NEW f \in Fds, RecvClient(f) PROVE ReachInv'
    BY <1>3 DEF RecvClient, NoMsg
  <1>4. ASSUME NEW g \in Gateways, GatewayStop(g) PROVE ReachInv'
    BY <1>4 DEF GatewayStop
  <1>5. CASE RecvGateway
    BY <1>5, RecvGatewayCases, RecvGatewayFrame DEF Nameable, MayBind
  <1>6. CASE Announce
    BY <1>6 DEF Announce, SendStatus, Send, Done
  <1>7. CASE ReportStop
    BY <1>7 DEF ReportStop, SendStatus, Send, Done
  <1>8. ASSUME NEW t \in Threads, SlotDel(t) PROVE ReachInv'
    BY <1>8 DEF SlotDel, Cleared
  <1>9. ASSUME NEW t \in Threads, GetUid(t) PROVE ReachInv'
    BY <1>9 DEF GetUid
  <1>10. ASSUME NEW t \in Threads, DelUid(t) PROVE ReachInv'
    <2>1. CASE t = "work"
      BY <1>10, <2>1 DEF DelUid
    <2>2. CASE t = "comm"
      <3>1. /\ pc["comm"] = "deluid" /\ uid["comm"] = cidUid[fd["comm"]]
            /\ uidCid' = [u \in Uids |-> IF u = uid["comm"] THEN NoFd ELSE uidCid[u]]
            /\ pc'["work"] = pc["work"]
            /\ UNCHANGED <<bound, conn, home, msg>>
        BY <1>10, <2>2 DEF DelUid
      <3>2. ASSUME NEW u \in Uids, bound[u] # 0, conn[home[bound[u]]] = bound[u],
                   u = uid["comm"]
            PROVE  LoggingIn(u) /\ pc["work"] = "uidmap"
        <4>1. fd["comm"] \in Fds /\ conn[fd["comm"]] = 0 /\ cidUid[fd["comm"]] = u
          BY <3>1, <3>2
        <4>2. ASSUME uidCid[u] = home[bound[u]]
              PROVE  FALSE
          <5>1. uidCid[u] \in Fds /\ uidCid[u] # fd["comm"]
            BY <3>2, <4>1, <4>2
          <5>2. cidUid[uidCid[u]] # u
            BY ONLY <4>1, <5>1, UserInv DEF UserInv
          <5>3. msg.type = "uidmap" /\ msg.uid = u
            BY ONLY <5>1, <5>2, UserInv DEF UserInv, LoggingIn
          <5>4. QED
            BY ONLY <4>1, <5>3, UserInv DEF UserInv
        <4>3. QED
          BY ONLY <3>2, <4>2, ReachInv DEF ReachInv
      <3>3. QED
        BY ONLY ReachInv, <3>1, <3>2 DEF ReachInv, LoggingIn
    <2>3. QED
      BY <2>1, <2>2
  <1>11. ASSUME NEW t \in Threads, DelCid(t) PROVE ReachInv'
    BY <1>11 DEF DelCid
  <1>12. ASSUME NEW t \in Threads, GetGids(t) PROVE ReachInv'
    BY <1>12 DEF GetGids
  <1>13. ASSUME NEW t \in Threads, RemGid(t) PROVE ReachInv'
    BY <1>13 DEF RemGid
  <1>14. ASSUME NEW t \in Threads, RemCid(t) PROVE ReachInv'
    BY <1>14 DEF RemCid
  <1>15. CASE CloseErased
    BY <1>15 DEF CloseErased, Done, NoMsg
  <1>16. CASE Upstream
    BY <1>16 DEF Upstream, Send, Done, NoMsg, TakenForClient, FromGateway,
                 StreamCommands, ManageCommands, Gateways
  <1>17. CASE Route
    BY <1>17 DEF Route, TakenForClient, FromGateway, StreamCommands,
                 ManageCommands
  <1>18. CASE HandleCid
    BY <1>18 DEF HandleCid, Send, Done, NoMsg
  <1>19. CASE LookupUid
    BY <1>19 DEF LookupUid, Done, NoMsg
  <1>20. CASE SendUid
    BY <1>20 DEF SendUid, Send, Done, NoMsg
  <1>21. CASE LookupGid
    BY <1>21 DEF LookupGid
  <1>22. CASE SendGid
    BY <1>22 DEF SendGid, Send
  <1>23. CASE SetCid
    BY <1>23 DEF SetCid
  <1>24. CASE SetUid
    BY <1>24 DEF SetUid, Done, NoMsg
  <1>25. CASE AddCid
    BY <1>25 DEF AddCid
  <1>26. CASE AddGid
    BY <1>26 DEF AddGid
  <1>27. CASE LoopEnds
    BY <1>27 DEF LoopEnds, Done, NoMsg
  <1>28. CASE UNCHANGED vars
    BY <1>28 DEF vars
  <1>29. QED
    BY ONLY [Next]_vars, <1>1, <1>2, <1>3, <1>4, <1>5, <1>6, <1>7, <1>8, <1>9,
            <1>10, <1>11, <1>12, <1>13, <1>14, <1>15, <1>16, <1>17, <1>18,
            <1>19, <1>20, <1>21, <1>22, <1>23, <1>24, <1>25, <1>26, <1>27,
            <1>28
       DEF Next, Callback, Dispatch, Erase, Threads

\* What is sent to a client goes where the invariants say.
LEMMA DownstreamStep ==
  ASSUME Orderly, LocalInv, NamedInv, UserAddressInv, GroupAddressInv,
         DownstreamReachesAddressee, [Next]_vars
  PROVE  DownstreamReachesAddressee'
  <1> USE DEF LocalInv, CommOK, WorkOK, MsgOK, Threads, connVars, mapVars, At, Goto, Nothing,
          EraseSteps, Naming, NamedInv, UserAddressInv, DownstreamReachesAddressee
  <1>1. ASSUME NEW f \in Fds, Accept(f) PROVE DownstreamReachesAddressee'
    BY <1>1 DEF Accept
  <1>2. ASSUME NEW f \in Fds, Stop(f) PROVE DownstreamReachesAddressee'
    BY <1>2 DEF Stop
  <1>3. ASSUME NEW f \in Fds, RecvClient(f) PROVE DownstreamReachesAddressee'
    BY <1>3 DEF RecvClient, NoMsg
  <1>4. ASSUME NEW g \in Gateways, GatewayStop(g)
        PROVE  DownstreamReachesAddressee'
    BY <1>4 DEF GatewayStop
  <1>5. CASE RecvGateway
    BY <1>5 DEF RecvGateway, NoMsg, Nameable, MayBind, StreamCommands,
                ManageCommands
  <1>6. CASE Announce
    BY <1>6 DEF Announce, SendStatus, Send, Done
  <1>7. CASE ReportStop
    BY <1>7 DEF ReportStop, SendStatus, Send, Done
  <1>8. ASSUME NEW t \in Threads, SlotDel(t) PROVE DownstreamReachesAddressee'
    BY <1>8 DEF SlotDel, Cleared
  <1>9. ASSUME NEW t \in Threads, GetUid(t) PROVE DownstreamReachesAddressee'
    BY <1>9 DEF GetUid
  <1>10. ASSUME NEW t \in Threads, DelUid(t) PROVE DownstreamReachesAddressee'
    BY <1>10 DEF DelUid
  <1>11. ASSUME NEW t \in Threads, DelCid(t) PROVE DownstreamReachesAddressee'
    BY <1>11 DEF DelCid
  <1>12. ASSUME NEW t \in Threads, GetGids(t) PROVE DownstreamReachesAddressee'
    BY <1>12 DEF GetGids
  <1>13. ASSUME NEW t \in Threads, RemGid(t) PROVE DownstreamReachesAddressee'
    BY <1>13 DEF RemGid
  <1>14. ASSUME NEW t \in Threads, RemCid(t) PROVE DownstreamReachesAddressee'
    BY <1>14 DEF RemCid
  <1>15. CASE CloseErased
    BY <1>15 DEF CloseErased, Done, NoMsg
  <1>16. CASE Upstream
    BY <1>16 DEF Upstream, Send, Done, NoMsg, TakenForClient, FromGateway,
                 StreamCommands, ManageCommands
  <1>17. CASE Route
    BY <1>17 DEF Route, TakenForClient, FromGateway, StreamCommands,
                 ManageCommands
  <1>18. CASE HandleCid
    BY <1>18 DEF HandleCid, Send, Done, NoMsg
  <1>19. CASE LookupUid
    BY <1>19 DEF LookupUid, Done, NoMsg
  <1>20. CASE SendUid
    BY <1>20 DEF SendUid, Send, Done, NoMsg
  <1>21. CASE LookupGid
    BY <1>21 DEF LookupGid
  <1>22. CASE SendGid
    <2>1. PICK f \in todo["work"] :
            /\ pc["work"] = "gidsend"
            /\ out' = [kind |-> "down", should |-> UNION {joined[g] : g \in msg.gids},
                       does |-> conn[f]]
      BY <1>22 DEF SendGid, Send
    <2>2. conn[f] = 0 \/ \E g \in msg.gids : conn[f] \in joined[g]
      BY ONLY <2>1, GroupAddressInv DEF GroupAddressInv
    <2>3. QED
      BY ONLY <2>1, <2>2 DEF DownstreamReachesAddressee
  <1>23. CASE SetCid
    BY <1>23 DEF SetCid
  <1>24. CASE SetUid
    BY <1>24 DEF SetUid, Done, NoMsg
  <1>25. CASE AddCid
    BY <1>25 DEF AddCid
  <1>26. CASE AddGid
    BY <1>26 DEF AddGid
  <1>27. CASE LoopEnds
    BY <1>27 DEF LoopEnds, Done, NoMsg
  <1>28. CASE UNCHANGED vars
    BY <1>28 DEF vars
  <1>29. QED
    BY ONLY [Next]_vars, <1>1, <1>2, <1>3, <1>4, <1>5, <1>6, <1>7, <1>8, <1>9,
            <1>10, <1>11, <1>12, <1>13, <1>14, <1>15, <1>16, <1>17, <1>18,
            <1>19, <1>20, <1>21, <1>22, <1>23, <1>24, <1>25, <1>26, <1>27,
            <1>28
       DEF Next, Callback, Dispatch, Erase, Threads

\* A new connection is the newest, and nothing old is ever written.
LEMMA NewestStep ==
  ASSUME LocalInv, NewestInv, [Next]_vars
  PROVE  NewestInv'
  <1> USE ExchangeConstants
      DEF LocalInv, TypeOK, MsgOK, CommOK, WorkOK, ConnOK, Threads, connVars, mapVars,
          locals, histVars, At, Goto, EraseSteps, CommSteps, WorkSteps, Naming,
          MsgTypes, NewestInv, Newest, Sessions
  <1>1. ASSUME NEW f \in Fds, Accept(f) PROVE NewestInv'
    <2>1. /\ home' \in Seq(Fds) /\ Len(home') = Len(home) + 1 /\ Len(home) \in Nat
          /\ home'[Len(home) + 1] = f /\ \A s \in Sessions : home'[s] = home[s]
      BY <1>1 DEF Accept, Sessions
    <2>2. Sessions' = Sessions \cup {Len(home) + 1} /\ Len(home) + 1 \notin Sessions
      BY ONLY <2>1 DEF Sessions
    <2> PICK n \in Nat : n = Len(home) + 1
      BY <2>1
    <2>3. Newest(f, n)'
      BY ONLY <2>1, n = Len(home) + 1 DEF Newest, Sessions
    <2>4. \A e \in Fds, s \in Sessions : e # f /\ Newest(e, s) => Newest(e, s)'
      BY ONLY <2>1, <2>2 DEF Newest
    <2>5. \A e \in Fds : /\ e # f => conn'[e] = conn[e] /\ slot'[e] = slot[e]
                         /\ e = f => conn'[e] = n /\ slot'[e].uuid = n
      BY <1>1 DEF Accept
    <2>6. \A e \in Fds : \A s : Newest(e, s) => s \in Sessions
      BY ONLY DEF Newest
    <2>7. ASSUME NEW e \in Fds
          PROVE  /\ conn'[e] # 0 => Newest(e, conn[e])'
                 /\ slot'[e].uuid # 0 => Newest(e, slot[e].uuid)'
      <3>1. /\ conn[e] # 0 => Newest(e, conn[e])
            /\ slot[e].uuid # 0 => Newest(e, slot[e].uuid)
        BY ONLY NewestInv, e \in Fds DEF NewestInv
      <3>2. CASE e = f
        BY ONLY <3>2, <2>3, <2>5, e \in Fds, Zenon
      <3>3. CASE e # f
        <4>1. conn'[e] = conn[e] /\ slot'[e] = slot[e]
          BY ONLY <3>3, <2>5, e \in Fds
        <4>2. \A s : Newest(e, s) => Newest(e, s)'
          BY ONLY <3>3, <2>4, <2>6, e \in Fds, Zenon
        <4>3. QED
          BY ONLY <3>1, <4>1, <4>2
      <3>4. QED
        BY ONLY <3>2, <3>3
    <2>8. QED
      BY ONLY <2>7 DEF NewestInv
  <1>2. ASSUME NEW f \in Fds, Stop(f) PROVE NewestInv'
    BY <1>2 DEF Stop
  <1>3. ASSUME NEW f \in Fds, RecvClient(f) PROVE NewestInv'
    BY <1>3 DEF RecvClient, NoMsg
  <1>4. ASSUME NEW g \in Gateways, GatewayStop(g) PROVE NewestInv'
    BY <1>4 DEF GatewayStop
  <1>5. CASE RecvGateway
    BY <1>5, RecvGatewayFrame, RecvGatewayLocal
  <1>6. CASE Announce
    BY <1>6 DEF Announce, SendStatus, Send, Done
  <1>7. CASE ReportStop
    BY <1>7 DEF ReportStop, SendStatus, Send, Done
  <1>8. ASSUME NEW t \in Threads, SlotDel(t) PROVE NewestInv'
    <2>1. /\ UNCHANGED <<conn, home>>
          /\ \A e \in Fds : slot'[e] = slot[e] \/ slot'[e].uuid = 0
      BY <1>8 DEF SlotDel, Cleared
    <2>2. \A e, s : Newest(e, s) => Newest(e, s)'
      BY ONLY <2>1 DEF Newest, Sessions
    <2>3. QED
      BY ONLY NewestInv, <2>1, <2>2 DEF NewestInv
  <1>9. ASSUME NEW t \in Threads, GetUid(t) PROVE NewestInv'
    BY <1>9 DEF GetUid
  <1>10. ASSUME NEW t \in Threads, DelUid(t) PROVE NewestInv'
    BY <1>10 DEF DelUid
  <1>11. ASSUME NEW t \in Threads, DelCid(t) PROVE NewestInv'
    BY <1>11 DEF DelCid
  <1>12. ASSUME NEW t \in Threads, GetGids(t) PROVE NewestInv'
    BY <1>12 DEF GetGids
  <1>13. ASSUME NEW t \in Threads, RemGid(t) PROVE NewestInv'
    BY <1>13 DEF RemGid
  <1>14. ASSUME NEW t \in Threads, RemCid(t) PROVE NewestInv'
    BY <1>14 DEF RemCid
  <1>15. CASE CloseErased
    BY <1>15 DEF CloseErased, Done, NoMsg
  <1>16. CASE Upstream
    BY <1>16 DEF Upstream, Send, Done, NoMsg
  <1>17. CASE Route
    BY <1>17 DEF Route, TakenForClient, FromGateway, StreamCommands,
                 ManageCommands
  <1>18. CASE HandleCid
    BY <1>18 DEF HandleCid, Send, Done, NoMsg
  <1>19. CASE LookupUid
    BY <1>19 DEF LookupUid, Done, NoMsg
  <1>20. CASE SendUid
    BY <1>20 DEF SendUid, Send, Done, NoMsg
  <1>21. CASE LookupGid
    BY <1>21 DEF LookupGid
  <1>22. CASE SendGid
    <2>1. UNCHANGED <<conn, home, slot>>
      BY <1>22 DEF SendGid
    <2>2. QED
      BY ONLY NewestInv, <2>1 DEF NewestInv, Newest, Sessions
  <1>23. CASE SetCid
    BY <1>23 DEF SetCid
  <1>24. CASE SetUid
    BY <1>24 DEF SetUid, Done, NoMsg
  <1>25. CASE AddCid
    BY <1>25 DEF AddCid
  <1>26. CASE AddGid
    BY <1>26 DEF AddGid
  <1>27. CASE LoopEnds
    BY <1>27 DEF LoopEnds, Done, NoMsg
  <1>28. CASE UNCHANGED vars
    BY <1>28 DEF vars
  <1>29. QED
    BY ONLY [Next]_vars, <1>1, <1>2, <1>3, <1>4, <1>5, <1>6, <1>7, <1>8, <1>9,
            <1>10, <1>11, <1>12, <1>13, <1>14, <1>15, <1>16, <1>17, <1>18,
            <1>19, <1>20, <1>21, <1>22, <1>23, <1>24, <1>25, <1>26, <1>27,
            <1>28
       DEF Next, Callback, Dispatch, Erase, Threads

\* Only the login of a user changes where the user is.
LEMMA UserHomeStep ==
  ASSUME LocalInv, UserHomeInv, [Next]_vars
  PROVE  UserHomeInv'
  <1> USE ExchangeConstants
      DEF LocalInv, TypeOK, MsgOK, CommOK, WorkOK, ConnOK, Threads, connVars, mapVars,
          locals, histVars, At, Goto, EraseSteps, CommSteps, WorkSteps, Naming,
          MsgTypes, UserHomeInv, LoggedInOn, Sessions
  <1>1. ASSUME NEW f \in Fds, Accept(f) PROVE UserHomeInv'
    <2>1. /\ home' \in Seq(Fds) /\ Len(home') = Len(home) + 1 /\ Len(home) \in Nat
          /\ home'[Len(home) + 1] = f /\ \A s \in Sessions : home'[s] = home[s]
      BY <1>1 DEF Accept, Sessions
    <2>2. Sessions' = Sessions \cup {Len(home) + 1} /\ Len(home) + 1 \notin Sessions
      BY ONLY <2>1 DEF Sessions
    <2>3. UNCHANGED <<bound, uidCid, msg>> /\ pc'["work"] = pc["work"]
          /\ fd'["work"] = fd["work"]
      BY <1>1 DEF Accept
    <2>4. \A u, e : LoggedInOn(u, e) => LoggedInOn(u, e)'
      BY ONLY <2>1, <2>2, <2>3 DEF LoggedInOn
    <2>5. QED
      BY ONLY UserHomeInv, <2>3, <2>4 DEF UserHomeInv
  <1>2. ASSUME NEW f \in Fds, Stop(f) PROVE UserHomeInv'
    BY <1>2 DEF Stop
  <1>3. ASSUME NEW f \in Fds, RecvClient(f) PROVE UserHomeInv'
    BY <1>3 DEF RecvClient, NoMsg
  <1>4. ASSUME NEW g \in Gateways, GatewayStop(g) PROVE UserHomeInv'
    BY <1>4 DEF GatewayStop
  <1>5. CASE RecvGateway
    <2>1. /\ pc["work"] = "idle" /\ pc'["work"] = "route"
          /\ UNCHANGED <<home, uidCid, bound>>
      BY <1>5, RecvGatewayFrame
    <2>2. \A u, f : LoggedInOn(u, f) => LoggedInOn(u, f)'
      BY ONLY <2>1 DEF LoggedInOn, Sessions
    <2>3. QED
      BY ONLY UserHomeInv, <2>1, <2>2 DEF UserHomeInv
  <1>6. CASE Announce
    BY <1>6 DEF Announce, SendStatus, Send, Done
  <1>7. CASE ReportStop
    BY <1>7 DEF ReportStop, SendStatus, Send, Done
  <1>8. ASSUME NEW t \in Threads, SlotDel(t) PROVE UserHomeInv'
    BY <1>8 DEF SlotDel, Cleared
  <1>9. ASSUME NEW t \in Threads, GetUid(t) PROVE UserHomeInv'
    BY <1>9 DEF GetUid
  <1>10. ASSUME NEW t \in Threads, DelUid(t) PROVE UserHomeInv'
    BY <1>10 DEF DelUid
  <1>11. ASSUME NEW t \in Threads, DelCid(t) PROVE UserHomeInv'
    BY <1>11 DEF DelCid
  <1>12. ASSUME NEW t \in Threads, GetGids(t) PROVE UserHomeInv'
    BY <1>12 DEF GetGids
  <1>13. ASSUME NEW t \in Threads, RemGid(t) PROVE UserHomeInv'
    BY <1>13 DEF RemGid
  <1>14. ASSUME NEW t \in Threads, RemCid(t) PROVE UserHomeInv'
    BY <1>14 DEF RemCid
  <1>15. CASE CloseErased
    BY <1>15 DEF CloseErased, Done, NoMsg
  <1>16. CASE Upstream
    BY <1>16 DEF Upstream, Send, Done, NoMsg
  <1>17. CASE Route
    <2>1. /\ pc["work"] = "route"
          /\ pc'["work"] = IF msg.type = "closed" THEN "slot" ELSE msg.type
          /\ \A u \in Uids : bound'[u] = IF msg.type = "uidmap" /\ u = msg.uid
                                           THEN msg.uuid ELSE bound[u]
          /\ UNCHANGED <<home, uidCid, msg>>
      BY <1>17 DEF Route
    <2>2. /\ msg.type \in MsgTypes
          /\ msg.type = "uidmap" => /\ msg.uid \in Uids /\ msg.uuid \in Sessions
                                    /\ home[msg.uuid] = msg.fd
      OBVIOUS
    <2>3. msg.type = "uidmap" => LoggedInOn(msg.uid, msg.fd)'
      BY ONLY <2>1, <2>2 DEF LoggedInOn, Sessions
    <2>4. \A u \in Uids, f \in Fds :
            LoggedInOn(u, f) => LoggedInOn(u, f)' \/ (msg.type = "uidmap" /\ u = msg.uid)
      BY ONLY <2>1 DEF LoggedInOn, Sessions
    <2>5. \A u \in Uids : uidCid[u] \in Fds \cup {NoFd}
      OBVIOUS
    <2>6. QED
      BY ONLY UserHomeInv, <2>1, <2>2, <2>3, <2>4, <2>5
         DEF UserHomeInv, MsgTypes, Naming
  <1>18. CASE HandleCid
    BY <1>18 DEF HandleCid, Send, Done, NoMsg
  <1>19. CASE LookupUid
    BY <1>19 DEF LookupUid, Done, NoMsg
  <1>20. CASE SendUid
    BY <1>20 DEF SendUid, Send, Done, NoMsg
  <1>21. CASE LookupGid
    BY <1>21 DEF LookupGid
  <1>22. CASE SendGid
    BY <1>22 DEF SendGid, Send
  <1>23. CASE SetCid
    BY <1>23 DEF SetCid
  <1>24. CASE SetUid
    BY <1>24 DEF SetUid, Done, NoMsg
  <1>25. CASE AddCid
    BY <1>25 DEF AddCid
  <1>26. CASE AddGid
    BY <1>26 DEF AddGid
  <1>27. CASE LoopEnds
    BY <1>27 DEF LoopEnds, Done, NoMsg
  <1>28. CASE UNCHANGED vars
    BY <1>28 DEF vars
  <1>29. QED
    BY ONLY [Next]_vars, <1>1, <1>2, <1>3, <1>4, <1>5, <1>6, <1>7, <1>8, <1>9,
            <1>10, <1>11, <1>12, <1>13, <1>14, <1>15, <1>16, <1>17, <1>18,
            <1>19, <1>20, <1>21, <1>22, <1>23, <1>24, <1>25, <1>26, <1>27,
            <1>28
       DEF Next, Callback, Dispatch, Erase, Threads

\* Only a connection that joins a group puts its descriptor there.
LEMMA GroupHomeStep ==
  ASSUME LocalInv, GroupHomeInv, [Next]_vars
  PROVE  GroupHomeInv'
  <1> USE ExchangeConstants
      DEF LocalInv, TypeOK, MsgOK, CommOK, WorkOK, ConnOK, Threads, connVars, mapVars,
          locals, histVars, At, Goto, EraseSteps, CommSteps, WorkSteps, Naming,
          MsgTypes, GroupHomeInv, JoinedOn, Sessions
  <1>1. ASSUME NEW f \in Fds, Accept(f) PROVE GroupHomeInv'
    <2>1. /\ home' \in Seq(Fds) /\ Len(home') = Len(home) + 1 /\ Len(home) \in Nat
          /\ home'[Len(home) + 1] = f /\ \A s \in Sessions : home'[s] = home[s]
      BY <1>1 DEF Accept, Sessions
    <2>2. Sessions' = Sessions \cup {Len(home) + 1} /\ Len(home) + 1 \notin Sessions
      BY ONLY <2>1 DEF Sessions
    <2>3. UNCHANGED <<joined, gidCid, msg, todo>> /\ pc'["work"] = pc["work"]
      BY <1>1 DEF Accept
    <2>4. \A g, e : JoinedOn(g, e) => JoinedOn(g, e)'
      BY ONLY <2>1, <2>2, <2>3 DEF JoinedOn
    <2>5. \A g \in Gids : \A e \in gidCid'[g] : JoinedOn(g, e)'
      <3>1. \A g \in Gids : \A e \in gidCid[g] : JoinedOn(g, e)
        BY ONLY GroupHomeInv DEF GroupHomeInv
      <3>2. gidCid' = gidCid
        BY ONLY <2>3
      <3>3. QED
        BY ONLY <3>1, <3>2, <2>4
    <2>6. pc'["work"] \in {"gidmap", "addgid"} =>
            \A g \in msg'.gids : JoinedOn(g, msg.fd)'
      BY ONLY GroupHomeInv, <2>1, <2>2, <2>3 DEF GroupHomeInv, JoinedOn
    <2>7. pc'["work"] = "gidsend" =>
            \A e \in todo'["work"] : \E g \in msg'.gids : JoinedOn(g, e)'
      BY ONLY GroupHomeInv, <2>3, <2>4 DEF GroupHomeInv
    <2>8. QED
      BY ONLY <2>5, <2>6, <2>7 DEF GroupHomeInv
  <1>2. ASSUME NEW f \in Fds, Stop(f) PROVE GroupHomeInv'
    BY <1>2 DEF Stop
  <1>3. ASSUME NEW f \in Fds, RecvClient(f) PROVE GroupHomeInv'
    BY <1>3 DEF RecvClient, NoMsg
  <1>4. ASSUME NEW g \in Gateways, GatewayStop(g) PROVE GroupHomeInv'
    BY <1>4 DEF GatewayStop
  <1>5. CASE RecvGateway
    <2>1. pc'["work"] = "route" /\ UNCHANGED <<home, gidCid, joined>>
      BY <1>5, RecvGatewayFrame
    <2>2. \A g, f : JoinedOn(g, f) => JoinedOn(g, f)'
      BY ONLY <2>1 DEF JoinedOn, Sessions
    <2>3. QED
      BY ONLY GroupHomeInv, <2>1, <2>2 DEF GroupHomeInv
  <1>6. CASE Announce
    BY <1>6 DEF Announce, SendStatus, Send, Done
  <1>7. CASE ReportStop
    BY <1>7 DEF ReportStop, SendStatus, Send, Done
  <1>8. ASSUME NEW t \in Threads, SlotDel(t) PROVE GroupHomeInv'
    BY <1>8 DEF SlotDel, Cleared
  <1>9. ASSUME NEW t \in Threads, GetUid(t) PROVE GroupHomeInv'
    BY <1>9 DEF GetUid
  <1>10. ASSUME NEW t \in Threads, DelUid(t) PROVE GroupHomeInv'
    BY <1>10 DEF DelUid
  <1>11. ASSUME NEW t \in Threads, DelCid(t) PROVE GroupHomeInv'
    BY <1>11 DEF DelCid
  <1>12. ASSUME NEW t \in Threads, GetGids(t) PROVE GroupHomeInv'
    BY <1>12 DEF GetGids
  <1>13. ASSUME NEW t \in Threads, RemGid(t) PROVE GroupHomeInv'
    BY <1>13 DEF RemGid
  <1>14. ASSUME NEW t \in Threads, RemCid(t) PROVE GroupHomeInv'
    BY <1>14 DEF RemCid
  <1>15. CASE CloseErased
    BY <1>15 DEF CloseErased, Done, NoMsg
  <1>16. CASE Upstream
    BY <1>16 DEF Upstream, Send, Done, NoMsg
  <1>17. CASE Route
    <2>1. /\ pc["work"] = "route"
          /\ pc'["work"] = IF msg.type = "closed" THEN "slot" ELSE msg.type
          /\ \A g \in Gids : joined'[g] = IF msg.type = "gidmap" /\ g \in msg.gids
                                            THEN joined[g] \cup {msg.uuid} ELSE joined[g]
          /\ UNCHANGED <<home, gidCid, msg>>
      BY <1>17 DEF Route
    <2>2. /\ msg.type \in MsgTypes /\ msg.gids \subseteq Gids
          /\ msg.type = "gidmap" => msg.uuid \in Sessions /\ home[msg.uuid] = msg.fd
      OBVIOUS
    <2>3. msg.type = "gidmap" => \A g \in msg.gids : JoinedOn(g, msg.fd)'
      BY ONLY <2>1, <2>2 DEF JoinedOn, Sessions
    <2>4. \A g \in Gids, f \in Fds : JoinedOn(g, f) => JoinedOn(g, f)'
      BY ONLY <2>1 DEF JoinedOn, Sessions
    <2>5. \A g \in Gids : gidCid[g] \subseteq Fds
      OBVIOUS
    <2>6. QED
      BY ONLY GroupHomeInv, <2>1, <2>2, <2>3, <2>4, <2>5
         DEF GroupHomeInv, MsgTypes, Naming
  <1>18. CASE HandleCid
    BY <1>18 DEF HandleCid, Send, Done, NoMsg
  <1>19. CASE LookupUid
    BY <1>19 DEF LookupUid, Done, NoMsg
  <1>20. CASE SendUid
    BY <1>20 DEF SendUid, Send, Done, NoMsg
  <1>21. CASE LookupGid
    <2>1. /\ pc["work"] = "gid" /\ pc'["work"] = "gidsend" /\ msg.gids \subseteq Gids
          /\ todo'["work"] = UNION {gidCid[g] : g \in msg.gids}
          /\ UNCHANGED <<home, gidCid, joined, msg>>
      BY <1>21 DEF LookupGid
    <2>2. \A f \in todo'["work"] : \E g \in msg.gids : f \in gidCid[g]
      BY ONLY <2>1
    <2>3. \A g, f : JoinedOn(g, f) => JoinedOn(g, f)'
      BY ONLY <2>1 DEF JoinedOn, Sessions
    <2>4. QED
      BY ONLY GroupHomeInv, <2>1, <2>2, <2>3 DEF GroupHomeInv
  <1>22. CASE SendGid
    BY <1>22 DEF SendGid, Send
  <1>23. CASE SetCid
    BY <1>23 DEF SetCid
  <1>24. CASE SetUid
    BY <1>24 DEF SetUid, Done, NoMsg
  <1>25. CASE AddCid
    BY <1>25 DEF AddCid
  <1>26. CASE AddGid
    BY <1>26 DEF AddGid
  <1>27. CASE LoopEnds
    BY <1>27 DEF LoopEnds, Done, NoMsg
  <1>28. CASE UNCHANGED vars
    BY <1>28 DEF vars
  <1>29. QED
    BY ONLY [Next]_vars, <1>1, <1>2, <1>3, <1>4, <1>5, <1>6, <1>7, <1>8, <1>9,
            <1>10, <1>11, <1>12, <1>13, <1>14, <1>15, <1>16, <1>17, <1>18,
            <1>19, <1>20, <1>21, <1>22, <1>23, <1>24, <1>25, <1>26, <1>27,
            <1>28
       DEF Next, Callback, Dispatch, Erase, Threads

\* What is sent goes by a slot or a descriptor whose connections are in order.
LEMMA StrayStep ==
  ASSUME LocalInv, NewestInv, UserHomeInv, GroupHomeInv, StrayOnlyForward, [Next]_vars
  PROVE  StrayOnlyForward'
  <1> USE ExchangeConstants
      DEF LocalInv, TypeOK, MsgOK, CommOK, WorkOK, ConnOK, Threads, connVars, mapVars,
          locals, histVars, At, Goto, EraseSteps, CommSteps, WorkSteps, Naming,
          MsgTypes, Sessions, StrayOnlyForward, Nothing
  <1>1. ASSUME NEW f \in Fds, Accept(f) PROVE StrayOnlyForward'
    BY <1>1 DEF Accept
  <1>2. ASSUME NEW f \in Fds, Stop(f) PROVE StrayOnlyForward'
    BY <1>2 DEF Stop
  <1>3. ASSUME NEW f \in Fds, RecvClient(f) PROVE StrayOnlyForward'
    BY <1>3 DEF RecvClient, NoMsg
  <1>4. ASSUME NEW g \in Gateways, GatewayStop(g) PROVE StrayOnlyForward'
    BY <1>4 DEF GatewayStop
  <1>5. CASE RecvGateway
    BY <1>5, RecvGatewayFrame, RecvGatewayLocal
  <1>6. CASE Announce
    BY <1>6 DEF Announce, SendStatus, Send, Done
  <1>7. CASE ReportStop
    BY <1>7 DEF ReportStop, SendStatus, Send, Done
  <1>8. ASSUME NEW t \in Threads, SlotDel(t) PROVE StrayOnlyForward'
    BY <1>8 DEF SlotDel, Cleared
  <1>9. ASSUME NEW t \in Threads, GetUid(t) PROVE StrayOnlyForward'
    BY <1>9 DEF GetUid
  <1>10. ASSUME NEW t \in Threads, DelUid(t) PROVE StrayOnlyForward'
    BY <1>10 DEF DelUid
  <1>11. ASSUME NEW t \in Threads, DelCid(t) PROVE StrayOnlyForward'
    BY <1>11 DEF DelCid
  <1>12. ASSUME NEW t \in Threads, GetGids(t) PROVE StrayOnlyForward'
    BY <1>12 DEF GetGids
  <1>13. ASSUME NEW t \in Threads, RemGid(t) PROVE StrayOnlyForward'
    BY <1>13 DEF RemGid
  <1>14. ASSUME NEW t \in Threads, RemCid(t) PROVE StrayOnlyForward'
    BY <1>14 DEF RemCid
  <1>15. CASE CloseErased
    BY <1>15 DEF CloseErased, Done, NoMsg
  <1>16. CASE Upstream
    <2>1. CASE out' = out
      BY <1>16, <2>1 DEF Upstream
    <2>2. CASE out' # out
      <3> DEFINE u == IF msg.type = "client" THEN slot[msg.fd].uuid ELSE 0
      <3>1. out' = [kind |-> "up", should |-> {msg.uuid}, does |-> u] /\ home' = home
        BY <1>16, <2>2 DEF Upstream, Send
      <3>2. u # 0 => /\ msg.fd \in Fds /\ msg.uuid \in Sessions
                     /\ home[msg.uuid] = msg.fd /\ Newest(msg.fd, u)
        BY NewestInv DEF NewestInv
      <3> HIDE DEF u
      <3>3. QED
        BY ONLY <3>1, <3>2 DEF StrayOnlyForward, Newest, Sessions
    <2>3. QED
      BY <2>1, <2>2
  <1>17. CASE Route
    BY <1>17 DEF Route, TakenForClient, FromGateway, StreamCommands,
                 ManageCommands
  <1>18. CASE HandleCid
    <2>1. out' = [kind |-> "down", should |-> {msg.uuid}, does |-> conn[msg.fd]]
          /\ home' = home
      BY <1>18 DEF HandleCid, Send
    <2>2. /\ msg.fd \in Fds /\ msg.uuid \in Sessions /\ home[msg.uuid] = msg.fd
          /\ conn[msg.fd] # 0 => Newest(msg.fd, conn[msg.fd])
      BY <1>18, NewestInv DEF HandleCid, NewestInv
    <2>3. QED
      BY ONLY <2>1, <2>2 DEF StrayOnlyForward, Newest, Sessions
  <1>19. CASE LookupUid
    BY <1>19 DEF LookupUid, Done, NoMsg
  <1>20. CASE SendUid
    <2>1. /\ out' = [kind |-> "down", should |-> {bound[msg.uid]},
                     does |-> conn[fd["work"]]]
          /\ home' = home /\ pc["work"] = "uidsend"
      BY <1>20 DEF SendUid, Send
    <2>2. /\ fd["work"] \in Fds /\ LoggedInOn(msg.uid, fd["work"])
          /\ conn[fd["work"]] # 0 => Newest(fd["work"], conn[fd["work"]])
      BY <2>1, NewestInv, UserHomeInv DEF NewestInv, UserHomeInv
    <2>3. QED
      BY ONLY <2>1, <2>2 DEF StrayOnlyForward, Newest, LoggedInOn, Sessions
  <1>21. CASE LookupGid
    BY <1>21 DEF LookupGid
  <1>22. CASE SendGid
    <2>1. PICK f \in todo["work"] :
            /\ pc["work"] = "gidsend" /\ home' = home
            /\ out' = [kind |-> "down", should |-> UNION {joined[g] : g \in msg.gids},
                       does |-> conn[f]]
      BY <1>22 DEF SendGid, Send
    <2>2. f \in Fds /\ (conn[f] # 0 => Newest(f, conn[f]))
      BY <2>1, NewestInv DEF NewestInv
    <2>3. PICK g \in msg.gids : JoinedOn(g, f)
      BY ONLY <2>1, GroupHomeInv DEF GroupHomeInv
    <2>4. PICK s \in joined[g] : s \in Sessions /\ home[s] = f
      BY ONLY <2>3 DEF JoinedOn
    <2>5. s \in UNION {joined[h] : h \in msg.gids}
      BY ONLY <2>3, <2>4
    <2>6. QED
      BY ONLY <2>1, <2>2, <2>4, <2>5 DEF StrayOnlyForward, Newest, Sessions
  <1>23. CASE SetCid
    BY <1>23 DEF SetCid
  <1>24. CASE SetUid
    BY <1>24 DEF SetUid, Done, NoMsg
  <1>25. CASE AddCid
    BY <1>25 DEF AddCid
  <1>26. CASE AddGid
    BY <1>26 DEF AddGid
  <1>27. CASE LoopEnds
    BY <1>27 DEF LoopEnds, Done, NoMsg
  <1>28. CASE UNCHANGED vars
    BY <1>28 DEF vars
  <1>29. QED
    BY ONLY [Next]_vars, <1>1, <1>2, <1>3, <1>4, <1>5, <1>6, <1>7, <1>8, <1>9,
            <1>10, <1>11, <1>12, <1>13, <1>14, <1>15, <1>16, <1>17, <1>18,
            <1>19, <1>20, <1>21, <1>22, <1>23, <1>24, <1>25, <1>26, <1>27,
            <1>28
       DEF Next, Callback, Dispatch, Erase, Threads

-----------------------------------------------------------------------------
(* The theorems *)

LEMMA InvInit ==
  ASSUME Init
  PROVE  /\ SlotIsCurrent /\ NamedInv /\ MirrorInv /\ UserInv /\ GoneInv
         /\ UserAddressInv /\ GroupAddressInv /\ ReachInv
         /\ DownstreamReachesAddressee
         /\ NewestInv /\ UserHomeInv /\ GroupHomeInv /\ StrayOnlyForward
  <1> USE ExchangeConstants DEF Init, Threads, NoMsg, Nothing, Naming, Cleared
  <1>1. SlotIsCurrent
    BY DEF SlotIsCurrent
  <1>2. NamedInv /\ MirrorInv
    BY DEF NamedInv, MirrorInv
  <1>3. UserInv /\ GoneInv
    BY DEF UserInv, GoneInv
  <1>4. UserAddressInv /\ GroupAddressInv /\ ReachInv
    BY DEF UserAddressInv, GroupAddressInv, ReachInv
  <1>5. DownstreamReachesAddressee
    BY DEF DownstreamReachesAddressee
  <1>6. NewestInv /\ UserHomeInv /\ GroupHomeInv /\ StrayOnlyForward
    BY DEF NewestInv, UserHomeInv, GroupHomeInv, StrayOnlyForward
  <1>7. QED
    BY ONLY <1>1, <1>2, <1>3, <1>4, <1>5, <1>6

(***************************************************************************)
(* A slot of exc_sockfd_manager.c is never left over from an earlier       *)
(* connection: neither a forced close nor the loss of a gateway, in any    *)
(* order, leaves an old uuid where get_cid would find it.                  *)
(***************************************************************************)
THEOREM SlotNeverStale == Spec => []SlotIsCurrent
  <1>1. Init => SlotIsCurrent
    BY InvInit
  <1>2. LocalInv /\ SlotIsCurrent /\ [Next]_vars => SlotIsCurrent'
    BY SlotCurrentStep
  <1>3. QED
    BY <1>1, <1>2, LocalsInOrder, PTL DEF Spec

LEMMA HomesKnown == Spec => [](NewestInv /\ UserHomeInv /\ GroupHomeInv)
  <1>1. Init => NewestInv /\ UserHomeInv /\ GroupHomeInv
    BY InvInit
  <1>2. LocalInv /\ NewestInv /\ [Next]_vars => NewestInv'
    BY NewestStep
  <1>3. LocalInv /\ UserHomeInv /\ [Next]_vars => UserHomeInv'
    BY UserHomeStep
  <1>4. LocalInv /\ GroupHomeInv /\ [Next]_vars => GroupHomeInv'
    BY GroupHomeStep
  <1>5. QED
    BY <1>1, <1>2, <1>3, <1>4, LocalsInOrder, PTL DEF Spec

(***************************************************************************)
(* Whatever _dispatch_client, _handle_cid_message, _handle_uid_message and *)
(* _handle_gid_message send while connections end and begin, users log in  *)
(* again, clients are closed and gateways are lost, is attributed to, or   *)
(* reaches, a connection that was meant or a later one on its descriptor.  *)
(***************************************************************************)
THEOREM StraysGoForward == Spec => []StrayOnlyForward
  <1>1. Init => StrayOnlyForward
    BY InvInit
  <1>2. LocalInv /\ NewestInv /\ UserHomeInv /\ GroupHomeInv /\ StrayOnlyForward
        /\ [Next]_vars => StrayOnlyForward'
    BY StrayStep
  <1>3. QED
    BY <1>1, <1>2, LocalsInOrder, HomesKnown, PTL DEF Spec

LEMMA MapsMirror ==
  ASSUME Orderly
  PROVE  Spec => [](NamedInv /\ MirrorInv)
  <1>1. Init => NamedInv /\ MirrorInv
    BY InvInit
  <1>2. LocalInv /\ NamedInv /\ [Next]_vars => NamedInv'
    BY NamedStep
  <1>3. LocalInv /\ NamedInv /\ MirrorInv /\ [Next]_vars => MirrorInv'
    BY MirrorStep
  <1>4. QED
    BY <1>1, <1>2, <1>3, LocalsInOrder, PTL DEF Spec

(***************************************************************************)
(* exc_cid_map.c and exc_gid_map.c keep CID_GID and GID_CID the same       *)
(* relation, whenever neither thread is between its two writes, as long as *)
(* the worker and a callback are never at one descriptor.  Logins, forced  *)
(* closes and lost gateways do not matter.                                 *)
(***************************************************************************)
THEOREM GroupMapsMirror ==
  ASSUME Orderly
  PROVE  Spec => []GroupsMirror
  <1>1. MirrorInv => GroupsMirror
    BY DEF MirrorInv, GroupsMirror, InHand, Quiet, Threads
  <1>2. QED
    BY <1>1, MapsMirror, PTL

LEMMA UsersAndGone ==
  ASSUME Orderly, ~Rebinds
  PROVE  Spec => [](UserInv /\ GoneInv)
  <1>1. Init => UserInv /\ GoneInv
    BY InvInit
  <1>2. LocalInv /\ NamedInv /\ UserInv /\ [Next]_vars => UserInv'
    BY UserStep
  <1>3. LocalInv /\ NamedInv /\ UserInv /\ GoneInv /\ [Next]_vars => GoneInv'
    BY GoneStep
  <1>4. QED
    BY <1>1, <1>2, <1>3, LocalsInOrder, MapsMirror, PTL DEF Spec

(***************************************************************************)
(* erase_client leaves no key of a client that is offline (key.md), when   *)
(* the threads are never at one descriptor and a user logs in once.        *)
(***************************************************************************)
THEOREM OfflineLeavesNothing ==
  ASSUME Orderly, ~Rebinds
  PROVE  Spec => []OfflineCleared
  <1>1. MirrorInv /\ GoneInv => OfflineCleared
    BY DEF MirrorInv, GoneInv, Stopping, InHand, OfflineCleared, Quiet, Threads
  <1>2. QED
    BY <1>1, MapsMirror, UsersAndGone, PTL

LEMMA Addresses ==
  ASSUME Orderly, ~Rebinds
  PROVE  Spec => [](UserAddressInv /\ GroupAddressInv)
  <1>1. Init => UserAddressInv /\ GroupAddressInv
    BY InvInit
  <1>2. LocalInv /\ NamedInv /\ UserInv /\ GoneInv /\ UserAddressInv /\ [Next]_vars
        => UserAddressInv'
    BY UserAddressStep
  <1>3. LocalInv /\ NamedInv /\ MirrorInv /\ GoneInv /\ GroupAddressInv /\ [Next]_vars
        => GroupAddressInv'
    BY GroupAddressStep
  <1>4. QED
    BY <1>1, <1>2, <1>3, LocalsInOrder, MapsMirror, UsersAndGone, PTL DEF Spec

(***************************************************************************)
(* What _handle_cid_message, _handle_uid_message and _handle_gid_message   *)
(* send reaches a connection the application meant, or none, although the  *)
(* maps know a client by its descriptor alone: no descriptor gets a new    *)
(* connection while a map or the worker still has it for an old one.       *)
(***************************************************************************)
THEOREM AddresseeReached ==
  ASSUME Orderly, ~Rebinds
  PROVE  Spec => []DownstreamReachesAddressee
  <1>1. Init => DownstreamReachesAddressee
    BY InvInit
  <1>2. LocalInv /\ NamedInv /\ UserAddressInv /\ GroupAddressInv
        /\ DownstreamReachesAddressee /\ [Next]_vars => DownstreamReachesAddressee'
    BY DownstreamStep
  <1>3. QED
    BY <1>1, <1>2, LocalsInOrder, MapsMirror, Addresses, PTL DEF Spec

LEMMA UsersMapped ==
  ASSUME Orderly, ~Rebinds, "closed" \notin Commands
  PROVE  Spec => []ReachInv
  <1>1. Init => ReachInv
    BY InvInit
  <1>2. LocalInv /\ NamedInv /\ UserInv /\ UserAddressInv /\ ReachInv /\ [Next]_vars
        => ReachInv'
    BY ReachStep
  <1>3. QED
    BY <1>1, <1>2, LocalsInOrder, MapsMirror, UsersAndGone, Addresses, PTL DEF Spec

(***************************************************************************)
(* A user that is connected is in UID_CID with the connection it logged in *)
(* on last: the DelUid of an earlier connection's STEP_STOP never takes a  *)
(* later login out.                                                        *)
(***************************************************************************)
THEOREM UserStaysReachable ==
  ASSUME Orderly, ~Rebinds, "closed" \notin Commands
  PROVE  Spec => []UidReachable
  <1>1. ReachInv => UidReachable
    BY DEF ReachInv, UidReachable, Quiet, Threads
  <1>2. QED
    BY <1>1, UsersMapped, PTL

=============================================================================
