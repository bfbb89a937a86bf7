------------------------------ MODULE Exchange ------------------------------
(***************************************************************************)
(* The exchange of openChat (src/programs/IMX/openChat/exchange): it keeps *)
(* the connections of chat clients, the maps that bind them to user and    *)
(* group identities, and routes messages between clients and the stream,   *)
(* manage and status gateways.                                             *)
(*                                                                         *)
(* Two threads run in it: the thread of libcomm, which calls the           *)
(* exc_event_notify_* callbacks one after another ("comm"), and the one    *)
(* that loops over exc_message_dispatch ("work").  They share the slots of *)
(* exc_sockfd_manager and the maps without a lock; a step is one access to *)
(* a slot, one command of libkv or one commapi_send.                       *)
(*                                                                         *)
(* A client identity (cid) names a connection by uuid and descriptor.  The *)
(* uuid is a number here, 0 for the empty string of a cleared slot, and    *)
(* every connection gets a new one.  Messages that name another exchange,  *)
(* or whose frames are malformed, are not modelled.                        *)
(***************************************************************************)
EXTENDS Naturals, Sequences, FiniteSets

CONSTANTS
  Fds,          \* the descriptors client connections get
  Uids, Gids,
  NoUid, NoFd,  \* absent from a map
  MaxSessions,  \* bound: so many client connections are accepted
  Commands,     \* the messages the gateways deliver
  Orderly,      \* no connection begins or ends on a descriptor that the worker
                \* is at, and a message names a client that is connected
  Rebinds,      \* whether a user logs in while logged in, or being logged out
  Drops         \* the gateways whose connections may be lost

StreamCommands == {"cid", "uid", "gid"}
ManageCommands == {"uidmap", "gidmap", "closed"}
Gateways == {"stream", "manage", "status"}
Threads  == {"comm", "work"}

ASSUME ExchangeConstants ==
  /\ Fds \subseteq Nat \ {0} /\ NoFd \notin Fds
  /\ NoUid \notin Uids
  /\ MaxSessions \in Nat
  /\ Commands \subseteq StreamCommands \cup ManageCommands
  /\ {Orderly, Rebinds} \subseteq BOOLEAN
  /\ Drops \subseteq Gateways

VARIABLES
  conn,      \* descriptor -> uuid of the connection it carries, or 0
  home,      \* uuid -> descriptor: the connections accepted so far
  slot,      \* descriptor -> fd_info: status and uuid
  up,        \* the gateways that are connected
  uidCid, cidUid, gidCid, cidGid,  \* the maps
  closing,   \* descriptors that commapi_close was called on
  aborted,   \* an assertion failed
  pc, fd, uid, gid, todo,  \* per thread: where it is, and its locals
  msg,       \* the message the worker received
  known,     \* history: the uuids that were told to a gateway
  bound,     \* history: user -> uuid of the connection it logged in on last
  joined,    \* history: group -> uuids of the connections that joined it
  out        \* history: the message just sent, whom it should name or reach
             \* and whom it does

connVars == <<conn, home, slot, up, closing, aborted>>
mapVars  == <<uidCid, cidUid, gidCid, cidGid>>
locals   == <<fd, uid, gid, todo>>
histVars == <<known, bound, joined>>
vars == <<connVars, mapVars, pc, locals, msg, histVars, out>>

Sessions == 1..Len(home)
Cleared  == [status |-> 0, uuid |-> 0]
Nothing  == [kind |-> "none", should |-> {}, does |-> 0]
NoMsg    == [type |-> "none", uuid |-> 0, fd |-> NoFd, uid |-> NoUid, gids |-> {}]

Init ==
  /\ conn = [f \in Fds |-> 0]
  /\ home = <<>>
  /\ slot = [f \in Fds |-> Cleared]
  /\ up = Gateways
  /\ uidCid = [u \in Uids |-> NoFd]
  /\ cidUid = [f \in Fds |-> NoUid]
  /\ gidCid = [g \in Gids |-> {}]
  /\ cidGid = [f \in Fds |-> {}]
  /\ closing = {}
  /\ aborted = FALSE
  /\ pc = [t \in Threads |-> "idle"]
  /\ fd = [t \in Threads |-> NoFd]
  /\ uid = [t \in Threads |-> NoUid]
  /\ gid = [t \in Threads |-> {}]
  /\ todo = [t \in Threads |-> {}]
  /\ msg = NoMsg
  /\ known = {}
  /\ bound = [u \in Uids |-> 0]
  /\ joined = [g \in Gids |-> {}]
  /\ out = Nothing

\* The thread is at l of a process that runs.
At(t, l) == pc[t] = l /\ ~aborted

Goto(t, l) == pc' = [pc EXCEPT ![t] = l]

\* The thread is done with a callback or a message.
Done(t) ==
  /\ Goto(t, "idle")
  /\ fd' = [fd EXCEPT ![t] = NoFd]
  /\ uid' = [uid EXCEPT ![t] = NoUid]
  /\ gid' = [gid EXCEPT ![t] = {}]
  /\ todo' = [todo EXCEPT ![t] = {}]
  /\ msg' = IF t = "work" THEN NoMsg ELSE msg

\* commapi_send, seen from the outside.
Send(kind, should, does) ==
  out' = [kind |-> kind, should |-> should, does |-> does]

\* The descriptors the worker is at.
Touched == {fd["work"], msg.fd} \cup (todo["work"] \cap Fds)

-----------------------------------------------------------------------------
(* Callbacks of libcomm *)

\* STEP_INIT of a client: the slot is filled.  accept returns the lowest
\* descriptor that is free.
Accept(f) ==
  /\ At("comm", "idle")
  /\ conn[f] = 0
  /\ \A e \in Fds : conn[e] = 0 => f <= e
  /\ Len(home) < MaxSessions
  /\ Orderly => f \notin Touched
  /\ home' = Append(home, f)
  /\ conn' = [conn EXCEPT ![f] = Len(home) + 1]
  /\ slot' = [slot EXCEPT ![f] = [status |-> 1, uuid |-> Len(home) + 1]]
  /\ fd' = [fd EXCEPT !["comm"] = f]
  /\ Goto("comm", "announce")
  /\ out' = Nothing
  /\ UNCHANGED <<up, closing, aborted, mapVars, uid, gid, todo, msg, histVars>>

\* send_status_msg: the cid is made from the slot (get_cid), and sent if there
\* is a status gateway.  s is the connection it is about.
SendStatus(f, s) ==
  \/ /\ "status" \in up
     /\ Send("status", {s}, slot[f].uuid)
     /\ known' = known \cup ({slot[f].uuid} \ {0})
  \/ /\ "status" \notin up
     /\ UNCHANGED <<out, known>>

Announce ==
  /\ At("comm", "announce")
  /\ SendStatus(fd["comm"], conn[fd["comm"]])
  /\ Done("comm")
  /\ UNCHANGED <<connVars, mapVars, bound, joined>>

\* STEP_STOP of a client: the peer is gone, or commapi_close was called here or
\* in STEP_ERRO.
Stop(f) ==
  /\ At("comm", "idle")
  /\ conn[f] # 0
  /\ Orderly => f \notin Touched
  /\ conn' = [conn EXCEPT ![f] = 0]
  /\ closing' = closing \ {f}
  /\ fd' = [fd EXCEPT !["comm"] = f]
  /\ Goto("comm", "slot")
  /\ out' = Nothing
  /\ UNCHANGED <<home, slot, up, aborted, mapVars, uid, gid, todo, msg, histVars>>

\* STEP_STOP of a gateway, which is not connected again.
GatewayStop(g) ==
  /\ g \in Drops \cap up
  /\ At("comm", "idle")
  /\ up' = up \ {g}
  /\ UNCHANGED <<conn, home, slot, closing, aborted, mapVars, pc, locals, msg,
                 histVars, out>>

-----------------------------------------------------------------------------
(* erase_client, by either thread; fdman_slot_del comes first in both *)

\* Mutant: the slot is marked unused, its uuid is left in it.
SlotDelStatusOnly(t) ==
  LET f == fd[t] IN
  /\ At(t, "slot")
  /\ slot[f].status = 1
  /\ slot' = [slot EXCEPT ![f].status = 0]
  /\ Goto(t, "getuid")
  /\ UNCHANGED <<conn, home, up, closing, aborted, mapVars, locals, msg, histVars, out>>

SlotDel(t) ==
  LET f == fd[t] IN
  /\ At(t, "slot")
  /\ \/ /\ slot[f].status = 1
        /\ slot' = [slot EXCEPT ![f] = Cleared]
        /\ Goto(t, "getuid")
        /\ UNCHANGED aborted
     \/ /\ slot[f].status # 1
        /\ aborted' = TRUE
        /\ UNCHANGED <<slot, pc>>
  /\ UNCHANGED <<conn, home, up, closing, mapVars, locals, msg, histVars, out>>

GetUid(t) ==
  /\ At(t, "getuid")
  /\ uid' = [uid EXCEPT ![t] = cidUid[fd[t]]]
  /\ Goto(t, "deluid")
  /\ UNCHANGED <<connVars, mapVars, fd, gid, todo, msg, histVars, out>>

\* Mutant: exc_uidmap_del_cid is not called.
DelUidForgotten(t) ==
  /\ At(t, "deluid")
  /\ Goto(t, "delcid")
  /\ UNCHANGED <<connVars, mapVars, locals, msg, histVars, out>>

\* Whatever connection the user is mapped to by now.
DelUid(t) ==
  /\ At(t, "deluid")
  /\ uidCid' = [u \in Uids |-> IF u = uid[t] THEN NoFd ELSE uidCid[u]]
  /\ Goto(t, "delcid")
  /\ UNCHANGED <<connVars, cidUid, gidCid, cidGid, locals, msg, histVars, out>>

DelCid(t) ==
  /\ At(t, "delcid")
  /\ cidUid' = [cidUid EXCEPT ![fd[t]] = NoUid]
  /\ Goto(t, "getgids")
  /\ UNCHANGED <<connVars, uidCid, gidCid, cidGid, locals, msg, histVars, out>>

\* The groups are read once, then taken out one by one (each_gid_fcb).
GetGids(t) ==
  /\ At(t, "getgids")
  /\ todo' = [todo EXCEPT ![t] = cidGid[fd[t]]]
  /\ Goto(t, "remgid")
  /\ UNCHANGED <<connVars, mapVars, fd, uid, gid, msg, histVars, out>>

RemGid(t) ==
  \E g \in todo[t] :
    /\ At(t, "remgid")
    /\ cidGid' = [cidGid EXCEPT ![fd[t]] = @ \ {g}]
    /\ gid' = [gid EXCEPT ![t] = {g}]
    /\ todo' = [todo EXCEPT ![t] = @ \ {g}]
    /\ Goto(t, "remcid")
    /\ UNCHANGED <<connVars, uidCid, cidUid, gidCid, fd, uid, msg, histVars, out>>

\* Mutant: each_gid_fcb takes the group out of CID_GID alone.
RemCidForgotten(t) ==
  /\ At(t, "remcid")
  /\ Goto(t, "remgid")
  /\ UNCHANGED <<connVars, mapVars, locals, msg, histVars, out>>

\* Mutant: the groups are read again after every one that is taken out.
RemCidRereads(t) ==
  /\ At(t, "remcid")
  /\ gidCid' = [g \in Gids |-> IF g \in gid[t] THEN gidCid[g] \ {fd[t]} ELSE gidCid[g]]
  /\ Goto(t, "getgids")
  /\ UNCHANGED <<connVars, uidCid, cidUid, cidGid, locals, msg, histVars, out>>

RemCid(t) ==
  /\ At(t, "remcid")
  /\ gidCid' = [g \in Gids |-> IF g \in gid[t] THEN gidCid[g] \ {fd[t]} ELSE gidCid[g]]
  /\ Goto(t, "remgid")
  /\ UNCHANGED <<connVars, uidCid, cidUid, cidGid, locals, msg, histVars, out>>

\* The rest of STEP_STOP: the status message.
ReportStop ==
  LET f == fd["comm"] IN
  /\ At("comm", "remgid")
  /\ todo["comm"] = {}
  /\ SendStatus(f, CHOOSE s \in Sessions : /\ home[s] = f
                                           /\ \A r \in Sessions : home[r] = f => r <= s)
  /\ Done("comm")
  /\ UNCHANGED <<connVars, mapVars, bound, joined>>

\* The rest of _erased_client: commapi_close, on a connection libcomm may have
\* closed by itself.
CloseErased ==
  /\ At("work", "remgid")
  /\ todo["work"] = {}
  /\ closing' = IF conn[fd["work"]] # 0 THEN closing \cup {fd["work"]} ELSE closing
  /\ Done("work")
  /\ UNCHANGED <<conn, home, slot, up, aborted, mapVars, histVars, out>>

-----------------------------------------------------------------------------
(* exc_message_dispatch *)

\* A message of a client.
RecvClient(f) ==
  /\ At("work", "idle")
  /\ conn[f] # 0
  /\ msg' = [NoMsg EXCEPT !.type = "client", !.uuid = conn[f], !.fd = f]
  /\ Goto("work", "route")
  /\ out' = Nothing
  /\ UNCHANGED <<connVars, mapVars, locals, histVars>>

\* Whether a gateway may name the connection s.
Nameable(s) == s \in known /\ (Orderly => conn[home[s]] = s)

\* Whether the user may log in on the connection s: no other user did, and the
\* keys of the user's earlier connection are gone.
MayBind(u, s) ==
  \/ Rebinds
  \/ cidUid[home[s]] = NoUid /\ \A f \in Fds : cidUid[f] # u

\* A message of the stream or the manage gateway, about a client, a user or a
\* group.
RecvGateway ==
  /\ At("work", "idle")
  /\ \/ \E s \in Sessions, c \in Commands \cap {"cid", "closed"} :
          /\ Nameable(s)
          /\ msg' = [NoMsg EXCEPT !.type = c, !.uuid = s, !.fd = home[s]]
     \/ \E s \in Sessions, u \in Uids :
          /\ "uidmap" \in Commands /\ Nameable(s) /\ MayBind(u, s)
          /\ msg' = [NoMsg EXCEPT !.type = "uidmap", !.uuid = s, !.fd = home[s],
                                  !.uid = u]
     \/ \E s \in Sessions, gs \in SUBSET Gids :
          /\ "gidmap" \in Commands /\ Nameable(s) /\ gs # {}
          /\ msg' = [NoMsg EXCEPT !.type = "gidmap", !.uuid = s, !.fd = home[s],
                                  !.gids = gs]
     \/ \E u \in Uids :
          /\ "uid" \in Commands
          /\ msg' = [NoMsg EXCEPT !.type = "uid", !.uid = u]
     \/ \E g \in Gids :
          /\ "gid" \in Commands
          /\ msg' = [NoMsg EXCEPT !.type = "gid", !.gids = {g}]
  /\ (IF msg'.type \in StreamCommands THEN "stream" ELSE "manage") \in up
  /\ Goto("work", "route")
  /\ out' = Nothing
  /\ UNCHANGED <<connVars, mapVars, locals, histVars>>

\* The gateway's slot, looked at after the message was received.
FromGateway ==
  \/ msg.type \in StreamCommands /\ "stream" \in up
  \/ msg.type \in ManageCommands /\ "manage" \in up

\* A cleared slot looks like that of a client, so the message of a gateway that
\* is gone is taken for a client's.
TakenForClient == msg.type = "client" \/ ~FromGateway

\* _dispatch_client: to the stream gateway, if there is one, under the cid made
\* from the slot of the sender.
Upstream ==
  LET u == IF msg.type = "client" THEN slot[msg.fd].uuid ELSE 0 IN
  /\ At("work", "route")
  /\ TakenForClient
  /\ \/ /\ "stream" \in up
        /\ Send("up", {msg.uuid}, u)
        /\ known' = known \cup ({u} \ {0})
     \/ /\ "stream" \notin up
        /\ UNCHANGED <<out, known>>
  /\ Done("work")
  /\ UNCHANGED <<connVars, mapVars, bound, joined>>

\* _dispatch_stream and _dispatch_manage: on to the handler.  The history notes
\* what the exchange is asked for.
Route ==
  /\ At("work", "route")
  /\ ~TakenForClient
  /\ Goto("work", IF msg.type = "closed" THEN "slot" ELSE msg.type)
  /\ fd' = [fd EXCEPT !["work"] = msg.fd]
  /\ todo' = [todo EXCEPT !["work"] = IF msg.type = "gidmap" THEN msg.gids ELSE {}]
  /\ bound' = [u \in Uids |-> IF msg.type = "uidmap" /\ u = msg.uid THEN msg.uuid
                              ELSE bound[u]]
  /\ joined' = [g \in Gids |-> IF msg.type = "gidmap" /\ g \in msg.gids
                                 THEN joined[g] \cup {msg.uuid} ELSE joined[g]]
  /\ UNCHANGED <<connVars, mapVars, uid, gid, msg, known, out>>

\* _handle_cid_message: the descriptor is taken from the cid, the uuid is not
\* looked at.
HandleCid ==
  /\ At("work", "cid")
  /\ Send("down", {msg.uuid}, conn[msg.fd])
  /\ Done("work")
  /\ UNCHANGED <<connVars, mapVars, histVars>>

\* _handle_uid_message: a lookup, then the send.
LookupUid ==
  /\ At("work", "uid")
  /\ \/ /\ uidCid[msg.uid] = NoFd
        /\ Done("work")
     \/ /\ uidCid[msg.uid] # NoFd
        /\ fd' = [fd EXCEPT !["work"] = uidCid[msg.uid]]
        /\ Goto("work", "uidsend")
        /\ UNCHANGED <<uid, gid, todo, msg>>
  /\ UNCHANGED <<connVars, mapVars, histVars, out>>

SendUid ==
  /\ At("work", "uidsend")
  /\ Send("down", {bound[msg.uid]}, conn[fd["work"]])
  /\ Done("work")
  /\ UNCHANGED <<connVars, mapVars, histVars>>

\* _handle_gid_message: the members are read once, then sent to one by one.
LookupGid ==
  /\ At("work", "gid")
  /\ todo' = [todo EXCEPT !["work"] = UNION {gidCid[g] : g \in msg.gids}]
  /\ Goto("work", "gidsend")
  /\ UNCHANGED <<connVars, mapVars, fd, uid, gid, msg, histVars, out>>

SendGid ==
  \E f \in todo["work"] :
    /\ At("work", "gidsend")
    /\ Send("down", UNION {joined[g] : g \in msg.gids}, conn[f])
    /\ todo' = [todo EXCEPT !["work"] = @ \ {f}]
    /\ UNCHANGED <<connVars, mapVars, pc, fd, uid, gid, msg, histVars>>

\* Mutant: exc_uidmap_set_cid is not called.
SetCidForgotten ==
  /\ At("work", "uidmap")
  /\ Goto("work", "setuid")
  /\ UNCHANGED <<connVars, mapVars, locals, msg, histVars, out>>

\* Mutant: a user that is mapped already stays where it is.
SetCidIfAbsent ==
  /\ At("work", "uidmap")
  /\ uidCid' = [uidCid EXCEPT ![msg.uid] = IF @ = NoFd THEN msg.fd ELSE @]
  /\ Goto("work", "setuid")
  /\ UNCHANGED <<connVars, cidUid, gidCid, cidGid, locals, msg, histVars, out>>

\* _handle_uid_map: both maps, keyed by the descriptor alone.
SetCid ==
  /\ At("work", "uidmap")
  /\ uidCid' = [uidCid EXCEPT ![msg.uid] = msg.fd]
  /\ Goto("work", "setuid")
  /\ UNCHANGED <<connVars, cidUid, gidCid, cidGid, locals, msg, histVars, out>>

\* Mutant: key and value are mixed up.
SetUidToCid ==
  /\ At("work", "setuid")
  /\ cidUid' = [cidUid EXCEPT ![msg.fd] = msg.fd]
  /\ Done("work")
  /\ UNCHANGED <<connVars, uidCid, gidCid, cidGid, histVars, out>>

SetUid ==
  /\ At("work", "setuid")
  /\ cidUid' = [cidUid EXCEPT ![msg.fd] = msg.uid]
  /\ Done("work")
  /\ UNCHANGED <<connVars, uidCid, gidCid, cidGid, histVars, out>>

\* _handle_gid_map: both maps, for every group of the frame.
AddCid ==
  \E g \in todo["work"] :
    /\ At("work", "gidmap")
    /\ gidCid' = [gidCid EXCEPT ![g] = @ \cup {msg.fd}]
    /\ gid' = [gid EXCEPT !["work"] = {g}]
    /\ todo' = [todo EXCEPT !["work"] = @ \ {g}]
    /\ Goto("work", "addgid")
    /\ UNCHANGED <<connVars, uidCid, cidUid, cidGid, fd, uid, msg, histVars, out>>

AddGid ==
  /\ At("work", "addgid")
  /\ cidGid' = [cidGid EXCEPT ![msg.fd] = @ \cup gid["work"]]
  /\ Goto("work", "gidmap")
  /\ UNCHANGED <<connVars, uidCid, cidUid, gidCid, locals, msg, histVars, out>>

\* The loop over members or groups is over.
LoopEnds ==
  /\ At("work", "gidsend") \/ At("work", "gidmap")
  /\ todo["work"] = {}
  /\ Done("work")
  /\ UNCHANGED <<connVars, mapVars, histVars, out>>

-----------------------------------------------------------------------------
Erase(t) == SlotDel(t) \/ GetUid(t) \/ DelUid(t) \/ DelCid(t) \/ GetGids(t)
            \/ RemGid(t) \/ RemCid(t)

\* The steps of a callback that has begun.
Callback == Announce \/ Erase("comm") \/ ReportStop

\* The steps of exc_message_dispatch once a message is there.
Dispatch ==
  \/ Upstream \/ Route \/ HandleCid \/ LookupUid \/ SendUid \/ LookupGid
  \/ SendGid \/ SetCid \/ SetUid \/ AddCid \/ AddGid \/ LoopEnds
  \/ Erase("work") \/ CloseErased

Next ==
  \/ \E f \in Fds : Accept(f) \/ Stop(f) \/ RecvClient(f)
  \/ \E g \in Gateways : GatewayStop(g)
  \/ RecvGateway
  \/ Callback
  \/ Dispatch

Spec == Init /\ [][Next]_vars

\* Both threads keep running; a connection that is being closed is stopped.
FairSpec ==
  /\ Spec
  /\ WF_vars(Callback) /\ WF_vars(Dispatch)
  /\ \A f \in Fds : WF_vars(f \in closing /\ Stop(f))
-----------------------------------------------------------------------------
(* Properties *)

\* Every variable holds a value of its type (exc_sockfd_manager.h and the keys
\* of the maps).
TypeOK ==
  /\ home \in Seq(Fds)
  /\ conn \in [Fds -> 0..Len(home)]
  /\ slot \in [Fds -> [status : {0, 1}, uuid : 0..Len(home)]]
  /\ up \subseteq Gateways
  /\ uidCid \in [Uids -> Fds \cup {NoFd}]
  /\ cidUid \in [Fds -> Uids \cup {NoUid}]
  /\ gidCid \in [Gids -> SUBSET Fds]
  /\ cidGid \in [Fds -> SUBSET Gids]
  /\ closing \subseteq Fds
  /\ aborted \in BOOLEAN
  /\ fd \in [Threads -> Fds \cup {NoFd}]
  /\ uid \in [Threads -> Uids \cup {NoUid}]
  /\ gid \in [Threads -> SUBSET Gids]
  /\ todo \in [Threads -> SUBSET (Gids \cup Fds)]
  /\ known \subseteq Sessions
  /\ bound \in [Uids -> 0..Len(home)]
  /\ joined \in [Gids -> SUBSET Sessions]

\* Nothing is half done.
Quiet == \A t \in Threads : pc[t] = "idle"

\* When a client is offline, none of its keys is left (key.md).
OfflineCleared ==
  Quiet =>
    \A f \in Fds : conn[f] = 0 =>
      /\ cidUid[f] = NoUid
      /\ cidGid[f] = {}
      /\ \A g \in Gids : f \notin gidCid[g]
      /\ \A u \in Uids : uidCid[u] # f

\* CID_GID and GID_CID say the same.
GroupsMirror ==
  Quiet => \A f \in Fds, g \in Gids : f \in gidCid[g] <=> g \in cidGid[f]

\* A user that is connected can be sent to: UID_CID has the connection it
\* logged in on last.
UidReachable ==
  Quiet =>
    \A u \in Uids :
      bound[u] # 0 /\ conn[home[bound[u]]] = bound[u]
        => uidCid[u] = home[bound[u]]

\* A message for a client, a user or a group goes to a connection the
\* application meant, or to none.
DownstreamReachesAddressee ==
  out.kind = "down" => out.does \in out.should \cup {0}

\* Whatever connections end and begin under a message (TODO check uuid, says
\* exc_message_dispatch.c): it is attributed to a connection that was meant, or
\* reaches one, or does so for a later connection on the same descriptor; never
\* for an earlier one, and never for one on another descriptor, although slots,
\* maps and users are rewritten by both threads meanwhile.
StrayOnlyForward ==
  out.kind \in {"up", "down"} /\ out.does # 0 =>
    \E s \in out.should :
      s \in Sessions /\ home[s] = home[out.does] /\ s <= out.does

\* A client's message is passed on under the cid of the client that sent it.
UpstreamNamesSender ==
  out.kind = "up" => out.does \in out.should

\* A status message carries the cid of the client it is about.
StatusNamesClient ==
  out.kind = "status" => out.does \in out.should

\* The assertion of fdman_slot_del holds: a slot is given back once.
NoAssertFails == ~aborted

\* A slot holds the uuid of the connection its descriptor carries, or of the
\* one whose STEP_STOP has just begun; it is never left over from an earlier
\* one.
SlotIsCurrent ==
  \A f \in Fds :
    slot[f].uuid # 0 =>
      \/ conn[f] = slot[f].uuid
      \/ pc["comm"] = "slot" /\ fd["comm"] = f

\* The callback for a client that is gone ends, however many groups the worker
\* adds the client to meanwhile.
StopCompletes ==
  pc["comm"] = "slot" ~> (pc["comm"] = "idle" \/ aborted)
=============================================================================
