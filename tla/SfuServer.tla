----------------------------- MODULE SfuServer -----------------------------
(***************************************************************************)
(* The signalling and forwarding server (server/src).  Every WebSocket      *)
(* connection is one tokio task, and one more task runs the UDP loop; they  *)
(* share the four concurrent maps of ServerState.  A step of a task is one   *)
(* access to those maps: the DashMap guard makes it atomic, and the task     *)
(* can be overtaken between two accesses and at every await of a broadcast.  *)
(*                                                                          *)
(* A request that is refused changes nothing and is a stuttering step, so    *)
(* an early return of the code is a conjunct of the guard here.  Sending to  *)
(* a client is assumed to return: back-pressure is not part of this module.  *)
(***************************************************************************)
EXTENDS Integers, FiniteSets

CONSTANTS Client,     \* connections; each has a fresh UUID and UDP id
          Channel,    \* the pre-configured channels
          Addr,       \* UDP endpoints packets come from
          None        \* no channel, no address, no client

ASSUME SfuAssumption == None \notin Client \cup Channel \cup Addr

VARIABLES
  clients,    \* keys of ServerState.clients
  channelOf,  \* Client.channel_id
  speaking,   \* Client.speaking
  udpAddr,    \* Client.udp_addr
  members,    \* Channel.members
  idMap,      \* keys of udp_id_to_client
  addrMap,    \* udp_addr_to_client
  pc,         \* where the connection's task is
  op,         \* the request it handles; "close" is the disconnect clean-up
  ch,         \* the request's channel
  to,         \* members its broadcast still has to reach
  loop,       \* where the UDP loop is
  packet,     \* the audio packet it forwards
  targets,    \* members it still has to send that packet to
  late        \* packets sent to a client, since it last left a channel,
              \* of a channel it is not in

mapVars  == <<clients, channelOf, speaking, members>>
udpVars  == <<udpAddr, idMap, addrMap>>
taskVars == <<pc, op, ch, to>>
loopVars == <<loop, packet, targets, late>>
vars     == <<mapVars, udpVars, taskVars, loopVars>>

Pcs == {"accept", "insert", "insertId", "idle", "tellJoined", "startSet",
        "tellSpeaking", "stopSet", "tellStopped", "leaveRemove", "leaveClear",
        "tellLeft", "remove", "unmapAddr", "unmapId", "gone"}
Telling == {"tellJoined", "tellSpeaking", "tellStopped", "tellLeft"}

Init ==
  /\ clients = {}
  /\ channelOf = [c \in Client |-> None]
  /\ speaking = [c \in Client |-> FALSE]
  /\ udpAddr = [c \in Client |-> None]
  /\ members = [h \in Channel |-> {}]
  /\ idMap = {}
  /\ addrMap = [a \in Addr |-> None]
  /\ pc = [c \in Client |-> "accept"]
  /\ op = [c \in Client |-> "none"]
  /\ ch = [c \in Client |-> None]
  /\ to = [c \in Client |-> {}]
  /\ loop = "recv"
  /\ packet = None
  /\ targets = {}
  /\ late = [c \in Client |-> 0]

Goto(c, label) == pc' = [pc EXCEPT ![c] = label]

(* The task of c takes the request o about channel h and goes to label,     *)
(* with the members in snapshot still to be told.                           *)
Take(c, o, h, label, snapshot) ==
  /\ Goto(c, label)
  /\ op' = [op EXCEPT ![c] = o]
  /\ ch' = [ch EXCEPT ![c] = h]
  /\ to' = [to EXCEPT ![c] = snapshot \ {c}]

(* The task of c is done with its request.                                   *)
Done(c) == Take(c, "none", None, "idle", {})

---------------------------------------------------------------------------
(* Authentication: the reply leaves before the client is in the maps.        *)
SendAuthOk(c) ==
  /\ pc[c] = "accept"
  /\ Goto(c, "insert")
  /\ UNCHANGED <<mapVars, udpVars, op, ch, to, loopVars>>

(* Mutant of InsertClient: inserted under the wrong key.                     *)
InsertUnderWrongKey(c) ==
  /\ pc[c] = "insert"
  /\ clients' = clients \cup {channelOf[c]}
  /\ Goto(c, "insertId")
  /\ UNCHANGED <<channelOf, speaking, members, udpVars, op, ch, to, loopVars>>

InsertClient(c) ==
  /\ pc[c] = "insert"
  /\ clients' = clients \cup {c}
  /\ Goto(c, "insertId")
  /\ UNCHANGED <<channelOf, speaking, members, udpVars, op, ch, to, loopVars>>

(* Mutant of InsertUdpId: the id is not mapped.                              *)
ForgetUdpId(c) ==
  /\ pc[c] = "insertId"
  /\ Goto(c, "idle")
  /\ UNCHANGED <<mapVars, udpVars, op, ch, to, loopVars>>

InsertUdpId(c) ==
  /\ pc[c] = "insertId"
  /\ idMap' = idMap \cup {c}
  /\ Goto(c, "idle")
  /\ UNCHANGED <<mapVars, udpAddr, addrMap, op, ch, to, loopVars>>

(* Mutant of JoinChannel: a client that is in a channel joins another.       *)
JoinSecondChannel(c, h) ==
  /\ pc[c] = "idle"
  /\ c \in clients
  /\ members' = [members EXCEPT ![h] = @ \cup {c}]
  /\ channelOf' = [channelOf EXCEPT ![c] = h]
  /\ Take(c, "join", h, "tellJoined", members[h])
  /\ UNCHANGED <<clients, speaking, udpVars, loopVars>>

(* join_channel up to the drop of the channel guard; the member list of the  *)
(* reply and the list to broadcast to are read under the same guard.         *)
JoinChannel(c, h) ==
  /\ pc[c] = "idle"
  /\ c \in clients
  /\ channelOf[c] = None
  /\ members' = [members EXCEPT ![h] = @ \cup {c}]
  /\ channelOf' = [channelOf EXCEPT ![c] = h]
  /\ Take(c, "join", h, "tellJoined", members[h])
  /\ UNCHANGED <<clients, speaking, udpVars, loopVars>>

(* The channel_joined reply, once the broadcast is through.                  *)
JoinReply(c) ==
  /\ pc[c] = "tellJoined"
  /\ to[c] = {}
  /\ Done(c)
  /\ UNCHANGED <<mapVars, udpVars, loopVars>>

(* start_transmit: the member list first, the flag after the guard is gone.  *)
StartTransmit(c, h) ==
  /\ pc[c] = "idle"
  /\ c \in members[h]
  /\ Take(c, "start", h, "startSet", members[h])
  /\ UNCHANGED <<mapVars, udpVars, loopVars>>

StartSet(c) ==
  /\ pc[c] = "startSet"
  /\ IF c \in clients THEN speaking' = [speaking EXCEPT ![c] = TRUE]
                      ELSE UNCHANGED speaking
  /\ Goto(c, "tellSpeaking")
  /\ UNCHANGED <<clients, channelOf, members, udpVars, op, ch, to, loopVars>>

StartDone(c) ==
  /\ pc[c] = "tellSpeaking"
  /\ to[c] = {}
  /\ Done(c)
  /\ UNCHANGED <<mapVars, udpVars, loopVars>>

(* stop_transmit, alone or as the first part of leave_channel, which         *)
(* remove_client calls too when the connection closes inside a channel.      *)
StopTransmit(c, o, h) ==
  /\ pc[c] = "idle"
  /\ o = "close" => channelOf[c] = h
  /\ c \in members[h]
  /\ Take(c, o, h, "stopSet", members[h])
  /\ UNCHANGED <<mapVars, udpVars, loopVars>>

AfterStop(c) ==
  IF op[c] = "stop" THEN Done(c) ELSE Take(c, op[c], ch[c], "leaveRemove", {})

StopSet(c) ==
  /\ pc[c] = "stopSet"
  /\ speaking' = [speaking EXCEPT ![c] = FALSE]
  /\ IF speaking[c] THEN Goto(c, "tellStopped") /\ UNCHANGED <<op, ch, to>>
                    ELSE AfterStop(c)
  /\ UNCHANGED <<clients, channelOf, members, udpVars, loopVars>>

StopDone(c) ==
  /\ pc[c] = "tellStopped"
  /\ to[c] = {}
  /\ AfterStop(c)
  /\ UNCHANGED <<mapVars, udpVars, loopVars>>

(* The rest of leave_channel: member set, client record, broadcast, reply.   *)
LeaveRemove(c) ==
  /\ pc[c] = "leaveRemove"
  /\ c \in members[ch[c]]
  /\ members' = [members EXCEPT ![ch[c]] = @ \ {c}]
  /\ Take(c, op[c], ch[c], "leaveClear", members[ch[c]])
  /\ late' = [late EXCEPT ![c] = 0]
  /\ UNCHANGED <<clients, channelOf, speaking, udpVars, loop, packet, targets>>

(* Mutant of LeaveClear: the record keeps the channel.                       *)
LeaveKeepsRecord(c) ==
  /\ pc[c] = "leaveClear"
  /\ Goto(c, "tellLeft")
  /\ UNCHANGED <<mapVars, udpVars, op, ch, to, loopVars>>

LeaveClear(c) ==
  /\ pc[c] = "leaveClear"
  /\ channelOf' = [channelOf EXCEPT ![c] = None]
  /\ Goto(c, "tellLeft")
  /\ UNCHANGED <<clients, speaking, members, udpVars, op, ch, to, loopVars>>

LeaveReply(c) ==
  /\ pc[c] = "tellLeft"
  /\ to[c] = {}
  /\ IF op[c] = "leave" THEN Done(c) ELSE Take(c, "close", None, "remove", {})
  /\ UNCHANGED <<mapVars, udpVars, loopVars>>

(* Mutant of Tell: the broadcast waits for a member that is gone.            *)
TellOnlyPresent(c, m) ==
  /\ pc[c] \in Telling
  /\ m \in to[c] \cap clients
  /\ to' = [to EXCEPT ![c] = @ \ {m}]
  /\ UNCHANGED <<mapVars, udpVars, pc, op, ch, loopVars>>

(* One message of the broadcast of c; a member that is gone is skipped.      *)
Tell(c, m) ==
  /\ pc[c] \in Telling
  /\ m \in to[c]
  /\ to' = [to EXCEPT ![c] = @ \ {m}]
  /\ UNCHANGED <<mapVars, udpVars, pc, op, ch, loopVars>>

(* The connection ends: remove_client.                                       *)
CloseOutside(c) ==
  /\ pc[c] = "idle"
  /\ channelOf[c] = None
  /\ Take(c, "close", None, "remove", {})
  /\ UNCHANGED <<mapVars, udpVars, loopVars>>

RemoveClient(c) ==
  /\ pc[c] = "remove"
  /\ clients' = clients \ {c}
  /\ Goto(c, "unmapAddr")
  /\ UNCHANGED <<channelOf, speaking, members, udpVars, op, ch, to, loopVars>>

(* Mutant of UnmapAddr: the reverse entry stays.                             *)
UnmapNothing(c) ==
  /\ pc[c] = "unmapAddr"
  /\ udpAddr' = [udpAddr EXCEPT ![c] = None]
  /\ Goto(c, "unmapId")
  /\ UNCHANGED <<mapVars, idMap, addrMap, op, ch, to, loopVars>>

(* udpAddr[c] is now the address in the removed record, which the task owns. *)
UnmapAddr(c) ==
  /\ pc[c] = "unmapAddr"
  /\ addrMap' = [a \in Addr |-> IF a = udpAddr[c] THEN None ELSE addrMap[a]]
  /\ udpAddr' = [udpAddr EXCEPT ![c] = None]
  /\ Goto(c, "unmapId")
  /\ UNCHANGED <<mapVars, idMap, op, ch, to, loopVars>>

UnmapId(c) ==
  /\ pc[c] = "unmapId"
  /\ idMap' = idMap \ {c}
  /\ Goto(c, "gone")
  /\ UNCHANGED <<mapVars, udpAddr, addrMap, op, ch, to, loopVars>>

---------------------------------------------------------------------------
(* Mutant of Register: the reverse entry of the old address stays.           *)
RegisterKeepsOld(c, a) ==
  IF c \in idMap /\ c \in clients /\ udpAddr[c] # a
  THEN /\ udpAddr' = [udpAddr EXCEPT ![c] = a]
       /\ addrMap' = [addrMap EXCEPT ![a] = c]
  ELSE UNCHANGED <<udpAddr, addrMap>>

(* The UDP loop.  A packet of any type first registers the address it came   *)
(* from; an id the server does not know (yet, or any more) registers nothing.*)
(* A packet about no channel is a keepalive, a ping or a pong.               *)
Register(c, a) ==
  IF c \in idMap /\ c \in clients /\ udpAddr[c] # a
  THEN /\ udpAddr' = [udpAddr EXCEPT ![c] = a]
       /\ addrMap' = [b \in Addr |->
                        IF b = a THEN c
                        ELSE IF b = udpAddr[c] THEN None ELSE addrMap[b]]
  ELSE UNCHANGED <<udpAddr, addrMap>>

RecvPacket(c, a, h) ==
  /\ loop = "recv"
  /\ pc[c] # "accept"                      \* the id is learned from auth_ok
  /\ Register(c, a)
  /\ IF h = None THEN UNCHANGED <<loop, packet>>
     ELSE loop' = "collect" /\ packet' = [from |-> c, channel |-> h]
  /\ UNCHANGED <<mapVars, idMap, taskVars, targets, late>>

Targets(c, h) == {m \in members[h] \cap clients : m # c /\ udpAddr[m] # None}

CollectTargets ==
  /\ loop = "collect"
  /\ targets' = Targets(packet.from, packet.channel)
  /\ loop' = "send"
  /\ UNCHANGED <<mapVars, udpVars, taskVars, packet, late>>

(* Mutant of ForwardTo: a target is served again and again.                  *)
ForwardAgain(m) ==
  /\ loop = "send"
  /\ m \in targets
  /\ late' = [late EXCEPT ![m] = IF m \in members[packet.channel] THEN @ ELSE @ + 1]
  /\ UNCHANGED <<mapVars, udpVars, taskVars, loop, packet, targets>>

ForwardTo(m) ==
  /\ loop = "send"
  /\ m \in targets
  /\ targets' = targets \ {m}
  /\ late' = [late EXCEPT ![m] = IF m \in members[packet.channel] THEN @ ELSE @ + 1]
  /\ UNCHANGED <<mapVars, udpVars, taskVars, loop, packet>>

ForwardDone ==
  /\ loop = "send"
  /\ targets = {}
  /\ loop' = "recv"
  /\ packet' = None
  /\ UNCHANGED <<mapVars, udpVars, taskVars, targets, late>>

---------------------------------------------------------------------------
Request(c) ==
  \/ CloseOutside(c)
  \/ \E h \in Channel :
       \/ JoinChannel(c, h)
       \/ StartTransmit(c, h)
       \/ \E o \in {"stop", "leave", "close"} : StopTransmit(c, o, h)

(* What a task does on its own, without waiting for its client.              *)
Work(c) ==
  \/ SendAuthOk(c) \/ InsertClient(c) \/ InsertUdpId(c)
  \/ JoinReply(c) \/ StartSet(c) \/ StartDone(c) \/ StopSet(c) \/ StopDone(c)
  \/ LeaveRemove(c) \/ LeaveClear(c) \/ LeaveReply(c)
  \/ RemoveClient(c) \/ UnmapAddr(c) \/ UnmapId(c)
  \/ \E m \in Client : Tell(c, m)

Forward == CollectTargets \/ ForwardDone \/ \E m \in Client : ForwardTo(m)

Udp ==
  \/ \E c \in Client, a \in Addr, h \in Channel \cup {None} : RecvPacket(c, a, h)
  \/ Forward

Next == (\E c \in Client : Request(c) \/ Work(c)) \/ Udp

Spec == Init /\ [][Next]_vars

(* tokio polls a ready task again and again.  A connected engine repeats its  *)
(* keepalive and the UDP loop keeps returning to recv_from, where a keepalive *)
(* competes with the packets of others: strong fairness.                      *)
Fairness ==
  /\ \A c \in Client : WF_vars(Work(c))
  /\ \A c \in Client : SF_vars(\E a \in Addr : RecvPacket(c, a, None))
  /\ WF_vars(Forward)

FairSpec == Spec /\ Fairness

---------------------------------------------------------------------------
(* Every variable has its type.                                              *)
TypeOK ==
  /\ clients \subseteq Client
  /\ channelOf \in [Client -> Channel \cup {None}]
  /\ speaking \in [Client -> BOOLEAN]
  /\ udpAddr \in [Client -> Addr \cup {None}]
  /\ members \in [Channel -> SUBSET Client]
  /\ idMap \subseteq Client
  /\ addrMap \in [Addr -> Client \cup {None}]
  /\ pc \in [Client -> Pcs]
  /\ op \in [Client -> {"none", "join", "start", "stop", "leave", "close"}]
  /\ ch \in [Client -> Channel \cup {None}]
  /\ to \in [Client -> SUBSET Client]
  /\ loop \in {"recv", "collect", "send"}
  /\ packet \in [from : Client, channel : Channel] \cup {None}
  /\ targets \subseteq Client
  /\ late \in [Client -> Nat]

(* Where the task of c has its record in the client map.                     *)
Registered(c) == pc[c] \notin {"accept", "insert", "unmapAddr", "unmapId", "gone"}

(* The two copies of the membership agree: c is in the member set of exactly *)
(* the channel its record names, except between the two steps of a leave.    *)
MembershipAgrees ==
  \A c \in Client, h \in Channel :
    c \in members[h] <=> channelOf[c] = h /\ pc[c] # "leaveClear"

(* A member always has a record, so the lookups under the channel guard of   *)
(* join_channel (one of them unwraps) find it, also while others disconnect. *)
MembersHaveRecords == \A h \in Channel : members[h] \subseteq clients

(* Only a member of a channel is marked as speaking.                         *)
SpeakersAreMembers == \A c \in Client : speaking[c] => \E h \in Channel : c \in members[h]

(* When the clean-up of a connection is over no map names the client.        *)
GoneLeavesNothing ==
  \A c \in Client : pc[c] = "gone" =>
    /\ c \notin clients \cup idMap
    /\ \A h \in Channel : c \notin members[h]
    /\ \A a \in Addr : addrMap[a] # c

(* The reverse map never names a client that is not at that address, even    *)
(* when clients move, share an address, or disconnect during a registration. *)
ReverseLookupSound ==
  \A a \in Addr : addrMap[a] # None => udpAddr[addrMap[a]] = a

(* A client that left a channel gets at most one more of its audio packets:  *)
(* the one whose targets were collected before it left.                      *)
AtMostOneLatePacket == \A c \in Client : late[c] <= 1

(* Every request is answered, and every disconnect is cleaned up.            *)
TasksFinish == \A c \in Client : pc[c] # "idle" ~> pc[c] \in {"idle", "gone"}

(* A client that stays connected becomes reachable over UDP although its     *)
(* first keepalive may arrive before its record exists and be ignored.       *)
BecomesReachable ==
  \A c \in Client : c \in clients ~> (udpAddr[c] # None \/ c \notin clients)

---------------------------------------------------------------------------
(* The channel a client is in, as the member sets have it.                   *)
RoomOf(c) == IF \E h \in Channel : c \in members[h]
             THEN CHOOSE h \in Channel : c \in members[h]
             ELSE None

Board == INSTANCE ChannelBoard WITH
           online  <- clients,
           room    <- [c \in Client |-> RoomOf(c)],
           talking <- {c \in Client : speaking[c]}

(* The tasks and their maps keep the promise of ChannelBoard: no order of     *)
(* map accesses puts a client in two channels, lets it enter without leaving *)
(* first, removes it from a channel while it talks or lets a connection end   *)
(* inside one.                                                               *)
ImplementsBoard == Board!Spec
=============================================================================
