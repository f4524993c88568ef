----------------------------- MODULE SfuProofs -----------------------------
(***************************************************************************)
(* Proofs about SfuServer, for any clients, channels and addresses.  The     *)
(* membership properties are not inductive: what protects them is that one   *)
(* task per client does all the writes about it, so the invariant says, for  *)
(* each place a task can be at, what its record holds there.                 *)
(***************************************************************************)
EXTENDS SfuRoster, TLAPS, FiniteSetTheorems

(* Places where the task is inside a channel and serves a request about it.  *)
InChannel == {"tellJoined", "startSet", "tellSpeaking", "stopSet",
              "tellStopped", "leaveRemove", "leaveClear"}

(* The record of c exists exactly while its task is past the insertion and   *)
(* before the removal.                                                       *)
RecordInv == \A c \in Client : c \in clients <=> Registered(c)

(* A record names a channel only while the task is idle or serves a request  *)
(* about that very channel.                                                  *)
ChannelInv ==
  \A c \in Client :
    /\ pc[c] \in InChannel => channelOf[c] # None /\ channelOf[c] = ch[c]
    /\ channelOf[c] # None => pc[c] \in InChannel \cup {"idle"}

(* The flag is down wherever the task is about to give up its membership.    *)
FlagInv ==
  \A c \in Client :
    speaking[c] => /\ channelOf[c] # None
                   /\ pc[c] \in {"idle", "startSet", "tellSpeaking", "stopSet"}

IInv == /\ TypeOK
        /\ MembershipAgrees
        /\ RecordInv
        /\ ChannelInv
        /\ FlagInv

---------------------------------------------------------------------------
(* ServerState::new starts with every map in its type.                       *)
LEMMA InitTypeOK == Init => TypeOK
  BY SfuAssumption DEF Init, TypeOK, Pcs

(* Every step keeps every variable in its type.                              *)
LEMMA NextTypeOK == TypeOK /\ ChannelInv /\ [Next]_vars => TypeOK'
<1> SUFFICES ASSUME TypeOK, ChannelInv, [Next]_vars PROVE TypeOK'
  OBVIOUS
<1> USE SfuAssumption DEF TypeOK, Pcs, mapVars, udpVars, taskVars, loopVars
<1>1. ASSUME NEW c \in Client, Request(c) PROVE TypeOK'
  <2>1. CASE CloseOutside(c)
    BY <2>1 DEF CloseOutside, Take, Goto
  <2>2. ASSUME NEW h \in Channel, JoinChannel(c, h) PROVE TypeOK'
    BY <2>2 DEF JoinChannel, Take, Goto
  <2>3. ASSUME NEW h \in Channel, StartTransmit(c, h) PROVE TypeOK'
    BY <2>3 DEF StartTransmit, Take, Goto
  <2>4. ASSUME NEW h \in Channel, NEW o \in {"stop", "leave", "close"},
               StopTransmit(c, o, h)
        PROVE  TypeOK'
    BY <2>4 DEF StopTransmit, Take, Goto
  <2> QED
    BY <1>1, <2>1, <2>2, <2>3, <2>4 DEF Request
<1>2. ASSUME NEW c \in Client, Work(c) PROVE TypeOK'
  <2>1. CASE SendAuthOk(c) \/ InsertClient(c) \/ InsertUdpId(c)
    BY <2>1 DEF SendAuthOk, InsertClient, InsertUdpId, Goto
  <2>2. CASE JoinReply(c) \/ StartDone(c)
    BY <2>2 DEF JoinReply, StartDone, Done, Take, Goto
  <2>8. CASE StartSet(c)
    BY <2>8 DEF StartSet, Goto
  <2>3. CASE StopSet(c)
    <3>1. speaking' \in [Client -> BOOLEAN]
      BY <2>3 DEF StopSet
    <3>2. CASE speaking[c]
      BY <2>3, <3>1, <3>2 DEF StopSet, Goto
    <3>3. CASE ~speaking[c]
      BY <2>3, <3>1, <3>3 DEF StopSet, AfterStop, Done, Take, Goto
    <3> QED
      BY <3>2, <3>3
  <2>9. CASE StopDone(c)
    <3>1. /\ UNCHANGED <<mapVars, udpVars, loopVars>>
          /\ Take(c, "none", None, "idle", {}) \/ Take(c, op[c], ch[c], "leaveRemove", {})
      BY <2>9 DEF StopDone, AfterStop, Done
    <3>2. CASE Take(c, "none", None, "idle", {})
      BY <3>1, <3>2 DEF Take, Goto
    <3>3. CASE Take(c, op[c], ch[c], "leaveRemove", {})
      BY <3>1, <3>3 DEF Take, Goto
    <3> QED
      BY <3>1, <3>2, <3>3
  <2>4. CASE LeaveRemove(c)
    <3>1. ch[c] \in Channel
      BY <2>4 DEF LeaveRemove, ChannelInv, InChannel
    <3> QED
      BY <2>4, <3>1 DEF LeaveRemove, Take, Goto
  <2>5. CASE LeaveClear(c)
    BY <2>5 DEF LeaveClear, Goto
  <2>10. CASE LeaveReply(c)
    BY <2>10 DEF LeaveReply, Done, Take, Goto
  <2>6. CASE RemoveClient(c) \/ UnmapAddr(c) \/ UnmapId(c)
    BY <2>6 DEF RemoveClient, UnmapAddr, UnmapId, Goto
  <2>7. ASSUME NEW m \in Client, Tell(c, m) PROVE TypeOK'
    BY <2>7 DEF Tell
  <2> QED
    BY <1>2, <2>1, <2>2, <2>3, <2>4, <2>5, <2>6, <2>7, <2>8, <2>9, <2>10 DEF Work
<1>3. ASSUME Udp PROVE TypeOK'
  <2>1. ASSUME NEW c \in Client, NEW a \in Addr, NEW h \in Channel \cup {None},
               RecvPacket(c, a, h)
        PROVE  TypeOK'
    BY <2>1 DEF RecvPacket, Register
  <2>2. CASE CollectTargets
    BY <2>2 DEF CollectTargets, Targets
  <2>3. CASE ForwardDone
    BY <2>3 DEF ForwardDone
  <2>4. ASSUME NEW m \in Client, ForwardTo(m) PROVE TypeOK'
    BY <2>4 DEF ForwardTo
  <2> QED
    BY <1>3, <2>1, <2>2, <2>3, <2>4 DEF Udp, Forward
<1>4. CASE UNCHANGED vars
  BY <1>4 DEF vars
<1> QED
  BY <1>1, <1>2, <1>3, <1>4 DEF Next

---------------------------------------------------------------------------
(* A server without clients satisfies the invariant.                         *)
LEMMA InitIInv == Init => IInv
  BY InitTypeOK, SfuAssumption
  DEF Init, IInv, MembershipAgrees, RecordInv, ChannelInv, FlagInv, Registered, InChannel

(* Every step keeps the invariant: a step of the task of c changes only what *)
(* the invariant says of c, and the UDP loop changes none of it.             *)
LEMMA NextIInv == IInv /\ [Next]_vars => IInv'
<1> SUFFICES ASSUME IInv, [Next]_vars PROVE IInv'
  OBVIOUS
<1> USE SfuAssumption
<1>0. TypeOK'
  BY NextTypeOK DEF IInv
<1> DEFINE Rest == MembershipAgrees /\ RecordInv /\ ChannelInv /\ FlagInv
<1> USE DEF MembershipAgrees, RecordInv, ChannelInv, FlagInv, Registered, InChannel,
            mapVars, udpVars, taskVars, loopVars
<1>1. ASSUME NEW c \in Client, Request(c) PROVE Rest'
  <2>1. CASE CloseOutside(c)
    BY <2>1 DEF CloseOutside, Take, Goto, IInv, TypeOK
  <2>2. ASSUME NEW h \in Channel, JoinChannel(c, h) PROVE Rest'
    BY <2>2 DEF JoinChannel, Take, Goto, IInv, TypeOK
  <2>3. ASSUME NEW h \in Channel, StartTransmit(c, h) PROVE Rest'
    BY <2>3 DEF StartTransmit, Take, Goto, IInv, TypeOK
  <2>4. ASSUME NEW h \in Channel, NEW o \in {"stop", "leave", "close"},
               StopTransmit(c, o, h)
        PROVE  Rest'
    BY <2>4 DEF StopTransmit, Take, Goto, IInv, TypeOK
  <2> QED
    BY <1>1, <2>1, <2>2, <2>3, <2>4 DEF Request
<1>2. ASSUME NEW c \in Client, Work(c) PROVE Rest'
  <2>1. CASE SendAuthOk(c)
    BY <2>1 DEF SendAuthOk, Goto, IInv, TypeOK
  <2>2. CASE InsertClient(c)
    BY <2>2 DEF InsertClient, Goto, IInv, TypeOK
  <2>3. CASE InsertUdpId(c)
    BY <2>3 DEF InsertUdpId, Goto, IInv, TypeOK
  <2>4. CASE JoinReply(c) \/ StartDone(c)
    <3>1. /\ UNCHANGED <<mapVars, udpVars, loopVars>> /\ Done(c)
          /\ pc[c] \in {"tellJoined", "tellSpeaking"}
      BY <2>4 DEF JoinReply, StartDone
    <3> QED
      BY <3>1 DEF Done, Take, Goto, IInv, TypeOK
  <2>5. CASE StartSet(c)
    BY <2>5 DEF StartSet, Goto, IInv, TypeOK
  <2>6. CASE StopSet(c)
    BY <2>6 DEF StopSet, AfterStop, Done, Take, Goto, IInv, TypeOK
  <2>7. CASE StopDone(c)
    BY <2>7 DEF StopDone, AfterStop, Done, Take, Goto, IInv, TypeOK
  <2>8. CASE LeaveRemove(c)
    BY <2>8 DEF LeaveRemove, Take, Goto, IInv, TypeOK
  <2>9. CASE LeaveClear(c)
    BY <2>9 DEF LeaveClear, Goto, IInv, TypeOK
  <2>10. CASE LeaveReply(c)
    BY <2>10 DEF LeaveReply, Done, Take, Goto, IInv, TypeOK
  <2>11. CASE RemoveClient(c)
    BY <2>11 DEF RemoveClient, Goto, IInv, TypeOK
  <2>12. CASE UnmapAddr(c) \/ UnmapId(c)
    BY <2>12 DEF UnmapAddr, UnmapId, Goto, IInv, TypeOK
  <2>13. ASSUME NEW m \in Client, Tell(c, m) PROVE Rest'
    BY <2>13 DEF Tell, IInv, TypeOK
  <2> QED
    BY <1>2, <2>1, <2>2, <2>3, <2>4, <2>5, <2>6, <2>7, <2>8, <2>9, <2>10, <2>11,
       <2>12, <2>13 DEF Work
<1>3. ASSUME Udp PROVE Rest'
  <2>1. UNCHANGED <<mapVars, taskVars>>
    BY <1>3 DEF Udp, Forward, RecvPacket, CollectTargets, ForwardDone, ForwardTo
  <2> QED
    BY <2>1 DEF IInv
<1>4. CASE UNCHANGED vars
  BY <1>0, <1>4 DEF vars, IInv
<1> QED
  BY <1>0, <1>1, <1>2, <1>3, <1>4 DEF Next, IInv

(* The invariant holds for ever.                                             *)
LEMMA Invariance == Spec => []IInv
  BY InitIInv, NextIInv, PTL DEF Spec

(* The maps of the server, its tasks and its UDP loop keep their types, for  *)
(* any sets of clients, channels and addresses.                              *)
THEOREM TypeCorrect == Spec => []TypeOK
  BY Invariance, PTL DEF IInv

(* The member sets and the client records never disagree, except between the *)
(* two steps of a leave.                                                     *)
THEOREM MembershipCorrect == Spec => []MembershipAgrees
  BY Invariance, PTL DEF IInv

(* No lookup of a member's record fails, however disconnects interleave.     *)
THEOREM RecordsCorrect == Spec => []MembersHaveRecords
<1>1. IInv => MembersHaveRecords
  BY SfuAssumption
  DEF IInv, TypeOK, MembershipAgrees, RecordInv, ChannelInv, Registered, InChannel,
      MembersHaveRecords
<1> QED
  BY <1>1, Invariance, PTL

(* Nobody is marked as speaking outside a channel.                           *)
THEOREM SpeakersCorrect == Spec => []SpeakersAreMembers
<1>1. IInv => SpeakersAreMembers
  BY SfuAssumption
  DEF IInv, TypeOK, MembershipAgrees, FlagInv, SpeakersAreMembers
<1> QED
  BY <1>1, Invariance, PTL

---------------------------------------------------------------------------
(* Under the invariant the member sets put a client in the channel its       *)
(* record names, or in none.                                                 *)
LEMMA RoomIsChannel ==
  IInv => \A c \in Client :
            RoomOf(c) = IF pc[c] = "leaveClear" THEN None ELSE channelOf[c]
<1> SUFFICES ASSUME IInv, NEW c \in Client
             PROVE  RoomOf(c) = IF pc[c] = "leaveClear" THEN None ELSE channelOf[c]
  OBVIOUS
<1>1. \A h \in Channel : c \in members[h] <=> channelOf[c] = h /\ pc[c] # "leaveClear"
  BY DEF IInv, MembershipAgrees
<1>2. channelOf[c] \in Channel \cup {None}
  BY DEF IInv, TypeOK
<1>3. CASE \E h \in Channel : c \in members[h]
  <2>1. PICK h \in Channel : c \in members[h]
    BY <1>3
  <2>2. (CHOOSE g \in Channel : c \in members[g]) = h
    BY <2>1, <1>1
  <2> QED
    BY <1>1, <1>3, <2>1, <2>2 DEF RoomOf
<1>4. CASE ~ \E h \in Channel : c \in members[h]
  BY <1>1, <1>2, <1>4 DEF RoomOf
<1> QED
  BY <1>3, <1>4

(* The mapped variables, named to keep the steps below readable.             *)
Room == [c \in Client |-> RoomOf(c)]
Talking == {c \in Client : speaking[c]}

(* A server without clients is an empty board.                               *)
LEMMA MapsInit == Init => Board!Init
  BY DEF Init, Board!Init, RoomOf

(* A step that leaves the three mapped maps alone is a stutter on the board. *)
LEMMA MapsStutter ==
  UNCHANGED <<clients, members, speaking>> => UNCHANGED Board!boardVars
  BY DEF Board!boardVars, RoomOf

(* Every step of a task is one step of the board or leaves it alone.         *)
LEMMA MapsStep == IInv /\ IInv' /\ [Next]_vars => [Board!Next]_Board!boardVars
<1> SUFFICES ASSUME IInv, IInv', [Next]_vars PROVE [Board!Next]_Board!boardVars
  OBVIOUS
<1> USE SfuAssumption DEF mapVars, udpVars, taskVars, loopVars
<1> DEFINE Goal == [Board!Next]_Board!boardVars
<1> DEFINE RoomAsRecorded ==
             \A c \in Client :
               RoomOf(c) = IF pc[c] = "leaveClear" THEN None ELSE channelOf[c]
<1>a. RoomAsRecorded
  BY RoomIsChannel
<1>b. RoomAsRecorded'
  BY RoomIsChannel, PTL
<1>r. /\ RoomAsRecorded
      /\ \A c \in Client :
           RoomOf(c)' = IF pc'[c] = "leaveClear" THEN None ELSE channelOf'[c]
  BY <1>a, <1>b
<1>1. ASSUME NEW c \in Client, InsertClient(c) PROVE Goal
  <2>1. Board!Connect(c)
    BY <1>1 DEF InsertClient, Board!Connect, IInv, RecordInv, Registered, RoomOf
  <2> QED
    BY <2>1 DEF Board!Next
<1>2. ASSUME NEW c \in Client, NEW h \in Channel, JoinChannel(c, h) PROVE Goal
  <2>1. RoomOf(c) = None /\ RoomOf(c)' = h
    BY <1>2, <1>r DEF JoinChannel, Take, Goto, IInv, TypeOK
  <2>2. \A d \in Client \ {c} : RoomOf(d)' = RoomOf(d)
    BY <1>2, <1>r DEF JoinChannel, Take, Goto, IInv, TypeOK
  <2>3. Room' = [Room EXCEPT ![c] = h]
    BY <2>1, <2>2 DEF Room
  <2>4. Board!Enter(c, h)
    BY <1>2, <2>1, <2>3 DEF JoinChannel, Board!Enter, Room
  <2> QED
    BY <2>4 DEF Board!Next
<1>3. ASSUME NEW c \in Client, LeaveRemove(c) PROVE Goal
  <2>1. RoomOf(c) # None /\ RoomOf(c)' = None
    BY <1>3, <1>r DEF LeaveRemove, Take, Goto, IInv, TypeOK, ChannelInv, InChannel
  <2>5. c \notin Talking
    BY <1>3 DEF LeaveRemove, IInv, FlagInv, Talking
  <2>2. \A d \in Client \ {c} : RoomOf(d)' = RoomOf(d)
    BY <1>3, <1>r DEF LeaveRemove, Take, Goto, IInv, TypeOK
  <2>3. Room' = [Room EXCEPT ![c] = None]
    <3>1. \A d \in Client : RoomOf(d)' = IF d = c THEN None ELSE RoomOf(d)
      BY <2>1, <2>2
    <3> QED
      BY <3>1 DEF Room
  <2>4. Board!Exit(c)
    BY <1>3, <2>1, <2>3, <2>5 DEF LeaveRemove, Board!Exit, Room, Talking
  <2> QED
    BY <2>4 DEF Board!Next
<1>4. ASSUME NEW c \in Client, StartSet(c) PROVE Goal
  <2>1. RoomOf(c) # None /\ c \in clients
    BY <1>4, <1>r
    DEF StartSet, IInv, TypeOK, ChannelInv, InChannel, RecordInv, Registered
  <2>2. Talking' = Talking \cup {c}
    BY <1>4, <2>1 DEF StartSet, Talking, IInv, TypeOK
  <2>3. Board!StartTalking(c)
    BY <1>4, <2>1, <2>2 DEF StartSet, Board!StartTalking, Talking, RoomOf
  <2> QED
    BY <2>3 DEF Board!Next
<1>5. ASSUME NEW c \in Client, StopSet(c) PROVE Goal
  <2>1. Talking' = Talking \ {c}
    BY <1>5 DEF StopSet, Talking, IInv, TypeOK
  <2>2. Board!StopTalking(c)
    BY <1>5, <2>1 DEF StopSet, Board!StopTalking, Talking, RoomOf
  <2> QED
    BY <2>2 DEF Board!Next
<1>6. ASSUME NEW c \in Client, RemoveClient(c) PROVE Goal
  <2>1. RoomOf(c) = None /\ c \in clients
    BY <1>6, <1>r
    DEF RemoveClient, IInv, TypeOK, ChannelInv, InChannel, RecordInv, Registered
  <2>2. Board!Disconnect(c)
    BY <1>6, <2>1 DEF RemoveClient, Board!Disconnect, RoomOf
  <2> QED
    BY <2>2 DEF Board!Next
<1>7. ASSUME NEW c \in Client,
             \/ SendAuthOk(c) \/ InsertUdpId(c) \/ JoinReply(c) \/ StartDone(c)
             \/ StopDone(c) \/ LeaveClear(c) \/ LeaveReply(c) \/ UnmapAddr(c)
             \/ UnmapId(c) \/ CloseOutside(c) \/ (\E m \in Client : Tell(c, m))
             \/ \E h \in Channel :
                  \/ StartTransmit(c, h)
                  \/ \E o \in {"stop", "leave", "close"} : StopTransmit(c, o, h)
      PROVE  Goal
  <2>1. UNCHANGED <<clients, members, speaking>>
    BY <1>7 DEF SendAuthOk, InsertUdpId, JoinReply, StartDone, StopDone, LeaveClear,
      LeaveReply, UnmapAddr, UnmapId, CloseOutside, Tell, StartTransmit, StopTransmit
  <2> QED
    BY <2>1, MapsStutter
<1>8. ASSUME Udp PROVE Goal
  <2>1. UNCHANGED <<clients, members, speaking>>
    BY <1>8 DEF Udp, Forward, RecvPacket, CollectTargets, ForwardDone, ForwardTo
  <2> QED
    BY <2>1, MapsStutter
<1>9. CASE UNCHANGED vars
  BY <1>9, MapsStutter DEF vars
<1> QED
  BY <1>1, <1>2, <1>3, <1>4, <1>5, <1>6, <1>7, <1>8, <1>9 DEF Next, Request, Work

(* The server implements the board, for any number of clients and channels.  *)
THEOREM Refinement == Spec => ImplementsBoard
  BY MapsInit, MapsStep, Invariance, PTL DEF Spec, ImplementsBoard, Board!Spec

---------------------------------------------------------------------------
(* Only a connection whose clean-up has not reached the UDP maps has an       *)
(* address: registration needs its record.                                   *)
AddrInv == \A c \in Client : udpAddr[c] # None => Registered(c) \/ pc[c] = "unmapAddr"

(* Its id is mapped until the last step of the clean-up.                     *)
IdInv == \A c \in Client : c \in idMap => pc[c] # "gone"

(* What the loop still has to send, it sends to members, or to clients that   *)
(* have left since and have got nothing from it yet.                         *)
LateInv ==
  /\ \A c \in Client : late[c] <= 1
  /\ loop # "recv" => packet \in [from : Client, channel : Channel]
  /\ loop # "send" => targets = {}
  /\ \A m \in targets : late[m] = 0 \/ m \in members[packet.channel]

UdpInv == ReverseLookupSound /\ AddrInv /\ IdInv /\ LateInv

(* Nobody has an address before the first packet.                            *)
LEMMA InitUdpInv == Init => UdpInv
  BY SfuAssumption
  DEF Init, UdpInv, ReverseLookupSound, AddrInv, IdInv, LateInv, Registered

(* A registration moves one client: it takes its old entry out of the reverse *)
(* map and, should another client be at the new address, that client's.      *)
LEMMA RegisterKeeps ==
  ASSUME IInv, UdpInv, NEW c \in Client, NEW a \in Addr, Register(c, a),
         UNCHANGED <<clients, pc>>
  PROVE  ReverseLookupSound' /\ AddrInv'
<1> USE SfuAssumption DEF IInv, TypeOK
<1>1. CASE UNCHANGED <<udpAddr, addrMap>>
  BY <1>1 DEF UdpInv, ReverseLookupSound, AddrInv, Registered
<1>2. CASE /\ c \in clients
           /\ udpAddr' = [udpAddr EXCEPT ![c] = a]
           /\ addrMap' = [b \in Addr |->
                            IF b = a THEN c
                            ELSE IF b = udpAddr[c] THEN None ELSE addrMap[b]]
  <2>1. ReverseLookupSound'
    <3> SUFFICES ASSUME NEW b \in Addr, addrMap'[b] # None
                 PROVE  udpAddr'[addrMap'[b]] = b
      BY DEF ReverseLookupSound
    <3>1. CASE b = a
      BY <1>2, <3>1
    <3>2. CASE b # a
      <4>1. addrMap'[b] = addrMap[b] /\ b # udpAddr[c] /\ addrMap[b] \in Client
        BY <1>2, <3>2
      <4>2. udpAddr[addrMap[b]] = b
        BY <4>1 DEF UdpInv, ReverseLookupSound
      <4> QED
        BY <1>2, <4>1, <4>2
    <3> QED
      BY <3>1, <3>2
  <2>2. AddrInv'
    BY <1>2 DEF UdpInv, AddrInv, RecordInv, Registered
  <2> QED
    BY <2>1, <2>2
<1> QED
  BY <1>1, <1>2 DEF Register

(* Every step keeps the two UDP maps and the loop's list sound.              *)
LEMMA NextUdpInv == IInv /\ UdpInv /\ [Next]_vars => UdpInv'
<1> SUFFICES ASSUME IInv, UdpInv, [Next]_vars PROVE UdpInv'
  OBVIOUS
<1> USE SfuAssumption DEF mapVars, udpVars, taskVars, loopVars
<1>1. ASSUME NEW c \in Client, Request(c) PROVE UdpInv'
  <2>1. /\ UNCHANGED <<udpVars, loopVars>>
        /\ pc[c] = "idle"
        /\ \E l \in {"tellJoined", "startSet", "stopSet", "remove"} : Goto(c, l)
        /\ \A h \in Channel : members[h] \subseteq members'[h]
    BY <1>1 DEF Request, CloseOutside, JoinChannel, StartTransmit, StopTransmit, Take, IInv,
                TypeOK
  <2>2. ReverseLookupSound' /\ AddrInv' /\ IdInv'
    BY <2>1 DEF UdpInv, ReverseLookupSound, AddrInv, IdInv, Registered, Goto, IInv, TypeOK
  <2>3. LateInv'
    BY <2>1 DEF UdpInv, LateInv, IInv, TypeOK
  <2> QED
    BY <2>2, <2>3 DEF UdpInv
<1>2. ASSUME NEW c \in Client, Work(c) PROVE UdpInv'
  <2>1. CASE LeaveRemove(c)
    <3>1. ReverseLookupSound' /\ AddrInv' /\ IdInv'
      BY <2>1
      DEF LeaveRemove, Take, Goto, UdpInv, ReverseLookupSound, AddrInv, IdInv, Registered,
          IInv, TypeOK
    <3>2. LateInv'
      BY <2>1 DEF LeaveRemove, UdpInv, LateInv, IInv, TypeOK
    <3> QED
      BY <3>1, <3>2 DEF UdpInv
  <2>2. CASE UnmapAddr(c)
    <3>1. ReverseLookupSound'
      BY <2>2 DEF UnmapAddr, UdpInv, ReverseLookupSound, IInv, TypeOK
    <3>2. AddrInv' /\ IdInv' /\ LateInv'
      BY <2>2
      DEF UnmapAddr, Goto, UdpInv, AddrInv, IdInv, LateInv, Registered, IInv, TypeOK
    <3> QED
      BY <3>1, <3>2 DEF UdpInv
  <2>3. CASE InsertUdpId(c) \/ UnmapId(c)
    BY <2>3
    DEF InsertUdpId, UnmapId, Goto, UdpInv, ReverseLookupSound, AddrInv, IdInv, LateInv,
        Registered, IInv, TypeOK
  <2>4. CASE \/ SendAuthOk(c) \/ InsertClient(c) \/ JoinReply(c) \/ StartSet(c)
             \/ StartDone(c) \/ StopSet(c) \/ StopDone(c) \/ LeaveClear(c)
             \/ LeaveReply(c) \/ RemoveClient(c) \/ \E m \in Client : Tell(c, m)
    <3>1. /\ UNCHANGED <<udpVars, loopVars, members>>
          /\ pc[c] \notin {"unmapAddr", "unmapId", "gone"}
          /\ \/ UNCHANGED pc
             \/ \E l \in Pcs \ {"accept", "unmapId", "gone"} :
                  Goto(c, l) /\ (l = "insert" => pc[c] = "accept")
      BY <2>4
      DEF SendAuthOk, InsertClient, JoinReply, StartSet, StartDone, StopSet, StopDone,
          LeaveClear, LeaveReply, RemoveClient, Tell, AfterStop, Done, Take, Goto, Telling,
          Pcs
    <3>2. AddrInv'
      BY <3>1 DEF UdpInv, AddrInv, Registered, Goto, Pcs, IInv, TypeOK
    <3>3. ReverseLookupSound' /\ IdInv' /\ LateInv'
      BY <3>1 DEF UdpInv, ReverseLookupSound, IdInv, LateInv, Goto, Pcs, IInv, TypeOK
    <3> QED
      BY <3>2, <3>3 DEF UdpInv
  <2> QED
    BY <1>2, <2>1, <2>2, <2>3, <2>4 DEF Work
<1>3. ASSUME Udp PROVE UdpInv'
  <2>1. ASSUME NEW c \in Client, NEW a \in Addr, NEW h \in Channel \cup {None},
               RecvPacket(c, a, h)
        PROVE  UdpInv'
    <3>1. ReverseLookupSound' /\ AddrInv'
      BY <2>1, RegisterKeeps DEF RecvPacket
    <3>2. IdInv'
      BY <2>1 DEF RecvPacket, UdpInv, IdInv
    <3>3. LateInv'
      BY <2>1 DEF RecvPacket, UdpInv, LateInv
    <3> QED
      BY <3>1, <3>2, <3>3 DEF UdpInv
  <2>2. CASE CollectTargets
    BY <2>2
    DEF CollectTargets, Targets, UdpInv, ReverseLookupSound, AddrInv, IdInv, LateInv,
        Registered
  <2>3. CASE ForwardDone
    BY <2>3
    DEF ForwardDone, UdpInv, ReverseLookupSound, AddrInv, IdInv, LateInv, Registered
  <2>4. ASSUME NEW m \in Client, ForwardTo(m) PROVE UdpInv'
    <3>1. LateInv'
      BY <2>4 DEF ForwardTo, UdpInv, LateInv, IInv, TypeOK
    <3> QED
      BY <2>4, <3>1
      DEF ForwardTo, UdpInv, ReverseLookupSound, AddrInv, IdInv, Registered
  <2> QED
    BY <1>3, <2>1, <2>2, <2>3, <2>4 DEF Udp, Forward
<1>4. CASE UNCHANGED vars
  BY <1>4
  DEF vars, UdpInv, ReverseLookupSound, AddrInv, IdInv, LateInv, Registered
<1> QED
  BY <1>1, <1>2, <1>3, <1>4 DEF Next

(* The UDP maps and the loop's list stay sound for ever.                     *)
LEMMA UdpInvariance == Spec => []UdpInv
  BY InitUdpInv, NextUdpInv, Invariance, PTL DEF Spec

(* The reverse map names nobody who is elsewhere, for any clients and         *)
(* addresses.                                                                *)
THEOREM ReverseLookup == Spec => []ReverseLookupSound
  BY UdpInvariance, PTL DEF UdpInv

(* A connection that has ended is in no map.                                 *)
THEOREM GoneIsGone == Spec => []GoneLeavesNothing
<1>1. IInv /\ UdpInv => GoneLeavesNothing
  BY SfuAssumption
  DEF IInv, TypeOK, MembershipAgrees, RecordInv, ChannelInv, InChannel, Registered, UdpInv,
      ReverseLookupSound, AddrInv, IdInv, GoneLeavesNothing
<1> QED
  BY <1>1, Invariance, UdpInvariance, PTL

(* Who leaves a channel gets one more of its packets at most.                *)
THEOREM LateBounded == Spec => []AtMostOneLatePacket
<1>1. UdpInv => AtMostOneLatePacket
  BY DEF UdpInv, LateInv, AtMostOneLatePacket
<1> QED
  BY <1>1, UdpInvariance, PTL

---------------------------------------------------------------------------
(* The messages.  Views have their types.                                    *)
ViewTypeOK ==
  /\ told \in [Client -> [Channel -> SUBSET Client]]
  /\ shown \in [Client -> [Channel -> SUBSET Client]]
  /\ list \in [Client -> [ids : SUBSET Client, talking : SUBSET Client]]
  /\ heardBy \in [Client -> SUBSET Client]

(* Of two members of a channel, x knows y, or y is still telling x, or x      *)
(* will learn of y from the list of the reply it waits for.                  *)
ToldInv ==
  \A h \in Channel : \A x, y \in members[h] :
    \/ StillTelling(y, x)
    \/ y \in told[x][h]
    \/ pc[x] = "tellJoined" /\ y \in list[x].ids \cup {x}

(* Whoever is to see y speak, and has not left since, is with y in its        *)
(* channel.                                                                  *)
HeardInv ==
  \A y \in Client : \A x \in heardBy[y] : \E h \in Channel : {x, y} \subseteq members[h]

(* x shows y as speaking, or waits for a reply that says so.                 *)
Seen(x, y) ==
  \/ y \in shown[x][channelOf[y]]
  \/ pc[x] = "tellJoined" /\ y \in list[x].talking

(* It has seen y speak, or y is still about to tell it.                      *)
ShownInv ==
  \A y \in Client : \A x \in heardBy[y] :
    /\ pc[y] \in {"startSet", "tellSpeaking"} => x \in to[y] \/ Seen(x, y)
    /\ speaking[y] /\ pc[y] = "idle" => Seen(x, y)

RosterInv == ViewTypeOK /\ ToldInv /\ HeardInv /\ ShownInv

(* Nobody has been told anything before the first message.                   *)
LEMMA InitRosterInv == RosterInit => RosterInv
  BY DEF RosterInit, Init, NoList, RosterInv, ViewTypeOK, ToldInv, HeardInv, ShownInv

(* Each step with its views is, by its first conjunct, a step without.       *)
LEMMA RosterStep == [RosterNext]_rosterVars => [Next]_vars
  BY DEF RosterNext, RosterJoin, RosterStart, RosterTell, RosterJoinReply, RosterRemove,
         RosterLeaveReply, RosterSilent, Next, Request, Work, rosterVars

(* Adding to a view and taking from it keep its type.                        *)
LEMMA ViewType ==
  ASSUME NEW view \in [Client -> [Channel -> SUBSET Client]],
         NEW x \in Client, NEW h, NEW s \in SUBSET Client
  PROVE  /\ With(view, x, h, s) \in [Client -> [Channel -> SUBSET Client]]
         /\ Without(view, x, h, s) \in [Client -> [Channel -> SUBSET Client]]
  BY DEF With, Without

(* Views stay in their types.                                                *)
LEMMA NextViewTypeOK == IInv /\ ViewTypeOK /\ [RosterNext]_rosterVars => ViewTypeOK'
<1> SUFFICES ASSUME IInv, ViewTypeOK, [RosterNext]_rosterVars PROVE ViewTypeOK'
  OBVIOUS
<1> USE DEF ViewTypeOK
<1>1. ASSUME NEW c \in Client, NEW h \in Channel, RosterJoin(c, h) PROVE ViewTypeOK'
  BY <1>1 DEF RosterJoin, ExistingMembers, IInv, TypeOK
<1>2. ASSUME NEW c \in Client, NEW h \in Channel, RosterStart(c, h) PROVE ViewTypeOK'
  BY <1>2 DEF RosterStart
<1>3. ASSUME NEW c \in Client, NEW m \in Client, RosterTell(c, m) PROVE ViewTypeOK'
  <2>1. \/ UNCHANGED <<told, shown, list, heardBy>>
        \/ told' = With(told, m, ch[c], {c}) /\ UNCHANGED <<shown, list, heardBy>>
        \/ shown' = With(shown, m, ch[c], {c}) /\ UNCHANGED <<told, list, heardBy>>
        \/ shown' = Without(shown, m, ch[c], {c}) /\ UNCHANGED <<told, list, heardBy>>
        \/ /\ told' = Without(told, m, ch[c], {c})
           /\ shown' = Without(shown, m, ch[c], {c})
           /\ UNCHANGED <<list, heardBy>>
    BY <1>3 DEF RosterTell, Tell, Telling
  <2>2. /\ With(told, m, ch[c], {c}) \in [Client -> [Channel -> SUBSET Client]]
        /\ With(shown, m, ch[c], {c}) \in [Client -> [Channel -> SUBSET Client]]
        /\ Without(told, m, ch[c], {c}) \in [Client -> [Channel -> SUBSET Client]]
        /\ Without(shown, m, ch[c], {c}) \in [Client -> [Channel -> SUBSET Client]]
    BY ViewType
  <2> QED
    BY <2>1, <2>2
<1>4. ASSUME NEW c \in Client, RosterJoinReply(c) PROVE ViewTypeOK'
  <2>1. /\ told' = With(told, c, ch[c], list[c].ids \cup {c})
        /\ shown' = With(shown, c, ch[c], list[c].talking)
        /\ list' = [list EXCEPT ![c] = NoList] /\ UNCHANGED heardBy
    BY <1>4 DEF RosterJoinReply
  <2>2. list[c].ids \cup {c} \in SUBSET Client /\ list[c].talking \in SUBSET Client
    OBVIOUS
  <2>3. told' \in [Client -> [Channel -> SUBSET Client]]
    BY <2>1, <2>2, ViewType
  <2>4. shown' \in [Client -> [Channel -> SUBSET Client]]
    BY <2>1, <2>2, ViewType
  <2>5. list' \in [Client -> [ids : SUBSET Client, talking : SUBSET Client]]
    BY <2>1 DEF NoList
  <2> QED
    BY <2>1, <2>3, <2>4, <2>5
<1>5. ASSUME NEW c \in Client, RosterRemove(c) PROVE ViewTypeOK'
  BY <1>5 DEF RosterRemove
<1>6. ASSUME NEW c \in Client, RosterLeaveReply(c) PROVE ViewTypeOK'
  <2>1. /\ told' = Without(told, c, ch[c], Client) /\ shown' = Without(shown, c, ch[c], Client)
        /\ UNCHANGED <<list, heardBy>>
    BY <1>6 DEF RosterLeaveReply
  <2>2. /\ Without(told, c, ch[c], Client) \in [Client -> [Channel -> SUBSET Client]]
        /\ Without(shown, c, ch[c], Client) \in [Client -> [Channel -> SUBSET Client]]
    BY ViewType
  <2> QED
    BY <2>1, <2>2
<1>7. ASSUME NEW c \in Client, RosterSilent(c) PROVE ViewTypeOK'
  BY <1>7 DEF RosterSilent, viewVars
<1>8. CASE UNCHANGED rosterVars
  BY <1>8 DEF rosterVars, viewVars
<1> QED
  BY <1>1, <1>2, <1>3, <1>4, <1>5, <1>6, <1>7, <1>8 DEF RosterNext

(* Where the task of a member can be, and what its record holds there.       *)
LEMMA MemberFacts ==
  ASSUME IInv, NEW c \in Client, NEW h \in Channel, c \in members[h]
  PROVE  /\ c \in clients
         /\ channelOf[c] = h
         /\ pc[c] \in {"idle"} \cup (InChannel \ {"leaveClear"})
         /\ pc[c] # "idle" => ch[c] = h
<1>1. channelOf[c] = h /\ pc[c] # "leaveClear" /\ h # None
  BY SfuAssumption DEF IInv, MembershipAgrees
<1>2. pc[c] \in InChannel \cup {"idle"}
  BY <1>1 DEF IInv, ChannelInv
<1>3. pc[c] # "idle" => ch[c] = h
  BY <1>1, <1>2 DEF IInv, ChannelInv
<1>4. c \in clients
  BY <1>2 DEF IInv, RecordInv, Registered, InChannel
<1> QED
  BY <1>1, <1>2, <1>3, <1>4

(* Every message keeps who knows whom, who was there, and who shows whom.    *)
LEMMA NextRosterInv ==
  IInv /\ RosterInv /\ [RosterNext]_rosterVars => RosterInv'
<1> SUFFICES ASSUME IInv, RosterInv, [RosterNext]_rosterVars PROVE RosterInv'
  OBVIOUS
<1>0. ViewTypeOK'
  BY NextViewTypeOK DEF RosterInv
<1> DEFINE Goal == ToldInv' /\ HeardInv' /\ ShownInv'
<1> USE SfuAssumption
    DEF RosterInv, ViewTypeOK, IInv, TypeOK, StillTelling, Seen, mapVars, udpVars, taskVars,
        loopVars
<1>1. ASSUME NEW c \in Client, NEW h \in Channel, RosterJoin(c, h) PROVE Goal
  <2>0. /\ channelOf[c] = None
        /\ members' = [members EXCEPT ![h] = @ \cup {c}]
        /\ pc' = [pc EXCEPT ![c] = "tellJoined"]
        /\ to' = [to EXCEPT ![c] = members[h] \ {c}]
        /\ channelOf' = [channelOf EXCEPT ![c] = h]
        /\ list' = [list EXCEPT ![c] = ExistingMembers(h)]
        /\ heardBy' = [y \in Client |-> IF y \in members[h] /\ speaking[y]
                                       THEN heardBy[y] \cup {c} ELSE heardBy[y]]
        /\ UNCHANGED <<speaking, told, shown>>
    BY <1>1 DEF RosterJoin, JoinChannel, Take, Goto
  <2>1. \A g \in Channel : c \notin members[g] /\ members[g] \subseteq clients
    BY <2>0, MemberFacts
  <2>2. ToldInv'
    BY <2>0, <2>1 DEF ToldInv, ExistingMembers
  <2>3. HeardInv'
    BY <2>0 DEF HeardInv
  <2>4. ShownInv'
    <3> SUFFICES ASSUME NEW y \in Client, NEW x \in heardBy'[y]
                 PROVE  /\ pc'[y] \in {"startSet", "tellSpeaking"} =>
                             x \in to'[y] \/ Seen(x, y)'
                        /\ speaking'[y] /\ pc'[y] = "idle" => Seen(x, y)'
      BY DEF ShownInv
    <3>1. CASE x \in heardBy[y]
      <4>1. x # c /\ y # c /\ x \in Client
        BY <2>1, <3>1 DEF HeardInv
      <4> QED
        BY <2>0, <3>1, <4>1 DEF ShownInv
    <3>2. CASE x \notin heardBy[y]
      <4>1. x = c /\ y \in members[h] /\ speaking[y]
        BY <2>0, <3>2
      <4>2. y \in list'[c].talking /\ pc'[c] = "tellJoined"
        BY <2>0, <2>1, <4>1 DEF ExistingMembers
      <4> QED
        BY <4>1, <4>2
    <3> QED
      BY <3>1, <3>2
  <2> QED
    BY <2>2, <2>3, <2>4
<1>2. ASSUME NEW c \in Client, NEW h \in Channel, RosterStart(c, h) PROVE Goal
  <2>0. /\ pc[c] = "idle" /\ c \in members[h]
        /\ pc' = [pc EXCEPT ![c] = "startSet"]
        /\ to' = [to EXCEPT ![c] = members[h] \ {c}]
        /\ heardBy' = [heardBy EXCEPT ![c] = {x \in Client \ {c} : Settled(x, h)}]
        /\ UNCHANGED <<members, channelOf, speaking, told, shown, list>>
    BY <1>2 DEF RosterStart, StartTransmit, Take, Goto
  <2>2. ToldInv'
    BY <2>0 DEF ToldInv
  <2>3. HeardInv'
    BY <2>0 DEF HeardInv, Settled
  <2>4. ShownInv'
    BY <2>0 DEF ShownInv, Settled
  <2> QED
    BY <2>2, <2>3, <2>4
<1>3. ASSUME NEW c \in Client, NEW m \in Client, RosterTell(c, m) PROVE Goal
  <2>0. /\ pc[c] \in Telling /\ m \in to[c]
        /\ to' = [to EXCEPT ![c] = @ \ {m}]
        /\ UNCHANGED <<mapVars, pc, list, heardBy>>
    BY <1>3 DEF RosterTell, Tell
  <2>1. \A x \in Client : (\E g \in Channel : x \in members[g]) => x \in clients
    BY MemberFacts
  <2>2. \A g \in Channel : c \in members[g] => channelOf[c] = g /\ ch[c] = g
    BY <2>0, MemberFacts DEF Telling
  <2>3. HeardInv'
    BY <2>0 DEF HeardInv
  <2>4. CASE m \notin clients
    <3>1. UNCHANGED <<told, shown>>
      BY <1>3, <2>4 DEF RosterTell
    <3>2. ToldInv'
      BY <2>0, <2>1, <2>4, <3>1 DEF ToldInv
    <3>3. ShownInv'
      BY <2>0, <2>1, <2>4, <3>1 DEF HeardInv, ShownInv
    <3> QED
      BY <2>3, <3>2, <3>3
  <2>5. CASE m \in clients /\ pc[c] = "tellJoined"
    <3>1. told' = With(told, m, ch[c], {c}) /\ UNCHANGED shown
      BY <1>3, <2>5 DEF RosterTell
    <3>2. ToldInv'
      BY <2>0, <2>2, <2>5, <3>1 DEF ToldInv, With
    <3>3. ShownInv'
      BY <2>0, <2>5, <3>1 DEF ShownInv
    <3> QED
      BY <2>3, <3>2, <3>3
  <2>6. CASE m \in clients /\ pc[c] = "tellSpeaking"
    <3>1. shown' = With(shown, m, ch[c], {c}) /\ UNCHANGED told
      BY <1>3, <2>6 DEF RosterTell
    <3>2. ToldInv'
      BY <2>0, <2>6, <3>1 DEF ToldInv
    <3>3. ShownInv'
      BY <2>0, <2>6, <3>1 DEF ShownInv, With, ChannelInv, InChannel
    <3> QED
      BY <2>3, <3>2, <3>3
  <2>7. CASE m \in clients /\ pc[c] = "tellStopped"
    <3>1. shown' = Without(shown, m, ch[c], {c}) /\ UNCHANGED told
      BY <1>3, <2>7 DEF RosterTell
    <3>2. ToldInv'
      BY <2>0, <2>7, <3>1 DEF ToldInv
    <3>3. ShownInv'
      BY <2>0, <2>7, <3>1 DEF ShownInv, Without
    <3> QED
      BY <2>3, <3>2, <3>3
  <2>8. CASE m \in clients /\ pc[c] = "tellLeft"
    <3>1. told' = Without(told, m, ch[c], {c}) /\ shown' = Without(shown, m, ch[c], {c})
      BY <1>3, <2>8 DEF RosterTell
    <3>2. \A g \in Channel : c \notin members[g]
      BY <2>8, MemberFacts DEF InChannel
    <3>3. ToldInv'
      BY <2>0, <2>8, <3>1, <3>2 DEF ToldInv, Without
    <3>4. ShownInv'
      BY <2>0, <2>8, <3>1 DEF ShownInv, Without
    <3> QED
      BY <2>3, <3>3, <3>4
  <2> QED
    BY <2>0, <2>4, <2>5, <2>6, <2>7, <2>8 DEF Telling
<1>4. ASSUME NEW c \in Client, RosterJoinReply(c) PROVE Goal
  <2>0. /\ pc[c] = "tellJoined" /\ to[c] = {}
        /\ pc' = [pc EXCEPT ![c] = "idle"]
        /\ to' = [to EXCEPT ![c] = {}]
        /\ told' = With(told, c, ch[c], list[c].ids \cup {c})
        /\ shown' = With(shown, c, ch[c], list[c].talking)
        /\ list' = [list EXCEPT ![c] = NoList]
        /\ UNCHANGED <<mapVars, heardBy>>
    BY <1>4 DEF RosterJoinReply, JoinReply, Done, Take, Goto
  <2>1. \A g \in Channel : c \in members[g] => ch[c] = g
    BY <2>0, MemberFacts
  <2>2. ToldInv'
    BY <2>0, <2>1 DEF ToldInv, With, NoList
  <2>3. HeardInv'
    BY <2>0 DEF HeardInv
  <2>4. ~speaking[c]
    BY <2>0 DEF FlagInv
  <2>5. ASSUME NEW y \in Client, NEW x \in heardBy[y], Seen(x, y) PROVE Seen(x, y)'
    <3>1. CASE x = c
      <4>1. channelOf[y] = ch[c]
        BY <2>1, <2>5, <3>1, MemberFacts DEF HeardInv
      <4>2. y \in shown[c][ch[c]] \cup list[c].talking
        BY <2>5, <3>1, <4>1
      <4>3. shown'[c][ch[c]] = shown[c][ch[c]] \cup list[c].talking
        BY <2>0, <4>1, <2>5, <3>1 DEF With, HeardInv, MembershipAgrees
      <4> QED
        BY <2>0, <3>1, <4>1, <4>2, <4>3
    <3>2. CASE x # c
      BY <2>0, <2>5, <3>2 DEF With
    <3> QED
      BY <3>1, <3>2
  <2>6. ShownInv'
    <3> HIDE DEF Seen
    <3> QED
      BY <2>0, <2>4, <2>5 DEF ShownInv
  <2> QED
    BY <2>2, <2>3, <2>6
<1>5. ASSUME NEW c \in Client, RosterRemove(c) PROVE Goal
  <2>0. /\ pc[c] = "leaveRemove" /\ c \in members[ch[c]]
        /\ members' = [members EXCEPT ![ch[c]] = @ \ {c}]
        /\ pc' = [pc EXCEPT ![c] = "leaveClear"]
        /\ \E s \in SUBSET Client : to' = [to EXCEPT ![c] = s]
        /\ heardBy' = [y \in Client |-> IF y = c THEN {} ELSE heardBy[y] \ {c}]
        /\ UNCHANGED <<channelOf, speaking, told, shown, list>>
    BY <1>5 DEF RosterRemove, LeaveRemove, Take, Goto, ChannelInv, InChannel
  <2>1. \A g \in Channel : members'[g] = members[g] \ {c}
    BY <2>0, MemberFacts
  <2>2. ToldInv'
    BY <2>0, <2>1 DEF ToldInv
  <2>3. HeardInv'
    BY <2>0, <2>1 DEF HeardInv
  <2>4. ShownInv'
    BY <2>0 DEF ShownInv
  <2> QED
    BY <2>2, <2>3, <2>4
<1>6. ASSUME NEW c \in Client, RosterLeaveReply(c) PROVE Goal
  <2>0. /\ pc[c] = "tellLeft"
        /\ \E l \in {"idle", "remove"} : pc' = [pc EXCEPT ![c] = l]
        /\ to' = [to EXCEPT ![c] = {}]
        /\ told' = Without(told, c, ch[c], Client)
        /\ shown' = Without(shown, c, ch[c], Client)
        /\ UNCHANGED <<mapVars, list, heardBy>>
    BY <1>6 DEF RosterLeaveReply, LeaveReply, Done, Take, Goto
  <2>1. ~speaking[c] /\ \A g \in Channel : c \notin members[g]
    BY <2>0, MemberFacts DEF FlagInv, InChannel
  <2>2. ToldInv'
    BY <2>0, <2>1 DEF ToldInv, Without
  <2>3. HeardInv'
    BY <2>0 DEF HeardInv
  <2>4. \A y \in Client : c \notin heardBy[y]
    BY <2>1 DEF HeardInv
  <2>5. ShownInv'
    BY <2>0, <2>1, <2>4 DEF ShownInv, Without
  <2> QED
    BY <2>2, <2>3, <2>5
<1>7. ASSUME NEW c \in Client, RosterSilent(c) PROVE Goal
  <2>0. UNCHANGED <<members, viewVars>>
    BY <1>7
    DEF RosterSilent, SendAuthOk, InsertClient, InsertUdpId, StartSet, StartDone, StopSet,
        StopDone, LeaveClear, CloseOutside, RemoveClient, UnmapAddr, UnmapId, StopTransmit
  <2>1. HeardInv'
    BY <2>0 DEF HeardInv, viewVars
  <2>2. CASE StartSet(c)
    <3>1. /\ pc[c] = "startSet"
          /\ pc' = [pc EXCEPT ![c] = "tellSpeaking"]
          /\ speaking' \in {speaking, [speaking EXCEPT ![c] = TRUE]}
          /\ UNCHANGED <<channelOf, to>>
      BY <2>2 DEF StartSet, Goto
    <3>2. ToldInv'
      BY <2>0, <3>1 DEF ToldInv, viewVars
    <3>3. ShownInv'
      BY <2>0, <3>1 DEF ShownInv, viewVars
    <3> QED
      BY <2>1, <3>2, <3>3
  <2>3. CASE StartDone(c)
    <3>1. /\ pc[c] = "tellSpeaking" /\ to[c] = {}
          /\ pc' = [pc EXCEPT ![c] = "idle"]
          /\ to' = [to EXCEPT ![c] = {}]
          /\ UNCHANGED <<channelOf, speaking>>
      BY <2>3 DEF StartDone, Done, Take, Goto
    <3>2. ToldInv'
      BY <2>0, <3>1 DEF ToldInv, viewVars
    <3>3. ShownInv'
      BY <2>0, <3>1 DEF ShownInv, viewVars
    <3> QED
      BY <2>1, <3>2, <3>3
  <2>4. CASE LeaveClear(c)
    <3>1. /\ pc[c] = "leaveClear"
          /\ pc' = [pc EXCEPT ![c] = "tellLeft"]
          /\ channelOf' = [channelOf EXCEPT ![c] = None]
          /\ UNCHANGED <<to, speaking>>
      BY <2>4 DEF LeaveClear, Goto
    <3>2. \A g \in Channel : c \notin members[g]
      BY <3>1 DEF MembershipAgrees
    <3>3. ToldInv'
      BY <2>0, <3>1 DEF ToldInv, viewVars
    <3>4. ShownInv'
      BY <2>0, <3>1 DEF ShownInv, viewVars
    <3> QED
      BY <2>1, <3>3, <3>4
  <2>5. CASE \/ SendAuthOk(c) \/ InsertClient(c) \/ InsertUdpId(c) \/ StopSet(c)
             \/ StopDone(c) \/ CloseOutside(c) \/ RemoveClient(c) \/ UnmapAddr(c)
             \/ UnmapId(c)
             \/ \E h \in Channel, o \in {"stop", "leave", "close"} : StopTransmit(c, o, h)
    <3> DEFINE Quiet == Pcs \ {"tellJoined", "startSet", "tellSpeaking"}
    <3>1. /\ pc[c] \in Quiet
          /\ UNCHANGED channelOf
          /\ speaking' \in {speaking, [speaking EXCEPT ![c] = FALSE]}
          /\ \A d \in Client \ {c} : to'[d] = to[d]
      BY <2>5
      DEF SendAuthOk, InsertClient, InsertUdpId, StopSet, StopDone, CloseOutside,
          RemoveClient, UnmapAddr, UnmapId, StopTransmit, AfterStop, Done, Take, Pcs
    <3>4. \E l \in Quiet : pc' = [pc EXCEPT ![c] = l] /\ (l = "idle" => ~speaking'[c])
      <4>1. CASE SendAuthOk(c) \/ InsertClient(c)
        BY <4>1 DEF SendAuthOk, InsertClient, Goto, Pcs
      <4>6. CASE InsertUdpId(c)
        BY <4>6 DEF InsertUdpId, Goto, FlagInv, Pcs
      <4>2. CASE RemoveClient(c) \/ UnmapAddr(c) \/ UnmapId(c)
        BY <4>2 DEF RemoveClient, UnmapAddr, UnmapId, Goto, Pcs
      <4>3. CASE StopSet(c)
        BY <4>3 DEF StopSet, AfterStop, Done, Take, Goto, Pcs
      <4>4. CASE StopDone(c)
        BY <4>4 DEF StopDone, AfterStop, Done, Take, Goto, FlagInv, Pcs
      <4>5. CASE CloseOutside(c) \/ \E h \in Channel, o \in {"stop", "leave", "close"} :
                                      StopTransmit(c, o, h)
        BY <4>5 DEF CloseOutside, StopTransmit, Take, Goto, Pcs
      <4> QED
        BY <2>5, <4>1, <4>2, <4>3, <4>4, <4>5, <4>6
    <3>2. ToldInv'
      BY <2>0, <3>1, <3>4 DEF ToldInv, viewVars
    <3>3. ShownInv'
      BY <2>0, <3>1, <3>4 DEF ShownInv, viewVars
    <3> QED
      BY <2>1, <3>2, <3>3
  <2> QED
    BY <1>7, <2>2, <2>3, <2>4, <2>5 DEF RosterSilent
<1>8. CASE UNCHANGED rosterVars
  BY <1>8
  DEF rosterVars, viewVars, vars, ToldInv, HeardInv, ShownInv
<1> QED
  BY <1>0, <1>1, <1>2, <1>3, <1>4, <1>5, <1>6, <1>7, <1>8 DEF RosterNext

(* The server with its messages is the server: what holds of the maps holds   *)
(* here too.                                                                 *)
LEMMA RosterIsServer == RosterSpec => Spec
<1>1. RosterInit => Init
  BY DEF RosterInit
<1> QED
  BY <1>1, RosterStep, PTL DEF RosterSpec, Spec

(* With its messages too the server keeps the promise of ChannelBoard.       *)
COROLLARY RosterRefinement == RosterSpec => ImplementsBoard
  BY RosterIsServer, Refinement, PTL

(* The views stay as ToldInv, HeardInv and ShownInv say.                     *)
LEMMA RosterInvariance == RosterSpec => []RosterInv
  BY InitRosterInv, NextRosterInv, RosterIsServer, Invariance, PTL DEF RosterSpec

(* No member is missed, for any clients and channels.                        *)
THEOREM MembersAnnounced == RosterSpec => []EveryMemberAnnounced
<1>1. IInv /\ RosterInv => EveryMemberAnnounced
  BY DEF IInv, TypeOK, RosterInv, ToldInv, EveryMemberAnnounced, Settled
<1> QED
  BY <1>1, RosterInvariance, RosterIsServer, Invariance, PTL

(* Whoever is there when a speech begins, or joins once it has been marked,   *)
(* shows it, for any clients and channels.                                   *)
THEOREM SpeechShown == RosterSpec => []SpeechIsShown
<1>1. RosterInv => SpeechIsShown
  BY DEF RosterInv, ShownInv, Seen, SpeechIsShown
<1> QED
  BY <1>1, RosterInvariance, PTL
---------------------------------------------------------------------------
(* What TasksFinish rests on.  A task has a stage in its request, and at a    *)
(* broadcast the members it has yet to tell; fairness apart, a request ends   *)
(* because every step of its task goes down from there.                      *)
Stage(c) ==
  CASE pc[c] \in {"idle", "gone"} -> 0
    [] pc[c] \in {"insertId", "tellJoined", "tellSpeaking", "unmapId"} -> 1
    [] pc[c] \in {"insert", "startSet", "unmapAddr"} -> 2
    [] pc[c] \in {"accept", "remove"} -> 3
    [] pc[c] = "tellLeft" -> 4
    [] pc[c] = "leaveClear" -> 5
    [] pc[c] = "leaveRemove" -> 6
    [] pc[c] = "tellStopped" -> 7
    [] pc[c] = "stopSet" -> 8

Descends(c) ==
  \/ Stage(c)' < Stage(c)
  \/ Stage(c)' = Stage(c) /\ Cardinality(to[c])' < Cardinality(to[c])

(* A task that is busy is left alone by all others, and goes down itself.     *)
BusyTasksDescend ==
  \A c \in Client : pc[c] # "idle" => Descends(c) \/ UNCHANGED <<pc[c], op[c], to[c]>>

(* No set the server holds is infinite, whatever Client is.                  *)
FiniteInv ==
  /\ \A h \in Channel : IsFiniteSet(members[h])
  /\ \A c \in Client : IsFiniteSet(to[c])

(* A snapshot of a channel, and a channel with one client more or less.       *)
LEMMA FiniteChannel ==
  ASSUME FiniteInv, NEW h \in Channel, NEW c \in Client
  PROVE  /\ IsFiniteSet(members[h] \cup {c})
         /\ IsFiniteSet(members[h] \ {c})
BY FS_AddElement, FS_RemoveElement DEF FiniteInv

(* Members come and go one at a time, and a broadcast goes to some of them.   *)
LEMMA NextFiniteInv == IInv /\ FiniteInv /\ [Next]_vars => FiniteInv'
<1> SUFFICES ASSUME IInv, FiniteInv, [Next]_vars PROVE FiniteInv'
  OBVIOUS
<1>0. /\ members \in [Channel -> SUBSET Client] /\ to \in [Client -> SUBSET Client]
      /\ \A h \in Channel : IsFiniteSet(members[h])
      /\ \A c \in Client : IsFiniteSet(to[c])
  BY DEF IInv, TypeOK, FiniteInv
<1>1. ASSUME UNCHANGED <<members, to>> PROVE FiniteInv'
  BY <1>0, <1>1 DEF FiniteInv
<1>2. ASSUME NEW c \in Client, NEW h \in Channel, UNCHANGED members,
             to' = [to EXCEPT ![c] = members[h] \ {c}] \/ to' = [to EXCEPT ![c] = {} \ {c}]
      PROVE  FiniteInv'
  <2>1. IsFiniteSet(members[h] \ {c}) /\ IsFiniteSet({} \ {c})
    BY <1>0, FiniteChannel, FS_EmptySet
  <2> QED
    BY <1>0, <1>2, <2>1 DEF FiniteInv
<1>3. ASSUME NEW c \in Client, Request(c) PROVE FiniteInv'
  <2>1. CASE CloseOutside(c)
    <3>1. to' = [to EXCEPT ![c] = {} \ {c}] /\ UNCHANGED members
      BY <2>1 DEF CloseOutside, Take, mapVars
    <3>2. IsFiniteSet({} \ {c})
      BY FS_EmptySet
    <3> QED
      BY <1>0, <3>1, <3>2 DEF FiniteInv
  <2>2. ASSUME NEW h \in Channel, JoinChannel(c, h) PROVE FiniteInv'
    <3>1. /\ members' = [members EXCEPT ![h] = @ \cup {c}]
          /\ to' = [to EXCEPT ![c] = members[h] \ {c}]
      BY <2>2 DEF JoinChannel, Take
    <3>2. IsFiniteSet(members[h] \cup {c}) /\ IsFiniteSet(members[h] \ {c})
      BY FiniteChannel
    <3> QED
      BY <1>0, <3>1, <3>2 DEF FiniteInv
  <2>3. ASSUME NEW h \in Channel, StartTransmit(c, h) PROVE FiniteInv'
    BY <1>2, <2>3 DEF StartTransmit, Take, mapVars
  <2>4. ASSUME NEW h \in Channel, NEW o \in {"stop", "leave", "close"}, StopTransmit(c, o, h)
        PROVE  FiniteInv'
    BY <1>2, <2>4 DEF StopTransmit, Take, mapVars
  <2> QED
    BY <1>3, <2>1, <2>2, <2>3, <2>4 DEF Request
<1>4. ASSUME NEW c \in Client, UNCHANGED members, to' = [to EXCEPT ![c] = {} \ {c}]
      PROVE  FiniteInv'
  <2>1. IsFiniteSet({} \ {c})
    BY FS_EmptySet
  <2> QED
    BY <1>0, <1>4, <2>1 DEF FiniteInv
<1>5. ASSUME NEW c \in Client, Work(c) PROVE FiniteInv'
  <2>1. CASE SendAuthOk(c) \/ InsertClient(c) \/ InsertUdpId(c)
    BY <1>1, <2>1 DEF SendAuthOk, InsertClient, InsertUdpId, mapVars
  <2>2. CASE JoinReply(c) \/ StartDone(c) \/ StopDone(c)
    BY <1>4, <2>2 DEF JoinReply, StartDone, StopDone, AfterStop, Done, Take, mapVars
  <2>3. CASE StartSet(c) \/ LeaveClear(c)
    BY <1>1, <2>3 DEF StartSet, LeaveClear
  <2>4. CASE StopSet(c)
    BY <1>1, <1>4, <2>4 DEF StopSet, AfterStop, Done, Take
  <2>5. CASE LeaveRemove(c)
    <3>1. ch[c] \in Channel
      BY <2>5, SfuAssumption DEF LeaveRemove, IInv, TypeOK, ChannelInv, InChannel
    <3>2. /\ members' = [members EXCEPT ![ch[c]] = @ \ {c}]
          /\ to' = [to EXCEPT ![c] = members[ch[c]] \ {c}]
      BY <2>5 DEF LeaveRemove, Take
    <3>3. IsFiniteSet(members[ch[c]] \ {c})
      BY <3>1, FiniteChannel
    <3> QED
      BY <1>0, <3>1, <3>2, <3>3 DEF FiniteInv
  <2>6. CASE LeaveReply(c)
    BY <1>4, <2>6 DEF LeaveReply, Done, Take, mapVars
  <2>7. CASE RemoveClient(c) \/ UnmapAddr(c) \/ UnmapId(c)
    BY <1>1, <2>7 DEF RemoveClient, UnmapAddr, UnmapId, mapVars
  <2>8. ASSUME NEW m \in Client, Tell(c, m) PROVE FiniteInv'
    <3>1. to' = [to EXCEPT ![c] = @ \ {m}] /\ UNCHANGED members
      BY <2>8 DEF Tell, mapVars
    <3>2. IsFiniteSet(to[c] \ {m})
      BY <1>0, FS_RemoveElement
    <3> QED
      BY <1>0, <3>1, <3>2 DEF FiniteInv
  <2> QED
    BY <1>5, <2>1, <2>2, <2>3, <2>4, <2>5, <2>6, <2>7, <2>8 DEF Work
<1>6. CASE Udp
  BY <1>1, <1>6
  DEF Udp, Forward, RecvPacket, CollectTargets, ForwardDone, ForwardTo, mapVars, taskVars
<1>7. CASE UNCHANGED vars
  BY <1>1, <1>7 DEF vars, mapVars, taskVars
<1> QED
  BY <1>3, <1>5, <1>6, <1>7 DEF Next

(* No map is infinite, and no snapshot of one.                               *)
LEMMA Finiteness == Spec => []FiniteInv
<1>1. Init => FiniteInv
  BY FS_EmptySet DEF Init, FiniteInv
<1> QED
  BY <1>1, NextFiniteInv, Invariance, PTL DEF Spec

(* The steps of a task take it to a lower stage, or tell a member.            *)
LEMMA WorkDescends ==
  ASSUME IInv, FiniteInv, NEW c \in Client, Work(c)
  PROVE  Descends(c)
<1>0. /\ pc \in [Client -> Pcs] /\ to \in [Client -> SUBSET Client]
      /\ op \in [Client -> {"none", "join", "start", "stop", "leave", "close"}]
  BY DEF IInv, TypeOK
<1>1. ASSUME NEW m \in Client, Tell(c, m) PROVE Descends(c)
  <2>1. /\ pc' = pc /\ m \in to[c] /\ to' = [to EXCEPT ![c] = @ \ {m}]
    BY <1>1 DEF Tell
  <2>2. to'[c] = to[c] \ {m}
    BY <1>0, <2>1
  <2>3. IsFiniteSet(to[c])
    BY DEF FiniteInv
  <2>4. Cardinality(to[c] \ {m}) = Cardinality(to[c]) - 1 /\ Cardinality(to[c]) \in Nat
    BY <2>1, <2>3, FS_RemoveElement, FS_CardinalityType
  <2>5. Cardinality(to[c])' < Cardinality(to[c])
    BY <2>2, <2>4
  <2>6. Stage(c)' = Stage(c)
    BY <2>1 DEF Stage
  <2> QED
    BY <2>5, <2>6 DEF Descends
<1>2. ASSUME \/ pc[c] = "accept" /\ pc'[c] = "insert"
             \/ pc[c] = "insert" /\ pc'[c] = "insertId"
             \/ pc[c] = "insertId" /\ pc'[c] = "idle"
             \/ pc[c] \in {"tellJoined", "tellSpeaking"} /\ pc'[c] = "idle"
             \/ pc[c] = "startSet" /\ pc'[c] = "tellSpeaking"
      PROVE  Descends(c)
  BY <1>2 DEF Stage, Descends
<1>3. ASSUME \/ pc[c] = "stopSet" /\ pc'[c] \in {"tellStopped", "leaveRemove", "idle"}
             \/ pc[c] = "tellStopped" /\ pc'[c] \in {"leaveRemove", "idle"}
             \/ pc[c] = "leaveRemove" /\ pc'[c] = "leaveClear"
             \/ pc[c] = "leaveClear" /\ pc'[c] = "tellLeft"
             \/ pc[c] = "tellLeft" /\ pc'[c] \in {"remove", "idle"}
      PROVE  Descends(c)
  BY <1>3 DEF Stage, Descends
<1>4. ASSUME \/ pc[c] = "remove" /\ pc'[c] = "unmapAddr"
             \/ pc[c] = "unmapAddr" /\ pc'[c] = "unmapId"
             \/ pc[c] = "unmapId" /\ pc'[c] = "gone"
      PROVE  Descends(c)
  BY <1>4 DEF Stage, Descends
<1>5. CASE SendAuthOk(c) \/ InsertClient(c) \/ InsertUdpId(c)
  BY <1>0, <1>2, <1>5 DEF SendAuthOk, InsertClient, InsertUdpId, Goto
<1>6. CASE JoinReply(c) \/ StartSet(c) \/ StartDone(c)
  BY <1>0, <1>2, <1>6 DEF JoinReply, StartSet, StartDone, Done, Take, Goto
<1>7. CASE StopSet(c) \/ StopDone(c)
  BY <1>0, <1>3, <1>7 DEF StopSet, StopDone, AfterStop, Done, Take, Goto
<1>8. CASE LeaveRemove(c) \/ LeaveClear(c) \/ LeaveReply(c)
  BY <1>0, <1>3, <1>8 DEF LeaveRemove, LeaveClear, LeaveReply, Done, Take, Goto
<1>9. CASE RemoveClient(c) \/ UnmapAddr(c) \/ UnmapId(c)
  BY <1>0, <1>4, <1>9 DEF RemoveClient, UnmapAddr, UnmapId, Goto
<1> QED
  BY <1>1, <1>5, <1>6, <1>7, <1>8, <1>9 DEF Work

(* A step of the task of d says nothing about another task.                  *)
LEMMA OthersUntouched ==
  ASSUME IInv, NEW c \in Client, NEW d \in Client, c # d, Request(d) \/ Work(d)
  PROVE  UNCHANGED <<pc[c], op[c], to[c]>>
<1>0. /\ pc \in [Client -> Pcs] /\ to \in [Client -> SUBSET Client]
      /\ op \in [Client -> {"none", "join", "start", "stop", "leave", "close"}]
  BY DEF IInv, TypeOK
<1>1. ASSUME NEW o, NEW h, NEW label, NEW snapshot, Take(d, o, h, label, snapshot)
      PROVE  UNCHANGED <<pc[c], op[c], to[c]>>
  BY <1>0, <1>1 DEF Take, Goto
<1>2. ASSUME NEW label, Goto(d, label), UNCHANGED <<op, to>>
      PROVE  UNCHANGED <<pc[c], op[c], to[c]>>
  BY <1>0, <1>2 DEF Goto
<1>3. CASE Request(d)
  BY <1>1, <1>3 DEF Request, CloseOutside, JoinChannel, StartTransmit, StopTransmit
<1>4. CASE SendAuthOk(d) \/ InsertClient(d) \/ InsertUdpId(d)
  BY <1>2, <1>4 DEF SendAuthOk, InsertClient, InsertUdpId
<1>5. CASE JoinReply(d) \/ StartDone(d) \/ StopDone(d)
  BY <1>1, <1>5 DEF JoinReply, StartDone, StopDone, AfterStop, Done
<1>6. CASE StartSet(d) \/ LeaveClear(d)
  BY <1>2, <1>6 DEF StartSet, LeaveClear
<1>7. CASE StopSet(d)
  BY <1>1, <1>2, <1>7 DEF StopSet, AfterStop, Done
<1>8. CASE LeaveRemove(d) \/ LeaveReply(d)
  BY <1>1, <1>8 DEF LeaveRemove, LeaveReply, Done
<1>9. CASE RemoveClient(d) \/ UnmapAddr(d) \/ UnmapId(d)
  BY <1>2, <1>9 DEF RemoveClient, UnmapAddr, UnmapId
<1>10. ASSUME NEW m \in Client, Tell(d, m) PROVE UNCHANGED <<pc[c], op[c], to[c]>>
  BY <1>0, <1>10 DEF Tell
<1> QED
  BY <1>3, <1>4, <1>5, <1>6, <1>7, <1>8, <1>9, <1>10 DEF Work

(* No request of any client can go on for ever: each step of its task brings  *)
(* it nearer to its end, and no step of another task or of the UDP loop sets  *)
(* it back.                                                                  *)
THEOREM RequestsDescend == Spec => [][BusyTasksDescend]_vars
<1>1. ASSUME IInv, FiniteInv, [Next]_vars PROVE BusyTasksDescend
  <2> SUFFICES ASSUME NEW c \in Client, pc[c] # "idle"
               PROVE  Descends(c) \/ UNCHANGED <<pc[c], op[c], to[c]>>
    BY DEF BusyTasksDescend
  <2>1. ~Request(c)
    BY DEF Request, CloseOutside, JoinChannel, StartTransmit, StopTransmit
  <2>2. ASSUME UNCHANGED taskVars PROVE UNCHANGED <<pc[c], op[c], to[c]>>
    BY <2>2 DEF taskVars
  <2>3. Udp \/ UNCHANGED vars => UNCHANGED taskVars
    BY DEF Udp, Forward, RecvPacket, CollectTargets, ForwardDone, ForwardTo, vars
  <2> QED
    BY <1>1, <2>1, <2>2, <2>3, WorkDescends, OthersUntouched DEF Next
<1>2. IInv /\ FiniteInv /\ [Next]_vars => [BusyTasksDescend]_vars
  BY <1>1
<1> QED
  BY <1>2, Invariance, Finiteness, PTL DEF Spec

(* And it never waits for another: the only step with a condition of its own, *)
(* taking the client out of its channel, always finds it in there.           *)
LeaversAreMembers == \A c \in Client : pc[c] = "leaveRemove" => c \in members[ch[c]]

(* A leave, or a clean-up, is never cut short by a membership that is gone.   *)
THEOREM LeaversFound == Spec => []LeaversAreMembers
<1>1. IInv => LeaversAreMembers
  BY SfuAssumption
  DEF IInv, TypeOK, MembershipAgrees, ChannelInv, InChannel, LeaversAreMembers
<1> QED
  BY <1>1, Invariance, PTL

(* What BecomesReachable leaves open: a client that is reachable over UDP     *)
(* stays so as long as it has its record, whoever moves or takes its address. *)
StaysReachable ==
  \A c \in Client : udpAddr[c] # None => udpAddr'[c] # None \/ c \notin clients'

(* Once reachable, reachable until the disconnect.                           *)
THEOREM ReachableStays == Spec => [][StaysReachable]_vars
<1>1. ASSUME IInv, [Next]_vars PROVE StaysReachable
  <2> SUFFICES ASSUME NEW c \in Client, udpAddr[c] # None, udpAddr'[c] = None
               PROVE  c \notin clients'
    BY DEF StaysReachable
  <2>0. udpAddr \in [Client -> Addr \cup {None}]
    BY <1>1 DEF IInv, TypeOK
  <2>1. PICK d \in Client : UnmapAddr(d) \/ \E a \in Addr : Register(d, a)
    <3>1. udpAddr' # udpAddr
      OBVIOUS
    <3> QED
      BY <1>1, <3>1
      DEF Next, Request, Work, Udp, Forward, CloseOutside, JoinChannel, StartTransmit,
          StopTransmit, SendAuthOk, InsertClient, InsertUdpId, JoinReply, StartSet, StartDone,
          StopSet, StopDone, LeaveRemove, LeaveClear, LeaveReply, RemoveClient, UnmapId, Tell,
          RecvPacket, CollectTargets, ForwardDone, ForwardTo, udpVars, vars
  <2>2. CASE \E a \in Addr : Register(d, a)
    BY <2>0, <2>2, SfuAssumption DEF Register
  <2>3. CASE UnmapAddr(d)
    <3>1. d = c /\ pc[c] = "unmapAddr" /\ clients' = clients
      BY <2>0, <2>3 DEF UnmapAddr, mapVars
    <3> QED
      BY <1>1, <3>1 DEF IInv, RecordInv, Registered
  <2> QED
    BY <2>1, <2>2, <2>3
<1>2. IInv /\ [Next]_vars => [StaysReachable]_vars
  BY <1>1
<1> QED
  BY <1>2, Invariance, PTL DEF Spec
=============================================================================
