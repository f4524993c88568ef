----------------------------- MODULE SfuRoster -----------------------------
(***************************************************************************)
(* What the messages of the server let a client know.  SfuServer says what   *)
(* the tasks do to the shared maps; this module adds, for each client, the   *)
(* members and the speakers it has been told of.  The view is that of the    *)
(* most forgiving client: it merges the channel_joined list into what the    *)
(* broadcasts said before, and clears a channel when channel_left arrives.   *)
(* WebSocket messages to one client are sent in order (one mutex), so the    *)
(* view is updated when a message is sent.                                   *)
(***************************************************************************)
EXTENDS SfuServer

VARIABLES
  told,    \* told[x][h]: members of h that x knows of
  shown,   \* shown[x][h]: those it shows as speaking
  list,    \* list[x]: the member list collected for x's channel_joined reply
  heardBy  \* heardBy[y]: settled members when y's start_transmit began, and
           \* those that have joined since y was marked as speaking

viewVars   == <<told, shown, list, heardBy>>
rosterVars == <<vars, viewVars>>

NoList == [ids |-> {}, talking |-> {}]

RosterInit ==
  /\ Init
  /\ told = [x \in Client |-> [h \in Channel |-> {}]]
  /\ shown = [x \in Client |-> [h \in Channel |-> {}]]
  /\ list = [x \in Client |-> NoList]
  /\ heardBy = [y \in Client |-> {}]

With(view, x, h, s)    == [view EXCEPT ![x][h] = @ \cup s]
Without(view, x, h, s) == [view EXCEPT ![x][h] = @ \ s]

(* Mutant of ExistingMembers: who speaks is not listed as a member.          *)
SilentMembers(h) == [ids |-> {m \in members[h] \cap clients : ~speaking[m]},
                     talking |-> {m \in members[h] \cap clients : speaking[m]}]

(* Mutant of ExistingMembers: the speaking flags are left out.               *)
MembersWithoutFlags(h) == [ids |-> members[h] \cap clients, talking |-> {}]

(* ChannelMemberInfo of the existing members, read before the insertion.     *)
ExistingMembers(h) == [ids |-> members[h] \cap clients,
                       talking |-> {m \in members[h] \cap clients : speaking[m]}]

RosterJoin(c, h) ==
  /\ JoinChannel(c, h)
  /\ list' = [list EXCEPT ![c] = ExistingMembers(h)]
  /\ heardBy' = [y \in Client |-> IF y \in members[h] /\ speaking[y]
                                 THEN heardBy[y] \cup {c} ELSE heardBy[y]]
  /\ UNCHANGED <<told, shown>>

(* channel_joined { members }: the existing members and the new one.         *)
RosterJoinReply(c) ==
  /\ JoinReply(c)
  /\ told' = With(told, c, ch[c], list[c].ids \cup {c})
  /\ shown' = With(shown, c, ch[c], list[c].talking)
  /\ list' = [list EXCEPT ![c] = NoList]
  /\ UNCHANGED heardBy

(* user_joined, user_speaking, user_stopped, user_left to one member.        *)
RosterTell(c, m) ==
  /\ Tell(c, m)
  /\ IF m \notin clients THEN UNCHANGED <<told, shown>>
     ELSE CASE pc[c] = "tellJoined" ->
                 told' = With(told, m, ch[c], {c}) /\ UNCHANGED shown
            [] pc[c] = "tellSpeaking" ->
                 shown' = With(shown, m, ch[c], {c}) /\ UNCHANGED told
            [] pc[c] = "tellStopped" ->
                 shown' = Without(shown, m, ch[c], {c}) /\ UNCHANGED told
            [] pc[c] = "tellLeft" ->
                 /\ told' = Without(told, m, ch[c], {c})
                 /\ shown' = Without(shown, m, ch[c], {c})
  /\ UNCHANGED <<list, heardBy>>

Settled(x, h) == x \in members[h] /\ pc[x] # "tellJoined"

RosterStart(c, h) ==
  /\ StartTransmit(c, h)
  /\ heardBy' = [heardBy EXCEPT ![c] = {x \in Client \ {c} : Settled(x, h)}]
  /\ UNCHANGED <<told, shown, list>>

RosterRemove(c) ==
  /\ LeaveRemove(c)
  /\ heardBy' = [y \in Client |-> IF y = c THEN {} ELSE heardBy[y] \ {c}]
  /\ UNCHANGED <<told, shown, list>>

(* channel_left                                                              *)
RosterLeaveReply(c) ==
  /\ LeaveReply(c)
  /\ told' = Without(told, c, ch[c], Client)
  /\ shown' = Without(shown, c, ch[c], Client)
  /\ UNCHANGED <<list, heardBy>>

RosterSilent(c) ==
  /\ \/ SendAuthOk(c) \/ InsertClient(c) \/ InsertUdpId(c)
     \/ StartSet(c) \/ StartDone(c) \/ StopSet(c) \/ StopDone(c)
     \/ LeaveClear(c) \/ CloseOutside(c)
     \/ RemoveClient(c) \/ UnmapAddr(c) \/ UnmapId(c)
     \/ \E h \in Channel, o \in {"stop", "leave", "close"} : StopTransmit(c, o, h)
  /\ UNCHANGED viewVars

(* The UDP loop is left to SfuServer: it reads memberships and sends no        *)
(* message over a WebSocket.                                                 *)
RosterNext ==
  \E c \in Client :
    \/ \E h \in Channel : RosterJoin(c, h) \/ RosterStart(c, h)
    \/ \E m \in Client : RosterTell(c, m)
    \/ RosterJoinReply(c) \/ RosterRemove(c) \/ RosterLeaveReply(c)
    \/ RosterSilent(c)

RosterSpec == RosterInit /\ [][RosterNext]_rosterVars

---------------------------------------------------------------------------
(* y's user_joined broadcast has not reached x yet.                          *)
StillTelling(y, x) == pc[y] = "tellJoined" /\ x \in to[y]

(* No member is missed: whoever has its reply to a join knows of every other *)
(* member, however joins, leaves and the broadcasts about them interleave.   *)
EveryMemberAnnounced ==
  \A h \in Channel : \A x, y \in members[h] :
    Settled(x, h) /\ ~StillTelling(y, x) => y \in told[x][h]

(* Speech reaches those who are there: when y's start_transmit is through,   *)
(* every client that was a settled member when it began, and every one that   *)
(* joined once y was marked and has its reply, shows y as speaking for as    *)
(* long as both stay.  Whoever joins between the member snapshot and the     *)
(* mark is in neither set, and is not told.                                  *)
SpeechIsShown ==
  \A y \in Client : speaking[y] /\ pc[y] = "idle" =>
    \A x \in heardBy[y] : pc[x] # "tellJoined" => y \in shown[x][channelOf[y]]
=============================================================================
