---------------------------- MODULE SessionProofs ----------------------------
(***************************************************************************)
(* What the screen says of the microphone and the volume, and what the server *)
(* will agree with once it has read its requests, proved for any set of       *)
(* channels, any slider positions and any length of the queue.               *)
(*                                                                          *)
(* None of the properties is inductive alone.  Who talks where follows from   *)
(* OneChannel: whoever never joined a second channel has at most one on the  *)
(* screen, and it is the engine's.  A mute holds because what is shown as    *)
(* muted, or as transmitting, is shown as joined, so the join of a channel   *)
(* finds nothing of it muted; and the console, whose volume commands would    *)
(* break a mute, shows none.                                                 *)
(***************************************************************************)
EXTENDS Sessions, TLAPS

Types ==
  /\ engineCh \in Channel \cup {None}
  /\ transmitting \in BOOLEAN
  /\ joined \subseteq Channel
  /\ talking \subseteq joined
  /\ muted \subseteq joined
  /\ slider \in [Channel -> Level \cup {100}]

(* The engine transmits only inside a channel.                               *)
OnAirInside == transmitting => engineCh # None

(* The user of one channel has no other on the screen than the engine's.     *)
OneChannel ==
  "second" \notin strayed =>
    /\ \A g, h \in joined : g = h
    /\ engineCh # None => engineCh \in joined
    /\ transmitting => engineCh \in talking

(* The console shows no channel as muted.                                    *)
ConsoleMutesNone == front # "gui" => muted = {}

SessionInv ==
  /\ Types
  /\ OnAirInside /\ OneChannel /\ ConsoleMutesNone
  /\ OnAirIsShown /\ MuteHolds /\ SilenceIsShown
---------------------------------------------------------------------------
(* Nothing is connected, joined, said or muted at the start.                 *)
LEMMA InitInv == Init => SessionInv
  BY ChannelAssumption
  DEF Init, ControlInit, GuiInit, SessionInv, Types, OnAirInside, OneChannel,
      ConsoleMutesNone, OnAirIsShown, MuteHolds, SilenceIsShown

(* Every click, command and event keeps the invariant.                       *)
LEMMA NextInv == SessionInv /\ [Next]_vars => SessionInv'
<1> SUFFICES ASSUME SessionInv, [Next]_vars PROVE SessionInv'
  OBVIOUS
(* Every step lists only the action it is about and the engine call behind it. *)
<1> USE ChannelAssumption
   DEF SessionInv, Types, OnAirInside, OneChannel,
       ConsoleMutesNone, OnAirIsShown, MuteHolds, SilenceIsShown,
       engineVars, screenVars, widgetVars, serverVars, linkVars, guiVars
<1>1. ASSUME Serve, front = "gui", front' = front
       PROVE  SessionInv'
  BY <1>1 DEF Serve
<1>2. ASSUME Lost, front = "gui", front' = front
       PROVE  SessionInv'
  BY <1>2 DEF Lost
<1>3. ASSUME ClickConnect, front = "gui", front' = front
       PROVE  SessionInv'
  BY <1>3 DEF ClickConnect
<1>4. ASSUME ClickDisconnect, front = "gui", front' = front
       PROVE  SessionInv'
  BY <1>4 DEF ClickDisconnect, EngineDisconnect, Hangup, Forgotten
<1>5. ASSUME NEW ok \in BOOLEAN, Handshake(ok), front = "gui", front' = front
       PROVE  SessionInv'
  BY <1>5 DEF Handshake
<1>6. ASSUME NEW ok \in BOOLEAN, Auth(ok), front = "gui", front' = front
       PROVE  SessionInv'
  BY <1>6 DEF Auth, Hangup, Forgotten
<1>7. ASSUME NEW ok \in BOOLEAN, Udp(ok), front = "gui", front' = front
       PROVE  SessionInv'
  BY <1>7 DEF Udp, EngineConnect, Hangup, Forgotten
<1>8. ASSUME NEW h \in Channel, ClickMute(h), front = "gui", front' = front
       PROVE  SessionInv'
  BY <1>8 DEF ClickMute, EngineVolume
<1>9. ASSUME NEW h \in Channel, NEW v \in Level, MoveSlider(h, v),
              front = "gui", front' = front
       PROVE  SessionInv'
  BY <1>9 DEF MoveSlider, EngineVolume, Stray
<1>10. ASSUME NEW h \in Channel, NEW ok \in BOOLEAN, ClickJoin(h, ok),
              front = "gui", front' = front
       PROVE  SessionInv'
  <2>1. h \notin joined /\ UNCHANGED <<talking, muted, slider>>
    BY <1>10 DEF ClickJoin
  <2>2. CASE ~ok
    <3>1. UNCHANGED <<engineVars, joined, strayed>>
      BY <1>10, <2>2 DEF ClickJoin
    <3> QED
      BY <1>10, <2>1, <3>1
  <2>3. CASE ok
    <3>1. /\ EngineJoin(h)
          /\ joined' = joined \cup {h}
          /\ strayed' = strayed \cup Stray("second", joined # {})
                                \cup Stray("early", connecting # "no")
      BY <1>10, <2>3 DEF ClickJoin
    <3>2. "second" \notin strayed' => joined = {} /\ "second" \notin strayed
      BY <3>1 DEF Stray
    <3>3. strayed \subseteq strayed'
      BY <3>1
    <3>4. CASE ~connected
      <4>1. UNCHANGED engineVars
        BY <3>1, <3>4 DEF EngineJoin
      <4>2. OneChannel'
        BY <2>1, <3>1, <3>2, <4>1
      <4>3. Types' /\ OnAirInside' /\ ConsoleMutesNone' /\ OnAirIsShown'
        BY <1>10, <2>1, <3>1, <4>1
      <4>4. MuteHolds' /\ SilenceIsShown'
        BY <1>10, <2>1, <3>1, <3>3, <4>1
      <4> QED
        BY <4>2, <4>3, <4>4
    <3>5. CASE connected
      <4>1. engineCh' = h /\ transmitting' = FALSE /\ volume' = 100
        BY <3>1, <3>5 DEF EngineJoin
      <4>2. OneChannel'
        BY <2>1, <3>1, <3>2, <4>1
      <4>3. Types' /\ OnAirInside' /\ ConsoleMutesNone' /\ OnAirIsShown'
        BY <1>10, <2>1, <3>1, <4>1
      <4>4. SilenceIsShown'
        BY <4>1
      <4>5. MuteHolds'
        BY <2>1, <4>1
      <4> QED
        BY <4>2, <4>3, <4>4, <4>5
    <3> QED
      BY <3>4, <3>5
  <2> QED
    BY <2>2, <2>3
<1>11. ASSUME NEW h \in Channel, NEW ok \in BOOLEAN, ClickLeave(h, ok),
              front = "gui", front' = front
       PROVE  SessionInv'
  BY <1>11 DEF ClickLeave, Send, EngineLeave
<1>12. ASSUME NEW h \in Channel, NEW ok \in BOOLEAN, ClickTalk(h, ok),
              front = "gui", front' = front
       PROVE  SessionInv'
  BY <1>12 DEF ClickTalk, Send, EngineStart
<1>13. ASSUME NEW h \in Channel, NEW ok \in BOOLEAN, ClickStop(h, ok),
              front = "gui", front' = front
       PROVE  SessionInv'
  BY <1>13 DEF ClickStop, Send, EngineStop
<1>14. ASSUME CommandDisconnect,
              front = "console", front' = front, UNCHANGED guiVars
       PROVE  SessionInv'
  BY <1>14 DEF CommandDisconnect, EngineDisconnect
<1>15. ASSUME NEW ok \in BOOLEAN, CommandConnect(ok),
              front = "console", front' = front, UNCHANGED guiVars
       PROVE  SessionInv'
  BY <1>15 DEF CommandConnect, EngineConnect
<1>16. ASSUME NEW v \in {0, 100}, CommandVolume(v),
              front = "console", front' = front, UNCHANGED guiVars
       PROVE  SessionInv'
  BY <1>16 DEF CommandVolume, EngineVolume
<1>17. ASSUME NEW h \in Channel, CommandJoin(h),
              front = "console", front' = front, UNCHANGED guiVars
       PROVE  SessionInv'
  BY <1>17 DEF CommandJoin, EngineJoin, Stray
<1>18. ASSUME NEW h \in Channel, CommandLeave(h),
              front = "console", front' = front, UNCHANGED guiVars
       PROVE  SessionInv'
  BY <1>18 DEF CommandLeave, EngineLeave
<1>19. ASSUME NEW h \in Channel, CommandTalk(h),
              front = "console", front' = front, UNCHANGED guiVars
       PROVE  SessionInv'
  BY <1>19 DEF CommandTalk, EngineStart
<1>20. ASSUME NEW h \in Channel, CommandStop(h),
              front = "console", front' = front, UNCHANGED guiVars
       PROVE  SessionInv'
  BY <1>20 DEF CommandStop, EngineStop
<1>21. ASSUME UNCHANGED vars
       PROVE  SessionInv'
  BY <1>21 DEF vars
<1> HIDE DEF SessionInv
<1> QED
  BY <1>1, <1>2, <1>3, <1>4, <1>5, <1>6, <1>7, <1>8, <1>9, <1>10, <1>11,
     <1>12, <1>13, <1>14, <1>15, <1>16, <1>17, <1>18, <1>19, <1>20, <1>21
  DEF Next, GuiNext, ConsoleNext

---------------------------------------------------------------------------
(* The invariant holds in every reachable state of either front end.         *)
THEOREM Invariant == Spec => []SessionInv
<1> QED
  BY InitInv, NextInv, PTL DEF Spec

(* ae_engine_start_transmit and the Talk buttons of main_gui.cpp and main.cpp *)
(* never open the microphone without a channel shown as transmitting.        *)
THEOREM OnAirShown == Spec => []OnAirIsShown
<1>1. SessionInv => OnAirIsShown
  BY DEF SessionInv
<1> QED
  BY <1>1, Invariant, PTL

(* A channel shown as muted stays at volume 0 for the user of one channel    *)
(* who leaves the sliders alone (main_gui.cpp and set_channel_muted).        *)
THEOREM MuteHeld == Spec => []MuteHolds
<1>1. SessionInv => MuteHolds
  BY DEF SessionInv
<1> QED
  BY <1>1, Invariant, PTL

(* A channel at volume 0 shows a Mute button pressed or a slider at 0.       *)
THEOREM SilenceShown == Spec => []SilenceIsShown
<1>1. SessionInv => SilenceIsShown
  BY DEF SessionInv
<1> QED
  BY <1>1, Invariant, PTL

(* The user of one channel talks into the channel whose Talk was pressed.    *)
THEOREM TalkFollowsPress == Spec => []TalkGoesWherePressed
<1>1. SessionInv => TalkGoesWherePressed
  BY DEF SessionInv, Types, OneChannel, TalkGoesWherePressed
<1> QED
  BY <1>1, Invariant, PTL

---------------------------------------------------------------------------
(* Whether the server agrees depends on requests it has not read.  The        *)
(* invariant says what it will have made of them: there is a trajectory of    *)
(* the server's record, one entry per unread request, that begins where the  *)
(* record is and ends where the engine is.                                   *)
Request == [op : {"join", "leave", "start", "stop"}, ch : Channel]

(* What the server makes of request r when its record is s (Serve).          *)
Served(s, r) ==
  [room   |-> CASE r.op = "join" /\ s.room = None -> r.ch
                [] r.op = "leave" /\ s.room = r.ch -> None
                [] OTHER -> s.room,
   speaks |-> CASE r.op = "start" /\ s.room = r.ch -> TRUE
                [] r.op \in {"stop", "leave"} /\ s.room = r.ch -> FALSE
                [] OTHER -> s.speaks]

ServerRecord == [room |-> serverCh, speaks |-> speaking]
EngineRecord == [room |-> engineCh, speaks |-> transmitting]

Leads(f) ==
  /\ f[0] = ServerRecord
  /\ \A i \in 1..Len(requests) : f[i] = Served(f[i - 1], requests[i])
  /\ f[Len(requests)] = EngineRecord

(* Connected, screen and engine agree now and the server will.               *)
InStep ==
  /\ connecting = "no" /\ link = "open" /\ connected
  /\ joined = {engineCh} \ {None}
  /\ talking = IF transmitting THEN {engineCh} ELSE {}
  /\ requests \in Seq(Request)
  /\ \E f : Leads(f)

(* Otherwise there is nothing to agree on.                                   *)
Blank ==
  /\ engineCh = None /\ ~transmitting
  /\ joined = {} /\ talking = {}
  /\ requests = <<>> /\ serverCh = None /\ speaking = FALSE
  /\ connecting \in {"handshake", "auth", "udp", "no"}
  /\ link = CASE connecting = "no" -> "none"
              [] connecting = "handshake" -> "handshake"
              [] OTHER -> "open"

AgreeInv ==
  front = "gui" /\ strayed \subseteq {"slid"} => IF gConnected THEN InStep ELSE Blank

(* With no request unread the trajectory is one entry, which is both records. *)
LEMMA NothingUnread ==
  ASSUME NEW f, Leads(f), requests = <<>>
  PROVE  ServerRecord = EngineRecord
  BY DEF Leads

(* Reading a request is the first step of the trajectory.                     *)
LEMMA ServeLeads ==
  ASSUME NEW f, Leads(f), requests \in Seq(Request), Serve, transmitting \in BOOLEAN
  PROVE  requests' \in Seq(Request) /\ \E g : Leads(g)'
<1> DEFINE g == [i \in 0..(Len(requests) - 1) |-> f[i + 1]]
<1>1. /\ requests # <<>> /\ requests' = Tail(requests)
      /\ UNCHANGED <<engineCh, transmitting>>
  BY DEF Serve, engineVars
<1>2. /\ Len(requests) \in Nat /\ Len(requests) >= 1
      /\ requests' \in Seq(Request) /\ Len(requests') = Len(requests) - 1
      /\ \A i \in 1..(Len(requests) - 1) : requests'[i] = requests[i + 1]
      /\ Head(requests) = requests[1]
  BY <1>1
<1>3. ServerRecord' = Served(ServerRecord, requests[1])
  BY <1>2 DEF Serve, Served, ServerRecord
<1>4. g[0] = ServerRecord'
  <2>1. f[1] = Served(f[0], requests[1]) /\ f[0] = ServerRecord
    <3>1. 1 \in 1..Len(requests) /\ 1 - 1 = 0
      BY <1>2
    <3> QED
      BY <3>1 DEF Leads
  <2>2. g[0] = f[1]
    BY <1>2
  <2> QED
    BY <1>3, <2>1, <2>2
<1>5. ASSUME NEW i \in 1..Len(requests')
      PROVE  g[i] = Served(g[i - 1], requests'[i])
  <2>1. /\ i \in 0..(Len(requests) - 1) /\ i - 1 \in 0..(Len(requests) - 1)
        /\ i + 1 \in 1..Len(requests) /\ (i + 1) - 1 = i /\ (i - 1) + 1 = i
        /\ i \in 1..(Len(requests) - 1)
    BY <1>2
  <2>2. g[i] = f[i + 1] /\ g[i - 1] = f[i]
    BY <2>1
  <2>3. f[i + 1] = Served(f[i], requests[i + 1])
    BY <2>1 DEF Leads
  <2> QED
    BY <1>2, <2>1, <2>2, <2>3
<1>6. g[Len(requests')] = EngineRecord'
  <2>1. /\ Len(requests') \in 0..(Len(requests) - 1)
        /\ Len(requests') + 1 = Len(requests)
    BY <1>2
  <2>2. g[Len(requests')] = f[Len(requests)]
    BY <2>1
  <2>3. EngineRecord' = EngineRecord
    BY <1>1 DEF EngineRecord
  <2> QED
    BY <2>2, <2>3 DEF Leads
<1> HIDE DEF g
<1> QED
  BY <1>2, <1>4, <1>5, <1>6 DEF Leads

(* A request the server will serve as the engine has is one more entry.       *)
LEMMA SendLeads ==
  ASSUME NEW f, Leads(f), requests \in Seq(Request), NEW r \in Request,
         requests' = Append(requests, r), UNCHANGED <<serverCh, speaking>>,
         EngineRecord' = Served(EngineRecord, r)
  PROVE  requests' \in Seq(Request) /\ \E g : Leads(g)'
<1> DEFINE n == Len(requests)
           g == [i \in 0..(n + 1) |-> IF i <= n THEN f[i] ELSE EngineRecord']
<1>1. /\ n \in Nat /\ requests' \in Seq(Request) /\ Len(requests') = n + 1
      /\ \A i \in 1..n : requests'[i] = requests[i]
      /\ requests'[n + 1] = r
  OBVIOUS
<1>2. /\ \A i \in 0..n : g[i] = f[i]
      /\ g[n + 1] = EngineRecord'
  BY <1>1
<1>3. /\ f[0] = ServerRecord /\ f[n] = EngineRecord
      /\ \A i \in 1..n : f[i] = Served(f[i - 1], requests[i])
  BY DEF Leads
<1> HIDE DEF n, g
<1>4. g[0] = ServerRecord'
  BY <1>1, <1>2, <1>3 DEF ServerRecord
<1>5. ASSUME NEW i \in 1..(n + 1) PROVE g[i] = Served(g[i - 1], requests'[i])
  <2>1. CASE i = n + 1
    <3>1. i - 1 = n /\ n \in 0..n
      BY <1>1, <2>1
    <3> QED
      BY <1>1, <1>2, <1>3, <2>1, <3>1
  <2>2. CASE i # n + 1
    <3>1. i \in 1..n /\ i \in 0..n /\ i - 1 \in 0..n
      BY <1>1, <2>2
    <3> QED
      BY <1>1, <1>2, <1>3, <3>1
  <2> QED
    BY <2>1, <2>2
<1> QED
  BY <1>1, <1>2, <1>4, <1>5 DEF Leads

(* A step that touches neither record nor the requests keeps the trajectory.  *)
LEMMA SameLeads ==
  ASSUME \E f : Leads(f), UNCHANGED <<requests, serverCh, speaking, engineCh, transmitting>>
  PROVE  \E f : Leads(f)'
  BY DEF Leads, ServerRecord, EngineRecord

(* Connecting with nothing joined starts a trajectory of one entry.           *)
LEMMA BlankLeads ==
  ASSUME engineCh = serverCh, transmitting = speaking, requests = <<>>
  PROVE  \E f : Leads(f)
<1> DEFINE f == [i \in {0} |-> ServerRecord]
<1>1. Len(requests) = 0
  OBVIOUS
<1>2. f[0] = ServerRecord /\ ServerRecord = EngineRecord
  BY DEF ServerRecord, EngineRecord
<1> HIDE DEF f
<1> QED
  BY <1>1, <1>2 DEF Leads
---------------------------------------------------------------------------
(* Nothing is connected at the start.                                        *)
LEMMA InitAgree == Init => AgreeInv
  BY DEF Init, ControlInit, GuiInit, AgreeInv, Blank

(* What a user has strayed into stays on record.                              *)
LEMMA StrayedGrows == [Next]_vars => strayed \subseteq strayed' /\ front' = front
<1> USE DEF engineVars, screenVars, widgetVars, serverVars, linkVars, guiVars
<1>1. GuiNext => strayed \subseteq strayed'
  BY DEF GuiNext, Serve, Lost, ClickConnect, ClickDisconnect, ClickMute, MoveSlider,
         Handshake, Auth, Udp, ClickJoin, ClickLeave, ClickTalk, ClickStop
<1>2. ConsoleNext => strayed \subseteq strayed'
  BY DEF ConsoleNext, CommandConnect, CommandDisconnect, CommandJoin, CommandLeave,
         CommandTalk, CommandStop, CommandVolume
<1> QED
  BY <1>1, <1>2 DEF Next, vars

(* Every click, every connection step and every request read keeps it.        *)
LEMMA NextAgree == SessionInv /\ AgreeInv /\ [Next]_vars => AgreeInv'
<1> SUFFICES ASSUME SessionInv, AgreeInv, [Next]_vars,
                    front' = "gui", strayed' \subseteq {"slid"}
             PROVE  (IF gConnected THEN InStep ELSE Blank)'
  BY DEF AgreeInv
<1>1. front = "gui" /\ strayed \subseteq {"slid"}
  BY StrayedGrows
<1>2. gConnected => InStep
  BY <1>1 DEF AgreeInv
<1>3. ~gConnected => Blank
  BY <1>1 DEF AgreeInv
<1>4. /\ engineCh \in Channel \cup {None} /\ transmitting \in BOOLEAN
      /\ transmitting => engineCh # None
      /\ joined \subseteq Channel
  BY DEF SessionInv, Types, OnAirInside
<1> USE ChannelAssumption
(* A request that is sent on the open link ends the trajectory where the      *)
(* engine is now.                                                            *)
<1>5. ASSUME NEW what \in {"join", "leave", "start", "stop"}, NEW h \in Channel,
             NEW ok \in BOOLEAN, Send(what, h, ok), gConnected,
             EngineRecord' = Served(EngineRecord, [op |-> what, ch |-> h])
      PROVE  /\ gConnected' /\ connecting' = "no" /\ link' = "open"
             /\ requests' \in Seq(Request)
             /\ \E f : Leads(f)'
  <2>1. /\ link = "open" /\ connecting = "no" /\ requests \in Seq(Request)
        /\ \E f : Leads(f)
    BY <1>2, <1>5 DEF InStep
  <2>2. PICK f : Leads(f)
    BY <2>1
  <2>3. /\ requests' = Append(requests, [op |-> what, ch |-> h])
        /\ UNCHANGED <<serverCh, speaking, gConnected, connecting, link>>
    BY <1>5, <2>1 DEF Send, linkVars
  <2>4. [op |-> what, ch |-> h] \in Request
    BY DEF Request
  <2> HIDE DEF Request
  <2>5. requests' \in Seq(Request) /\ \E g : Leads(g)'
    BY <1>5, <2>1, <2>2, <2>3, <2>4, SendLeads
  <2> QED
    BY <1>5, <2>1, <2>3, <2>5
<1>6. ASSUME Serve PROVE (IF gConnected THEN InStep ELSE Blank)'
  <2>1. /\ UNCHANGED <<connected, engineCh, transmitting, joined, talking, gConnected,
                       connecting, link>>
        /\ requests # <<>>
    BY <1>6 DEF Serve, engineVars, screenVars, linkVars
  <2>2. InStep
    BY <1>2, <1>3, <2>1 DEF Blank
  <2>3. PICK f : Leads(f)
    BY <2>2 DEF InStep
  <2>4. requests' \in Seq(Request) /\ \E g : Leads(g)'
    BY <1>4, <1>6, <2>2, <2>3, ServeLeads DEF InStep
  <2> QED
    BY <1>2, <1>3, <2>1, <2>2, <2>4 DEF InStep, Blank
<1>7. ~Lost
  <2>1. Lost => "lost" \in strayed'
    BY DEF Lost
  <2> QED
    BY <2>1
<1>8. ASSUME ClickConnect PROVE (IF gConnected THEN InStep ELSE Blank)'
  BY <1>3, <1>8 DEF ClickConnect, Blank, engineVars, screenVars, serverVars
<1>9. ASSUME NEW ok \in BOOLEAN, Handshake(ok)
      PROVE  (IF gConnected THEN InStep ELSE Blank)'
  BY <1>2, <1>3, <1>9 DEF Handshake, Blank, InStep, engineVars, screenVars, serverVars
<1>10. ASSUME NEW ok \in BOOLEAN, Auth(ok)
      PROVE  (IF gConnected THEN InStep ELSE Blank)'
  BY <1>2, <1>3, <1>10
  DEF Auth, Hangup, Forgotten, Blank, InStep, engineVars, screenVars, serverVars
<1>11. ASSUME NEW ok \in BOOLEAN, Udp(ok)
      PROVE  (IF gConnected THEN InStep ELSE Blank)'
  <2>1. Blank /\ connecting = "udp" /\ ~gConnected
    BY <1>2, <1>3, <1>11 DEF Udp, InStep
  <2>2. CASE ~ok
    BY <1>11, <2>1, <2>2
    DEF Udp, EngineConnect, Hangup, Forgotten, Blank, screenVars
  <2>3. CASE ok
    <3>1. /\ gConnected' /\ connecting' = "no" /\ connected'
          /\ UNCHANGED <<engineCh, transmitting, joined, talking, link, requests,
                         serverCh, speaking>>
      BY <1>11, <2>3 DEF Udp, EngineConnect, screenVars, serverVars
    <3>2. engineCh = serverCh /\ transmitting = speaking /\ requests = <<>>
      BY <1>4, <2>1 DEF Blank
    <3>3. \E f : Leads(f)
      BY <3>2, BlankLeads
    <3>4. \E f : Leads(f)'
      BY <3>1, <3>3, SameLeads
    <3>5. <<>> \in Seq(Request)
      OBVIOUS
    <3> QED
      BY <2>1, <3>1, <3>4, <3>5 DEF InStep, Blank
  <2> QED
    BY <2>2, <2>3
<1>12. ASSUME ClickDisconnect PROVE (IF gConnected THEN InStep ELSE Blank)'
  BY <1>2, <1>12
  DEF ClickDisconnect, EngineDisconnect, Hangup, Forgotten, InStep, Blank
<1>13. ASSUME UNCHANGED <<connected, engineCh, transmitting, joined, talking>>,
              UNCHANGED <<serverVars, linkVars>>
       PROVE  (IF gConnected THEN InStep ELSE Blank)'
  <2>1. CASE gConnected
    <3>1. \E f : Leads(f)
      BY <1>2, <2>1 DEF InStep
    <3>2. \E f : Leads(f)'
      BY <1>13, <3>1, SameLeads DEF serverVars
    <3> QED
      BY <1>2, <1>13, <2>1, <3>2 DEF InStep, serverVars, linkVars
  <2>2. CASE ~gConnected
    BY <1>3, <1>13, <2>2 DEF Blank, serverVars, linkVars
  <2> QED
    BY <2>1, <2>2
<1>14. ASSUME NEW h \in Channel, ClickMute(h)
       PROVE  (IF gConnected THEN InStep ELSE Blank)'
  BY <1>13, <1>14 DEF ClickMute, EngineVolume, screenVars
<1>15. ASSUME NEW h \in Channel, NEW v \in Level, MoveSlider(h, v)
       PROVE  (IF gConnected THEN InStep ELSE Blank)'
  BY <1>13, <1>15 DEF MoveSlider, EngineVolume, screenVars
<1>16. ASSUME NEW h \in Channel, NEW ok \in BOOLEAN, ClickJoin(h, ok)
       PROVE  (IF gConnected THEN InStep ELSE Blank)'
  <2>1. CASE gConnected
    <3>1. InStep /\ ok /\ UNCHANGED talking /\ Send("join", h, ok)
      BY <1>2, <1>16, <2>1 DEF ClickJoin, InStep, Send
    <3>2. /\ EngineJoin(h) /\ joined' = joined \cup {h}
          /\ strayed' = strayed \cup Stray("second", joined # {})
                                \cup Stray("early", connecting # "no")
      BY <1>16, <3>1 DEF ClickJoin
    <3>3. joined = {}
      BY <3>2 DEF Stray
    <3>4. engineCh = None /\ transmitting = FALSE /\ talking = {}
      BY <1>4, <3>1, <3>3 DEF InStep
    <3>5. engineCh' = h /\ transmitting' = FALSE /\ connected'
      BY <3>1, <3>2, <3>4 DEF EngineJoin, InStep
    <3>6. EngineRecord' = Served(EngineRecord, [op |-> "join", ch |-> h])
      BY <3>4, <3>5 DEF EngineRecord, Served
    <3>7. /\ gConnected' /\ connecting' = "no" /\ link' = "open"
          /\ requests' \in Seq(Request)
          /\ \E f : Leads(f)'
      BY <1>5, <2>1, <3>1, <3>6
    <3> QED
      BY <3>1, <3>2, <3>3, <3>4, <3>5, <3>7 DEF InStep
  <2>2. CASE ~gConnected
    <3>1. CASE ok
      <4>1. connecting # "no"
        BY <1>3, <1>16, <2>2, <3>1 DEF Blank, ClickJoin, Send
      <4>2. "early" \in strayed'
        BY <1>16, <3>1, <4>1 DEF ClickJoin, Stray
      <4> QED
        BY <4>2
    <3>2. CASE ~ok
      <4>1. /\ UNCHANGED <<engineVars, joined, talking>>
            /\ Send("join", h, ok)
        BY <1>16, <3>2 DEF ClickJoin
      <4>2. link # "open"
        BY <3>2, <4>1 DEF Send
      <4>3. UNCHANGED <<serverVars, linkVars>>
        BY <4>1, <4>2 DEF Send, serverVars
      <4> QED
        BY <1>13, <4>1, <4>3 DEF engineVars
    <3> QED
      BY <3>1, <3>2
  <2> QED
    BY <2>1, <2>2
(* The other buttons are there once a channel is joined.                      *)
<1>17. ASSUME NEW h \in joined
       PROVE  /\ gConnected /\ InStep /\ h \in Channel /\ engineCh = h
              /\ joined = {h}
  <2>1. gConnected /\ InStep
    BY <1>2, <1>3, <1>17 DEF Blank
  <2> QED
    BY <1>4, <1>17, <2>1 DEF InStep
<1>18. ASSUME NEW h \in Channel, NEW ok \in BOOLEAN, ClickLeave(h, ok)
       PROVE  (IF gConnected THEN InStep ELSE Blank)'
  <2>1. /\ gConnected /\ InStep /\ engineCh = h /\ joined = {h}
    BY <1>17, <1>18 DEF ClickLeave
  <2>2. /\ Send("leave", h, ok)
        /\ transmitting' = FALSE /\ engineCh' = None /\ connected' = connected
        /\ joined' = joined \ {h} /\ talking' = talking \ {h}
    BY <1>18 DEF ClickLeave, EngineLeave
  <2>3. EngineRecord' = Served(EngineRecord, [op |-> "leave", ch |-> h])
    BY <2>1, <2>2 DEF EngineRecord, Served
  <2>4. /\ gConnected' /\ connecting' = "no" /\ link' = "open"
        /\ requests' \in Seq(Request)
        /\ \E f : Leads(f)'
    BY <1>5, <2>1, <2>2, <2>3
  <2> QED
    BY <2>1, <2>2, <2>4 DEF InStep
<1>19. ASSUME NEW h \in Channel, NEW ok \in BOOLEAN, ClickTalk(h, ok)
       PROVE  (IF gConnected THEN InStep ELSE Blank)'
  <2>1. /\ gConnected /\ InStep /\ engineCh = h /\ joined = {h}
    BY <1>17, <1>19 DEF ClickTalk
  <2>2. /\ Send("start", h, ok)
        /\ transmitting' = (transmitting \/ engineCh # None)
        /\ UNCHANGED <<engineCh, connected, joined>>
        /\ talking' = talking \cup {h}
    BY <1>19 DEF ClickTalk, EngineStart
  <2>3. transmitting' = TRUE /\ talking' = {h}
    BY <2>1, <2>2 DEF InStep
  <2>4. EngineRecord' = Served(EngineRecord, [op |-> "start", ch |-> h])
    BY <2>1, <2>2, <2>3 DEF EngineRecord, Served
  <2>5. /\ gConnected' /\ connecting' = "no" /\ link' = "open"
        /\ requests' \in Seq(Request)
        /\ \E f : Leads(f)'
    BY <1>5, <2>1, <2>2, <2>4
  <2> QED
    BY <2>1, <2>2, <2>3, <2>5 DEF InStep
<1>20. ASSUME NEW h \in Channel, NEW ok \in BOOLEAN, ClickStop(h, ok)
       PROVE  (IF gConnected THEN InStep ELSE Blank)'
  <2>1. /\ gConnected /\ InStep /\ engineCh = h /\ joined = {h}
    BY <1>17, <1>20 DEF ClickStop
  <2>2. /\ Send("stop", h, ok)
        /\ transmitting' = FALSE
        /\ UNCHANGED <<engineCh, connected, joined>>
        /\ talking' = talking \ {h}
    BY <1>20 DEF ClickStop, EngineStop
  <2>3. EngineRecord' = Served(EngineRecord, [op |-> "stop", ch |-> h])
    BY <2>1, <2>2 DEF EngineRecord, Served
  <2>4. /\ gConnected' /\ connecting' = "no" /\ link' = "open"
        /\ requests' \in Seq(Request)
        /\ \E f : Leads(f)'
    BY <1>5, <2>1, <2>2, <2>3
  <2>5. talking' = {}
    BY <2>1, <2>2 DEF InStep
  <2> QED
    BY <2>1, <2>2, <2>4, <2>5 DEF InStep
<1>21. ASSUME UNCHANGED vars PROVE (IF gConnected THEN InStep ELSE Blank)'
  BY <1>13, <1>21 DEF vars, engineVars, screenVars, guiVars
<1>22. CASE GuiNext
  BY <1>6, <1>7, <1>8, <1>9, <1>10, <1>11, <1>12, <1>14, <1>15, <1>16, <1>18, <1>19,
     <1>20, <1>22
  DEF GuiNext
<1> QED
  BY <1>1, <1>21, <1>22 DEF Next

(* Once the server has read all there is to read, it has the user in the      *)
(* channel the screen and the engine have, speaking or not as they have it:  *)
(* main_gui.cpp's buttons and channel.rs's handlers, for one channel at a    *)
(* time on one connection.                                                   *)
THEOREM ServerInStep == Spec => []ServerAgrees
<1>1. SessionInv /\ AgreeInv => ServerAgrees
  <2> SUFFICES ASSUME SessionInv, AgreeInv, Drained, strayed \subseteq {"slid"}
               PROVE  /\ serverCh = engineCh /\ speaking = transmitting
                      /\ joined = {engineCh} \ {None}
                      /\ talking = IF transmitting THEN {engineCh} ELSE {}
    BY DEF ServerAgrees
  <2>1. InStep
    BY DEF AgreeInv, Drained
  <2>2. PICK f : Leads(f)
    BY <2>1 DEF InStep
  <2>3. ServerRecord = EngineRecord
    BY <2>2, NothingUnread DEF Drained
  <2>4. ServerRecord.room = EngineRecord.room /\ ServerRecord.speaks = EngineRecord.speaks
    BY <2>3
  <2> QED
    BY <2>1, <2>4 DEF InStep, ServerRecord, EngineRecord
<1>2. Spec => []AgreeInv
  BY InitAgree, NextAgree, Invariant, PTL DEF Spec
<1> QED
  BY <1>1, <1>2, Invariant, PTL
=============================================================================
