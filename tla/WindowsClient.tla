---------------------------- MODULE WindowsClient ----------------------------
(***************************************************************************)
(* The threads of the Windows client (windows-client/src/main_gui.cpp and    *)
(* ws_signaling.cpp): the UI thread with its message queue, a detached        *)
(* thread for each click on Connect, and the receiving thread of the         *)
(* WebSocket.  They share g_connected, connected_, the socket, recvThread_    *)
(* and the log box with its mutex.                                           *)
(*                                                                          *)
(* appendLog takes the mutex and then sends three messages to the log box.    *)
(* On the UI thread these are plain calls; on another thread each waits until *)
(* the UI thread is back in its message loop.  Lines logged one after the     *)
(* other are one.                                                            *)
(*                                                                          *)
(* What the channel buttons tell the engine and the server is in GuiSession.  *)
(***************************************************************************)
EXTENDS Naturals, FiniteSets

CONSTANTS Connector,   \* bound on the doConnect threads that run at a time
          None         \* no thread

ASSUME ClientAssumption == /\ None \notin Connector \cup {"ui", "recv"}
                           /\ Connector \cap {"ui", "recv"} = {}

VARIABLES
  gConnected,     \* g_connected
  wsConnected,    \* WsSignaling::connected_
  sock,           \* sock_ is open
  logHolder,      \* the thread that holds g_logMutex
  posted,         \* a WM_APP + 1 waits in the message queue
  canConnect,     \* the Connect button is enabled
  canDisconnect,  \* the Disconnect button is enabled
  inChannel,      \* channelJoined of some channel
  pc, next,       \* per thread: where it is, where it goes after log or join
  lost,           \* a "disconnected" event has been raised
  hasty,          \* the window was closed while a connector ran
  crashed         \* std::terminate

buttonVars == <<posted, canConnect, canDisconnect, inChannel>>
linkVars   == <<gConnected, wsConnected, sock>>
vars == <<linkVars, logHolder, buttonVars, pc, next, lost, hasty, crashed>>

Thread == {"ui", "recv"} \cup Connector

Init ==
  /\ gConnected = FALSE /\ wsConnected = FALSE /\ sock = FALSE
  /\ logHolder = None
  /\ posted = FALSE /\ canConnect = TRUE /\ canDisconnect = FALSE /\ inChannel = FALSE
  /\ pc = [t \in Thread |-> IF t = "ui" THEN "idle" ELSE "none"]
  /\ next = [t \in Thread |-> "none"]
  /\ lost = FALSE /\ hasty = FALSE /\ crashed = FALSE

Goto(t, label) == pc' = [pc EXCEPT ![t] = label]

(* From here t waits in "lock" or "join" and goes to label afterwards.       *)
Wait(t, how, label) ==
  /\ Goto(t, how)
  /\ next' = [next EXCEPT ![t] = label]

StartLog(t, label) == Wait(t, "lock", label)

(* disconnect: flag and socket first, then the join.                         *)
Hangup(t, label) ==
  /\ wsConnected' = FALSE
  /\ sock' = FALSE
  /\ Wait(t, "join", label)

(* The window is destroyed; the UI thread is on its way out of wWinMain.     *)
Closed ==
  \/ pc["ui"] \in {"closing", "destructor", "freed", "ended"}
  \/ pc["ui"] = "join" /\ next["ui"] \in {"destructor", "freed"}

---------------------------------------------------------------------------
(* appendLog                                                                 *)
Lock(t) ==
  /\ pc[t] = "lock"
  /\ logHolder = None
  /\ IF t = "ui" THEN Goto(t, next[t]) /\ UNCHANGED logHolder
                 ELSE Goto(t, "send") /\ logHolder' = t
  /\ UNCHANGED <<linkVars, buttonVars, next, lost, hasty, crashed>>

(* The messages are answered by the message loop, or fail with the window.    *)
Logged(t) ==
  /\ pc[t] = "send"
  /\ (pc["ui"] = "idle" \/ Closed)
  /\ logHolder' = None
  /\ Goto(t, next[t])
  /\ UNCHANGED <<linkVars, buttonVars, next, lost, hasty, crashed>>

(* Mutant of Join: recvThread_ is not joined.                                *)
JoinNothing(t) ==
  /\ pc[t] = "join"
  /\ Goto(t, next[t])
  /\ UNCHANGED <<linkVars, logHolder, buttonVars, next, lost, hasty, crashed>>

(* recvThread_.join(), if it is joinable.  Two joins of one thread are        *)
(* undefined: the second returns, or throws and ends the program.            *)
Join(t) ==
  /\ pc[t] = "join"
  /\ pc["recv"] \in {"none", "finished"}
  /\ pc' = [pc EXCEPT !["recv"] = "none", ![t] = next[t]]
  /\ crashed' \in IF pc["recv"] = "finished" /\ \E s \in Thread \ {t} : pc[s] = "join"
                  THEN BOOLEAN ELSE {FALSE}
  /\ UNCHANGED <<linkVars, logHolder, buttonVars, next, lost, hasty>>

(* Mutant of Post: a thread that fails does not tell the window.             *)
PostForgotten(t) ==
  /\ pc[t] = "post"
  /\ posted' = gConnected
  /\ Goto(t, IF t = "recv" THEN "finished" ELSE "none")
  /\ UNCHANGED <<linkVars, logHolder, canConnect, canDisconnect, inChannel, next, lost, hasty,
                 crashed>>

(* PostMessage(WM_APP + 1), the last thing a thread does.                    *)
Post(t) ==
  /\ pc[t] = "post"
  /\ posted' = ~Closed
  /\ Goto(t, IF t = "recv" THEN "finished" ELSE "none")
  /\ UNCHANGED <<linkVars, logHolder, canConnect, canDisconnect, inChannel, next, lost, hasty,
                 crashed>>

---------------------------------------------------------------------------
(* The UI thread, in its message loop.                                       *)
UpdateConnectionUI ==
  /\ pc["ui"] = "idle"
  /\ posted
  /\ posted' = FALSE
  /\ canConnect' = ~gConnected
  /\ canDisconnect' = gConnected
  /\ UNCHANGED <<linkVars, logHolder, inChannel, pc, next, lost, hasty, crashed>>

(* Mutant of ClickConnect: the button stays enabled.                         *)
ClickConnectAgain(k) ==
  /\ pc["ui"] = "idle" /\ canConnect
  /\ ~gConnected
  /\ pc[k] = "none"
  /\ StartLog(k, "connect")
  /\ UNCHANGED <<linkVars, logHolder, buttonVars, lost, hasty, crashed>>

ClickConnect(k) ==
  /\ pc["ui"] = "idle" /\ canConnect
  /\ ~gConnected
  /\ pc[k] = "none"
  /\ canConnect' = FALSE
  /\ StartLog(k, "connect")
  /\ UNCHANGED <<linkVars, logHolder, posted, canDisconnect, inChannel, lost, hasty, crashed>>

ClickDisconnect ==
  /\ pc["ui"] = "idle" /\ canDisconnect
  /\ Hangup("ui", "reset")
  /\ UNCHANGED <<gConnected, logHolder, buttonVars, lost, hasty, crashed>>

Reset ==
  /\ pc["ui"] = "reset"
  /\ gConnected' = FALSE
  /\ canConnect' = TRUE /\ canDisconnect' = FALSE /\ inChannel' = FALSE
  /\ StartLog("ui", "idle")
  /\ UNCHANGED <<wsConnected, sock, logHolder, posted, lost, hasty, crashed>>

(* A join is logged when it could be sent; otherwise the click does nothing. *)
ClickJoin ==
  /\ pc["ui"] = "idle"
  /\ sock
  /\ inChannel' = TRUE
  /\ StartLog("ui", "idle")
  /\ UNCHANGED <<linkVars, logHolder, posted, canConnect, canDisconnect, lost, hasty,
                 crashed>>

(* Leave, talk and mute: enabled for a joined channel, sent or not.  After a  *)
(* leave another channel may still be joined.                                *)
ClickJoined ==
  /\ pc["ui"] = "idle"
  /\ inChannel
  /\ inChannel' \in BOOLEAN
  /\ StartLog("ui", "idle")
  /\ UNCHANGED <<linkVars, logHolder, posted, canConnect, canDisconnect, lost, hasty,
                 crashed>>

(* WM_CLOSE and WM_DESTROY: the message loop ends.                           *)
CloseWindow ==
  /\ pc["ui"] = "idle"
  /\ Goto("ui", "closing")
  /\ hasty' = (\E k \in Connector : pc[k] # "none")
  /\ posted' = FALSE
  /\ UNCHANGED <<linkVars, logHolder, canConnect, canDisconnect, inChannel, next, lost,
                 crashed>>

(* wWinMain then disconnects the WsSignaling and deletes it, which            *)
(* disconnects it again, and frees the engine after it.                      *)
ShutDown ==
  /\ \/ pc["ui"] = "closing" /\ Hangup("ui", "destructor")
     \/ pc["ui"] = "destructor" /\ Hangup("ui", "freed")
  /\ UNCHANGED <<gConnected, logHolder, buttonVars, lost, hasty, crashed>>

(* The process ends, and its other threads with it.                          *)
Exit ==
  /\ pc["ui"] = "freed"
  /\ Goto("ui", "ended")
  /\ UNCHANGED <<linkVars, logHolder, buttonVars, next, lost, hasty, crashed>>

---------------------------------------------------------------------------
(* doConnect on its own thread: WsSignaling::connect, then the engine's UDP. *)
Connect(k) ==
  /\ pc[k] = "connect"
  /\ IF wsConnected THEN Hangup(k, "dial")
     ELSE Goto(k, "dial") /\ UNCHANGED <<wsConnected, sock, next>>
  /\ UNCHANGED <<gConnected, logHolder, buttonVars, lost, hasty, crashed>>

(* The TCP connection: from here on sock_ is open to the UI thread as well.   *)
Dial(k, ok) ==
  /\ pc[k] = "dial"
  /\ sock' = ok
  /\ IF ok THEN Goto(k, "handshake") /\ UNCHANGED next ELSE StartLog(k, "post")
  /\ UNCHANGED <<gConnected, wsConnected, logHolder, buttonVars, lost, hasty, crashed>>

(* The WebSocket upgrade, for which the thread waits for the server.         *)
Handshake(k, ok) ==
  /\ pc[k] = "handshake"
  /\ sock' = ok
  /\ IF ok THEN wsConnected' = TRUE /\ Goto(k, "auth") /\ UNCHANGED next
     ELSE StartLog(k, "post") /\ UNCHANGED wsConnected
  /\ UNCHANGED <<gConnected, logHolder, buttonVars, lost, hasty, crashed>>

Auth(k, ok) ==
  /\ pc[k] = "auth"
  /\ IF ok THEN Goto(k, "start") /\ UNCHANGED <<wsConnected, sock, next>>
     ELSE Hangup(k, "failed")
  /\ UNCHANGED <<gConnected, logHolder, buttonVars, lost, hasty, crashed>>

Failed(k) ==
  /\ pc[k] = "failed"
  /\ StartLog(k, "post")
  /\ UNCHANGED <<linkVars, logHolder, buttonVars, lost, hasty, crashed>>

(* A thread is assigned to recvThread_: std::terminate if it is joinable,    *)
(* and a thread that has finished on its own still is.                       *)
StartRecv(k) ==
  /\ pc[k] = "start"
  /\ IF pc["recv"] # "none" THEN crashed' = TRUE /\ UNCHANGED <<pc, next>>
     ELSE /\ pc' = [pc EXCEPT !["recv"] = "check", ![k] = "lock"]
          /\ next' = [next EXCEPT ![k] = "udp"]
          /\ UNCHANGED crashed
  /\ UNCHANGED <<linkVars, logHolder, buttonVars, lost, hasty>>

Udp(k, ok) ==
  /\ pc[k] = "udp"
  /\ gConnected' = IF ok THEN TRUE ELSE gConnected
  /\ StartLog(k, IF ok THEN "post" ELSE "giveUp")
  /\ UNCHANGED <<wsConnected, sock, logHolder, buttonVars, lost, hasty, crashed>>

GiveUp(k) ==
  /\ pc[k] = "giveUp"
  /\ Hangup(k, "post")
  /\ UNCHANGED <<gConnected, logHolder, buttonVars, lost, hasty, crashed>>

---------------------------------------------------------------------------
(* recvLoop.  Every event of the server is logged, except a pong.            *)
Event ==
  /\ pc["recv"] = "recv"
  /\ sock
  /\ \/ StartLog("recv", "check")
     \/ Goto("recv", "check") /\ UNCHANGED next
  /\ UNCHANGED <<linkVars, logHolder, buttonVars, lost, hasty, crashed>>

CheckConnected ==
  /\ pc["recv"] = "check"
  /\ Goto("recv", IF wsConnected THEN "recv" ELSE "finished")
  /\ UNCHANGED <<linkVars, logHolder, buttonVars, next, lost, hasty, crashed>>

(* The read fails: the server is gone, or disconnect closed the socket.      *)
RecvFails ==
  /\ pc["recv"] = "recv"
  /\ wsConnected' = FALSE
  /\ Goto("recv", "lost")
  /\ UNCHANGED <<gConnected, sock, logHolder, buttonVars, next, lost, hasty, crashed>>

Disconnected ==
  /\ pc["recv"] = "lost"
  /\ gConnected' = FALSE
  /\ lost' = TRUE
  /\ StartLog("recv", "post")
  /\ UNCHANGED <<wsConnected, sock, logHolder, buttonVars, hasty, crashed>>

---------------------------------------------------------------------------
Ui == UpdateConnectionUI \/ ClickDisconnect \/ Reset \/ ClickJoin \/ ClickJoined
      \/ CloseWindow \/ ShutDown \/ Exit
      \/ \E k \in Connector : ClickConnect(k)

DoConnect(k) ==
  \/ Connect(k) \/ Failed(k) \/ StartRecv(k) \/ GiveUp(k)
  \/ \E ok \in BOOLEAN : Dial(k, ok) \/ Handshake(k, ok) \/ Auth(k, ok) \/ Udp(k, ok)

RecvLoop == Event \/ CheckConnected \/ RecvFails \/ Disconnected

Next ==
  /\ ~crashed /\ pc["ui"] # "ended"
  /\ \/ Ui \/ RecvLoop
     \/ \E k \in Connector : DoConnect(k)
     \/ \E t \in Thread : Lock(t) \/ Logged(t) \/ Join(t) \/ Post(t)

Spec == Init /\ [][Next]_vars

---------------------------------------------------------------------------
AtRest ==
  /\ pc["ui"] = "idle" /\ ~posted
  /\ \A k \in Connector : pc[k] = "none"
  /\ pc["recv"] \in {"none", "recv", "finished"}

(* When nothing is under way the buttons show g_connected: exactly one of     *)
(* Connect and Disconnect can be clicked, the right one, in whatever order   *)
(* connectors, losses and clicks wrote the flag and posted about it.         *)
ButtonsSettle == AtRest => canDisconnect = gConnected /\ canConnect = ~gConnected

(* WsSignaling is used by one connector at a time, thanks to the disabled     *)
(* button, until the first "disconnected" event: that one enables the button  *)
(* also while a connector still runs.                                        *)
OneConnectorUntilLost ==
  ~lost => Cardinality({k \in Connector : pc[k] # "none"}) <= 1

(* Somebody is still inside the WsSignaling or the engine.                   *)
InUse(t) == pc[t] \notin {"none", "finished", "lock", "send", "post"}

(* The program is never terminated by a connect, not even one that follows    *)
(* failed ones, and no thread ever runs in the WsSignaling or the engine      *)
(* wWinMain has freed, unless a "disconnected" event was raised before, which *)
(* a hang-up of the client's own raises too, or the window was closed while a *)
(* connect was under way: the detached connector then outlives both.         *)
HarmNeedsLossOrHaste ==
  crashed \/ (pc["ui"] = "freed" /\ \E t \in Thread \ {"ui"} : InUse(t)) => lost \/ hasty

(* The threads t waits for.                                                  *)
WaitsFor(t) ==
  CASE pc[t] = "lock" /\ logHolder # None -> {logHolder}
    [] pc[t] = "join" /\ pc["recv"] \notin {"none", "finished"} -> {"recv"}
    [] pc[t] = "send" /\ ~Closed -> {"ui"}
    [] OTHER -> {}

Behind(S) == S \cup UNION {WaitsFor(t) : t \in S}

(* The UI thread never waits for a thread that waits for it, be it for the    *)
(* log or in the join of disconnect: doConnect runs on its own thread "to    *)
(* avoid blocking UI", but it shares the log with the UI.                    *)
UiNeverHangs == "ui" \notin Behind(Behind(WaitsFor("ui")))
=============================================================================
