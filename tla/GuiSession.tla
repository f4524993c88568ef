----------------------------- MODULE GuiSession -----------------------------
(***************************************************************************)
(* A session of the GUI client (windows-client/src/main_gui.cpp): the        *)
(* buttons and sliders of a channel, the WebSocket that carries its requests *)
(* to the server (ws_signaling.cpp), the engine, and what the server makes   *)
(* of the requests (server/src/channel.rs).  Requests travel in order; the   *)
(* engine is told at once, so the two run apart until the queue is drained.  *)
(*                                                                          *)
(* Connection losses and the connecting thread are here as far as they meet  *)
(* the channel buttons; WindowsClient has their threads, messages and locks. *)
(* Connect and Disconnect can be clicked as g_connected has it.  The server's *)
(* record of a connection that is closed is no concern of the next one.      *)
(***************************************************************************)
EXTENDS ChannelControl

CONSTANTS Level,      \* slider positions, in percent
          MaxQueue    \* bound on requests the server has yet to read

VARIABLES
  muted,        \* channelMuted
  slider,       \* position of the channel's volume slider
  gConnected,   \* g_connected
  connecting,   \* where doConnect is
  link,         \* the WebSocket
  recvLeft,     \* recvThread_ has ended by itself and is still joinable
  requests,     \* sent and not yet read by the server
  serverCh,     \* server: Client.channel_id
  speaking,     \* server: Client.speaking
  over          \* std::terminate

widgetVars == <<muted, slider>>
serverVars == <<requests, serverCh, speaking>>
linkVars   == <<gConnected, connecting, link, recvLeft, over>>
guiVars    == <<widgetVars, serverVars, linkVars>>

GuiInit ==
  /\ muted = {} /\ slider = [h \in Channel |-> 100]
  /\ gConnected = FALSE /\ connecting = "no" /\ link = "none"
  /\ recvLeft = FALSE /\ over = FALSE
  /\ requests = <<>> /\ serverCh = None /\ speaking = FALSE

---------------------------------------------------------------------------
(* sendWsText.  On a socket the server does not read any more a send may     *)
(* succeed; what is sent into a handshake never becomes a request.           *)
Send(what, h, ok) ==
  /\ CASE link = "none" -> ~ok
       [] link = "open" -> ok /\ Len(requests) < MaxQueue
       [] OTHER         -> TRUE
  /\ requests' = IF link = "open" THEN Append(requests, [op |-> what, ch |-> h])
                 ELSE requests
  /\ UNCHANGED <<serverCh, speaking, linkVars>>

(* The server reads one request; one that does not fit is answered with an   *)
(* error, which the client logs.                                             *)
Serve ==
  /\ link = "open" /\ requests # <<>>
  /\ LET r == Head(requests)
         inside == serverCh = r.ch
     IN /\ serverCh' = CASE r.op = "join" /\ serverCh = None -> r.ch
                         [] r.op = "leave" /\ inside -> None
                         [] OTHER -> serverCh
        /\ speaking' = CASE r.op = "start" /\ inside -> TRUE
                         [] r.op \in {"stop", "leave"} /\ inside -> FALSE
                         [] OTHER -> speaking
  /\ requests' = Tail(requests)
  /\ UNCHANGED <<engineVars, screenVars, strayed, widgetVars, linkVars>>

(* The connection is closed: nothing of it is left on the server.            *)
Forgotten == requests' = <<>> /\ serverCh' = None /\ speaking' = FALSE

---------------------------------------------------------------------------
(* The buttons of a channel.                                                 *)
ClickJoin(h, ok) ==
  /\ h \notin joined
  /\ Send("join", h, ok)
  /\ IF ok THEN /\ EngineJoin(h)
                /\ joined' = joined \cup {h}
                /\ strayed' = strayed \cup Stray("second", joined # {})
                                      \cup Stray("early", connecting # "no")
           ELSE UNCHANGED <<engineVars, joined, strayed>>
  /\ UNCHANGED <<talking, widgetVars>>

(* Mutant of ClickLeave: the server is not told.                             *)
ClickLeaveUntold(h, ok) ==
  /\ h \in joined
  /\ ok
  /\ EngineLeave
  /\ joined' = joined \ {h} /\ talking' = talking \ {h} /\ muted' = muted \ {h}
  /\ UNCHANGED <<slider, strayed, serverVars, linkVars>>

ClickLeave(h, ok) ==
  /\ h \in joined
  /\ Send("leave", h, ok)
  /\ EngineLeave
  /\ joined' = joined \ {h} /\ talking' = talking \ {h} /\ muted' = muted \ {h}
  /\ UNCHANGED <<slider, strayed>>

ClickTalk(h, ok) ==
  /\ h \in joined \ talking
  /\ Send("start", h, ok)
  /\ EngineStart
  /\ talking' = talking \cup {h}
  /\ UNCHANGED <<joined, strayed, widgetVars>>

ClickStop(h, ok) ==
  /\ h \in joined \cap talking
  /\ Send("stop", h, ok)
  /\ EngineStop
  /\ talking' = talking \ {h}
  /\ UNCHANGED <<joined, strayed, widgetVars>>

(* Mutant of ClickMute: the engine is told what was shown before.            *)
ClickMuteInverted(h) ==
  /\ h \in joined
  /\ muted' = IF h \in muted THEN muted \ {h} ELSE muted \cup {h}
  /\ EngineVolume(IF h \in muted THEN 0 ELSE 100)
  /\ UNCHANGED <<screenVars, strayed, slider, serverVars, linkVars>>

ClickMute(h) ==
  /\ h \in joined
  /\ muted' = IF h \in muted THEN muted \ {h} ELSE muted \cup {h}
  /\ EngineVolume(IF h \in muted THEN 100 ELSE 0)
  /\ UNCHANGED <<screenVars, strayed, slider, serverVars, linkVars>>

(* WM_HSCROLL; the sliders of channels that are not joined can be moved too. *)
MoveSlider(h, v) ==
  /\ v # slider[h]
  /\ slider' = [slider EXCEPT ![h] = v]
  /\ EngineVolume(v)
  /\ strayed' = strayed \cup Stray("slid", muted # {})
  /\ UNCHANGED <<screenVars, muted, serverVars, linkVars>>

---------------------------------------------------------------------------
(* doConnect, on its own thread.                                             *)
ClickConnect ==
  /\ ~gConnected /\ connecting = "no"
  /\ connecting' = "handshake" /\ link' = "handshake"
  /\ UNCHANGED <<engineVars, screenVars, strayed, widgetVars, serverVars,
                 gConnected, recvLeft, over>>

Handshake(ok) ==
  /\ connecting = "handshake"
  /\ connecting' = (IF ok THEN "auth" ELSE "no")
  /\ link' = (IF ok THEN "open" ELSE "none")
  /\ UNCHANGED <<engineVars, screenVars, strayed, widgetVars, serverVars,
                 gConnected, recvLeft, over>>

(* WsSignaling::disconnect joins recvThread_ if it is there.                 *)
Hangup ==
  /\ link' = "none" /\ recvLeft' = FALSE
  /\ Forgotten

Auth(ok) ==
  /\ connecting = "auth"
  /\ IF ok THEN /\ over' = recvLeft
                /\ connecting' = "udp"
                /\ UNCHANGED <<link, recvLeft, serverVars>>
           ELSE connecting' = "no" /\ Hangup /\ UNCHANGED over
  /\ UNCHANGED <<engineVars, screenVars, strayed, widgetVars, gConnected>>

Udp(ok) ==
  /\ connecting = "udp"
  /\ EngineConnect(ok)
  /\ connecting' = "no"
  /\ IF ok THEN gConnected' = TRUE /\ UNCHANGED <<link, recvLeft, serverVars>>
           ELSE Hangup /\ UNCHANGED gConnected
  /\ UNCHANGED <<screenVars, strayed, widgetVars, over>>

ClickDisconnect ==
  /\ gConnected
  /\ EngineDisconnect
  /\ Hangup
  /\ joined' = {} /\ talking' = {} /\ muted' = {}
  /\ gConnected' = FALSE
  /\ UNCHANGED <<strayed, slider, connecting, over>>

(* The receiving thread, which runs from the end of the authentication on,   *)
(* cannot read any more: "disconnected".  Engine and buttons stay.           *)
Lost ==
  /\ link = "open" /\ connecting \in {"udp", "no"}
  /\ link' = "dead" /\ recvLeft' = TRUE
  /\ gConnected' = FALSE
  /\ Forgotten
  /\ strayed' = strayed \cup {"lost"}
  /\ UNCHANGED <<engineVars, screenVars, widgetVars, connecting, over>>

GuiNext ==
  /\ ~over
  /\ \/ Serve \/ Lost \/ ClickConnect \/ ClickDisconnect
     \/ \E h \in Channel : ClickMute(h) \/ \E v \in Level : MoveSlider(h, v)
     \/ \E ok \in BOOLEAN :
          \/ Handshake(ok) \/ Auth(ok) \/ Udp(ok)
          \/ \E h \in Channel : \/ ClickJoin(h, ok) \/ ClickLeave(h, ok)
                                \/ ClickTalk(h, ok) \/ ClickStop(h, ok)
=============================================================================
