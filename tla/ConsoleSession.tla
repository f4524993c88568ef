--------------------------- MODULE ConsoleSession ---------------------------
(***************************************************************************)
(* A session of the console client (windows-client/src/main.cpp), one action *)
(* per command.  It has no signalling: joining, talking and leaving are      *)
(* calls of the engine alone.  What a command refuses changes nothing.       *)
(***************************************************************************)
EXTENDS ChannelControl

CommandConnect(ok) ==
  /\ EngineConnect(ok)
  /\ UNCHANGED <<screenVars, strayed>>

CommandDisconnect ==
  /\ EngineDisconnect
  /\ joined' = {} /\ talking' = {}
  /\ UNCHANGED strayed

CommandJoin(h) ==
  /\ connected
  /\ EngineJoin(h)
  /\ joined' = joined \cup {h}
  /\ strayed' = strayed \cup Stray("second", joined \ {h} # {})
  /\ UNCHANGED talking

CommandLeave(h) ==
  /\ EngineLeave
  /\ joined' = joined \ {h} /\ talking' = talking \ {h}
  /\ UNCHANGED strayed

(* Mutant of CommandTalk: whether the channel is joined is not asked.        *)
CommandTalkAnywhere(h) ==
  /\ engineCh # None
  /\ EngineStart
  /\ talking' = talking \cup {h}
  /\ UNCHANGED <<joined, strayed>>

CommandTalk(h) ==
  /\ h \in joined
  /\ engineCh # None
  /\ EngineStart
  /\ talking' = talking \cup {h}
  /\ UNCHANGED <<joined, strayed>>

CommandStop(h) ==
  /\ EngineStop
  /\ talking' = talking \ {h}
  /\ UNCHANGED <<joined, strayed>>

(* chvol, and mute, which only ever mutes.                                   *)
CommandVolume(v) ==
  /\ EngineVolume(v)
  /\ UNCHANGED <<screenVars, strayed>>

ConsoleNext ==
  \/ CommandDisconnect
  \/ \E ok \in BOOLEAN : CommandConnect(ok)
  \/ \E v \in {0, 100} : CommandVolume(v)
  \/ \E h \in Channel :
       CommandJoin(h) \/ CommandLeave(h) \/ CommandTalk(h) \/ CommandStop(h)
=============================================================================
