--------------------------- MODULE ChannelControl ---------------------------
(***************************************************************************)
(* What the Windows front ends share: the calls of the engine that set up   *)
(* channels and push-to-talk (core/src/audio_engine.c), and the two arrays   *)
(* every front end shows to its user.  The engine has one channel; the       *)
(* channel ids its leave, start, stop, mute and volume calls are given are   *)
(* not looked at.  The calls are those of one thread, the one of the user.   *)
(***************************************************************************)
EXTENDS Integers, Sequences

CONSTANTS Channel, None

ASSUME ChannelAssumption == None \notin Channel

VARIABLES
  connected,      \* engine: the UDP socket is set up
  engineCh,       \* engine: the active channel
  transmitting,   \* engine: the tick sends what it captures
  volume,         \* engine: channel.volume, in percent
  joined,         \* front end: channels shown as joined
  talking,        \* front end: channels shown as transmitting
  strayed         \* what happened that one channel at a time does not need

engineVars == <<connected, engineCh, transmitting, volume>>
screenVars == <<joined, talking>>

ControlInit ==
  /\ connected = FALSE /\ engineCh = None
  /\ transmitting = FALSE /\ volume = 100
  /\ joined = {} /\ talking = {}
  /\ strayed = {}

Stray(what, happens) == IF happens THEN {what} ELSE {}

---------------------------------------------------------------------------
(* ae_engine_connect: a failure leaves the flag of an earlier connect.       *)
EngineConnect(ok) ==
  /\ connected' = (connected \/ ok)
  /\ UNCHANGED <<engineCh, transmitting, volume>>

EngineDisconnect ==
  /\ connected' = FALSE /\ transmitting' = FALSE /\ engineCh' = None
  /\ UNCHANGED volume

(* Mutant of EngineJoin: the volume of the last channel is kept.             *)
EngineJoinKeepsVolume(h) ==
  IF ~connected THEN UNCHANGED engineVars
  ELSE /\ engineCh' = h
       /\ transmitting' = (transmitting /\ engineCh = None)
       /\ UNCHANGED <<connected, volume>>

(* ae_engine_join_channel: leaves the current channel first.                 *)
EngineJoin(h) ==
  IF ~connected THEN UNCHANGED engineVars
  ELSE /\ engineCh' = h
       /\ transmitting' = (transmitting /\ engineCh = None)
       /\ volume' = 100
       /\ UNCHANGED connected

(* Mutant of EngineLeave: the transmission goes on.                          *)
EngineLeaveOnAir ==
  /\ engineCh' = None
  /\ UNCHANGED <<connected, transmitting, volume>>

EngineLeave ==
  /\ transmitting' = FALSE /\ engineCh' = None
  /\ UNCHANGED <<connected, volume>>

(* ae_engine_start_transmit                                                  *)
EngineStart ==
  /\ transmitting' = (transmitting \/ engineCh # None)
  /\ UNCHANGED <<connected, engineCh, volume>>

EngineStop ==
  /\ transmitting' = FALSE
  /\ UNCHANGED <<connected, engineCh, volume>>

(* ae_engine_set_channel_volume, and set_channel_muted with 0 or 100.        *)
EngineVolume(v) ==
  /\ volume' = v
  /\ UNCHANGED <<connected, engineCh, transmitting>>

(* Whatever is called, one call after the other.                             *)
EngineCall ==
  \/ EngineDisconnect \/ EngineLeave \/ EngineStart \/ EngineStop
  \/ \E ok \in BOOLEAN : EngineConnect(ok)
  \/ \E h \in Channel : EngineJoin(h)

CallSpec == ControlInit /\ [][EngineCall]_engineVars
=============================================================================
