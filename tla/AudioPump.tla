------------------------------ MODULE AudioPump ------------------------------
(***************************************************************************)
(* The pace of the audio thread: WasapiAudio::audioLoop (one round per       *)
(* Sleep(5), so four in a frame time of 20 ms) and OboeAudioIO::onAudioReady *)
(* (one callback per frame).  Both write what the microphone delivered to    *)
(* the capture ring, call ae_engine_process once, and move the playback ring *)
(* to the device; a round is one action.  Rings are the bounded queues that  *)
(* FrameQueue promises, in frames of 20 ms; what a tick plays is StreamMix,   *)
(* and the sharing of the engine between threads is Engine.                  *)
(***************************************************************************)
EXTENDS StreamMix, Sequences

CONSTANTS Platforms,    \* what the audio thread may run on: rounds in one
                        \* frame time, frames the output device holds
          CaptureCap,   \* capture_ring, in frames
          PlaybackCap   \* playback_ring, in frames

ASSUME PumpAssumption ==
  /\ \A p \in Platforms : {p.rounds, p.frames} \subseteq Nat \ {0}
  /\ {CaptureCap, PlaybackCap} \subseteq Nat \ {0}

VARIABLES
  platform,      \* where this behaviour runs
  round,         \* rounds since the devices' last frame boundary
  inChannel,     \* engine.channel.active
  transmitting,  \* push-to-talk is down
  capture,       \* frames in capture_ring
  playback,      \* playback_ring: "voice" or "fill" (concealment, silence)
  device,        \* frames in the output device
  dropped        \* a voice frame found the playback ring full

ringVars == <<capture, playback, device, dropped>>
vars == <<platform, round, inChannel, transmitting, mixVars, ringVars>>

Init ==
  /\ platform \in Platforms
  /\ round = 0
  /\ inChannel = FALSE /\ transmitting = FALSE
  /\ MixInit
  /\ capture = 0 /\ playback = <<>> /\ device = 0
  /\ dropped = FALSE

---------------------------------------------------------------------------
(* The user.  Nothing empties the rings; a disconnect keeps the streams.      *)
Join ==
  /\ ~inChannel
  /\ inChannel' = TRUE
  /\ volume' = 1
  /\ UNCHANGED <<platform, round, transmitting, ringVars, level, age, ramp, heard, jump>>

Leave ==
  /\ inChannel
  /\ inChannel' = FALSE
  /\ transmitting' = FALSE
  /\ DestroyStreams
  /\ UNCHANGED <<platform, round, volume, ringVars>>

Disconnect ==
  /\ inChannel
  /\ inChannel' = FALSE
  /\ transmitting' = FALSE
  /\ UNCHANGED <<platform, round, mixVars, ringVars>>

Press ==
  /\ inChannel
  /\ ~transmitting
  /\ transmitting' = TRUE
  /\ UNCHANGED <<platform, round, inChannel, mixVars, ringVars>>

Release ==
  /\ transmitting
  /\ transmitting' = FALSE
  /\ UNCHANGED <<platform, round, inChannel, mixVars, ringVars>>

MoveSlider ==
  /\ ChangeVolume
  /\ UNCHANGED <<platform, round, inChannel, transmitting, ringVars>>

---------------------------------------------------------------------------
(* ae_engine_write_capture: a frame that does not fit is lost.  The device    *)
(* has one at each frame boundary.                                           *)
Captured == IF round = 0 THEN AtMost(capture + 1, CaptureCap) ELSE capture

(* Mutant of Send: one frame per frame time, as with a 20 ms tick.           *)
SendAtBoundary ==
  capture' = IF transmitting /\ Captured > 0 /\ round = 0 THEN Captured - 1 ELSE Captured

(* ae_engine_process, send side: one frame at most, if transmitting.         *)
Send == capture' = IF transmitting /\ Captured > 0 THEN Captured - 1 ELSE Captured

(* What the tick writes to the playback ring: a mix, or silence in a channel. *)
Played(from) ==
  IF \E s \in Slot : Popped(from, round = 0, s) THEN <<"voice">>
  ELSE IF inChannel \/ Mixed(from, round = 0) # {} THEN <<"fill">> ELSE <<>>

Filled(from) == IF Len(playback) < PlaybackCap THEN playback \o Played(from)
                                               ELSE playback

(* Mutant of Room: what the device has played is not seen.                   *)
RoomStale == platform.frames - device

(* The device has played one frame since the last boundary; all its room is   *)
(* filled from the playback ring, the rest of it with zeros.                 *)
Room == platform.frames - (IF round = 0 /\ device > 0 THEN device - 1 ELSE device)

Render(ring) ==
  LET n == AtMost(Room, Len(ring)) IN
    /\ playback' = SubSeq(ring, n + 1, Len(ring))
    /\ device' = platform.frames

Round(from) ==
  /\ round' = (round + 1) % platform.rounds
  /\ Send
  /\ Mix(from, round = 0)
  /\ dropped' = (Played(from) = <<"voice">> /\ Len(playback) = PlaybackCap)
  /\ Render(Filled(from))
  /\ UNCHANGED <<platform, inChannel, transmitting>>

(* A speaker sends one frame per frame time, and is received in a channel.   *)
Tick ==
  \E newcomer \in BOOLEAN :
    \E from \in IF round = 0 /\ inChannel THEN Arrivals(newcomer) ELSE {{}} : Round(from)

Next == Join \/ Leave \/ Disconnect \/ Press \/ Release \/ MoveSlider \/ Tick

Spec == Init /\ [][Next]_vars

(* The platform keeps running the audio thread.                              *)
FairSpec == Spec /\ WF_vars(Tick)

---------------------------------------------------------------------------
(* When ae_engine_process is called once per frame time, as its comment says, *)
(* no received voice is thrown away between the mixer and the device, and     *)
(* none is delayed by frames in front of it: what was mixed in a frame time   *)
(* is in the device at its end, however often the user joins and leaves.  The *)
(* WASAPI loop calls it four times: there silence fills the ring and voice   *)
(* is dropped.                                                               *)
VoiceIsPlayed == platform.rounds = 1 => ~dropped /\ playback = <<>>

(* With more calls per frame time a transmission catches up with the         *)
(* microphone: what the ring held when the button was pressed does not delay *)
(* it for good.  With one call per frame time it would.                      *)
TransmissionCatchesUp ==
  platform.rounds > 1 /\ transmitting ~> (~transmitting \/ capture <= 1)

(* A stream whose speaker has fallen silent goes away, in a channel or after  *)
(* a disconnect, which keeps the streams and ends the receiving: the tick    *)
(* goes on and counts the silence.                                           *)
SilentStreamsEnd ==
  \A s \in Slot : s \in Open ~> (s \notin Open \/ age[s] = 0)

(* No click: a stream in two mixes after each other begins the second at the  *)
(* volume it ended the first with, though its position in the mix may have    *)
(* changed, unless the mix has grown in between.  When it has grown, a stream *)
(* that moved up starts from what some other stream left there.              *)
SteadyVolume == ~jump
=============================================================================
