------------------------------ MODULE StreamMix ------------------------------
(***************************************************************************)
(* Step 4 of ae_engine_process with the mixer (core/src/audio_engine.c,      *)
(* core/src/mixer.c): one frame of every remote stream that has one, or      *)
(* concealment for a moment, is mixed at the channel's volume; a stream that *)
(* is silent is left out and, later, destroyed.  The mixer ramps each input  *)
(* from the volume it applied last at that position of the mix.              *)
(*                                                                          *)
(* The master volume is the last factor of every frame and is left out.      *)
(***************************************************************************)
EXTENDS Integers, FiniteSets

CONSTANTS Slots,       \* AE_MAX_USERS_PER_CH
          JitterCap,   \* max_depth of a stream's jitter buffer
          Conceal,     \* 200 ms, in frame times: how long packet loss
                       \* concealment stands in
          Timeout,     \* STREAM_TIMEOUT_MS
          Destroy      \* STREAM_DESTROY_MS

ASSUME MixAssumption ==
  /\ {Slots, JitterCap} \subseteq Nat \ {0}
  /\ {Conceal, Timeout, Destroy} \subseteq Nat
  /\ Conceal <= Timeout /\ Timeout < Destroy

VARIABLES
  level,    \* level[s]: frames in the jitter buffer of stream s; -1 if no stream
  age,      \* age[s]: frame times since its last packet
  volume,   \* channel.volume; every stream's own volume is 1
  ramp,     \* ramp[i]: prev_volumes of the mixer
  heard,    \* heard[s]: volume s ended at in the last mix, -1 if it had no part
  jump      \* a stream began a frame at another volume than it ended the last

mixVars == <<level, age, volume, ramp, heard, jump>>

Slot == 1..Slots
Open == {s \in Slot : level[s] >= 0}

MixInit ==
  /\ level = [s \in Slot |-> -1] /\ age = [s \in Slot |-> 0]
  /\ volume = 1
  /\ ramp = [i \in Slot |-> 0]
  /\ heard = [s \in Slot |-> -1]
  /\ jump = FALSE

AtMost(n, limit) == IF n > limit THEN limit ELSE n

---------------------------------------------------------------------------
(* The packets of a tick: from is the set of streams that get one, and a     *)
(* speaker without a stream gets the first free slot.                        *)
FreeSlot == CHOOSE s \in Slot \ Open : \A t \in Slot \ Open : s <= t

Arrivals(newcomer) ==
  {from \cup (IF newcomer /\ Open # Slot THEN {FreeSlot} ELSE {}) : from \in SUBSET Open}

Pushed(from, s) ==
  IF s \in from THEN AtMost(IF level[s] < 0 THEN 1 ELSE level[s] + 1, JitterCap)
                ELSE level[s]

(* Silence of s at a tick, which is at a frame boundary or between two.      *)
Silence(from, boundary, s) ==
  IF s \in from THEN 0
  ELSE IF boundary /\ s \in Open THEN AtMost(age[s] + 1, Destroy + 1) ELSE age[s]

(* Mutant of Stays: a stream that is left out of the mix is kept.            *)
StaysWhileSkipped(from, boundary, s) == Pushed(from, s) >= 0

Stays(from, boundary, s) ==
  Pushed(from, s) >= 0 /\ Silence(from, boundary, s) <= Destroy

(* s has a frame to mix, or concealment.                                     *)
Popped(from, boundary, s) ==
  /\ Stays(from, boundary, s) /\ Silence(from, boundary, s) <= Timeout
  /\ Pushed(from, s) > 0

Mixed(from, boundary) ==
  {s \in Slot : \/ Popped(from, boundary, s)
                \/ /\ Stays(from, boundary, s)
                   /\ Silence(from, boundary, s) < Conceal}

Position(mix, s) == Cardinality({t \in mix : t <= s})

(* Mutant of Ramped: the volume is kept where the ramp began.                *)
RampedStale(mix, i) == IF i <= Cardinality(mix) /\ ramp[i] = 0 THEN volume ELSE ramp[i]

(* prev_volumes after ae_mixer_mix                                           *)
Ramped(mix, i) == IF i <= Cardinality(mix) THEN volume ELSE ramp[i]

(* Inputs of the last mix whose streams are still there.                     *)
LastMix == {s \in Slot : heard[s] >= 0}

(* Streams of both mixes, when the mix has not grown, that do not begin       *)
(* where they ended.                                                         *)
Jumping(mix) ==
  {s \in mix \cap LastMix : /\ Cardinality(mix) <= Cardinality(LastMix)
                            /\ ramp[Position(mix, s)] # heard[s]}

(* The mix of one tick.  Without an input the mixer is not called.           *)
Mix(from, boundary) ==
  LET mix == Mixed(from, boundary)
      here(s) == Stays(from, boundary, s)
      new == from \ Open IN
  /\ level' = [s \in Slot |-> IF ~here(s) THEN -1
                              ELSE IF Popped(from, boundary, s) THEN Pushed(from, s) - 1
                              ELSE Pushed(from, s)]
  /\ age' = [s \in Slot |-> IF here(s) THEN Silence(from, boundary, s) ELSE 0]
  /\ heard' = [s \in Slot |-> IF s \in mix THEN volume
                              ELSE IF mix # {} \/ ~here(s) THEN -1 ELSE heard[s]]
  /\ ramp' = [i \in Slot |-> Ramped(mix, i)]
  /\ jump' = (Jumping(mix \ new) # {})
  /\ UNCHANGED volume

(* ae_engine_leave_channel destroys every stream.                            *)
DestroyStreams ==
  /\ level' = [s \in Slot |-> -1] /\ age' = [s \in Slot |-> 0]
  /\ heard' = [s \in Slot |-> -1]
  /\ UNCHANGED <<ramp, jump>>

(* The slider, or the mute button.                                           *)
ChangeVolume ==
  /\ volume' \in {0, 1} \ {volume}
  /\ UNCHANGED <<level, age, ramp, heard, jump>>
=============================================================================
