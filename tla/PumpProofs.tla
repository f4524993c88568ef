----------------------------- MODULE PumpProofs -----------------------------
(***************************************************************************)
(* Proofs about AudioPump and StreamMix, for any sizes of the rings and the   *)
(* device and any number of streams.                                         *)
(*                                                                          *)
(* With one round per frame time the device makes room for exactly the one    *)
(* frame the tick may write, so the playback ring is empty after every round. *)
(* The volume does not jump because after a mix all its members ended at one  *)
(* volume v, which is also what the mixer keeps at every position they can    *)
(* have in the next mix, as long as that one is not larger.                  *)
(***************************************************************************)
EXTENDS AudioPump, TLAPS, FiniteSetTheorems

(* A round takes and leaves an empty ring when it is a whole frame time.      *)
PaceInv ==
  /\ platform \in Platforms
  /\ platform.rounds = 1 =>
       /\ round = 0
       /\ playback = <<>>
       /\ device \in {0, platform.frames}
       /\ ~dropped

MixTypeOK ==
  /\ volume \in Nat
  /\ heard \in [Slot -> Nat \cup {-1}]
  /\ ramp \in [Slot -> Nat]

(* v is where the last mix ended, for its streams and for its positions.      *)
EndedAt(v) ==
  /\ \A s \in LastMix : heard[s] = v
  /\ \A i \in 1..Cardinality(LastMix) : ramp[i] = v

RampInv == MixTypeOK /\ ~jump /\ \E v \in Nat : EndedAt(v)

IInv == PaceInv /\ RampInv
---------------------------------------------------------------------------
(* Written to an empty ring, what a tick plays goes on to the device at once. *)
LEMMA RenderAll ==
  ASSUME platform \in Platforms, platform.rounds = 1, round = 0, playback = <<>>,
         device \in {0, platform.frames},
         NEW from, Render(Filled(from))
  PROVE  playback' = <<>> /\ device' = platform.frames
<1>1. /\ platform.frames \in Nat \ {0} /\ PlaybackCap \in Nat \ {0}
  BY PumpAssumption
<1>2. Room \in Nat \ {0}
  BY <1>1 DEF Room
<1>3. Filled(from) \in {<<"voice">>, <<"fill">>, <<>>}
  BY <1>1 DEF Filled, Played
<1>4. Len(Filled(from)) = 0 \/ Len(Filled(from)) = 1
  BY <1>3
<1>5. AtMost(Room, Len(Filled(from))) = Len(Filled(from))
  <2>1. \A n \in Nat \ {0} : AtMost(n, 0) = 0 /\ AtMost(n, 1) = 1
    BY DEF AtMost
  <2> QED
    BY <1>2, <1>4, <2>1
<1>6. playback' = SubSeq(Filled(from), Len(Filled(from)) + 1, Len(Filled(from)))
  BY <1>5 DEF Render
<1> QED
  BY <1>3, <1>6 DEF Render

(* Every step keeps the pace.                                                *)
LEMMA NextPaceInv == PaceInv /\ [Next]_vars => PaceInv'
<1> SUFFICES ASSUME PaceInv, [Next]_vars PROVE PaceInv'
  OBVIOUS
<1>1. CASE Tick
  <2>1. PICK from : Round(from)
    BY <1>1 DEF Tick
  <2>2. UNCHANGED platform
    BY <2>1 DEF Round
  <2>3. ASSUME platform.rounds = 1
        PROVE  round' = 0 /\ playback' = <<>> /\ device' = platform.frames /\ ~dropped'
    <3>1. round' = 0
      BY <2>1, <2>3 DEF Round, PaceInv
    <3>2. Len(playback) # PlaybackCap
      BY <2>3, PumpAssumption DEF PaceInv
    <3> QED
      BY <2>1, <2>3, <3>1, <3>2, RenderAll DEF Round, PaceInv
  <2> QED
    BY <2>2, <2>3 DEF PaceInv
<1>2. CASE UNCHANGED <<platform, round, ringVars>>
  BY <1>2 DEF PaceInv, ringVars
<1> QED
  BY <1>1, <1>2
  DEF Next, Join, Leave, Disconnect, Press, Release, MoveSlider, vars, ringVars

---------------------------------------------------------------------------
(* Slots are finitely many, so any part of them has a size.                  *)
LEMMA SlotsFinite ==
  ASSUME NEW S \in SUBSET Slot
  PROVE  /\ IsFiniteSet(S) /\ Cardinality(S) \in Nat
         /\ Cardinality(S) <= Slots
         /\ \A T \in SUBSET S : Cardinality(T) <= Cardinality(S)
<1>1. IsFiniteSet(Slot) /\ Cardinality(Slot) = Slots
  <2>1. Slots \in Int /\ Slots >= 1
    BY MixAssumption
  <2>2. IsFiniteSet(1..Slots) /\ Cardinality(1..Slots) = IF 1 > Slots THEN 0 ELSE Slots - 1 + 1
    BY <2>1, FS_Interval
  <2> QED
    BY <2>1, <2>2 DEF Slot
<1>2. IsFiniteSet(S) /\ Cardinality(S) <= Slots
  BY <1>1, FS_Subset
<1> QED
  BY <1>2, FS_CardinalityType, FS_Subset

(* The position of a member of a mix is one of the mix's first positions.     *)
LEMMA PositionInMix ==
  ASSUME NEW mix \in SUBSET Slot, NEW s \in mix
  PROVE  Position(mix, s) \in 1..Cardinality(mix)
<1> DEFINE upTo == {t \in mix : t <= s}
<1>0. s <= s
  BY MixAssumption DEF Slot
<1>1. upTo \in SUBSET mix /\ upTo \in SUBSET Slot /\ s \in upTo
  BY <1>0
<1> HIDE DEF upTo
<1>2. Cardinality(upTo) # 0
  BY <1>1, SlotsFinite, FS_EmptySet
<1>3. Cardinality(upTo) \in Nat /\ Cardinality(upTo) <= Cardinality(mix)
  BY <1>1, SlotsFinite
<1>4. Cardinality(mix) \in Nat
  BY SlotsFinite
<1> QED
  BY <1>2, <1>3, <1>4 DEF Position, upTo

(* From EndedAt(v), a mix that is not larger begins every stream at v.        *)
LEMMA NobodyJumps ==
  ASSUME NEW v \in Nat, EndedAt(v), NEW mix \in SUBSET Slot
  PROVE  Jumping(mix) = {}
<1> SUFFICES ASSUME NEW s \in mix \cap LastMix, Cardinality(mix) <= Cardinality(LastMix)
             PROVE  ramp[Position(mix, s)] = heard[s]
  BY DEF Jumping
<1>1. LastMix \in SUBSET Slot
  BY DEF LastMix
<1>2. Cardinality(LastMix) \in Nat /\ Cardinality(mix) \in Nat
  BY <1>1, SlotsFinite
<1>3. Position(mix, s) \in 1..Cardinality(LastMix)
  BY <1>2, PositionInMix
<1> QED
  BY <1>3 DEF EndedAt

(* A mix ends its streams and its positions at the volume of the channel, and *)
(* a tick without a mix leaves both alone.                                   *)
LEMMA MixRampInv ==
  ASSUME RampInv, NEW from, NEW boundary \in BOOLEAN, Mix(from, boundary)
  PROVE  RampInv'
<1> DEFINE mix == Mixed(from, boundary)
<1>1. mix \in SUBSET Slot /\ Cardinality(mix) \in Nat
  BY SlotsFinite DEF Mixed
<1>2. /\ heard' = [s \in Slot |-> IF s \in mix THEN volume
                                  ELSE IF mix # {} \/ ~Stays(from, boundary, s) THEN -1
                                  ELSE heard[s]]
      /\ ramp' = [i \in Slot |-> Ramped(mix, i)]
      /\ jump' = (Jumping(mix \ (from \ Open)) # {})
      /\ volume' = volume
  BY DEF Mix
<1> HIDE DEF mix
<1>3. PICK v \in Nat : EndedAt(v)
  BY DEF RampInv
<1>4. ~jump'
  BY <1>1, <1>2, <1>3, NobodyJumps
<1>5. MixTypeOK'
  BY <1>2 DEF RampInv, MixTypeOK, Ramped
<1>6. ASSUME mix # {} PROVE EndedAt(volume)'
  <2>1. LastMix' = mix
    BY <1>1, <1>2, <1>6 DEF LastMix, RampInv, MixTypeOK
  <2>2. Cardinality(mix) <= Slots
    BY <1>1, SlotsFinite
  <2>3. \A i \in 1..Cardinality(mix) : i \in Slot /\ ramp'[i] = volume
    BY <1>1, <1>2, <2>2, MixAssumption DEF Slot, Ramped
  <2> QED
    BY <1>1, <1>2, <2>1, <2>3 DEF EndedAt
<1>7. ASSUME mix = {} PROVE EndedAt(v)'
  <2>1. LastMix' \in SUBSET LastMix /\ LastMix \in SUBSET Slot
    BY <1>2, <1>7 DEF LastMix
  <2>2. /\ Cardinality(LastMix') <= Cardinality(LastMix)
        /\ Cardinality(LastMix') \in Nat /\ Cardinality(LastMix) \in Nat
        /\ Cardinality(LastMix) <= Slots
    BY <2>1, SlotsFinite
  <2>3. \A i \in Slot : ramp'[i] = ramp[i]
    BY <1>2, <1>7, FS_EmptySet DEF Ramped, Slot
  <2>4. \A i \in 1..Cardinality(LastMix') : i \in Slot /\ ramp'[i] = v
    BY <1>3, <2>2, <2>3, MixAssumption DEF EndedAt, Slot
  <2>5. \A s \in LastMix' : heard'[s] = v
    BY <1>2, <1>3, <1>7, <2>1 DEF EndedAt, LastMix
  <2> QED
    BY <2>4, <2>5 DEF EndedAt
<1>8. volume \in Nat /\ volume' = volume
  BY <1>2 DEF RampInv, MixTypeOK
<1> QED
  BY <1>3, <1>4, <1>5, <1>6, <1>7, <1>8 DEF RampInv

(* Every step keeps the last mix at one volume.                              *)
LEMMA NextRampInv == RampInv /\ [Next]_vars => RampInv'
<1> SUFFICES ASSUME RampInv, [Next]_vars PROVE RampInv'
  OBVIOUS
<1>1. CASE Tick
  BY <1>1, MixRampInv DEF Tick, Round
<1>2. CASE Leave
  <2>1. UNCHANGED <<volume, ramp, jump>> /\ heard' = [s \in Slot |-> -1]
    BY <1>2 DEF Leave, DestroyStreams
  <2>2. LastMix' = {}
    BY <2>1 DEF LastMix
  <2>3. EndedAt(0)'
    BY <2>2, FS_EmptySet DEF EndedAt
  <2> QED
    BY <2>1, <2>3 DEF RampInv, MixTypeOK
<1>3. CASE volume' \in Nat /\ UNCHANGED <<heard, ramp, jump>>
  BY <1>3 DEF RampInv, MixTypeOK, EndedAt, LastMix
<1>4. Join \/ MoveSlider => volume' \in Nat /\ UNCHANGED <<heard, ramp, jump>>
  BY DEF Join, MoveSlider, ChangeVolume
<1>5. Disconnect \/ Press \/ Release \/ UNCHANGED vars
        => volume' \in Nat /\ UNCHANGED <<heard, ramp, jump>>
  BY DEF Disconnect, Press, Release, vars, mixVars, RampInv, MixTypeOK
<1> QED
  BY <1>1, <1>2, <1>3, <1>4, <1>5 DEF Next

---------------------------------------------------------------------------
(* The invariant holds for ever.                                             *)
LEMMA Invariance == Spec => []IInv
<1>1. Init => PaceInv
  BY DEF Init, PaceInv
<1>2. ASSUME Init PROVE RampInv
  <2>1. MixTypeOK /\ ~jump
    BY <1>2 DEF Init, MixInit, MixTypeOK
  <2>2. LastMix = {}
    BY <1>2 DEF Init, MixInit, LastMix
  <2>3. EndedAt(0)
    BY <2>2, FS_EmptySet DEF EndedAt
  <2> QED
    BY <2>1, <2>3 DEF RampInv
<1> QED
  BY <1>1, <1>2, NextPaceInv, NextRampInv, PTL DEF Spec, IInv

(* One call of ae_engine_process per frame time loses no received voice and   *)
(* leaves no frame behind in the playback ring.                              *)
THEOREM VoicePlayed == Spec => []VoiceIsPlayed
<1>1. IInv => VoiceIsPlayed
  BY DEF IInv, PaceInv, VoiceIsPlayed
<1> QED
  BY <1>1, Invariance, PTL

(* No stream clicks in a mix that has not grown, at any pace.                *)
THEOREM VolumeSteady == Spec => []SteadyVolume
<1>1. IInv => SteadyVolume
  BY DEF IInv, RampInv, SteadyVolume
<1> QED
  BY <1>1, Invariance, PTL
---------------------------------------------------------------------------
(* What TransmissionCatchesUp rests on: while the button is down, and there   *)
(* is more than one tick in a frame time, every tick takes a frame off the   *)
(* capture ring, or is the one at a frame boundary, which takes the frame it  *)
(* has just let in.                                                          *)
BacklogFalls ==
  Tick /\ transmitting /\ capture > 0 /\ platform.rounds > 1 =>
    \/ capture' < capture
    \/ capture' = capture /\ round = 0 /\ round' # 0

(* Counters stay where the rings and the frame time put them.                *)
CountInv ==
  /\ platform \in Platforms
  /\ round \in 0..(platform.rounds - 1)
  /\ capture \in 0..CaptureCap

(* Every step keeps them there.                                              *)
LEMMA NextCountInv == CountInv /\ [Next]_vars => CountInv'
<1> SUFFICES ASSUME CountInv, [Next]_vars PROVE CountInv'
  OBVIOUS
<1>0. platform.rounds \in Nat \ {0} /\ CaptureCap \in Nat \ {0}
  BY PumpAssumption DEF CountInv
<1>1. CASE Tick
  <2>1. PICK from : Round(from)
    BY <1>1 DEF Tick
  <2>2. round' = (round + 1) % platform.rounds /\ platform' = platform /\ Send
    BY <2>1 DEF Round
  <2>3. round' \in 0..(platform.rounds - 1)
    BY <1>0, <2>2 DEF CountInv
  <2>4. Captured \in 0..CaptureCap
    BY <1>0 DEF CountInv, Captured, AtMost
  <2>5. capture' \in 0..CaptureCap
    BY <1>0, <2>2, <2>4 DEF Send
  <2> QED
    BY <2>2, <2>3, <2>5 DEF CountInv
<1>2. CASE UNCHANGED <<platform, round, ringVars>>
  BY <1>2 DEF CountInv, ringVars
<1> QED
  BY <1>1, <1>2
  DEF Next, Join, Leave, Disconnect, Press, Release, MoveSlider, vars, ringVars

(* A delay that was there when the button was pressed shrinks with every      *)
(* frame time, whatever the device, until it is gone.                        *)
THEOREM BacklogShrinks == Spec => [][BacklogFalls]_vars
<1>1. ASSUME CountInv, Tick, transmitting, capture > 0, platform.rounds > 1
      PROVE  \/ capture' < capture
             \/ capture' = capture /\ round = 0 /\ round' # 0
  <2>0. platform.rounds \in Nat /\ CaptureCap \in Nat \ {0}
    BY <1>1, PumpAssumption DEF CountInv
  <2>1. PICK from : Round(from)
    BY <1>1 DEF Tick
  <2>2. Send /\ round' = (round + 1) % platform.rounds
    BY <2>1 DEF Round
  <2>3. CASE round = 0
    <3>1. 1 % platform.rounds = 1
      BY <1>1, <2>0
    <3>2. round' = 1
      BY <2>2, <2>3, <3>1
    <3>3. Captured \in 1..(capture + 1) /\ capture \in Nat
      BY <1>1, <2>0, <2>3 DEF CountInv, Captured, AtMost
    <3> QED
      BY <1>1, <2>2, <2>3, <3>2, <3>3 DEF Send
  <2>4. CASE round # 0
    BY <1>1, <2>2, <2>4 DEF CountInv, Send, Captured
  <2> QED
    BY <2>3, <2>4
<1>2. CountInv /\ [Next]_vars => [BacklogFalls]_vars
  BY <1>1 DEF BacklogFalls
<1>3. Init => CountInv
  <2> SUFFICES ASSUME Init PROVE CountInv
    OBVIOUS
  <2>1. platform.rounds \in Nat \ {0} /\ CaptureCap \in Nat \ {0}
    BY PumpAssumption DEF Init
  <2> QED
    BY <2>1 DEF Init, CountInv
<1> QED
  BY <1>2, <1>3, NextCountInv, PTL DEF Spec

---------------------------------------------------------------------------
(* What SilentStreamsEnd rests on: no stream is there after Destroy frame     *)
(* times of silence, and each boundary tick counts one more of a stream that  *)
(* it leaves there without a packet, while nothing else touches the count.    *)
SilenceBounded == \A s \in Open : age[s] \in 0..Destroy

SilenceCounts ==
  \A s \in Open \cap Open' : age'[s] # 0 =>
    /\ Tick /\ round = 0 => age'[s] = age[s] + 1
    /\ ~(Tick /\ round = 0) => age'[s] = age[s]

AgeInv ==
  /\ level \in [Slot -> Int] /\ age \in [Slot -> 0..Destroy]

(* A stream that stays has not been silent for longer than that.             *)
LEMMA MixAge ==
  ASSUME AgeInv, NEW from, NEW boundary \in BOOLEAN, Mix(from, boundary), NEW s \in Slot
  PROVE  /\ level'[s] \in Int /\ age'[s] \in 0..Destroy
         /\ boundary /\ s \in Open /\ age'[s] # 0 => age'[s] = age[s] + 1
         /\ ~boundary /\ age'[s] # 0 => age'[s] = age[s]
<1>0. Destroy \in Nat /\ JitterCap \in Nat
  BY MixAssumption
<1>1. /\ level'[s] = IF ~Stays(from, boundary, s) THEN -1
                     ELSE IF Popped(from, boundary, s) THEN Pushed(from, s) - 1
                     ELSE Pushed(from, s)
      /\ age'[s] = IF Stays(from, boundary, s) THEN Silence(from, boundary, s) ELSE 0
  BY DEF Mix
<1>2. level[s] \in Int /\ age[s] \in 0..Destroy
  BY DEF AgeInv
<1>3. Pushed(from, s) \in Int
  BY <1>0, <1>2 DEF Pushed, AtMost
<1>4. /\ Silence(from, boundary, s) \in 0..(Destroy + 1)
      /\ boundary /\ s \in Open => Silence(from, boundary, s) \in {0, age[s] + 1}
      /\ ~boundary => Silence(from, boundary, s) \in {0, age[s]}
  BY <1>0, <1>2 DEF Silence, AtMost
<1>5. Stays(from, boundary, s) => Silence(from, boundary, s) <= Destroy
  BY DEF Stays
<1> QED
  BY <1>0, <1>1, <1>2, <1>3, <1>4, <1>5

(* Every step keeps the counts.                                              *)
LEMMA NextAgeInv == AgeInv /\ [Next]_vars => AgeInv'
<1> SUFFICES ASSUME AgeInv, [Next]_vars PROVE AgeInv'
  OBVIOUS
<1>1. CASE Tick
  <2>1. PICK from : Round(from)
    BY <1>1 DEF Tick
  <2>2. Mix(from, round = 0) /\ (round = 0) \in BOOLEAN
    BY <2>1 DEF Round
  <2>3. \A s \in Slot : level'[s] \in Int /\ age'[s] \in 0..Destroy
    BY <2>2, MixAge
  <2>4. /\ level' = [s \in Slot |-> level'[s]]
        /\ age' = [s \in Slot |-> age'[s]]
    BY <2>2 DEF Mix
  <2> QED
    BY <2>3, <2>4 DEF AgeInv
<1>2. CASE Leave
  BY <1>2, MixAssumption DEF Leave, DestroyStreams, AgeInv
<1>3. CASE UNCHANGED <<level, age>>
  BY <1>3 DEF AgeInv
<1> QED
  BY <1>1, <1>2, <1>3
  DEF Next, Join, Disconnect, Press, Release, MoveSlider, ChangeVolume, vars, mixVars

(* The counts hold for ever.                                                 *)
LEMMA AgeInvariance == Spec => []AgeInv
<1>1. Init => AgeInv
  BY MixAssumption DEF Init, MixInit, AgeInv
<1> QED
  BY <1>1, NextAgeInv, PTL DEF Spec

(* No silent stream outlives its time, for any number of streams.            *)
THEOREM SilenceEnds == Spec => []SilenceBounded
<1>1. AgeInv => SilenceBounded
  BY DEF AgeInv, SilenceBounded, Open
<1> QED
  BY <1>1, AgeInvariance, PTL

(* The time of a silent stream runs, in a channel and out of it.             *)
THEOREM SilenceRuns == Spec => [][SilenceCounts]_vars
<1>1. ASSUME AgeInv, [Next]_vars PROVE SilenceCounts
  <2> SUFFICES ASSUME NEW s \in Open \cap Open', age'[s] # 0
               PROVE  /\ Tick /\ round = 0 => age'[s] = age[s] + 1
                      /\ ~(Tick /\ round = 0) => age'[s] = age[s]
    BY DEF SilenceCounts
  <2>0. s \in Slot /\ s \in Open
    BY DEF Open
  <2>1. ASSUME Tick, round = 0 PROVE age'[s] = age[s] + 1
    <3>1. PICK from : Round(from)
      BY <2>1 DEF Tick
    <3>2. Mix(from, TRUE)
      BY <2>1, <3>1 DEF Round
    <3> QED
      BY <1>1, <2>0, <3>2, MixAge
  <2>3. ASSUME Tick, round # 0 PROVE age'[s] = age[s]
    <3>1. PICK from : Round(from)
      BY <2>3 DEF Tick
    <3>2. Mix(from, FALSE)
      BY <2>3, <3>1 DEF Round
    <3> QED
      BY <1>1, <2>0, <3>2, MixAge
  <2>2. ASSUME ~Tick PROVE age'[s] = age[s]
    <3>1. CASE Leave
      <4>1. age'[s] = 0
        BY <2>0, <3>1 DEF Leave, DestroyStreams
      <4> QED
        BY <4>1
    <3>2. CASE UNCHANGED age
      BY <3>2
    <3> QED
      BY <1>1, <2>2, <3>1, <3>2
      DEF Next, Join, Disconnect, Press, Release, MoveSlider, ChangeVolume, vars, mixVars
  <2> QED
    BY <2>1, <2>2, <2>3
<1>2. AgeInv /\ [Next]_vars => [SilenceCounts]_vars
  BY <1>1
<1> QED
  BY <1>2, AgeInvariance, PTL DEF Spec
=============================================================================
