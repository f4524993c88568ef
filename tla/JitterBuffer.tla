---------------------------- MODULE JitterBuffer ----------------------------
(***************************************************************************)
(* The jitter buffer of one received stream (core/src/jitter_buffer.c),      *)
(* under the contract of its header: a network thread pushes decoded frames  *)
(* while the audio thread pops them.  Positions are free-running unsigned    *)
(* counters and the level is a third atomic, updated after the position, so  *)
(* each thread sees the other between the two updates.                       *)
(*                                                                          *)
(* Statistics (last_seq, total_pushed, total_popped, underruns) are left     *)
(* out: nothing reads them to decide anything.                               *)
(***************************************************************************)
EXTENDS Integers, Sequences

CONSTANTS Slots,        \* AE_JITTER_MAX_CAPACITY
          MaxDepth,     \* max_depth, clamped to Slots by ae_jitter_create
          TargetDepth,  \* target_depth
          Wrap,         \* 2^32: where the unsigned positions wrap
          Frame, Silence

ASSUME JitterAssumption ==
  /\ Slots \in Nat \ {0}
  /\ MaxDepth \in 1..Slots
  /\ TargetDepth \in Nat \ {0}
  /\ Wrap \in Nat /\ Wrap > Slots

(* Slots that the positions on both sides of the wrap share are further apart *)
(* than the buffer is deep.  A depth of 10 is, with 2^32 % 50 = 46; one       *)
(* above 46 would not be, though ae_jitter_create allows up to 50.           *)
ASSUME WrapAssumption == Wrap % Slots = 0 \/ MaxDepth <= Wrap % Slots

VARIABLES
  frames,     \* jb->frames
  writePos, readPos,
  fill,       \* jb->fill_level
  needsPlc,   \* jb->needs_plc
  fading,     \* jb->crossfade_pending
  pushPc,     \* "idle", "copy", "publish", "count", "finish"
  pushed,     \* the frame of the push under way
  popPc,      \* "idle", "plc", "copy", "advance", "count"
  popped,     \* the frame copied out by the pop under way
  delivered   \* what the last successful pop returned

pushVars == <<writePos, pushPc, pushed>>
popVars  == <<readPos, popPc, popped, delivered>>
vars     == <<frames, fill, needsPlc, fading, pushVars, popVars>>

SlotOf(pos) == pos % Slots
Next1(pos)  == (pos + 1) % Wrap

(* Frames between the positions, in unsigned arithmetic.                     *)
Between == (writePos - readPos) % Wrap

Init ==
  /\ frames = [s \in 0..(Slots - 1) |-> Silence]
  /\ writePos = 0
  /\ readPos = 0
  /\ fill = 0
  /\ needsPlc = FALSE
  /\ fading = FALSE
  /\ pushPc = "idle"
  /\ pushed = Silence
  /\ popPc = "idle"
  /\ popped = Silence
  /\ delivered = <<>>

---------------------------------------------------------------------------
(* Mutant of PushBegin: one frame more than fits.                            *)
PushOneMore(f) ==
  /\ pushPc = "idle"
  /\ fill <= MaxDepth
  /\ pushPc' = "copy"
  /\ pushed' = f
  /\ UNCHANGED <<frames, fill, needsPlc, fading, writePos, popVars>>

(* ae_jitter_push; a frame that finds the buffer full is dropped.            *)
PushBegin(f) ==
  /\ pushPc = "idle"
  /\ fill < MaxDepth
  /\ pushPc' = "copy"
  /\ pushed' = f
  /\ UNCHANGED <<frames, fill, needsPlc, fading, writePos, popVars>>

(* Mutant of PushCopy: copied into the slot after the next.                  *)
PushCopyAhead ==
  /\ pushPc = "copy"
  /\ frames' = [frames EXCEPT ![SlotOf(writePos + 1)] = pushed]
  /\ pushPc' = "publish"
  /\ UNCHANGED <<fill, needsPlc, fading, writePos, pushed, popVars>>

PushCopy ==
  /\ pushPc = "copy"
  /\ frames' = [frames EXCEPT ![SlotOf(writePos)] = pushed]
  /\ pushPc' = "publish"
  /\ UNCHANGED <<fill, needsPlc, fading, writePos, pushed, popVars>>

PushPublish ==
  /\ pushPc = "publish"
  /\ writePos' = Next1(writePos)
  /\ pushPc' = "count"
  /\ UNCHANGED <<frames, fill, needsPlc, fading, pushed, popVars>>

PushCount ==
  /\ pushPc = "count"
  /\ fill' = fill + 1
  /\ pushPc' = "finish"
  /\ UNCHANGED <<frames, needsPlc, fading, writePos, pushed, popVars>>

PushFinish ==
  /\ pushPc = "finish"
  /\ needsPlc' = FALSE
  /\ pushPc' = "idle"
  /\ pushed' = Silence
  /\ UNCHANGED <<frames, fill, fading, writePos, popVars>>

(* ae_jitter_pop                                                             *)
PopBegin ==
  /\ popPc = "idle"
  /\ popPc' = IF fill <= 0 THEN "plc" ELSE "copy"
  /\ UNCHANGED <<frames, fill, needsPlc, fading, pushVars, readPos, popped, delivered>>

(* Mutant of PopUnderrun: an underrun is counted in the level too.           *)
UnderrunCounts ==
  /\ popPc = "plc"
  /\ needsPlc' = TRUE
  /\ fill' = fill - 1
  /\ popPc' = "idle"
  /\ UNCHANGED <<frames, fading, pushVars, readPos, popped, delivered>>

PopUnderrun ==
  /\ popPc = "plc"
  /\ needsPlc' = TRUE
  /\ popPc' = "idle"
  /\ UNCHANGED <<frames, fill, fading, pushVars, readPos, popped, delivered>>

PopCopy ==
  /\ popPc = "copy"
  /\ popped' = frames[SlotOf(readPos)]
  /\ fading' = FALSE
  /\ popPc' = "advance"
  /\ UNCHANGED <<frames, fill, needsPlc, pushVars, readPos, delivered>>

PopAdvance ==
  /\ popPc = "advance"
  /\ readPos' = Next1(readPos)
  /\ delivered' = <<popped>>
  /\ popPc' = "count"
  /\ UNCHANGED <<frames, fill, needsPlc, fading, pushVars, popped>>

(* The level goes down; were it still above the maximum, frames down to the  *)
(* target would be skipped and the next pop cross-faded.  NeverTooFull says  *)
(* the branch is dead, so its loop is taken here in one step.                *)
PopCount ==
  /\ popPc = "count"
  /\ IF fill - 1 > MaxDepth
     THEN /\ fill' = TargetDepth
          /\ readPos' = (readPos + fill - 1 - TargetDepth) % Wrap
          /\ fading' = TRUE
     ELSE /\ fill' = fill - 1
          /\ UNCHANGED <<readPos, fading>>
  /\ popPc' = "idle"
  /\ popped' = Silence
  /\ UNCHANGED <<frames, needsPlc, pushVars, delivered>>

(* ae_jitter_reset: not thread-safe, so neither thread is inside.            *)
Reset ==
  /\ pushPc = "idle" /\ popPc = "idle"
  /\ writePos' = 0
  /\ readPos' = 0
  /\ fill' = 0
  /\ needsPlc' = FALSE
  /\ fading' = FALSE
  /\ UNCHANGED <<frames, pushPc, pushed, popPc, popped, delivered>>

Push == (\E f \in Frame : PushBegin(f))
        \/ PushCopy \/ PushPublish \/ PushCount \/ PushFinish
Pop  == PopBegin \/ PopUnderrun \/ PopCopy \/ PopAdvance \/ PopCount

Next == Push \/ Pop \/ Reset

Spec == Init /\ [][Next]_vars

---------------------------------------------------------------------------
(* The level is the distance of the positions, off by one only while a       *)
(* thread is between moving its position and correcting the level; it never  *)
(* goes below zero although push and pop update it without a lock.           *)
LevelExact ==
  fill = Between - (IF pushPc = "count" THEN 1 ELSE 0)
                 + (IF popPc = "count" THEN 1 ELSE 0)

(* The level never passes the maximum, so pop never skips a frame and never  *)
(* cross-fades: the catch-up branch of ae_jitter_pop is dead code.           *)
NeverTooFull == fill <= MaxDepth /\ ~fading

(* The frames that wait, oldest first.                                       *)
Content == [i \in 1..Between |-> frames[SlotOf((readPos + i - 1) % Wrap)]]

Queue == INSTANCE FrameQueue WITH queue <- Content, Capacity <- MaxDepth

(* The buffer is a first-in first-out queue of MaxDepth frames.              *)
ImplementsQueue == Queue!Spec
=============================================================================
