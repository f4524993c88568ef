----------------------------- MODULE RingBuffer -----------------------------
(***************************************************************************)
(* The lock-free single-producer single-consumer ring of core/src/           *)
(* ring_buffer.c, which bridges a platform audio thread and the engine.      *)
(* Each thread loads the other's position once, copies frame by frame while  *)
(* the other thread runs, and publishes its new position with one store.     *)
(*                                                                          *)
(* The code masks positions with capacity - 1, a power of two minus one, so   *)
(* a stored position is below the capacity and masking a sum of a position   *)
(* and a count below the capacity subtracts the capacity at most once.       *)
(***************************************************************************)
EXTENDS Naturals, Sequences

CONSTANTS Cap,       \* rb->capacity: slots, one of which stays empty
          Frame,     \* frames the producer writes
          Silence,   \* what calloc leaves in a slot
          MaxBatch   \* frames one call may ask for

ASSUME RingAssumption ==
  /\ Cap \in Nat /\ Cap > 1
  /\ MaxBatch \in Nat \ {0}
  /\ Silence \notin Frame

VARIABLES
  buffer,     \* rb->buffer
  writePos,   \* rb->write_pos
  readPos,    \* rb->read_pos
  input,      \* the producer's data, <<>> when it is outside ae_ringbuf_write
  toWrite,    \* frames of it that fit
  written,    \* frames copied so far
  toRead,     \* frames the consumer will read, 0 outside ae_ringbuf_read
  output,     \* frames copied out so far
  delivered   \* what the last read returned

producerVars == <<writePos, input, toWrite, written>>
consumerVars == <<readPos, toRead, output, delivered>>
vars == <<buffer, producerVars, consumerVars>>

Slot == 0..(Cap - 1)

Masked(x) == IF x >= Cap THEN x - Cap ELSE x

(* (w - r) & (capacity - 1): frames between the positions.                   *)
Available(w, r) == IF w >= r THEN w - r ELSE w + Cap - r

(* Mutant of FreeSpace: no slot stays empty.                                 *)
FreeSpaceAllSlots(w, r) == Cap - Available(w, r)

FreeSpace(w, r) == (Cap - 1) - Available(w, r)

AtMost(n, limit) == IF n > limit THEN limit ELSE n

Init ==
  /\ buffer = [s \in Slot |-> Silence]
  /\ writePos = 0
  /\ readPos = 0
  /\ input = <<>>
  /\ toWrite = 0
  /\ written = 0
  /\ toRead = 0
  /\ output = <<>>
  /\ delivered = <<>>

---------------------------------------------------------------------------
(* ae_ringbuf_write                                                          *)
WriteBegin(data) ==
  /\ input = <<>>
  /\ FreeSpace(writePos, readPos) > 0
  /\ input' = data
  /\ toWrite' = AtMost(Len(data), FreeSpace(writePos, readPos))
  /\ written' = 0
  /\ UNCHANGED <<buffer, writePos, consumerVars>>

WriteFrame ==
  /\ written < toWrite
  /\ buffer' = [buffer EXCEPT ![Masked(writePos + written)] = input[written + 1]]
  /\ written' = written + 1
  /\ UNCHANGED <<writePos, input, toWrite, consumerVars>>

(* Mutant of WriteEnd: published before the copy is complete.                *)
PublishEarly ==
  /\ toWrite > 0
  /\ writePos' = Masked(writePos + toWrite)
  /\ input' = <<>>
  /\ toWrite' = 0
  /\ written' = 0
  /\ UNCHANGED <<buffer, consumerVars>>

WriteEnd ==
  /\ toWrite > 0
  /\ written = toWrite
  /\ writePos' = Masked(writePos + toWrite)
  /\ input' = <<>>
  /\ toWrite' = 0
  /\ written' = 0
  /\ UNCHANGED <<buffer, consumerVars>>

(* ae_ringbuf_read                                                           *)
ReadBegin(n) ==
  /\ toRead = 0
  /\ Available(writePos, readPos) > 0
  /\ toRead' = AtMost(n, Available(writePos, readPos))
  /\ output' = <<>>
  /\ UNCHANGED <<buffer, producerVars, readPos, delivered>>

ReadFrame ==
  /\ Len(output) < toRead
  /\ output' = Append(output, buffer[Masked(readPos + Len(output))])
  /\ UNCHANGED <<buffer, producerVars, readPos, toRead, delivered>>

ReadEnd ==
  /\ toRead > 0
  /\ Len(output) = toRead
  /\ readPos' = Masked(readPos + toRead)
  /\ delivered' = output
  /\ toRead' = 0
  /\ output' = <<>>
  /\ UNCHANGED <<buffer, producerVars>>

(* ae_ringbuf_reset: only when neither thread is inside the buffer.          *)
Reset ==
  /\ input = <<>>
  /\ toRead = 0
  /\ writePos' = 0
  /\ readPos' = 0
  /\ UNCHANGED <<buffer, input, toWrite, written, toRead, output, delivered>>

Batch == UNION {[1..n -> Frame] : n \in 1..MaxBatch}

Producer == (\E data \in Batch : WriteBegin(data)) \/ WriteFrame \/ WriteEnd
Consumer == (\E n \in 1..MaxBatch : ReadBegin(n)) \/ ReadFrame \/ ReadEnd

Next == Producer \/ Consumer \/ Reset

Spec == Init /\ [][Next]_vars

---------------------------------------------------------------------------
(* Every variable has its type.                                              *)
TypeOK ==
  /\ buffer \in [Slot -> Frame \cup {Silence}]
  /\ writePos \in Slot
  /\ readPos \in Slot
  /\ input \in Seq(Frame)
  /\ toWrite \in 0..(Cap - 1)
  /\ written \in 0..toWrite
  /\ toWrite <= Len(input)
  /\ toRead \in 0..(Cap - 1)
  /\ output \in Seq(Frame \cup {Silence})
  /\ Len(output) <= toRead
  /\ delivered \in Seq(Frame \cup {Silence})

(* The slots a thread copies from or to, from its load of the other's        *)
(* position to its own store.                                                *)
WriteClaim == {Masked(writePos + i) : i \in 0..(toWrite - 1)}
ReadClaim  == {Masked(readPos + i) : i \in 0..(toRead - 1)}

(* No frame is torn: the slots being written and the slots being read are    *)
(* never the same, although each thread works from a position of the other   *)
(* that may have moved since it was loaded.                                  *)
NoTornFrame == WriteClaim \cap ReadClaim = {}

(* The claims never reach past the other thread's position: no unread frame  *)
(* is overwritten and no unwritten slot is read.                             *)
ClaimsFit ==
  /\ toWrite <= FreeSpace(writePos, readPos)
  /\ toRead <= Available(writePos, readPos)

---------------------------------------------------------------------------
(* The frames between the positions, oldest first.                           *)
Content == [i \in 1..Available(writePos, readPos) |-> buffer[Masked(readPos + i - 1)]]

Queue == INSTANCE FrameQueue WITH
           queue <- Content, Capacity <- Cap - 1

(* The ring is a bounded first-in first-out queue: whatever the two threads   *)
(* interleave, a read returns the oldest frames, unchanged and in order.     *)
ImplementsQueue == Queue!Spec
=============================================================================
