----------------------------- MODULE RingProofs -----------------------------
(***************************************************************************)
(* Proofs about RingBuffer, for any capacity, batch size and kind of frame.  *)
(* A claim is made from a load of the other thread's position that may be    *)
(* stale by the time it is used; the argument is that staleness only ever    *)
(* understates: the writer's moves add frames to read and the reader's moves *)
(* add room to write, so a claim that fitted when made fits until its end.   *)
(* So a copy stays what it was until it is published or returned, and so the *)
(* ring is the queue of FrameQueue.                                          *)
(***************************************************************************)
EXTENDS RingBuffer, SequenceTheorems, TLAPS

IInv == TypeOK /\ ClaimsFit

(* Positions stay inside the ring, and room and content share the slots that *)
(* are not kept empty.                                                       *)
LEMMA PositionArithmetic ==
  ASSUME NEW w \in Slot, NEW r \in Slot
  PROVE  /\ Available(w, r) \in 0..(Cap - 1)
         /\ FreeSpace(w, r) \in 0..(Cap - 1)
         /\ FreeSpace(w, r) = (Cap - 1) - Available(w, r)
  BY RingAssumption DEF Slot, Available, FreeSpace

(* A masked position is a slot of the ring.                                  *)
LEMMA MaskedInSlot ==
  ASSUME NEW p \in Slot, NEW n \in 0..(Cap - 1)
  PROVE  Masked(p + n) \in Slot
  BY RingAssumption DEF Slot, Masked

(* Publishing n written frames makes exactly n more available.               *)
LEMMA WriterAdvances ==
  ASSUME NEW w \in Slot, NEW r \in Slot, NEW n \in 0..(Cap - 1), n <= FreeSpace(w, r)
  PROVE  Available(Masked(w + n), r) = Available(w, r) + n
  BY RingAssumption DEF Slot, Masked, Available, FreeSpace

(* Giving back n read frames makes exactly n fewer available.                *)
LEMMA ReaderAdvances ==
  ASSUME NEW w \in Slot, NEW r \in Slot, NEW n \in 0..(Cap - 1), n <= Available(w, r)
  PROVE  Available(w, Masked(r + n)) = Available(w, r) - n
  BY RingAssumption DEF Slot, Masked, Available

(* A batch is a non-empty sequence of frames.                                *)
LEMMA BatchIsSeq ==
  ASSUME NEW data \in Batch
  PROVE  data \in Seq(Frame) /\ Len(data) \in 1..MaxBatch
<1>1. PICK n \in 1..MaxBatch : data \in [1..n -> Frame]
  BY DEF Batch
<1>2. n \in Nat
  BY <1>1, RingAssumption
<1> QED
  BY <1>1, <1>2, SeqDef

---------------------------------------------------------------------------
(* An empty ring satisfies the invariant.                                    *)
LEMMA InitIInv == Init => IInv
<1> SUFFICES ASSUME Init PROVE IInv
  OBVIOUS
<1>1. <<>> \in Seq(Frame) /\ <<>> \in Seq(Frame \cup {Silence}) /\ Len(<<>>) = 0
  OBVIOUS
<1>2. 0 \in Slot
  BY RingAssumption DEF Slot
<1> QED
  BY <1>1, <1>2, PositionArithmetic, RingAssumption DEF Init, IInv, TypeOK, ClaimsFit, Slot

(* Every step of either thread keeps the invariant.                          *)
LEMMA NextIInv == IInv /\ [Next]_vars => IInv'
<1> SUFFICES ASSUME IInv, [Next]_vars PROVE IInv'
  OBVIOUS
<1> USE RingAssumption
<1>t. TypeOK /\ ClaimsFit
  BY DEF IInv
<1>p. /\ writePos \in Slot /\ readPos \in Slot
      /\ Available(writePos, readPos) \in 0..(Cap - 1)
      /\ FreeSpace(writePos, readPos) \in 0..(Cap - 1)
  BY <1>t, PositionArithmetic DEF TypeOK
<1>1. ASSUME NEW data \in Batch, WriteBegin(data) PROVE IInv'
  <2>1. data \in Seq(Frame) /\ Len(data) \in Nat
    BY BatchIsSeq
  <2>2. /\ AtMost(Len(data), FreeSpace(writePos, readPos)) \in 0..(Cap - 1)
        /\ AtMost(Len(data), FreeSpace(writePos, readPos)) <= Len(data)
        /\ AtMost(Len(data), FreeSpace(writePos, readPos)) <= FreeSpace(writePos, readPos)
    BY <2>1, <1>p DEF AtMost
  <2> QED
    BY <1>t, <1>1, <2>1, <2>2 DEF WriteBegin, IInv, TypeOK, ClaimsFit, consumerVars
<1>2. CASE WriteFrame
  <2>1. input[written + 1] \in Frame
    BY <1>t, <1>2 DEF WriteFrame, TypeOK
  <2>2. buffer' \in [Slot -> Frame \cup {Silence}]
    BY <1>t, <1>2, <2>1 DEF WriteFrame, TypeOK
  <2>3. written' \in 0..toWrite
    BY <1>t, <1>2 DEF WriteFrame, TypeOK
  <2>4. UNCHANGED <<writePos, input, toWrite, readPos, toRead, output, delivered>>
    BY <1>2 DEF WriteFrame, consumerVars
  <2> QED
    BY <1>t, <2>2, <2>3, <2>4 DEF IInv, TypeOK, ClaimsFit
<1>3. CASE WriteEnd
  <2>1. writePos' \in Slot
    BY <1>t, <1>p, <1>3, MaskedInSlot DEF WriteEnd, TypeOK
  <2>2. Available(writePos', readPos) = Available(writePos, readPos) + toWrite
    BY <1>t, <1>p, <1>3, WriterAdvances DEF WriteEnd, TypeOK, ClaimsFit
  <2>3. toRead <= Available(writePos', readPos) /\ 0 <= FreeSpace(writePos', readPos)
    BY <1>t, <1>p, <2>1, <2>2, PositionArithmetic DEF TypeOK, ClaimsFit
  <2> QED
    BY <1>t, <1>3, <2>1, <2>3 DEF WriteEnd, IInv, TypeOK, ClaimsFit, consumerVars
<1>4. ASSUME NEW n \in 1..MaxBatch, ReadBegin(n) PROVE IInv'
  <2>1. /\ AtMost(n, Available(writePos, readPos)) \in 0..(Cap - 1)
        /\ AtMost(n, Available(writePos, readPos)) <= Available(writePos, readPos)
    BY <1>p DEF AtMost
  <2> QED
    BY <1>t, <1>4, <2>1 DEF ReadBegin, IInv, TypeOK, ClaimsFit, producerVars
<1>5. CASE ReadFrame
  <2>1. buffer[Masked(readPos + Len(output))] \in Frame \cup {Silence}
    BY <1>t, <1>p, <1>5, MaskedInSlot DEF ReadFrame, TypeOK
  <2>2. output' \in Seq(Frame \cup {Silence}) /\ Len(output') = Len(output) + 1
    BY <1>t, <1>5, <2>1 DEF ReadFrame, TypeOK
  <2>3. Len(output') <= toRead
    BY <1>t, <1>5, <2>2 DEF ReadFrame, TypeOK
  <2>4. UNCHANGED <<buffer, writePos, input, toWrite, written, readPos, toRead, delivered>>
    BY <1>5 DEF ReadFrame, producerVars
  <2> QED
    BY <1>t, <2>2, <2>3, <2>4 DEF IInv, TypeOK, ClaimsFit
<1>6. CASE ReadEnd
  <2>1. readPos' \in Slot
    BY <1>t, <1>p, <1>6, MaskedInSlot DEF ReadEnd, TypeOK
  <2>2. Available(writePos, readPos') = Available(writePos, readPos) - toRead
    BY <1>t, <1>p, <1>6, ReaderAdvances DEF ReadEnd, TypeOK, ClaimsFit
  <2>3. /\ FreeSpace(writePos, readPos') = FreeSpace(writePos, readPos) + toRead
        /\ 0 <= Available(writePos, readPos')
    BY <1>t, <1>p, <2>1, <2>2, PositionArithmetic DEF TypeOK
  <2>4. toWrite <= FreeSpace(writePos, readPos')
    BY <1>t, <1>p, <2>3 DEF TypeOK, ClaimsFit
  <2> QED
    BY <1>t, <1>6, <2>1, <2>3, <2>4 DEF ReadEnd, IInv, TypeOK, ClaimsFit, producerVars
<1>7. CASE Reset
  <2>1. toRead = 0 /\ 0 \in Slot /\ Available(0, 0) = 0 /\ FreeSpace(0, 0) = Cap - 1
    BY <1>7 DEF Reset, Slot, Available, FreeSpace
  <2> QED
    BY <1>t, <1>7, <2>1 DEF Reset, IInv, TypeOK, ClaimsFit
<1>8. CASE UNCHANGED vars
  BY <1>t, <1>8 DEF vars, producerVars, consumerVars, IInv, TypeOK, ClaimsFit
<1> QED
  BY <1>1, <1>2, <1>3, <1>4, <1>5, <1>6, <1>7, <1>8 DEF Next, Producer, Consumer

(* The invariant holds for ever.                                             *)
LEMMA Invariance == Spec => []IInv
  BY InitIInv, NextIInv, PTL DEF Spec

(* Positions, batches and results keep their types, for every capacity.      *)
THEOREM TypeCorrect == Spec => []TypeOK
  BY Invariance, PTL DEF IInv

(* Claims that fit between the positions cannot meet in a slot.              *)
LEMMA ClaimsDisjoint ==
  ASSUME NEW w \in Slot, NEW r \in Slot, NEW i \in Nat, NEW j \in Nat,
         i < FreeSpace(w, r), j < Available(w, r)
  PROVE  Masked(w + i) # Masked(r + j)
  BY RingAssumption DEF Slot, Masked, Available, FreeSpace

(* The two threads never copy from and to the same slot at the same time,    *)
(* whatever the capacity and the batch sizes.                                *)
THEOREM NoTorn == Spec => []NoTornFrame
<1>1. IInv => NoTornFrame
  <2> SUFFICES ASSUME IInv, NEW i \in 0..(toWrite - 1), NEW j \in 0..(toRead - 1)
               PROVE  Masked(writePos + i) # Masked(readPos + j)
    BY DEF NoTornFrame, WriteClaim, ReadClaim
  <2>1. /\ writePos \in Slot /\ readPos \in Slot
        /\ i \in Nat /\ i < toWrite /\ j \in Nat /\ j < toRead
        /\ toWrite \in Nat /\ toRead \in Nat
    BY RingAssumption DEF IInv, TypeOK
  <2>2. i < FreeSpace(writePos, readPos) /\ j < Available(writePos, readPos)
    BY <2>1, PositionArithmetic DEF IInv, ClaimsFit
  <2> QED
    BY <2>1, <2>2, ClaimsDisjoint
<1> QED
  BY <1>1, Invariance, PTL

---------------------------------------------------------------------------
(* What a thread has copied is what lies in the ring.                        *)
Copied ==
  /\ \A i \in 0..(written - 1) : buffer[Masked(writePos + i)] = input[i + 1]
  /\ \A j \in 0..(Len(output) - 1) : output[j + 1] = buffer[Masked(readPos + j)]

(* Different offsets below the capacity name different slots.                *)
LEMMA MaskedInjective ==
  ASSUME NEW p \in Slot, NEW i \in 0..(Cap - 1), NEW j \in 0..(Cap - 1), i # j
  PROVE  Masked(p + i) # Masked(p + j)
  BY RingAssumption DEF Slot, Masked

(* Offsets beyond the content of the ring are offsets from the write         *)
(* position.                                                                 *)
LEMMA BeyondContent ==
  ASSUME NEW w \in Slot, NEW r \in Slot, NEW i \in Nat,
         Available(w, r) + i <= Cap - 1
  PROVE  Masked(r + (Available(w, r) + i)) = Masked(w + i)
  BY RingAssumption DEF Slot, Masked, Available

(* Masking twice is masking once.                                            *)
LEMMA MaskedTwice ==
  ASSUME NEW p \in Slot, NEW i \in Nat, NEW j \in Nat, i + j <= Cap - 1
  PROVE  Masked(Masked(p + i) + j) = Masked(p + (i + j))
  BY RingAssumption DEF Slot, Masked

(* What the invariant says of the numbers the two threads work with.         *)
LEMMA Numbers ==
  ASSUME IInv
  PROVE  /\ writePos \in Slot /\ readPos \in Slot
         /\ toWrite \in Nat /\ written \in Nat /\ written <= toWrite
         /\ toWrite <= Len(input) /\ Len(input) \in Nat
         /\ toRead \in Nat /\ Len(output) \in Nat /\ Len(output) <= toRead
         /\ Available(writePos, readPos) \in 0..(Cap - 1)
         /\ FreeSpace(writePos, readPos) = (Cap - 1) - Available(writePos, readPos)
         /\ toWrite <= FreeSpace(writePos, readPos)
         /\ toRead <= Available(writePos, readPos)
<1>1. writePos \in Slot /\ readPos \in Slot
  BY DEF IInv, TypeOK
<1>2. /\ toWrite \in Nat /\ written \in Nat /\ written <= toWrite
      /\ toWrite <= Len(input) /\ Len(input) \in Nat
      /\ toRead \in Nat /\ Len(output) \in Nat /\ Len(output) <= toRead
  BY RingAssumption DEF IInv, TypeOK
<1>3. /\ Available(writePos, readPos) \in 0..(Cap - 1)
      /\ FreeSpace(writePos, readPos) = (Cap - 1) - Available(writePos, readPos)
  BY <1>1, PositionArithmetic
<1> QED
  BY <1>1, <1>2, <1>3 DEF IInv, ClaimsFit

(* The frame a write copies lands in no slot that holds a frame to be read.  *)
LEMMA WriteOutsideContent ==
  ASSUME IInv, WriteFrame, NEW j \in 0..(Available(writePos, readPos) - 1)
  PROVE  buffer'[Masked(readPos + j)] = buffer[Masked(readPos + j)]
<1>1. written \in Nat /\ written < FreeSpace(writePos, readPos)
  BY RingAssumption, Numbers DEF WriteFrame
<1>2. j \in Nat /\ j < Available(writePos, readPos)
  BY RingAssumption, Numbers
<1>3. Masked(writePos + written) # Masked(readPos + j)
  BY <1>1, <1>2, Numbers, ClaimsDisjoint
<1>4. Masked(readPos + j) \in Slot
  BY <1>2, Numbers, MaskedInSlot, RingAssumption
<1>5. buffer \in [Slot -> Frame \cup {Silence}]
  BY DEF IInv, TypeOK
<1> QED
  BY <1>3, <1>4, <1>5 DEF WriteFrame

(* Copies stay true until they are published or returned: nobody writes a    *)
(* slot that is being read, nor one that was just written.                   *)
LEMMA NextCopied == IInv /\ Copied /\ [Next]_vars => Copied'
<1> SUFFICES ASSUME IInv, Copied, [Next]_vars PROVE Copied'
  OBVIOUS
<1> USE RingAssumption
<1>n. /\ toWrite \in Nat /\ written \in Nat /\ written <= toWrite
      /\ Len(output) \in Nat /\ Len(output) <= toRead
      /\ toRead <= Available(writePos, readPos) /\ toWrite <= Cap - 1
  BY Numbers
<1>t. /\ buffer \in [Slot -> Frame \cup {Silence}]
      /\ output \in Seq(Frame \cup {Silence})
      /\ writePos \in Slot /\ readPos \in Slot
  BY DEF IInv, TypeOK
<1>1. ASSUME NEW data \in Batch, WriteBegin(data) PROVE Copied'
  BY <1>1 DEF WriteBegin, consumerVars, Copied
<1>2. CASE WriteFrame
  <2>1. ASSUME NEW i \in 0..(written' - 1)
        PROVE  buffer'[Masked(writePos + i)] = input[i + 1]
    <3>1. /\ written' = written + 1 /\ written < toWrite
          /\ buffer' = [buffer EXCEPT ![Masked(writePos + written)] = input[written + 1]]
      BY <1>2 DEF WriteFrame
    <3>2. Masked(writePos + i) \in Slot
      BY <1>n, <1>t, <3>1, MaskedInSlot
    <3>3. CASE i = written
      BY <1>t, <3>1, <3>2, <3>3
    <3>4. CASE i # written
      <4>1. i \in 0..(written - 1) /\ i \in 0..(Cap - 1) /\ written \in 0..(Cap - 1)
        BY <1>n, <3>1, <3>4
      <4>2. Masked(writePos + i) # Masked(writePos + written)
        BY <1>t, <3>4, <4>1, MaskedInjective
      <4> QED
        BY <1>t, <3>1, <3>2, <4>1, <4>2 DEF Copied
    <3> QED
      BY <3>3, <3>4
  <2>2. ASSUME NEW j \in 0..(Len(output) - 1)
        PROVE  output[j + 1] = buffer'[Masked(readPos + j)]
    <3>1. j \in 0..(Available(writePos, readPos) - 1)
      BY <1>n, Numbers
    <3> QED
      BY <1>2, <3>1, WriteOutsideContent DEF Copied
  <2> QED
    BY <1>2, <2>1, <2>2 DEF WriteFrame, consumerVars, Copied
<1>3. CASE WriteEnd
  BY <1>3 DEF WriteEnd, consumerVars, Copied
<1>4. ASSUME NEW n \in 1..MaxBatch, ReadBegin(n) PROVE Copied'
  BY <1>4 DEF ReadBegin, producerVars, Copied
<1>5. CASE ReadFrame
  <2>1. /\ Len(output') = Len(output) + 1
        /\ \A j \in 0..(Len(output) - 1) : output'[j + 1] = output[j + 1]
        /\ output'[Len(output) + 1] = buffer[Masked(readPos + Len(output))]
    <3>1. buffer[Masked(readPos + Len(output))] \in Frame \cup {Silence}
      BY <1>n, <1>t, <1>5, MaskedInSlot, Numbers DEF ReadFrame
    <3> QED
      BY <1>n, <1>t, <1>5, <3>1 DEF ReadFrame
  <2>2. \A j \in 0..(Len(output') - 1) : output'[j + 1] = buffer[Masked(readPos + j)]
    BY <1>n, <2>1 DEF Copied
  <2> QED
    BY <1>5, <2>2 DEF ReadFrame, producerVars, Copied
<1>6. CASE ReadEnd
  BY <1>6 DEF ReadEnd, producerVars, Copied
<1>7. CASE Reset
  <2>1. written = 0 /\ Len(output) = 0
    BY <1>n, <1>7 DEF Reset, IInv, TypeOK
  <2> QED
    BY <1>7, <2>1 DEF Reset, Copied
<1>8. CASE UNCHANGED vars
  BY <1>8 DEF vars, producerVars, consumerVars, Copied
<1> QED
  BY <1>1, <1>2, <1>3, <1>4, <1>5, <1>6, <1>7, <1>8 DEF Next, Producer, Consumer

---------------------------------------------------------------------------
Sample == Frame \cup {Silence}

ContentOf(b, w, r) == [i \in 1..Available(w, r) |-> b[Masked(r + i - 1)]]

(* The content is a sequence, and its elements count from the read position. *)
LEMMA ContentShape ==
  ASSUME NEW b \in [Slot -> Sample], NEW w \in Slot, NEW r \in Slot
  PROVE  /\ ContentOf(b, w, r) \in Seq(Sample)
         /\ Len(ContentOf(b, w, r)) = Available(w, r)
         /\ Available(w, r) \in 0..(Cap - 1)
         /\ \A i \in 1..Available(w, r) :
              ContentOf(b, w, r)[i] = b[Masked(r + (i - 1))]
<1>1. Available(w, r) \in 0..(Cap - 1)
  BY PositionArithmetic
<1>2. \A i \in 1..Available(w, r) : r + i - 1 = r + (i - 1) /\ i - 1 \in 0..(Cap - 1)
  BY <1>1, RingAssumption DEF Slot
<1>3. \A i \in 1..Available(w, r) : b[Masked(r + i - 1)] \in Sample
  BY <1>2, MaskedInSlot
<1>4. ContentOf(b, w, r) \in [1..Available(w, r) -> Sample]
  BY <1>3 DEF ContentOf
<1>5. ContentOf(b, w, r) \in Seq(Sample) /\ Len(ContentOf(b, w, r)) = Available(w, r)
  BY <1>1, <1>4, RingAssumption
<1> QED
  BY <1>1, <1>2, <1>5 DEF ContentOf

(* An empty ring is an empty queue.                                          *)
LEMMA MapsInit == Init => Queue!Init
<1> SUFFICES ASSUME Init PROVE Content = <<>> /\ delivered = <<>>
  BY DEF Queue!Init
<1>1. Available(writePos, readPos) = 0
  BY DEF Init, Available
<1> QED
  BY <1>1 DEF Init, Content

(* Publishing is putting the copied frames.                                  *)
LEMMA WriteEndPuts == IInv /\ Copied /\ WriteEnd => Queue!Put
<1> SUFFICES ASSUME IInv, Copied, WriteEnd PROVE Queue!Put
  OBVIOUS
<1> USE RingAssumption
<1> DEFINE batch == SubSeq(input, 1, toWrite)
           room  == Available(writePos, readPos)
           w     == Masked(writePos + toWrite)
<1>1. /\ buffer \in [Slot -> Sample] /\ writePos \in Slot /\ readPos \in Slot
      /\ input \in Seq(Frame) /\ delivered' = delivered
      /\ buffer' = buffer /\ readPos' = readPos
      /\ writePos' = w /\ written = toWrite
  BY DEF IInv, TypeOK, WriteEnd, consumerVars, Sample
<1>2. /\ toWrite \in 0..(Cap - 1) /\ toWrite > 0 /\ toWrite <= Len(input) /\ Len(input) \in Nat
      /\ room \in 0..(Cap - 1) /\ room + toWrite <= Cap - 1
      /\ toWrite <= FreeSpace(writePos, readPos)
  BY Numbers DEF WriteEnd
<1>3. w \in Slot /\ Available(w, readPos) = room + toWrite
  BY <1>1, <1>2, MaskedInSlot, WriterAdvances
<1>4. batch \in Seq(Frame) /\ Len(batch) = toWrite /\ batch \in [1..toWrite -> Frame]
      /\ \A k \in 1..toWrite : batch[k] = input[k]
  <2>1. \A k \in 1..toWrite : input[k] \in Frame
    BY <1>1, <1>2
  <2>2. /\ batch \in Seq(Frame) /\ Len(batch) = toWrite
        /\ \A k \in 1..toWrite : batch[k] = input[1 + k - 1]
    BY <1>2, <2>1, SubSeqProperties
  <2>3. \A k \in 1..toWrite : batch[k] = input[k]
    BY <1>2, <2>2
  <2> HIDE DEF batch
  <2> QED
    BY <1>2, <2>2, <2>3
<1>5. /\ Content = ContentOf(buffer, writePos, readPos)
      /\ Content' = ContentOf(buffer, writePos', readPos)
  BY <1>1 DEF Content, ContentOf
<1>6. /\ Content \in Seq(Sample) /\ Len(Content) = room
      /\ \A i \in 1..room : Content[i] = buffer[Masked(readPos + (i - 1))]
  <2>1. /\ buffer \in [Slot -> Sample] /\ writePos \in Slot /\ readPos \in Slot
        /\ Available(writePos, readPos) = room
    BY <1>1
  <2>2. /\ ContentOf(buffer, writePos, readPos) \in Seq(Sample)
        /\ Len(ContentOf(buffer, writePos, readPos)) = Available(writePos, readPos)
        /\ \A i \in 1..Available(writePos, readPos) :
             ContentOf(buffer, writePos, readPos)[i] = buffer[Masked(readPos + (i - 1))]
    BY <2>1, ContentShape
  <2> QED
    BY <1>5, <2>1, <2>2
<1>7. /\ Content' \in Seq(Sample) /\ Len(Content') = room + toWrite
      /\ \A i \in 1..(room + toWrite) : Content'[i] = buffer[Masked(readPos + (i - 1))]
  <2>1. w \in Slot /\ readPos \in Slot /\ Content' = ContentOf(buffer, w, readPos)
    BY <1>1, <1>3, <1>5
  <2> HIDE DEF w
  <2>2. /\ Content' \in Seq(Sample) /\ Len(Content') = Available(w, readPos)
        /\ \A i \in 1..Available(w, readPos) : Content'[i] = buffer[Masked(readPos + (i - 1))]
    <3>1. buffer \in [Slot -> Sample]
      BY <1>1
    <3>2. /\ ContentOf(buffer, w, readPos) \in Seq(Sample)
          /\ Len(ContentOf(buffer, w, readPos)) = Available(w, readPos)
          /\ \A i \in 1..Available(w, readPos) :
               ContentOf(buffer, w, readPos)[i] = buffer[Masked(readPos + (i - 1))]
      BY <2>1, <3>1, ContentShape
    <3> QED
      BY <2>1, <3>2
  <2> HIDE DEF room
  <2> QED
    BY <1>3, <2>2
<1> HIDE DEF w, room, batch
<1>8. batch \in Seq(Sample)
  BY <1>4, SeqMonotonic DEF Sample
<1>9. /\ Content \o batch \in Seq(Sample) /\ Len(Content \o batch) = room + toWrite
      /\ \A i \in 1..(room + toWrite) :
           (Content \o batch)[i] = IF i <= room THEN Content[i] ELSE batch[i - room]
  <2>1. /\ Content \o batch \in Seq(Sample)
        /\ Len(Content \o batch) = Len(Content) + Len(batch)
        /\ \A i \in 1..(Len(Content) + Len(batch)) :
             (Content \o batch)[i] =
               IF i <= Len(Content) THEN Content[i] ELSE batch[i - Len(Content)]
    BY <1>6, <1>8, ConcatProperties
  <2> QED
    BY <1>4, <1>6, <2>1
<1>10. ASSUME NEW i \in 1..(room + toWrite) PROVE Content'[i] = (Content \o batch)[i]
  <2> i <= room \/ i > room
    BY <1>2
  <2>1. CASE i <= room
    <3>1. i \in 1..room /\ i \in 1..(room + toWrite)
      BY <1>2, <2>1
    <3>2. Content'[i] = buffer[Masked(readPos + (i - 1))]
      BY <1>7, <3>1
    <3>3. Content[i] = buffer[Masked(readPos + (i - 1))]
      BY <1>6, <3>1
    <3>4. (Content \o batch)[i] = Content[i]
      BY <1>9, <2>1
    <3> QED
      BY <3>2, <3>3, <3>4
  <2>2. CASE i > room
    <3> DEFINE k == i - room - 1
    <3>1. k \in Nat /\ k \in 0..(written - 1) /\ k + 1 \in 1..toWrite
          /\ room + k = i - 1 /\ k + 1 = i - room /\ room + k <= Cap - 1
      BY <1>1, <1>2, <2>2
    <3> HIDE DEF k
    <3>2. buffer[Masked(writePos + k)] = input[k + 1]
      BY <3>1 DEF Copied
    <3>3. Masked(readPos + (room + k)) = Masked(writePos + k)
      <4>1. k \in Nat /\ Available(writePos, readPos) + k <= Cap - 1
        BY <3>1 DEF room
      <4> QED
        BY <1>1, <4>1, BeyondContent DEF room
    <3>4. Content'[i] = input[k + 1]
      BY <1>7, <3>1, <3>2, <3>3
    <3>5. (Content \o batch)[i] = batch[k + 1]
      <4>1. (Content \o batch)[i] = batch[i - room]
        BY <1>2, <1>9, <2>2
      <4> QED
        BY <3>1, <4>1
    <3> QED
      BY <1>4, <3>1, <3>4, <3>5
  <2> QED
    BY <2>1, <2>2
<1>11. Content' = Content \o batch
  BY <1>7, <1>9, <1>10, SeqEqual
<1>12. toWrite \in 1..(Cap - 1 - Len(Content))
  BY <1>2, <1>6
<1> QED
  BY <1>1, <1>4, <1>11, <1>12 DEF Queue!Put

(* Giving slots back is taking the frames that were copied out of them.      *)
LEMMA ReadEndTakes == IInv /\ Copied /\ ReadEnd => Queue!Take
<1> SUFFICES ASSUME IInv, Copied, ReadEnd PROVE Queue!Take
  OBVIOUS
<1> USE RingAssumption
<1> DEFINE room == Available(writePos, readPos)
           r    == Masked(readPos + toRead)
           rest == SubSeq(Content, toRead + 1, Len(Content))
<1>1. /\ buffer \in [Slot -> Sample] /\ writePos \in Slot /\ readPos \in Slot
      /\ output \in Seq(Sample) /\ delivered' = output /\ Len(output) = toRead
      /\ buffer' = buffer /\ writePos' = writePos /\ readPos' = r
  BY DEF IInv, TypeOK, ReadEnd, producerVars, Sample
<1>2. /\ toRead \in 0..(Cap - 1) /\ toRead > 0 /\ toRead <= room
      /\ room \in 0..(Cap - 1)
  BY Numbers DEF ReadEnd
<1>3. r \in Slot /\ Available(writePos, r) = room - toRead
  BY <1>1, <1>2, MaskedInSlot, ReaderAdvances
<1>4. /\ Content = ContentOf(buffer, writePos, readPos)
      /\ Content' = ContentOf(buffer, writePos, r)
  BY <1>1 DEF Content, ContentOf
<1>5. /\ Content \in Seq(Sample) /\ Len(Content) = room
      /\ \A i \in 1..room : Content[i] = buffer[Masked(readPos + (i - 1))]
  BY <1>1, <1>4, ContentShape
<1>6. /\ Content' \in Seq(Sample) /\ Len(Content') = room - toRead
      /\ \A i \in 1..(room - toRead) : Content'[i] = buffer[Masked(r + (i - 1))]
  <2>1. r \in Slot /\ writePos \in Slot /\ Content' = ContentOf(buffer, writePos, r)
    BY <1>1, <1>3, <1>4
  <2> HIDE DEF r
  <2>2. /\ Content' \in Seq(Sample) /\ Len(Content') = Available(writePos, r)
        /\ \A i \in 1..Available(writePos, r) : Content'[i] = buffer[Masked(r + (i - 1))]
    <3>1. buffer \in [Slot -> Sample]
      BY <1>1
    <3>2. /\ ContentOf(buffer, writePos, r) \in Seq(Sample)
          /\ Len(ContentOf(buffer, writePos, r)) = Available(writePos, r)
          /\ \A i \in 1..Available(writePos, r) :
               ContentOf(buffer, writePos, r)[i] = buffer[Masked(r + (i - 1))]
      BY <2>1, <3>1, ContentShape
    <3> QED
      BY <2>1, <3>2
  <2> HIDE DEF room
  <2> QED
    BY <1>3, <2>2
<1>7. \A i \in 1..(room - toRead) : Masked(r + (i - 1)) = Masked(readPos + (toRead + (i - 1)))
  <2> HIDE DEF room
  <2> SUFFICES ASSUME NEW i \in 1..(room - toRead)
               PROVE  Masked(r + (i - 1)) = Masked(readPos + (toRead + (i - 1)))
    OBVIOUS
  <2>1. toRead \in Nat /\ i - 1 \in Nat /\ toRead + (i - 1) <= Cap - 1
    BY <1>2
  <2> QED
    BY <1>1, <2>1, MaskedTwice
<1> HIDE DEF room, r
<1>8. delivered' = SubSeq(Content, 1, toRead)
  <2>1. \A i \in 1..toRead : Content[i] \in Sample
    BY <1>2, <1>5
  <2>2. /\ SubSeq(Content, 1, toRead) \in Seq(Sample)
        /\ Len(SubSeq(Content, 1, toRead)) = toRead
        /\ \A i \in 1..toRead : SubSeq(Content, 1, toRead)[i] = Content[1 + i - 1]
    BY <1>2, <2>1, SubSeqProperties
  <2>3. ASSUME NEW i \in 1..toRead PROVE output[i] = SubSeq(Content, 1, toRead)[i]
    <3>1. /\ i - 1 \in 0..(Len(output) - 1) /\ (i - 1) + 1 = i /\ 1 + i - 1 = i
          /\ i \in 1..room
      BY <1>1, <1>2
    <3>2. output[i] = buffer[Masked(readPos + (i - 1))]
      BY <3>1 DEF Copied
    <3>3. Content[i] = buffer[Masked(readPos + (i - 1))]
      BY <1>5, <3>1
    <3> QED
      BY <2>2, <3>1, <3>2, <3>3
  <2> QED
    BY <1>1, <2>2, <2>3, SeqEqual
<1>9. Content' = rest
  <2>1. \A i \in (toRead + 1)..room : Content[i] \in Sample
    BY <1>2, <1>5
  <2>2. /\ rest \in Seq(Sample) /\ Len(rest) = room - toRead
        /\ \A i \in 1..(room - toRead) : rest[i] = Content[toRead + i]
    <3>1. toRead + 1 \in Int /\ room \in Int /\ rest = SubSeq(Content, toRead + 1, room)
      BY <1>2, <1>5
    <3> HIDE DEF rest, room
    <3>2. /\ SubSeq(Content, toRead + 1, room) \in Seq(Sample)
          /\ Len(SubSeq(Content, toRead + 1, room)) =
               IF toRead + 1 <= room THEN room - (toRead + 1) + 1 ELSE 0
          /\ \A i \in 1..(room - (toRead + 1) + 1) :
               SubSeq(Content, toRead + 1, room)[i] = Content[(toRead + 1) + i - 1]
      BY <2>1, <3>1, SubSeqProperties
    <3>3. room - (toRead + 1) + 1 = room - toRead
      BY <1>2
    <3>4. \A i \in 1..(room - toRead) : (toRead + 1) + i - 1 = toRead + i
      BY <1>2
    <3> QED
      BY <1>2, <3>1, <3>2, <3>3, <3>4
  <2> HIDE DEF rest
  <2>3. ASSUME NEW i \in 1..(room - toRead) PROVE Content'[i] = rest[i]
    <3>1. toRead + i \in 1..room /\ (toRead + i) - 1 = toRead + (i - 1)
      BY <1>2
    <3>2. Content[toRead + i] = buffer[Masked(readPos + (toRead + (i - 1)))]
      BY <1>5, <3>1
    <3>3. Content'[i] = buffer[Masked(readPos + (toRead + (i - 1)))]
      BY <1>6, <1>7
    <3> QED
      BY <2>2, <3>2, <3>3
  <2> QED
    BY <1>6, <2>2, <2>3, SeqEqual
<1>10. toRead \in 1..Len(Content)
  BY <1>2, <1>5
<1> QED
  BY <1>8, <1>9, <1>10 DEF Queue!Take

(* Every step of either thread is a step of the queue, or none.              *)
LEMMA MapsStep == IInv /\ Copied /\ [Next]_vars => [Queue!Next]_Queue!queueVars
<1> SUFFICES ASSUME IInv, Copied, [Next]_vars PROVE [Queue!Next]_Queue!queueVars
  OBVIOUS
<1> USE RingAssumption
<1>s. ASSUME UNCHANGED <<buffer, writePos, readPos, delivered>>
      PROVE  UNCHANGED Queue!queueVars
  BY <1>s DEF Queue!queueVars, Content
<1>1. ASSUME NEW data \in Batch, WriteBegin(data) PROVE UNCHANGED Queue!queueVars
  BY <1>s, <1>1 DEF WriteBegin, consumerVars
<1>2. CASE WriteFrame
  <2>1. UNCHANGED <<writePos, readPos, delivered>>
    BY <1>2 DEF WriteFrame, consumerVars
  <2>2. \A i \in 1..Available(writePos, readPos) :
          buffer'[Masked(readPos + i - 1)] = buffer[Masked(readPos + i - 1)]
    <3> SUFFICES ASSUME NEW i \in 1..Available(writePos, readPos)
                 PROVE  buffer'[Masked(readPos + i - 1)] = buffer[Masked(readPos + i - 1)]
      OBVIOUS
    <3>1. /\ i - 1 \in 0..(Available(writePos, readPos) - 1)
          /\ readPos + i - 1 = readPos + (i - 1)
      BY Numbers DEF Slot
    <3> QED
      BY <1>2, <3>1, WriteOutsideContent
  <2>3. Content' = Content
    BY <2>1, <2>2 DEF Content
  <2> QED
    BY <2>1, <2>3 DEF Queue!queueVars
<1>3. CASE WriteEnd
  BY <1>3, WriteEndPuts DEF Queue!Next
<1>4. ASSUME NEW n \in 1..MaxBatch, ReadBegin(n) PROVE UNCHANGED Queue!queueVars
  BY <1>s, <1>4 DEF ReadBegin, producerVars
<1>5. CASE ReadFrame
  BY <1>s, <1>5 DEF ReadFrame, producerVars
<1>6. CASE ReadEnd
  BY <1>6, ReadEndTakes DEF Queue!Next
<1>7. CASE Reset
  <2>1. Available(writePos', readPos') = 0 /\ delivered' = delivered
    BY <1>7 DEF Reset, Available
  <2>2. Content' = <<>>
    BY <2>1 DEF Content
  <2> QED
    BY <2>1, <2>2 DEF Queue!Next, Queue!Clear
<1>8. CASE UNCHANGED vars
  BY <1>s, <1>8 DEF vars, producerVars, consumerVars
<1> QED
  BY <1>1, <1>2, <1>3, <1>4, <1>5, <1>6, <1>7, <1>8 DEF Next, Producer, Consumer

(* The ring is a first-in first-out queue of Cap - 1 frames, for every       *)
(* capacity, batch size and kind of frame: what ae_ringbuf_read returns is   *)
(* what ae_ringbuf_write was given, oldest first, each frame once.           *)
THEOREM Refinement == Spec => ImplementsQueue
<1>1. Init => Copied
  <2>1. Init => written = 0 /\ Len(output) = 0
    BY DEF Init
  <2> QED
    BY <2>1 DEF Copied
<1> QED
  BY <1>1, MapsInit, InitIInv, NextIInv, NextCopied, MapsStep, PTL
  DEF Spec, ImplementsQueue, Queue!Spec
=============================================================================
