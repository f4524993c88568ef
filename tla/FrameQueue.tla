----------------------------- MODULE FrameQueue -----------------------------
(***************************************************************************)
(* What the two lock-free buffers of the core promise to their two threads:  *)
(* a bounded first-in first-out queue of audio frames.  A producer appends a *)
(* batch that fits, a consumer takes a batch from the front.                 *)
(***************************************************************************)
EXTENDS Naturals, Sequences

CONSTANTS Frame,     \* frames of samples
          Capacity   \* how many the queue holds

VARIABLES
  queue,      \* frames put and not yet taken
  delivered   \* the batch the consumer took last

queueVars == <<queue, delivered>>

Init == queue = <<>> /\ delivered = <<>>

Put == \E n \in 1..(Capacity - Len(queue)) : \E batch \in [1..n -> Frame] :
         /\ queue' = queue \o batch
         /\ UNCHANGED delivered

Take == \E n \in 1..Len(queue) :
          /\ delivered' = SubSeq(queue, 1, n)
          /\ queue' = SubSeq(queue, n + 1, Len(queue))

Clear == queue' = <<>> /\ UNCHANGED delivered

Next == Put \/ Take \/ Clear

Spec == Init /\ [][Next]_queueVars
=============================================================================
