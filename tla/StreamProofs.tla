---------------------------- MODULE StreamProofs ----------------------------
(***************************************************************************)
(* Proofs about what the core keeps of one received stream and of the link:   *)
(* JitterBuffer, for any number of slots, depth and width of the positions    *)
(* that its assumptions admit, and SeqTracker with LinkStats, for any sender, *)
(* window and ping interval.                                                 *)
(*                                                                          *)
(* Jitter buffer: each thread checks the level and then moves its own         *)
(* position, while the other can only make more room, or more frames; so a    *)
(* push that began has room and a pop that began has a frame.  Positions that *)
(* are less than the depth apart never share a slot, even across the wrap.    *)
(*                                                                          *)
(* Loss: each way out of ae_rtp_seq_update changes the count by at most as    *)
(* much as the set of missing numbers, and by just as much while no number is *)
(* repeated.  Round trip: pings on their way lie an interval apart, so a pong *)
(* younger than that answers the ping that is timed.                         *)
(***************************************************************************)
EXTENDS JitterBuffer, LinkStats, FiniteSetTheorems, SequenceTheorems, TLAPS

(* Dividing leaves a rest below the divisor.                                 *)
LEMMA DivMod ==
  ASSUME NEW n \in Nat \ {0}, NEW a \in Nat
  PROVE  /\ a \div n \in Nat /\ a % n \in 0..(n - 1)
         /\ a = (a \div n) * n + (a % n)
  OBVIOUS

(* The rest is determined by that.                                           *)
LEMMA ModUnique ==
  ASSUME NEW n \in Nat \ {0}, NEW k \in Int, NEW c \in 0..(n - 1)
  PROVE  (k * n + c) % n = c
  OBVIOUS

(* Rests add up, with at most one turn.                                      *)
LEMMA ModAdd ==
  ASSUME NEW n \in Nat \ {0}, NEW a \in Nat, NEW d \in 0..(n - 1)
  PROVE  (a + d) % n = IF (a % n) + d < n THEN (a % n) + d ELSE (a % n) + d - n
<1> DEFINE k == a \div n
           c == a % n
<1>1. k \in Nat /\ c \in 0..(n - 1) /\ a = k * n + c
  BY DivMod
<1> HIDE DEF k, c
<1>2. CASE c + d < n
  <2> DEFINE e == c + d
  <2>1. e \in 0..(n - 1) /\ a + d = k * n + e
    BY <1>1, <1>2
  <2> HIDE DEF e
  <2>2. (a + d) % n = e
    BY <1>1, <2>1, ModUnique
  <2> QED
    BY <1>2, <2>2 DEF c, e
<1>3. CASE ~(c + d < n)
  <2> DEFINE e == c + d - n
             l == k + 1
  <2>1. e \in 0..(n - 1) /\ l \in Int /\ a + d = l * n + e
    BY <1>1, <1>3
  <2> HIDE DEF e, l
  <2>2. (a + d) % n = e
    BY <1>1, <2>1, ModUnique
  <2> QED
    BY <1>3, <2>2 DEF c, e
<1> QED
  BY <1>2, <1>3

Pos == 0..(Wrap - 1)
Sample == Frame \cup {Silence}
Distance(w, r) == (w - r) % Wrap
At(r, i) == (r + i) % Wrap

(* Positions turn at the wrap, and so does their distance.                   *)
LEMMA PositionArithmetic ==
  ASSUME NEW w \in Pos, NEW r \in Pos
  PROVE  /\ Distance(w, r) = IF w >= r THEN w - r ELSE w - r + Wrap
         /\ Distance(w, r) \in Pos
         /\ Next1(r) \in Pos /\ Next1(r) = IF r = Wrap - 1 THEN 0 ELSE r + 1
  BY JitterAssumption DEF Pos, Distance, Next1

(* The i-th position from r.                                                 *)
LEMMA AtArithmetic ==
  ASSUME NEW r \in Pos, NEW i \in Pos
  PROVE  /\ At(r, i) \in Pos
         /\ At(r, i) = IF r + i < Wrap THEN r + i ELSE r + i - Wrap
  BY JitterAssumption DEF Pos, At

(* Publishing makes the distance one more, taking one less.                   *)
LEMMA Moves ==
  ASSUME NEW w \in Pos, NEW r \in Pos
  PROVE  /\ Distance(w, r) < Wrap - 1 => Distance(Next1(w), r) = Distance(w, r) + 1
         /\ Distance(w, r) > 0 => Distance(w, Next1(r)) = Distance(w, r) - 1
         /\ At(r, Distance(w, r)) = w
         /\ \A i \in 0..(Wrap - 2) : At(Next1(r), i) = At(r, i + 1)
         /\ At(r, 0) = r
<1> USE JitterAssumption DEF Pos
<1>1. Distance(w, r) < Wrap - 1 => Distance(Next1(w), r) = Distance(w, r) + 1
  <2> DEFINE v == Next1(w)
  <2>1. v \in Pos /\ v = IF w = Wrap - 1 THEN 0 ELSE w + 1
    BY PositionArithmetic
  <2> HIDE DEF v
  <2>2. Distance(v, r) = IF v >= r THEN v - r ELSE v - r + Wrap
    BY <2>1, PositionArithmetic
  <2>3. Distance(w, r) = IF w >= r THEN w - r ELSE w - r + Wrap
    BY PositionArithmetic
  <2>4. Distance(w, r) < Wrap - 1 => Distance(v, r) = Distance(w, r) + 1
    BY <2>1, <2>2, <2>3
  <2> QED
    BY <2>4 DEF v
<1>2. Distance(w, r) > 0 => Distance(w, Next1(r)) = Distance(w, r) - 1
  <2> DEFINE v == Next1(r)
  <2>1. v \in Pos /\ v = IF r = Wrap - 1 THEN 0 ELSE r + 1
    BY PositionArithmetic
  <2> HIDE DEF v
  <2>2. Distance(w, v) = IF w >= v THEN w - v ELSE w - v + Wrap
    BY <2>1, PositionArithmetic
  <2>3. Distance(w, r) = IF w >= r THEN w - r ELSE w - r + Wrap
    BY PositionArithmetic
  <2>4. Distance(w, r) > 0 => Distance(w, v) = Distance(w, r) - 1
    BY <2>1, <2>2, <2>3
  <2> QED
    BY <2>4 DEF v
<1>3. At(r, Distance(w, r)) = w
  <2> DEFINE d == Distance(w, r)
  <2>1. d \in Pos /\ d = IF w >= r THEN w - r ELSE w - r + Wrap
    BY PositionArithmetic
  <2> HIDE DEF d
  <2>2. At(r, d) = IF r + d < Wrap THEN r + d ELSE r + d - Wrap
    BY <2>1, AtArithmetic
  <2>3. At(r, d) = w
    BY <2>1, <2>2
  <2> QED
    BY <2>3 DEF d
<1>4. ASSUME NEW i \in 0..(Wrap - 2) PROVE At(Next1(r), i) = At(r, i + 1)
  <2> DEFINE v == Next1(r)
             j == i + 1
  <2>1. v \in Pos /\ v = IF r = Wrap - 1 THEN 0 ELSE r + 1
    BY PositionArithmetic
  <2>2. i \in Pos /\ j \in Pos /\ j = i + 1
    OBVIOUS
  <2> HIDE DEF v, j
  <2>3. At(v, i) = IF v + i < Wrap THEN v + i ELSE v + i - Wrap
    BY <2>1, <2>2, AtArithmetic
  <2>4. At(r, j) = IF r + j < Wrap THEN r + j ELSE r + j - Wrap
    BY <2>2, AtArithmetic
  <2>5. At(v, i) = At(r, j)
    BY <2>1, <2>2, <2>3, <2>4
  <2> QED
    BY <2>5 DEF v, j
<1>5. At(r, 0) = r
  BY AtArithmetic
<1> QED
  BY <1>1, <1>2, <1>3, <1>4, <1>5

(* Positions less than the depth apart have different slots, also on both     *)
(* sides of the wrap.                                                        *)
LEMMA SlotsApart ==
  ASSUME NEW p \in Pos, NEW d \in 1..(MaxDepth - 1)
  PROVE  SlotOf(p) # SlotOf(At(p, d))
<1> USE JitterAssumption DEF Pos
<1>1. Slots \in Nat \ {0} /\ d \in 1..(Slots - 1) /\ p \in Nat
      /\ At(p, d) = IF p + d < Wrap THEN p + d ELSE p + d - Wrap
  BY AtArithmetic
<1>2. CASE p + d < Wrap
  <2>0. d \in 0..(Slots - 1)
    BY <1>1
  <2>1. /\ (p + d) % Slots = IF (p % Slots) + d < Slots THEN (p % Slots) + d
                                                    ELSE (p % Slots) + d - Slots
        /\ p % Slots \in 0..(Slots - 1)
    BY <1>1, <2>0, ModAdd, DivMod
  <2> QED
    BY <1>1, <1>2, <2>1 DEF SlotOf
<1>3. CASE p + d >= Wrap
  <2> DEFINE q == p + d - Wrap
             m == Wrap % Slots
             k == Wrap \div Slots
  <2>1. q \in 0..(Slots - 1) /\ q < d /\ p = Wrap - (d - q) /\ At(p, d) = q
    BY <1>1, <1>3
  <2>2. k \in Nat /\ m \in 0..(Slots - 1) /\ Wrap = k * Slots + m
    BY <1>1, DivMod
  <2>3. m = 0 \/ MaxDepth <= m
    BY WrapAssumption
  <2>4. SlotOf(q) = q
    BY <1>1, <2>1 DEF SlotOf
  <2> HIDE DEF q, m, k
  <2>5. CASE MaxDepth <= m
    <3> DEFINE e == m - (d - q)
               l == k
    <3>1. e \in 0..(Slots - 1) /\ l \in Int /\ p = l * Slots + e
      BY <1>1, <2>1, <2>2, <2>5
    <3> HIDE DEF e, l
    <3>2. SlotOf(p) = e
      BY <1>1, <3>1, ModUnique DEF SlotOf
    <3> QED
      BY <2>1, <2>2, <2>4, <2>5, <3>2 DEF e
  <2>6. CASE m = 0
    <3> DEFINE e == Slots - (d - q)
               l == (k - 1)
    <3>1. e \in 0..(Slots - 1) /\ l \in Int /\ p = l * Slots + e
      BY <1>1, <2>1, <2>2, <2>6
    <3> HIDE DEF e, l
    <3>2. SlotOf(p) = e
      BY <1>1, <3>1, ModUnique DEF SlotOf
    <3> QED
      BY <1>1, <2>1, <2>4, <3>2 DEF e
  <2> QED
    BY <2>3, <2>5, <2>6
<1> QED
  BY <1>1, <1>2, <1>3
---------------------------------------------------------------------------
TypeOK ==
  /\ frames \in [0..(Slots - 1) -> Sample]
  /\ writePos \in Pos /\ readPos \in Pos
  /\ fill \in 0..MaxDepth
  /\ pushPc \in {"idle", "copy", "publish", "count", "finish"}
  /\ popPc \in {"idle", "plc", "copy", "advance", "count"}
  /\ pushed \in Sample /\ popped \in Sample
  /\ pushPc \in {"copy", "publish"} => pushed \in Frame

(* A push under way still has room and a pop under way still has a frame:     *)
(* the other thread can only make more of either.                            *)
LevelInv ==
  /\ LevelExact
  /\ ~fading
  /\ pushPc \in {"copy", "publish", "count"} => fill < MaxDepth
  /\ popPc \in {"copy", "advance", "count"} => fill > 0

IInv == TypeOK /\ LevelInv

(* What is copied is what lies in the buffer.                                *)
Copied ==
  /\ pushPc = "publish" => frames[SlotOf(writePos)] = pushed
  /\ popPc = "advance" => popped = frames[SlotOf(readPos)]

(* Where every position falls is a slot.                                     *)
LEMMA SlotType == ASSUME NEW p \in Pos PROVE SlotOf(p) \in 0..(Slots - 1)
  BY JitterAssumption DEF Pos, SlotOf

(* An empty buffer satisfies the invariant.                                  *)
LEMMA InitIInv == Init => IInv /\ Copied
<1> SUFFICES ASSUME Init PROVE IInv /\ Copied
  OBVIOUS
<1> USE JitterAssumption DEF Init
<1>1. TypeOK
  BY DEF TypeOK, Pos, Sample
<1>2. LevelInv
  BY PositionArithmetic DEF LevelInv, LevelExact, Between, Pos, Distance
<1> QED
  BY <1>1, <1>2 DEF IInv, Copied

(* Every step of either thread keeps the level next to the distance of the    *)
(* positions and below the maximum.                                          *)
LEMMA NextIInv == IInv /\ [Next]_vars => IInv'
<1> SUFFICES ASSUME IInv, [Next]_vars PROVE IInv'
  OBVIOUS
<1> USE JitterAssumption
    DEF IInv, TypeOK, LevelInv, LevelExact, Sample, pushVars, popVars
<1>d. Between = Distance(writePos, readPos) /\ Between \in Int
  BY PositionArithmetic DEF Between, Distance, Pos
<1>1. ASSUME NEW f \in Frame, PushBegin(f) PROVE IInv'
  BY <1>1 DEF PushBegin, Between
<1>2. CASE PushCopy
  BY <1>2, SlotType DEF PushCopy, Between
<1>3. CASE PushPublish
  <2>1. Between' = Distance(Next1(writePos), readPos) /\ Next1(writePos) \in Pos
    BY <1>3, PositionArithmetic DEF PushPublish, Between, Distance
  <2>2. Between < Wrap - 1
    BY <1>d, <1>3 DEF PushPublish
  <2>3. Between' = Between + 1
    BY <1>d, <2>1, <2>2, Moves
  <2> QED
    BY <1>d, <1>3, <2>1, <2>3 DEF PushPublish
<1>4. CASE PushCount
  <2>1. Between' = Between
    BY <1>4 DEF PushCount, Between
  <2>2. TypeOK'
    BY <1>4 DEF PushCount
  <2>3. LevelInv'
    BY <1>d, <1>4, <2>1 DEF PushCount
  <2> QED
    BY <2>2, <2>3
<1>5. CASE PushFinish
  BY <1>5 DEF PushFinish, Between
<1>6. CASE PopBegin
  BY <1>6 DEF PopBegin, Between
<1>7. CASE PopUnderrun
  BY <1>7 DEF PopUnderrun, Between
<1>8. CASE PopCopy
  BY <1>8, SlotType DEF PopCopy, Between
<1>9. CASE PopAdvance
  <2>1. Between' = Distance(writePos, Next1(readPos)) /\ Next1(readPos) \in Pos
    BY <1>9, PositionArithmetic DEF PopAdvance, Between, Distance
  <2>2. Between > 0
    BY <1>d, <1>9 DEF PopAdvance
  <2>3. Between' = Between - 1
    BY <1>d, <2>1, <2>2, Moves
  <2> QED
    BY <1>d, <1>9, <2>1, <2>3 DEF PopAdvance
<1>10. CASE PopCount
  <2>1. fill - 1 <= MaxDepth
    OBVIOUS
  <2>2. /\ popPc = "count" /\ popPc' = "idle" /\ fill' = fill - 1 /\ popped' = Silence
        /\ UNCHANGED <<frames, readPos, fading, writePos, pushPc, pushed>>
    BY <1>10, <2>1 DEF PopCount
  <2>3. Between' = Between
    BY <2>2 DEF Between
  <2>4. LevelInv'
    BY <1>d, <2>2, <2>3
  <2>5. TypeOK'
    BY <2>2
  <2> QED
    BY <2>4, <2>5
<1>11. CASE Reset
  <2>1. 0 \in Pos /\ Distance(0, 0) = 0
    BY PositionArithmetic DEF Pos
  <2>2. Between' = 0
    BY <1>11, <2>1 DEF Reset, Between, Distance
  <2> QED
    BY <1>11, <2>1, <2>2 DEF Reset
<1>12. CASE UNCHANGED vars
  BY <1>12 DEF vars, Between
<1> QED
  BY <1>1, <1>2, <1>3, <1>4, <1>5, <1>6, <1>7, <1>8, <1>9, <1>10, <1>11, <1>12
  DEF Next, Push, Pop

(* While a push copies, the slot it writes is none of those that wait.        *)
LEMMA CopyOutsideContent ==
  ASSUME IInv, PushCopy, NEW i \in 0..(Between - 1)
  PROVE  frames'[SlotOf(At(readPos, i))] = frames[SlotOf(At(readPos, i))]
<1>1. /\ writePos \in Pos /\ readPos \in Pos /\ frames \in [0..(Slots - 1) -> Sample]
      /\ Between \in 0..(MaxDepth - 1) /\ pushPc = "copy"
      /\ Between = Distance(writePos, readPos)
  <2>1. Between \in Nat
    BY PositionArithmetic, JitterAssumption DEF IInv, TypeOK, Between, Distance, Pos
  <2> QED
    BY <2>1, JitterAssumption
    DEF IInv, TypeOK, LevelInv, LevelExact, PushCopy, Between, Distance
<1> DEFINE p == At(readPos, i)
           d == Between - i
<1>2. /\ i \in Pos /\ p \in Pos /\ d \in 1..(MaxDepth - 1)
      /\ At(p, d) = writePos
  <2>1. i \in Pos /\ d \in 1..(MaxDepth - 1) /\ d \in Pos /\ Between \in Pos /\ Between = i + d
    BY <1>1, JitterAssumption DEF Pos
  <2> HIDE DEF d
  <2>2. p \in Pos /\ p = IF readPos + i < Wrap THEN readPos + i ELSE readPos + i - Wrap
    BY <1>1, <2>1, AtArithmetic
  <2> HIDE DEF p
  <2>3. At(p, d) = IF p + d < Wrap THEN p + d ELSE p + d - Wrap
    BY <2>1, <2>2, AtArithmetic
  <2>4. writePos = IF readPos + Between < Wrap THEN readPos + Between
                   ELSE readPos + Between - Wrap
    <3>1. At(readPos, Between) = writePos
      BY <1>1, Moves
    <3> QED
      BY <1>1, <2>1, <3>1, AtArithmetic
  <2> QED
    BY <1>1, <2>1, <2>2, <2>3, <2>4, JitterAssumption DEF Pos
<1> HIDE DEF p, d
<1>3. SlotOf(p) # SlotOf(writePos)
  BY <1>2, SlotsApart
<1>4. SlotOf(p) \in 0..(Slots - 1)
  BY <1>2, SlotType
<1>5. frames' = [frames EXCEPT ![SlotOf(writePos)] = pushed]
  BY DEF PushCopy
<1>6. frames'[SlotOf(p)] = frames[SlotOf(p)]
  BY <1>1, <1>3, <1>4, <1>5
<1> QED
  BY <1>6 DEF p

(* Copies stay true until they are published or returned.                    *)
LEMMA NextCopied == IInv /\ Copied /\ [Next]_vars => Copied'
<1> SUFFICES ASSUME IInv, Copied, [Next]_vars PROVE Copied'
  OBVIOUS
<1> USE DEF Copied, pushVars, popVars
<1>1. ASSUME NEW f \in Frame, PushBegin(f) PROVE Copied'
  BY <1>1 DEF PushBegin
<1>2. CASE PushCopy
  <2>1. frames'[SlotOf(writePos')] = pushed'
    BY <1>2, SlotType DEF PushCopy, IInv, TypeOK
  <2>2. ASSUME popPc = "advance" PROVE popped = frames'[SlotOf(readPos)]
    <3>0. Between \in Int
      BY PositionArithmetic DEF Between, Distance, Pos, IInv, TypeOK
    <3>1. 0 \in 0..(Between - 1)
      BY <1>2, <2>2, <3>0, JitterAssumption DEF IInv, TypeOK, LevelInv, LevelExact, PushCopy
    <3>2. At(readPos, 0) = readPos
      BY Moves DEF IInv, TypeOK
    <3> QED
      BY <1>2, <2>2, <3>1, <3>2, CopyOutsideContent
  <2> QED
    BY <1>2, <2>1, <2>2 DEF PushCopy
<1>3. CASE PushPublish
  BY <1>3 DEF PushPublish
<1>4. CASE PushCount
  BY <1>4 DEF PushCount
<1>5. CASE PushFinish
  BY <1>5 DEF PushFinish
<1>6. CASE PopBegin
  BY <1>6 DEF PopBegin
<1>7. CASE PopUnderrun
  BY <1>7 DEF PopUnderrun
<1>8. CASE PopCopy
  BY <1>8 DEF PopCopy
<1>9. CASE PopAdvance
  BY <1>9 DEF PopAdvance
<1>10. CASE PopCount
  BY <1>10 DEF PopCount
<1>11. CASE Reset
  BY <1>11 DEF Reset
<1>12. CASE UNCHANGED vars
  BY <1>12 DEF vars
<1> QED
  BY <1>1, <1>2, <1>3, <1>4, <1>5, <1>6, <1>7, <1>8, <1>9, <1>10, <1>11, <1>12
  DEF Next, Push, Pop

(* The invariant holds for ever.                                             *)
LEMMA Invariance == Spec => [](IInv /\ Copied)
  BY InitIInv, NextIInv, NextCopied, PTL DEF Spec

(* Level and positions agree up to the update under way, at any wrap.        *)
THEOREM LevelAgrees == Spec => []LevelExact
  BY Invariance, PTL DEF IInv, LevelInv

(* The catch-up branch of ae_jitter_pop is dead.                             *)
THEOREM NoCatchUp == Spec => []NeverTooFull
<1>1. IInv => NeverTooFull
  BY JitterAssumption DEF IInv, TypeOK, LevelInv, NeverTooFull
<1> QED
  BY <1>1, Invariance, PTL

---------------------------------------------------------------------------
ContentOf(b, w, r) == [i \in 1..Distance(w, r) |-> b[SlotOf((r + i - 1) % Wrap)]]

(* The content is a sequence, and its elements count from the read position. *)
LEMMA ContentShape ==
  ASSUME NEW b \in [0..(Slots - 1) -> Sample], NEW w \in Pos, NEW r \in Pos
  PROVE  /\ ContentOf(b, w, r) \in Seq(Sample)
         /\ Len(ContentOf(b, w, r)) = Distance(w, r)
         /\ \A i \in 1..Distance(w, r) :
              ContentOf(b, w, r)[i] = b[SlotOf(At(r, i - 1))]
<1>1. Distance(w, r) \in 0..(Wrap - 1)
  BY PositionArithmetic DEF Pos
<1>2. ASSUME NEW i \in 1..Distance(w, r)
      PROVE  /\ (r + i - 1) % Wrap = At(r, i - 1)
             /\ b[SlotOf((r + i - 1) % Wrap)] \in Sample
  <2>1. i - 1 \in Pos /\ r + i - 1 = r + (i - 1)
    BY <1>1, JitterAssumption DEF Pos
  <2>2. At(r, i - 1) \in Pos /\ (r + i - 1) % Wrap = At(r, i - 1)
    BY <2>1, AtArithmetic DEF At
  <2> QED
    BY <2>2, SlotType
<1>3. ContentOf(b, w, r) \in [1..Distance(w, r) -> Sample]
  BY <1>2 DEF ContentOf
<1>4. ContentOf(b, w, r) \in Seq(Sample) /\ Len(ContentOf(b, w, r)) = Distance(w, r)
  BY <1>1, <1>3, JitterAssumption
<1> QED
  BY <1>2, <1>4 DEF ContentOf

(* What the invariant says of the content.                                   *)
LEMMA ContentNow ==
  ASSUME IInv
  PROVE  /\ Content = ContentOf(frames, writePos, readPos)
         /\ Content \in Seq(Sample) /\ Len(Content) = Between /\ Between \in 0..(Wrap - 1)
         /\ \A i \in 1..Between : Content[i] = frames[SlotOf(At(readPos, i - 1))]
<1>1. frames \in [0..(Slots - 1) -> Sample] /\ writePos \in Pos /\ readPos \in Pos
  BY DEF IInv, TypeOK
<1>2. Content = ContentOf(frames, writePos, readPos) /\ Between = Distance(writePos, readPos)
  BY DEF Content, ContentOf, Between, Distance
<1>3. Distance(writePos, readPos) \in 0..(Wrap - 1)
  BY <1>1, PositionArithmetic DEF Pos
<1>4. /\ ContentOf(frames, writePos, readPos) \in Seq(Sample)
      /\ Len(ContentOf(frames, writePos, readPos)) = Distance(writePos, readPos)
      /\ \A i \in 1..Distance(writePos, readPos) :
           ContentOf(frames, writePos, readPos)[i] = frames[SlotOf(At(readPos, i - 1))]
  BY <1>1, ContentShape
<1> QED
  BY <1>2, <1>3, <1>4

(* An empty buffer is an empty queue.                                        *)
LEMMA MapsInit == Init => Queue!Init
<1> SUFFICES ASSUME Init PROVE Content = <<>> /\ delivered = <<>>
  BY DEF Queue!Init, Init
<1>1. Between = 0
  BY PositionArithmetic, JitterAssumption DEF Init, Between, Distance, Pos
<1> QED
  BY <1>1 DEF Init, Content

(* Publishing is putting the frame that was copied.                          *)
LEMMA PublishPuts == IInv /\ Copied /\ IInv' /\ PushPublish => Queue!Put
<1> SUFFICES ASSUME IInv, Copied, IInv', PushPublish PROVE Queue!Put
  OBVIOUS
<1> DEFINE longer == Append(Content, pushed)
<1>1. /\ frames' = frames /\ readPos' = readPos /\ delivered' = delivered
      /\ writePos' = Next1(writePos) /\ pushPc = "publish"
      /\ frames[SlotOf(writePos)] = pushed
      /\ pushed \in Frame /\ pushed \in Sample
      /\ writePos \in Pos /\ readPos \in Pos
  BY DEF PushPublish, popVars, Copied, IInv, TypeOK, Sample
<1>2. /\ Content \in Seq(Sample) /\ Len(Content) = Between /\ Between \in Int
      /\ \A i \in 1..Between : Content[i] = frames[SlotOf(At(readPos, i - 1))]
  BY ContentNow
<1>3. /\ Content' \in Seq(Sample) /\ Len(Content') = Between'
      /\ \A i \in 1..Between' : Content'[i] = frames[SlotOf(At(readPos, i - 1))]
  <2>1. Between' = Distance(writePos', readPos)
    BY <1>1 DEF Between, Distance
  <2>2. Content' = ContentOf(frames, writePos', readPos)
    BY <1>1 DEF Content, ContentOf, Between, Distance
  <2>3. frames \in [0..(Slots - 1) -> Sample] /\ writePos' \in Pos
    BY DEF IInv, TypeOK
  <2> QED
    BY <1>1, <2>1, <2>2, <2>3, ContentShape
<1>4. Between \in 0..(MaxDepth - 1)
  BY <1>1, ContentNow, JitterAssumption DEF IInv, TypeOK, LevelInv, LevelExact
<1>5. Between' = Between + 1 /\ At(readPos, Between) = writePos
  <2>1. Between = Distance(writePos, readPos) /\ Between' = Distance(Next1(writePos), readPos)
    BY <1>1 DEF Between, Distance
  <2>2. Between < Wrap - 1
    BY <1>4, JitterAssumption
  <2> QED
    BY <1>1, <2>1, <2>2, Moves
<1>6. /\ longer \in Seq(Sample) /\ Len(longer) = Between + 1
      /\ \A i \in 1..Between : longer[i] = Content[i]
      /\ longer[Between + 1] = pushed
  BY <1>1, <1>2, AppendProperties
<1> HIDE DEF longer
<1>7. ASSUME NEW i \in 1..(Between + 1) PROVE Content'[i] = longer[i]
  <2>1. CASE i = Between + 1
    <3>1. Content'[i] = frames[SlotOf(At(readPos, i - 1))] /\ i - 1 = Between
      BY <1>2, <1>3, <1>5, <2>1
    <3> QED
      BY <1>1, <1>5, <1>6, <2>1, <3>1
  <2>2. CASE i # Between + 1
    <3>1. i \in 1..Between /\ i \in 1..Between'
      BY <1>2, <1>5, <2>2
    <3> QED
      BY <1>2, <1>3, <1>6, <3>1
  <2> QED
    BY <2>1, <2>2
<1>8. Content' = longer
  BY <1>3, <1>5, <1>6, <1>7, SeqEqual
<1>9. longer = Content \o <<pushed>>
  BY <1>1, <1>2, AppendIsConcat DEF longer
<1>10. <<pushed>> \in [1..1 -> Frame]
  BY <1>1
<1>11. 1 \in 1..(MaxDepth - Len(Content))
  BY <1>2, <1>4, JitterAssumption
<1> QED
  BY <1>1, <1>8, <1>9, <1>10, <1>11 DEF Queue!Put

(* Advancing is taking the frame that was copied out.                        *)
LEMMA AdvanceTakes == IInv /\ Copied /\ IInv' /\ PopAdvance => Queue!Take
<1> SUFFICES ASSUME IInv, Copied, IInv', PopAdvance PROVE Queue!Take
  OBVIOUS
<1> DEFINE rest == SubSeq(Content, 2, Len(Content))
           head == SubSeq(Content, 1, 1)
<1>1. /\ frames' = frames /\ writePos' = writePos /\ delivered' = <<popped>>
      /\ readPos' = Next1(readPos) /\ popPc = "advance"
      /\ frames[SlotOf(readPos)] = popped
      /\ popped \in Sample
      /\ writePos \in Pos /\ readPos \in Pos
  BY DEF PopAdvance, pushVars, Copied, IInv, TypeOK
<1>2. /\ Content \in Seq(Sample) /\ Len(Content) = Between /\ Between \in 0..(Wrap - 1)
      /\ \A i \in 1..Between : Content[i] = frames[SlotOf(At(readPos, i - 1))]
  BY ContentNow
<1>3. /\ Content' \in Seq(Sample) /\ Len(Content') = Between'
      /\ \A i \in 1..Between' : Content'[i] = frames[SlotOf(At(Next1(readPos), i - 1))]
  <2>1. Between' = Distance(writePos, readPos')
    BY <1>1 DEF Between, Distance
  <2>2. Content' = ContentOf(frames, writePos, readPos')
    BY <1>1 DEF Content, ContentOf, Between, Distance
  <2>3. frames \in [0..(Slots - 1) -> Sample] /\ readPos' \in Pos
    BY DEF IInv, TypeOK
  <2> QED
    BY <1>1, <2>1, <2>2, <2>3, ContentShape
<1>4. Between \in Int /\ Between >= 1
  BY <1>1, <1>2, JitterAssumption DEF IInv, TypeOK, LevelInv, LevelExact
<1>5. Between' = Between - 1
  <2>1. Between = Distance(writePos, readPos) /\ Between' = Distance(writePos, Next1(readPos))
    BY <1>1 DEF Between, Distance
  <2> QED
    BY <1>1, <1>4, <2>1, Moves
<1>6. head \in Seq(Sample) /\ Len(head) = 1 /\ head[1] = Content[1]
  <2>1. \A i \in 1..1 : Content[i] \in Sample
    BY <1>2, <1>4
  <2>2. /\ head \in Seq(Sample) /\ Len(head) = IF 1 <= 1 THEN 1 - 1 + 1 ELSE 0
        /\ \A i \in 1..(1 - 1 + 1) : head[i] = Content[1 + i - 1]
    BY <2>1, SubSeqProperties
  <2> HIDE DEF head
  <2> QED
    BY <2>2
<1>7. /\ rest \in Seq(Sample) /\ Len(rest) = Between - 1
      /\ \A i \in 1..(Between - 1) : rest[i] = Content[i + 1]
  <2>1. \A i \in 2..Between : Content[i] \in Sample
    BY <1>2, <1>4
  <2>2. /\ SubSeq(Content, 2, Between) \in Seq(Sample)
        /\ Len(SubSeq(Content, 2, Between)) = IF 2 <= Between THEN Between - 2 + 1 ELSE 0
        /\ \A i \in 1..(Between - 2 + 1) : SubSeq(Content, 2, Between)[i] = Content[2 + i - 1]
    BY <1>4, <2>1, SubSeqProperties
  <2>3. rest = SubSeq(Content, 2, Between)
    BY <1>2
  <2>4. \A i \in 1..(Between - 1) : 2 + i - 1 = i + 1
    BY <1>4
  <2> HIDE DEF rest
  <2> QED
    BY <1>4, <2>2, <2>3, <2>4
<1> HIDE DEF rest, head
<1>8. delivered' = head
  <2>1. 1 \in 1..Between /\ 1 - 1 = 0 /\ At(readPos, 0) = readPos
    BY <1>1, <1>4, Moves
  <2>2. head[1] = popped
    BY <1>1, <1>2, <1>6, <2>1
  <2>3. <<popped>> \in Seq(Sample) /\ Len(<<popped>>) = 1 /\ <<popped>>[1] = popped
    BY <1>1
  <2> QED
    BY <1>1, <1>6, <2>2, <2>3, SeqEqual
<1>9. ASSUME NEW i \in 1..(Between - 1) PROVE Content'[i] = rest[i]
  <2>1. i + 1 \in 1..Between /\ (i + 1) - 1 = (i - 1) + 1 /\ i - 1 \in 0..(Wrap - 2)
    BY <1>2, <1>4, JitterAssumption
  <2>2. At(Next1(readPos), i - 1) = At(readPos, (i - 1) + 1)
    BY <1>1, <2>1, Moves
  <2>3. rest[i] = Content[i + 1]
    BY <1>7
  <2>4. Content[i + 1] = frames[SlotOf(At(readPos, (i - 1) + 1))]
    BY <1>2, <2>1
  <2>5. Content'[i] = frames[SlotOf(At(Next1(readPos), i - 1))]
    BY <1>3, <1>5
  <2> QED
    BY <2>2, <2>3, <2>4, <2>5
<1>10. Content' = rest
  BY <1>3, <1>5, <1>7, <1>9, SeqEqual
<1>11. 1 \in 1..Len(Content)
  BY <1>2, <1>4
<1> QED
  BY <1>8, <1>10, <1>11 DEF Queue!Take, rest, head

(* Every step of either thread is a step of the queue, or none.              *)
LEMMA MapsStep == IInv /\ Copied /\ [Next]_vars => [Queue!Next]_Queue!queueVars
<1> SUFFICES ASSUME IInv, Copied, [Next]_vars PROVE [Queue!Next]_Queue!queueVars
  OBVIOUS
<1>i. IInv'
  BY NextIInv
<1>s. ASSUME UNCHANGED <<frames, writePos, readPos, delivered>>
      PROVE  UNCHANGED Queue!queueVars
  BY <1>s DEF Queue!queueVars, Content, Between
<1>1. ASSUME NEW f \in Frame, PushBegin(f) PROVE UNCHANGED Queue!queueVars
  BY <1>s, <1>1 DEF PushBegin, popVars
<1>2. CASE PushCopy
  <2>1. UNCHANGED <<writePos, readPos, delivered, Between>>
    BY <1>2 DEF PushCopy, popVars, Between
  <2>2. ASSUME NEW i \in 1..Between
        PROVE  frames'[SlotOf((readPos + i - 1) % Wrap)]
                 = frames[SlotOf((readPos + i - 1) % Wrap)]
    <3>1. i - 1 \in 0..(Between - 1) /\ readPos + i - 1 = readPos + (i - 1)
      BY ContentNow, JitterAssumption DEF IInv, TypeOK, Pos
    <3>2. (readPos + i - 1) % Wrap = At(readPos, i - 1)
      BY <3>1 DEF At
    <3> QED
      BY <1>2, <3>1, <3>2, CopyOutsideContent
  <2>3. Content' = Content
    BY <2>1, <2>2 DEF Content
  <2> QED
    BY <2>1, <2>3 DEF Queue!queueVars
<1>3. CASE PushPublish
  BY <1>i, <1>3, PublishPuts DEF Queue!Next
<1>4. CASE PushCount
  BY <1>s, <1>4 DEF PushCount, popVars
<1>5. CASE PushFinish
  BY <1>s, <1>5 DEF PushFinish, popVars
<1>6. CASE PopBegin
  BY <1>s, <1>6 DEF PopBegin, pushVars
<1>7. CASE PopUnderrun
  BY <1>s, <1>7 DEF PopUnderrun, pushVars
<1>8. CASE PopCopy
  BY <1>s, <1>8 DEF PopCopy, pushVars
<1>9. CASE PopAdvance
  BY <1>i, <1>9, AdvanceTakes DEF Queue!Next
<1>10. CASE PopCount
  <2>1. ~(fill - 1 > MaxDepth)
    BY JitterAssumption DEF IInv, TypeOK
  <2> QED
    BY <1>s, <1>10, <2>1 DEF PopCount, pushVars
<1>11. CASE Reset
  <2>1. Between' = 0 /\ delivered' = delivered
    <3>1. Distance(0, 0) = 0
      BY PositionArithmetic, JitterAssumption DEF Pos
    <3> QED
      BY <1>11, <3>1 DEF Reset, Between, Distance
  <2>2. Content' = <<>>
    BY <2>1 DEF Content
  <2> QED
    BY <2>1, <2>2 DEF Queue!Next, Queue!Clear
<1>12. CASE UNCHANGED vars
  BY <1>s, <1>12 DEF vars, pushVars, popVars
<1> QED
  BY <1>1, <1>2, <1>3, <1>4, <1>5, <1>6, <1>7, <1>8, <1>9, <1>10, <1>11, <1>12
  DEF Next, Push, Pop

(* The jitter buffer is a first-in first-out queue of MaxDepth frames, for    *)
(* every size and depth that WrapAssumption admits, across the wrap of the    *)
(* positions too: ae_jitter_pop returns what ae_jitter_push was given, oldest *)
(* first, each frame once.                                                   *)
THEOREM Refinement == Spec => ImplementsQueue
<1>1. Spec => []([Queue!Next]_Queue!queueVars)
  BY MapsStep, Invariance, PTL DEF Spec
<1>2. Spec => Queue!Init
  BY MapsInit, PTL DEF Spec
<1> QED
  BY <1>1, <1>2, PTL DEF ImplementsQueue, Queue!Spec

---------------------------------------------------------------------------
(* The tracker's variables have their types, and what travels was sent.       *)
SeqTypeOK ==
  /\ nextSeq \in Nat /\ maxSeq \in Nat /\ received \in Nat /\ lost \in Nat
  /\ first \in Firsts /\ sent \in 0..MaxSent
  /\ inFlight \subseteq first..(first + sent - 1)
  /\ base \in Nat

(* Everything seen is below the expected number, and nothing counts twice.    *)
SeenInv ==
  /\ IsFiniteSet(seen) /\ Cardinality(seen) <= received
  /\ seen \subseteq first..(nextSeq - 1)
  /\ received = 0 => lost = 0 /\ seen = {}
  /\ received > 0 => base >= first /\ base < nextSeq

SeqInv == SeqTypeOK /\ SeenInv /\ LossNotOverstated /\ LossExact

(* A ping that has not been answered was sent last, or an interval before     *)
(* that; only the last one is being timed.                                   *)
PingInv ==
  /\ now \in Nat /\ now > 0
  /\ lastPing \in Nat /\ lastPing <= now
  /\ pingSent \in Nat /\ rtt \in Int /\ truth \in Int
  /\ connected \/ echoes = {}
  /\ \A p \in echoes : p \in Nat /\ (p = lastPing \/ lastPing - p >= Interval)
  /\ echoes = {} \/ pingSent = 0 \/ pingSent = lastPing
  /\ RttSound

(* Numbers do not reach the wrap.                                            *)
LEMMA Numbers ==
  ASSUME SeqTypeOK
  PROVE  /\ first \in Nat /\ sent \in Nat /\ first + sent < W
         /\ \A s \in inFlight : /\ s \in Nat /\ s >= first /\ s < first + sent
                                /\ (s + 1) % W = s + 1
  BY SeqAssumption DEF SeqTypeOK

MissingOf(b, n, S) == {s \in b..(n - 1) : s \notin S}

(* What is missing is finitely much.                                         *)
LEMMA MissingFinite ==
  ASSUME NEW b \in Nat, NEW n \in Nat, NEW S
  PROVE  IsFiniteSet(MissingOf(b, n, S)) /\ Cardinality(MissingOf(b, n, S)) \in Nat
<1>1. IsFiniteSet(b..(n - 1)) /\ MissingOf(b, n, S) \in SUBSET (b..(n - 1))
  BY FS_Interval DEF MissingOf
<1> QED
  BY <1>1, FS_Subset, FS_CardinalityType

(* A number beyond the expected one makes all between them missing.           *)
LEMMA GapGrows ==
  ASSUME NEW b \in Nat, NEW n \in Nat, b <= n, NEW s \in Nat, s >= n, NEW S,
         \A t \in S : t \in Nat /\ t < n,
         NEW next \in Nat, next = s + 1
  PROVE  Cardinality(MissingOf(b, next, S \cup {s}))
           = Cardinality(MissingOf(b, n, S)) + (s - n)
<1> DEFINE gap == n..(s - 1)
<1>1. IsFiniteSet(gap) /\ Cardinality(gap) = s - n
  <2>1. s - 1 \in Int /\ n \in Int
    OBVIOUS
  <2>2. IsFiniteSet(gap) /\ Cardinality(gap) = IF n > s - 1 THEN 0 ELSE s - 1 - n + 1
    BY <2>1, FS_Interval
  <2> QED
    BY <2>2
<1>2. MissingOf(b, next, S \cup {s}) = MissingOf(b, n, S) \cup gap
  BY DEF MissingOf
<1>3. MissingOf(b, n, S) \cap gap = {}
  BY DEF MissingOf
<1>4. IsFiniteSet(MissingOf(b, n, S)) /\ Cardinality(MissingOf(b, n, S)) \in Nat
  BY MissingFinite
<1> HIDE DEF gap
<1>5. Cardinality(MissingOf(b, n, S) \cup gap)
        = Cardinality(MissingOf(b, n, S)) + Cardinality(gap)
          - Cardinality(MissingOf(b, n, S) \cap gap)
  BY <1>1, <1>4, FS_Union
<1>6. Cardinality(MissingOf(b, n, S) \cap gap) = 0
  BY <1>3, FS_EmptySet
<1>7. Cardinality(MissingOf(b, n, S) \cup gap) = Cardinality(MissingOf(b, n, S)) + (s - n)
  <2>1. s - n \in Int
    OBVIOUS
  <2> QED
    BY <1>1, <1>4, <1>5, <1>6, <2>1
<1> QED
  BY <1>2, <1>7

(* A number below the expected one is one fewer missing, if it was.           *)
LEMMA LateFills ==
  ASSUME NEW b \in Nat, NEW n \in Nat, NEW s \in Nat, s < n, NEW S
  PROVE  Cardinality(MissingOf(b, n, S \cup {s}))
           = IF s \in MissingOf(b, n, S) THEN Cardinality(MissingOf(b, n, S)) - 1
                                         ELSE Cardinality(MissingOf(b, n, S))
<1>1. MissingOf(b, n, S \cup {s}) = MissingOf(b, n, S) \ {s}
  BY DEF MissingOf
<1> QED
  BY <1>1, MissingFinite, FS_RemoveElement

(* A packet makes the number of packets one more and that of numbers seen at  *)
(* most one more: if they are equal then they were, and it is a new one.      *)
LEMMA SeenCount ==
  ASSUME IsFiniteSet(seen), received \in Nat, Cardinality(seen) <= received, NEW s
  PROVE  /\ IsFiniteSet(seen \cup {s})
         /\ Cardinality(seen) <= received + 1 /\ Cardinality(seen) # received + 1
         /\ Cardinality(seen \cup {s}) <= received + 1
         /\ Cardinality(seen \cup {s}) = received + 1
              => s \notin seen /\ Cardinality(seen) = received
<1>1. Cardinality(seen) \in Nat
  BY FS_CardinalityType
<1>2. /\ IsFiniteSet(seen \cup {s})
      /\ Cardinality(seen \cup {s}) = IF s \in seen THEN Cardinality(seen)
                                                    ELSE Cardinality(seen) + 1
  BY FS_AddElement
<1> QED
  BY <1>1, <1>2

(* At the start nothing was received.                                        *)
LEMMA InitSeqInv == SeqInit => SeqInv
  BY SeqAssumption, FS_EmptySet
  DEF SeqInit, SeqInv, SeqTypeOK, SeenInv, LossNotOverstated, LossExact

(* A delivery keeps the count, whichever way ae_rtp_seq_update takes.         *)
LEMMA DeliverSeqInv ==
  ASSUME SeqInv, NEW s \in inFlight, SeqUpdate(s),
         base' = IF received = 0 THEN s ELSE base,
         seen' = IF result' = -1 THEN seen ELSE seen \cup {s},
         inFlight' \in {inFlight, inFlight \ {s}},
         UNCHANGED <<first, sent>>
  PROVE  SeqInv'
<1>n. /\ first \in Nat /\ sent \in Nat /\ first + sent < W
      /\ s \in Nat /\ s >= first /\ s < first + sent /\ (s + 1) % W = s + 1
      /\ received \in Nat /\ lost \in Nat /\ nextSeq \in Nat /\ base \in Nat /\ maxSeq \in Nat
      /\ received' = received + 1
  BY Numbers DEF SeqInv, SeqTypeOK, SeqUpdate
<1>s. /\ IsFiniteSet(seen \cup {s}) /\ IsFiniteSet(seen)
      /\ Cardinality(seen) <= received + 1 /\ Cardinality(seen) # received + 1
      /\ Cardinality(seen \cup {s}) <= received + 1
      /\ Cardinality(seen \cup {s}) = received + 1
           => s \notin seen /\ Cardinality(seen) = received
      /\ seen \subseteq first..(nextSeq - 1)
  BY <1>n, SeenCount DEF SeqInv, SeenInv
<1>m. /\ Missing = MissingOf(base, nextSeq, seen)
      /\ Missing' = MissingOf(base', nextSeq', seen')
      /\ Cardinality(MissingOf(base, nextSeq, seen)) \in Nat
  BY <1>n, MissingFinite DEF Missing, MissingOf
<1>t. /\ inFlight' \subseteq first'..(first' + sent' - 1)
      /\ first' \in Firsts /\ sent' \in 0..MaxSent
  BY DEF SeqInv, SeqTypeOK
<1>a. received > 0 => base >= first /\ base < nextSeq /\ base' = base
  BY <1>n DEF SeqInv, SeenInv
<1> USE DEF SeqInv, SeqTypeOK, SeenInv, LossNotOverstated, LossExact
<1>1. CASE FirstPacket(s)
  <2>1. /\ received = 0 /\ lost = 0 /\ lost' = 0 /\ seen = {} /\ seen' = {s} /\ base' = s
        /\ nextSeq' = s + 1 /\ maxSeq' = s
    <3>1. received = 0 /\ nextSeq' = s + 1 /\ maxSeq' = s /\ lost' = lost /\ result' = 0
      BY <1>1, <1>n DEF FirstPacket
    <3>2. lost = 0 /\ seen = {}
      BY <3>1
    <3> QED
      BY <3>1, <3>2
  <2>2. Missing' = {}
    BY <1>m, <1>n, <2>1 DEF MissingOf
  <2>3. Cardinality(Missing') = 0
    BY <2>2, FS_EmptySet
  <2> QED
    BY <1>n, <1>s, <1>t, <2>1, <2>3
<1>2. CASE InOrder(s) \/ Gap(s)
  <2>1. /\ received > 0 /\ s >= nextSeq /\ lost' = lost + (s - nextSeq)
        /\ nextSeq' = s + 1 /\ maxSeq' \in Nat /\ seen' = seen \cup {s} /\ base' = base
    BY <1>2, <1>n, <1>a DEF InOrder, Gap
  <2>2. Cardinality(Missing') = Cardinality(Missing) + (s - nextSeq)
    <3>1. Missing' = MissingOf(base, nextSeq', seen \cup {s})
      BY <1>m, <2>1
    <3>2. base <= nextSeq /\ \A t \in seen : t \in Nat /\ t < nextSeq
      BY <1>n, <1>s, <1>a, <2>1
    <3>3. /\ base \in Nat /\ nextSeq \in Nat /\ s \in Nat
          /\ s >= nextSeq /\ nextSeq' = s + 1 /\ nextSeq' \in Nat
      BY <1>n, <2>1
    <3>4. Cardinality(MissingOf(base, nextSeq', seen \cup {s}))
            = Cardinality(MissingOf(base, nextSeq, seen)) + (s - nextSeq)
      <4> HIDE DEF SeqInv
      <4> QED
        BY <3>2, <3>3, GapGrows
    <3> QED
      BY <1>m, <3>1, <3>4
  <2> QED
    BY <1>m, <1>n, <1>s, <1>t, <1>a, <2>1, <2>2
<1>3. CASE Late(s)
  <2>1. /\ received > 0 /\ s < nextSeq /\ lost' = IF lost > 0 THEN lost - 1 ELSE lost
        /\ nextSeq' = nextSeq /\ maxSeq' = maxSeq /\ seen' = seen \cup {s} /\ base' = base
    BY <1>3, <1>n, <1>a DEF Late
  <2>2. Cardinality(Missing') = IF s \in Missing THEN Cardinality(Missing) - 1
                                                 ELSE Cardinality(Missing)
    BY <1>m, <1>n, <2>1, LateFills
  <2>3. s \notin seen /\ base = first => s \in Missing
    BY <1>n, <2>1 DEF Missing
  <2>4. s \in Missing => Cardinality(Missing) > 0
    BY <1>m, <1>n, MissingFinite, FS_EmptySet
  <2> QED
    BY <1>m, <1>n, <1>s, <1>t, <1>a, <2>1, <2>2, <2>3, <2>4
<1>4. CASE TooOld(s)
  <2>1. /\ received > 0 /\ lost' = lost /\ nextSeq' = nextSeq /\ maxSeq' = maxSeq
        /\ seen' = seen /\ base' = base
    BY <1>4, <1>n, <1>a DEF TooOld
  <2>2. Missing' = Missing
    BY <1>m, <2>1
  <2> QED
    BY <1>n, <1>s, <1>t, <1>a, <2>1, <2>2
<1> QED
  BY <1>1, <1>2, <1>3, <1>4 DEF SeqUpdate

(* Every step of sender, network and tracker keeps it.                       *)
LEMMA NextSeqInv == SeqInv /\ [SeqNext]_seqVars => SeqInv'
<1> SUFFICES ASSUME SeqInv, [SeqNext]_seqVars PROVE SeqInv'
  OBVIOUS
<1>s. ASSUME UNCHANGED <<trackerVars, first, base, seen>>, sent' \in 0..MaxSent,
             inFlight' \subseteq first..(first + sent' - 1)
      PROVE  SeqInv'
  BY <1>s DEF SeqInv, SeqTypeOK, SeenInv, LossNotOverstated, LossExact, Missing, trackerVars
<1>1. CASE Send
  <2>1. sent' \in 0..MaxSent /\ inFlight' \subseteq first..(first + sent' - 1)
    <3>1. /\ sent \in 0..MaxSent /\ first \in Nat /\ MaxSent \in Nat
          /\ inFlight \subseteq first..(first + sent - 1)
      BY Numbers, SeqAssumption DEF SeqInv, SeqTypeOK
    <3>2. sent < MaxSent /\ sent' = sent + 1 /\ inFlight' = inFlight \cup {first + sent}
      BY <1>1 DEF Send
    <3> QED
      BY <3>1, <3>2
  <2> QED
    BY <1>s, <1>1, <2>1 DEF Send
<1>2. CASE Lose
  BY <1>s, <1>2 DEF Lose, SeqInv, SeqTypeOK
<1>3. CASE Deliver
  BY <1>3, DeliverSeqInv DEF Deliver
<1>4. CASE UNCHANGED seqVars
  BY <1>s, <1>4 DEF seqVars, netVars, SeqInv, SeqTypeOK
<1> QED
  BY <1>1, <1>2, <1>3, <1>4 DEF SeqNext

(* Every step of clock, engine and network keeps what is known of the pings.  *)
LEMMA NextPingInv == PingInv /\ [LinkNext]_<<seqVars, pingVars>> => PingInv'
<1> SUFFICES ASSUME PingInv, [LinkNext]_<<seqVars, pingVars>> PROVE PingInv'
  OBVIOUS
<1> USE LinkAssumption DEF PingInv, RttSound
<1>1. CASE Second
  BY <1>1 DEF Second
<1>2. CASE Connect
  BY <1>2 DEF Connect
<1>3. CASE Disconnect
  BY <1>3 DEF Disconnect
<1>4. CASE SendPing
  BY <1>4 DEF SendPing, PingDue
<1>5. CASE LoseEcho
  BY <1>5 DEF LoseEcho
<1>6. CASE Pong
  BY <1>6 DEF Pong
<1>7. CASE UNCHANGED pingVars
  BY <1>7 DEF pingVars
<1> QED
  BY <1>1, <1>2, <1>3, <1>4, <1>5, <1>6, <1>7 DEF LinkNext

(* Both invariants hold for ever.                                            *)
LEMMA LinkInvariance == LinkSpec => [](SeqInv /\ PingInv)
<1>1. LinkInit => SeqInv
  BY InitSeqInv DEF LinkInit
<1>2. LinkInit => PingInv
  BY DEF LinkInit, PingInv, RttSound
<1>3. [LinkNext]_<<seqVars, pingVars>> => [SeqNext]_seqVars
  BY DEF LinkNext
<1> QED
  BY <1>1, <1>2, <1>3, NextSeqInv, NextPingInv, PTL DEF LinkSpec

(* The loss count never says more than is missing.                           *)
THEOREM LossAtMostMissing == LinkSpec => []LossNotOverstated
  BY LinkInvariance, PTL DEF SeqInv

(* Without repetition and refusals it says just what is missing.             *)
THEOREM LossIsMissing == LinkSpec => []LossExact
  BY LinkInvariance, PTL DEF SeqInv

(* The round-trip time is never too long, and exact below the interval.       *)
THEOREM RttHonest == LinkSpec => []RttSound
  BY LinkInvariance, PTL DEF PingInv
=============================================================================
