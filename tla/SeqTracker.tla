----------------------------- MODULE SeqTracker -----------------------------
(***************************************************************************)
(* The loss and reordering tracker of core/src/rtp.c, fed by a network that  *)
(* loses, delays and repeats the packets of one sender.                      *)
(* Sequence numbers are unsigned and wrap at W (2^32 in the code); the sent  *)
(* numbers stay below W here, but max_seq - 1000 is unsigned arithmetic and  *)
(* is modelled as such.                                                      *)
(***************************************************************************)
EXTENDS Integers, FiniteSets

CONSTANTS W,             \* 2^32
          Window,        \* 1000: how old a reordered packet may be
          Firsts,        \* numbers the sender may begin with
          MaxSent        \* bound on the packets sent; twice as many may arrive

ASSUME SeqAssumption ==
  /\ W \in Nat /\ Window \in Nat \ {0} /\ MaxSent \in Nat
  /\ Window < W
  /\ \A n \in Firsts : n \in Nat /\ n + MaxSent < W

VARIABLES
  nextSeq, maxSeq, received, lost, reordered,   \* ae_rtp_seq_tracker_t
  result,     \* what the last ae_rtp_seq_update returned
  first,      \* the number the sender began with
  sent,       \* packets sent so far
  inFlight,   \* numbers the network may still deliver
  base,       \* the number received first
  seen        \* numbers received and not refused as too old

trackerVars == <<nextSeq, maxSeq, received, lost, reordered, result>>
netVars     == <<first, sent, inFlight, base, seen>>
seqVars     == <<trackerVars, netVars>>

SeqInit ==
  /\ nextSeq = 0 /\ maxSeq = 0 /\ received = 0 /\ lost = 0 /\ reordered = 0
  /\ result = 0
  /\ first \in Firsts
  /\ sent = 0
  /\ inFlight = {}
  /\ base = first
  /\ seen = {}

(* seq > max_seq - 1000, all of it unsigned                                  *)
Recent(s) == s > (maxSeq - Window) % W

---------------------------------------------------------------------------
(* ae_rtp_seq_update, one disjunct for each way out.                         *)
FirstPacket(s) ==
  /\ received = 0
  /\ nextSeq' = (s + 1) % W
  /\ maxSeq' = s
  /\ result' = 0
  /\ UNCHANGED <<lost, reordered>>

InOrder(s) ==
  /\ received > 0
  /\ s = nextSeq
  /\ nextSeq' = (s + 1) % W
  /\ maxSeq' = IF s > maxSeq THEN s ELSE maxSeq
  /\ result' = 0
  /\ UNCHANGED <<lost, reordered>>

(* Mutant of Gap: the packet that closes the gap is counted as lost.         *)
GapOneMore(s) ==
  /\ received > 0
  /\ s > nextSeq
  /\ lost' = lost + (s - nextSeq) + 1
  /\ nextSeq' = (s + 1) % W
  /\ maxSeq' = s
  /\ result' = 0
  /\ UNCHANGED reordered

Gap(s) ==
  /\ received > 0
  /\ s > nextSeq
  /\ lost' = lost + (s - nextSeq)
  /\ nextSeq' = (s + 1) % W
  /\ maxSeq' = s
  /\ result' = 0
  /\ UNCHANGED reordered

(* Mutant of Late: what arrives late stays lost.                             *)
LateStaysLost(s) ==
  /\ received > 0
  /\ s < nextSeq
  /\ Recent(s)
  /\ reordered' = reordered + 1
  /\ result' = 1
  /\ UNCHANGED <<nextSeq, maxSeq, lost>>

Late(s) ==
  /\ received > 0
  /\ s < nextSeq
  /\ Recent(s)
  /\ reordered' = reordered + 1
  /\ lost' = IF lost > 0 THEN lost - 1 ELSE lost
  /\ result' = 1
  /\ UNCHANGED <<nextSeq, maxSeq>>

TooOld(s) ==
  /\ received > 0
  /\ s < nextSeq
  /\ ~Recent(s)
  /\ result' = -1
  /\ UNCHANGED <<nextSeq, maxSeq, lost, reordered>>

SeqUpdate(s) ==
  /\ received' = received + 1
  /\ FirstPacket(s) \/ InOrder(s) \/ Gap(s) \/ Late(s) \/ TooOld(s)

---------------------------------------------------------------------------
Send == /\ sent < MaxSent
        /\ inFlight' = inFlight \cup {first + sent}
        /\ sent' = sent + 1
        /\ UNCHANGED <<trackerVars, first, base, seen>>

Lose == /\ \E s \in inFlight : inFlight' = inFlight \ {s}
        /\ UNCHANGED <<trackerVars, first, sent, base, seen>>

Deliver ==
  \E s \in inFlight :
    /\ received < 2 * MaxSent
    /\ SeqUpdate(s)
    /\ base' = IF received = 0 THEN s ELSE base
    /\ seen' = IF result' = -1 THEN seen ELSE seen \cup {s}
    /\ inFlight' \in {inFlight, inFlight \ {s}}
    /\ UNCHANGED <<first, sent>>

SeqNext == Send \/ Lose \/ Deliver

SeqSpec == SeqInit /\ [][SeqNext]_seqVars

---------------------------------------------------------------------------
(* Numbers below the expected one that were not counted as received in time, *)
(* from the first that was.                                                  *)
Missing == {s \in base..(nextSeq - 1) : s \notin seen}

(* The loss count never overstates: it is at most the number of packets below *)
(* the expected one that are missing, whatever is reordered, repeated or so  *)
(* late that the tracker refuses it.                                         *)
LossNotOverstated == received > 0 => lost <= Cardinality(Missing)

(* When the sender was heard from its first packet on and nothing was        *)
(* repeated or refused, the loss count is exact: a reordered packet takes    *)
(* back just what the gap it left had added.                                 *)
LossExact ==
  received > 0 /\ base = first /\ received = Cardinality(seen)
    => lost = Cardinality(Missing)
=============================================================================
