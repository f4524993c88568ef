---------------------------- MODULE EngineProofs ----------------------------
(***************************************************************************)
(* Proofs about Engine, for any set of channels and peers, any size of the   *)
(* stream table and of the receive buffer.                                   *)
(*                                                                          *)
(* The two threads share flags without a lock, so the argument is about who  *)
(* writes what: only the UI thread moves the channel, and it never does so   *)
(* with the transmit flag set; only the audio thread gives a slot an owner,  *)
(* and only a slot that is not live.                                         *)
(***************************************************************************)
EXTENDS Engine, TLAPS

(* The flags and the program counters, as far as the proof needs them.       *)
Types ==
  /\ connected \in BOOLEAN /\ transmitting \in BOOLEAN /\ active \in BOOLEAN
  /\ keys \subseteq Channel
  /\ want \in Channel \cup {None}
  /\ DOMAIN pc = Thread

Resting == {"idle", "connected", "rejoin", "press"}
Joining == {"setNum", "activate", "setKey", "writeKey"}
Leaving == {"scan", "free", "release", "clear", "deactivate"}
Framing == {"header", "encrypt", "send"}

(* The UI thread is at rest, or about to leave, while the microphone is open. *)
OpenAtRest == transmitting => active /\ pc["ui"] \in Resting

(* Between two calls an active channel has a connection and a key.           *)
ActiveIsReady == active /\ pc["ui"] \in Resting => connected /\ num \in keys

(* A join keeps its channel, and its connection, until it has the key.       *)
JoinOnCourse ==
  /\ pc["ui"] = "press" => active
  /\ want # None => connected /\ pc["ui"] \in {"rejoin"} \cup Joining \cup Leaving
  /\ pc["ui"] \in {"rejoin"} \cup Joining => want # None
  /\ pc["ui"] \in Joining \ {"setNum"} => num = want
  /\ pc["ui"] \in {"setKey", "writeKey"} => active
  /\ pc["ui"] = "writeKey" => num \in keys
  /\ blank # None => pc["ui"] = "writeKey"

(* What the UI thread keeps true of the channel.                             *)
UiInv == Types /\ OpenAtRest /\ ActiveIsReady /\ JoinOnCourse

---------------------------------------------------------------------------
(* The channel and the program counter of the UI thread stay.                *)
UiUntouched == UNCHANGED <<flagVars, want>> /\ DOMAIN pc' = Thread /\ pc'["ui"] = pc["ui"]

(* No step of the audio thread or of the network changes them.               *)
LEMMA OthersLeaveUiAlone ==
  ASSUME Types,
         AudioStep \/ (\E p \in Packet : Arrive(p)) \/ (\E s \in Slot : Age(s))
  PROVE  UiUntouched
<1> USE DEF UiUntouched, Types, Thread, Goto, GotoAt, frameVars, localVars
<1>1. ASSUME Tick PROVE UiUntouched
  BY <1>1 DEF Tick, AudioGoto
<1>2. ASSUME NEW full \in BOOLEAN, Capture(full) PROVE UiUntouched
  BY <1>2 DEF Capture, AudioGoto
<1>3. ASSUME Header PROVE UiUntouched
  BY <1>3 DEF Header, AudioGoto
<1>4. ASSUME Encrypt PROVE UiUntouched
  BY <1>4 DEF Encrypt, AudioGoto
<1>5. ASSUME SendFrame PROVE UiUntouched
  BY <1>5 DEF SendFrame, AudioGoto
<1>6. ASSUME Recv PROVE UiUntouched
  BY <1>6 DEF Recv, NextPacket
<1>7. ASSUME RecvDone PROVE UiUntouched
  BY <1>7 DEF RecvDone
<1>8. ASSUME FindStream PROVE UiUntouched
  BY <1>8 DEF FindStream, NextPacket
<1>9. ASSUME Allocate PROVE UiUntouched
  BY <1>9 DEF Allocate, AudioGoto
<1>10. ASSUME Decrypt PROVE UiUntouched
  BY <1>10 DEF Decrypt, NextPacket
<1>11. ASSUME DecodeBegin PROVE UiUntouched
  BY <1>11 DEF DecodeBegin, NextPacket
<1>12. ASSUME DecodeEnd PROVE UiUntouched
  BY <1>12 DEF DecodeEnd, NextPacket
<1>13. ASSUME MixStream PROVE UiUntouched
  BY <1>13 DEF MixStream
<1>14. ASSUME PopEnd PROVE UiUntouched
  BY <1>14 DEF PopEnd
<1>15. ASSUME MixDone PROVE UiUntouched
  BY <1>15 DEF MixDone
<1>16. ASSUME NEW p \in Packet, Arrive(p) PROVE UiUntouched
  BY <1>16 DEF Arrive
<1>17. ASSUME NEW s \in Slot, Age(s) PROVE UiUntouched
  BY <1>17 DEF Age
<1>18. ASSUME Free("audio") \/ Release("audio") \/ Clear("audio") PROVE UiUntouched
  BY <1>18 DEF Free, Release, Clear
<1> QED
  BY <1>1, <1>2, <1>3, <1>4, <1>5, <1>6, <1>7, <1>8, <1>9, <1>10, <1>11, <1>12, <1>13,
     <1>14, <1>15, <1>16, <1>17, <1>18 DEF AudioStep

(* Every step keeps it: those of the audio thread and of the network,        *)
(* because they touch nothing of it.                                         *)
LEMMA NextUi == UiInv /\ [Next]_vars => UiInv'
<1> SUFFICES ASSUME UiInv, [Next]_vars PROVE UiInv'
  OBVIOUS
<1> USE EngineAssumption
   DEF UiInv, Types, OpenAtRest, ActiveIsReady, JoinOnCourse, Thread, Resting,
       Joining, Leaving, Goto, GotoAt, flagVars, frameVars, localVars
<1>1. ASSUME NEW ok \in BOOLEAN, Connect(ok) PROVE UiInv'
  BY <1>1 DEF Connect, UiGoto
<1>2. ASSUME SetConnected PROVE UiInv'
  BY <1>2 DEF SetConnected, UiGoto
<1>3. ASSUME Disconnect PROVE UiInv'
  BY <1>3 DEF Disconnect, UiGoto, StopTransmitting
<1>4. ASSUME Unconnect PROVE UiInv'
  BY <1>4 DEF Unconnect, UiGoto
<1>5. ASSUME CloseSocket PROVE UiInv'
  BY <1>5 DEF CloseSocket, UiGoto
<1>6. ASSUME Leave PROVE UiInv'
  BY <1>6 DEF Leave, StopTransmitting
<1>7. ASSUME Scan PROVE UiInv'
  BY <1>7 DEF Scan
<1>8. ASSUME Deactivate PROVE UiInv'
  BY <1>8 DEF Deactivate, UiGoto
<1>9. ASSUME NEW h \in Channel, Join(h) PROVE UiInv'
  BY <1>9 DEF Join, UiGoto
<1>10. ASSUME SetNum PROVE UiInv'
  BY <1>10 DEF SetNum, UiGoto
<1>11. ASSUME Activate PROVE UiInv'
  BY <1>11 DEF Activate, UiGoto
<1>12. ASSUME ClaimKey PROVE UiInv'
  BY <1>12 DEF ClaimKey, UiGoto
<1>13. ASSUME WriteKey PROVE UiInv'
  BY <1>13 DEF WriteKey, UiGoto
<1>14. ASSUME Press PROVE UiInv'
  BY <1>14 DEF Press, UiGoto
<1>15. ASSUME SetTransmitting PROVE UiInv'
  BY <1>15 DEF SetTransmitting, UiGoto
<1>16. ASSUME Unpress PROVE UiInv'
  BY <1>16 DEF Unpress, UiGoto, StopTransmitting
<1>17. ASSUME Free("ui") \/ Release("ui") \/ Clear("ui") PROVE UiInv'
  BY <1>17 DEF Free, Release, Clear
<1>18. ASSUME UiUntouched PROVE UiInv'
  BY <1>18 DEF UiUntouched
<1>19. ASSUME UNCHANGED vars PROVE UiInv'
  BY <1>19 DEF vars
<1> QED
  BY OthersLeaveUiAlone, <1>1, <1>2, <1>3, <1>4, <1>5, <1>6, <1>7, <1>8, <1>9, <1>10,
     <1>11, <1>12, <1>13, <1>14, <1>15, <1>16, <1>17, <1>18, <1>19 DEF Next, UiCall,
     UiStep

---------------------------------------------------------------------------
(* A frame whose push-to-talk was not released was captured for the channel  *)
(* the engine is still in.                                                   *)
FrameOnCourse ==
  pc["audio"] \in Framing /\ ~cut =>
    /\ transmitting
    /\ pc["audio"] # "header" => hdr = num
    /\ pc["audio"] = "send" => key = num

(* The one stray frame is the one under way when transmission ended.         *)
StrayOnce ==
  /\ stray \in 0..1
  /\ transmitting \/ pc["audio"] \in Framing => stray = 0

(* What holds of the frame under way.                                        *)
FrameInv == FrameOnCourse /\ StrayOnce

(* The channel moves only with push-to-talk released, so every step keeps    *)
(* the frame on course.                                                      *)
LEMMA NextFrame == UiInv /\ FrameInv /\ [Next]_vars => FrameInv'
<1> SUFFICES ASSUME UiInv, FrameInv, [Next]_vars PROVE FrameInv'
  OBVIOUS
<1> USE DEF UiInv, Types, Thread, OpenAtRest, Resting, FrameInv, FrameOnCourse, StrayOnce, Framing,
            Goto, GotoAt, flagVars, frameVars, localVars
<1>1. ASSUME NEW ok \in BOOLEAN, Connect(ok) PROVE FrameInv'
  BY <1>1 DEF Connect, UiGoto
<1>2. ASSUME SetConnected PROVE FrameInv'
  BY <1>2 DEF SetConnected, UiGoto
<1>3. ASSUME Disconnect PROVE FrameInv'
  BY <1>3 DEF Disconnect, UiGoto, StopTransmitting
<1>4. ASSUME Unconnect PROVE FrameInv'
  BY <1>4 DEF Unconnect, UiGoto
<1>5. ASSUME CloseSocket PROVE FrameInv'
  BY <1>5 DEF CloseSocket, UiGoto
<1>6. ASSUME Leave PROVE FrameInv'
  BY <1>6 DEF Leave, StopTransmitting
<1>7. ASSUME Scan PROVE FrameInv'
  BY <1>7 DEF Scan
<1>8. ASSUME Deactivate PROVE FrameInv'
  BY <1>8 DEF Deactivate, UiGoto
<1>9. ASSUME NEW h \in Channel, Join(h) PROVE FrameInv'
  BY <1>9 DEF Join, UiGoto
<1>10. ASSUME SetNum PROVE FrameInv'
  BY <1>10 DEF SetNum, UiGoto
<1>11. ASSUME Activate PROVE FrameInv'
  BY <1>11 DEF Activate, UiGoto
<1>12. ASSUME ClaimKey PROVE FrameInv'
  BY <1>12 DEF ClaimKey, UiGoto
<1>13. ASSUME WriteKey PROVE FrameInv'
  BY <1>13 DEF WriteKey, UiGoto
<1>14. ASSUME Press PROVE FrameInv'
  BY <1>14 DEF Press, UiGoto
<1>15. ASSUME SetTransmitting PROVE FrameInv'
  BY <1>15 DEF SetTransmitting, UiGoto
<1>16. ASSUME Unpress PROVE FrameInv'
  BY <1>16 DEF Unpress, UiGoto, StopTransmitting
<1>17. ASSUME Tick PROVE FrameInv'
  BY <1>17 DEF Tick, AudioGoto
<1>18. ASSUME NEW full \in BOOLEAN, Capture(full) PROVE FrameInv'
  BY <1>18 DEF Capture, AudioGoto
<1>19. ASSUME Header PROVE FrameInv'
  BY <1>19 DEF Header, AudioGoto
<1>20. ASSUME Encrypt PROVE FrameInv'
  BY <1>20 DEF Encrypt, AudioGoto
<1>21. ASSUME SendFrame PROVE FrameInv'
  BY <1>21 DEF SendFrame, AudioGoto
<1>22. ASSUME Recv PROVE FrameInv'
  BY <1>22 DEF Recv, NextPacket
<1>23. ASSUME RecvDone PROVE FrameInv'
  BY <1>23 DEF RecvDone
<1>24. ASSUME FindStream PROVE FrameInv'
  BY <1>24 DEF FindStream, NextPacket
<1>25. ASSUME Allocate PROVE FrameInv'
  BY <1>25 DEF Allocate, AudioGoto
<1>26. ASSUME Decrypt PROVE FrameInv'
  BY <1>26 DEF Decrypt, NextPacket
<1>27. ASSUME DecodeBegin PROVE FrameInv'
  BY <1>27 DEF DecodeBegin, NextPacket
<1>28. ASSUME DecodeEnd PROVE FrameInv'
  BY <1>28 DEF DecodeEnd, NextPacket
<1>29. ASSUME MixStream PROVE FrameInv'
  BY <1>29 DEF MixStream
<1>30. ASSUME PopEnd PROVE FrameInv'
  BY <1>30 DEF PopEnd
<1>31. ASSUME MixDone PROVE FrameInv'
  BY <1>31 DEF MixDone
<1>32. ASSUME NEW p \in Packet, Arrive(p) PROVE FrameInv'
  BY <1>32 DEF Arrive
<1>33. ASSUME NEW s \in Slot, Age(s) PROVE FrameInv'
  BY <1>33 DEF Age
<1>34. ASSUME NEW t \in Thread, Free(t) \/ Release(t) \/ Clear(t) PROVE FrameInv'
  BY <1>34 DEF Free, Release, Clear
<1>35. ASSUME UNCHANGED vars PROVE FrameInv'
  BY <1>35 DEF vars
<1> QED
  BY <1>1, <1>2, <1>3, <1>4, <1>5, <1>6, <1>7, <1>8, <1>9, <1>10, <1>11, <1>12, <1>13,
     <1>14, <1>15, <1>16, <1>17, <1>18, <1>19, <1>20, <1>21, <1>22, <1>23, <1>24, <1>25,
     <1>26, <1>27, <1>28, <1>29, <1>30, <1>31, <1>32, <1>33, <1>34, <1>35 DEF Next,
     UiCall, UiStep, AudioStep

---------------------------------------------------------------------------
(* The audio thread holds a slot of the stream table.                        *)
Using == {"alloc", "decrypt", "decode", "decoding"}

StreamType == [live : BOOLEAN, owner : Peer \cup {None},
               objects : {"null", "ok", "freed"}, age : {"fresh", "quiet", "silent"}]

(* A slot is given to a peer only when no live slot is that peer's, and its  *)
(* owner stays until the next time it is given.                              *)
StreamInv ==
  /\ DOMAIN pc = Thread /\ DOMAIN at = Thread
  /\ streams \in [Slot -> StreamType]
  /\ inbox \subseteq Packet
  /\ pc["audio"] = "find" => pkt \in Packet
  /\ pc["audio"] \in Using => at["audio"] \in Slot
  /\ OneStreamPerPeer /\ FrameReachesItsStream

(* Freeing, on either thread, never changes an owner and never makes a slot  *)
(* live, so it cannot break the invariant at any point.                      *)
LEMMA NextStream == StreamInv /\ [Next]_vars => StreamInv'
<1> SUFFICES ASSUME StreamInv, [Next]_vars PROVE StreamInv'
  OBVIOUS
<1> USE DEF StreamInv, StreamType, Thread, Using, OneStreamPerPeer, FrameReachesItsStream,
            Goto, GotoAt, netVars, recvVars, localVars
<1>1. ASSUME NEW ok \in BOOLEAN, Connect(ok) PROVE StreamInv'
  BY <1>1 DEF Connect, UiGoto
<1>2. ASSUME SetConnected PROVE StreamInv'
  BY <1>2 DEF SetConnected, UiGoto
<1>3. ASSUME Disconnect PROVE StreamInv'
  BY <1>3 DEF Disconnect, UiGoto, StopTransmitting
<1>4. ASSUME Unconnect PROVE StreamInv'
  BY <1>4 DEF Unconnect, UiGoto
<1>5. ASSUME CloseSocket PROVE StreamInv'
  BY <1>5 DEF CloseSocket, UiGoto
<1>6. ASSUME Leave PROVE StreamInv'
  BY <1>6 DEF Leave, StopTransmitting
<1>7. ASSUME Scan PROVE StreamInv'
  BY <1>7 DEF Scan
<1>8. ASSUME Deactivate PROVE StreamInv'
  BY <1>8 DEF Deactivate, UiGoto
<1>9. ASSUME NEW h \in Channel, Join(h) PROVE StreamInv'
  BY <1>9 DEF Join, UiGoto
<1>10. ASSUME SetNum PROVE StreamInv'
  BY <1>10 DEF SetNum, UiGoto
<1>11. ASSUME Activate PROVE StreamInv'
  BY <1>11 DEF Activate, UiGoto
<1>12. ASSUME ClaimKey PROVE StreamInv'
  BY <1>12 DEF ClaimKey, UiGoto
<1>13. ASSUME WriteKey PROVE StreamInv'
  BY <1>13 DEF WriteKey, UiGoto
<1>14. ASSUME Press PROVE StreamInv'
  BY <1>14 DEF Press, UiGoto
<1>15. ASSUME SetTransmitting PROVE StreamInv'
  BY <1>15 DEF SetTransmitting, UiGoto
<1>16. ASSUME Unpress PROVE StreamInv'
  BY <1>16 DEF Unpress, UiGoto, StopTransmitting
<1>17. ASSUME Tick PROVE StreamInv'
  BY <1>17 DEF Tick, AudioGoto
<1>18. ASSUME NEW full \in BOOLEAN, Capture(full) PROVE StreamInv'
  BY <1>18 DEF Capture, AudioGoto
<1>19. ASSUME Header PROVE StreamInv'
  BY <1>19 DEF Header, AudioGoto
<1>20. ASSUME Encrypt PROVE StreamInv'
  BY <1>20 DEF Encrypt, AudioGoto
<1>21. ASSUME SendFrame PROVE StreamInv'
  BY <1>21 DEF SendFrame, AudioGoto
<1>22. ASSUME Recv PROVE StreamInv'
  BY <1>22 DEF Recv, NextPacket
<1>23. ASSUME RecvDone PROVE StreamInv'
  BY <1>23 DEF RecvDone
<1>24. ASSUME FindStream PROVE StreamInv'
  <2> USE DEF NextPacket, StreamsOf
  <2>1. pc["audio"] = "find" /\ pkt \in Packet /\ pkt.from \in Peer /\ UNCHANGED inbox
    BY <1>24 DEF FindStream, Packet
  <2>2. CASE StreamsOf(pkt.from) # {}
    BY <1>24, <2>1, <2>2 DEF FindStream
  <2>3. CASE StreamsOf(pkt.from) = {} /\ \A s \in Slot : streams[s].live
    BY <1>24, <2>1, <2>3 DEF FindStream
  <2>4. CASE StreamsOf(pkt.from) = {} /\ ~\A s \in Slot : streams[s].live
    <3>1. PICK s \in Slot :
            /\ ~streams[s].live
            /\ streams' = [streams EXCEPT ![s] =
                 [NoStream EXCEPT !.live = TRUE, !.owner = pkt.from]]
            /\ GotoAt("audio", "alloc", s)
            /\ UNCHANGED pkt
      BY <1>24, <2>4 DEF FindStream
    <3> DEFINE made == [NoStream EXCEPT !.live = TRUE, !.owner = pkt.from]
    <3>2. made \in StreamType /\ made.live /\ made.owner = pkt.from
      BY <2>1 DEF NoStream
    <3> HIDE DEF made
    <3>3. /\ streams' = [streams EXCEPT ![s] = made]
          /\ pc'["audio"] = "alloc" /\ at'["audio"] = s /\ pkt' = pkt
          /\ DOMAIN pc' = Thread /\ DOMAIN at' = Thread
      BY <3>1 DEF made
    <3>4. /\ streams'[s] = made /\ streams' \in [Slot -> StreamType]
          /\ \A u \in Slot \ {s} : streams'[u] = streams[u]
      <4> HIDE DEF StreamType
      <4> QED
        BY <3>2, <3>3
    <3>5. \A u \in Slot : streams[u].live => streams[u].owner # pkt.from
      BY <2>4
    <3> QED
      BY <2>1, <3>2, <3>3, <3>4, <3>5
  <2> QED
    BY <2>2, <2>3, <2>4
<1>25. ASSUME Allocate PROVE StreamInv'
  BY <1>25 DEF Allocate, AudioGoto
<1>26. ASSUME Decrypt PROVE StreamInv'
  BY <1>26 DEF Decrypt, NextPacket
<1>27. ASSUME DecodeBegin PROVE StreamInv'
  BY <1>27 DEF DecodeBegin, NextPacket
<1>28. ASSUME DecodeEnd PROVE StreamInv'
  BY <1>28 DEF DecodeEnd, NextPacket
<1>29. ASSUME MixStream PROVE StreamInv'
  BY <1>29 DEF MixStream
<1>30. ASSUME PopEnd PROVE StreamInv'
  BY <1>30 DEF PopEnd
<1>31. ASSUME MixDone PROVE StreamInv'
  BY <1>31 DEF MixDone
<1>32. ASSUME NEW p \in Packet, Arrive(p) PROVE StreamInv'
  BY <1>32 DEF Arrive
<1>33. ASSUME NEW s \in Slot, Age(s) PROVE StreamInv'
  BY <1>33 DEF Age
<1>34. ASSUME NEW t \in Thread, Free(t) PROVE StreamInv'
  <2>1. ASSUME NEW s \in Slot
        PROVE  /\ streams'[s] \in StreamType
               /\ streams'[s].owner = streams[s].owner
               /\ streams'[s].live => streams[s].live
    <3>1. CASE s = at[t]
      <4>1. streams'[s] = [streams[s] EXCEPT !.objects = IF @ = "null" THEN @ ELSE "freed"]
        <5> HIDE DEF StreamType
        <5> QED
          BY <1>34, <3>1 DEF Free
      <4>2. streams[s] \in StreamType
        <5> HIDE DEF StreamType
        <5> QED
          OBVIOUS
      <4> QED
        BY <4>1, <4>2
    <3>2. CASE s # at[t]
      BY <1>34, <3>2 DEF Free
    <3> QED
      BY <3>1, <3>2
  <2>2. streams' \in [Slot -> StreamType]
    BY <1>34, <2>1 DEF Free
  <2>3. /\ DOMAIN pc' = Thread /\ DOMAIN at' = Thread /\ UNCHANGED <<inbox, pkt>>
        /\ pc'["audio"] \in Using \cup {"find"} =>
             pc'["audio"] = pc["audio"] /\ at'["audio"] = at["audio"]
    BY <1>34 DEF Free
  <2> HIDE DEF StreamType
  <2> QED
    BY <2>1, <2>2, <2>3
<1>35. ASSUME NEW t \in Thread, Release(t) PROVE StreamInv'
  <2>1. ASSUME NEW s \in Slot
        PROVE  /\ streams'[s] \in StreamType
               /\ streams'[s].owner = streams[s].owner
               /\ streams'[s].live => streams[s].live
    <3>1. CASE s = at[t]
      <4>1. streams'[s] = [streams[s] EXCEPT !.live = FALSE]
        <5> HIDE DEF StreamType
        <5> QED
          BY <1>35, <3>1 DEF Release
      <4>2. streams[s] \in StreamType
        <5> HIDE DEF StreamType
        <5> QED
          OBVIOUS
      <4> QED
        BY <4>1, <4>2
    <3>2. CASE s # at[t]
      BY <1>35, <3>2 DEF Release
    <3> QED
      BY <3>1, <3>2
  <2>2. streams' \in [Slot -> StreamType]
    BY <1>35, <2>1 DEF Release
  <2>3. /\ DOMAIN pc' = Thread /\ DOMAIN at' = Thread /\ UNCHANGED <<inbox, pkt>>
        /\ pc'["audio"] \in Using \cup {"find"} =>
             pc'["audio"] = pc["audio"] /\ at'["audio"] = at["audio"]
    BY <1>35 DEF Release
  <2> HIDE DEF StreamType
  <2> QED
    BY <2>1, <2>2, <2>3
<1>36. ASSUME NEW t \in Thread, Clear(t) PROVE StreamInv'
  <2>1. ASSUME NEW s \in Slot
        PROVE  /\ streams'[s] \in StreamType
               /\ streams'[s].owner = streams[s].owner
               /\ streams'[s].live => streams[s].live
    <3>1. CASE s = at[t]
      <4>1. streams'[s] = [streams[s] EXCEPT !.objects = "null"]
        <5> HIDE DEF StreamType
        <5> QED
          BY <1>36, <3>1 DEF Clear
      <4>2. streams[s] \in StreamType
        <5> HIDE DEF StreamType
        <5> QED
          OBVIOUS
      <4> QED
        BY <4>1, <4>2
    <3>2. CASE s # at[t]
      BY <1>36, <3>2 DEF Clear
    <3> QED
      BY <3>1, <3>2
  <2>2. streams' \in [Slot -> StreamType]
    BY <1>36, <2>1 DEF Clear
  <2>3. /\ DOMAIN pc' = Thread /\ DOMAIN at' = Thread /\ UNCHANGED <<inbox, pkt>>
        /\ pc'["audio"] \in Using \cup {"find"} =>
             pc'["audio"] = pc["audio"] /\ at'["audio"] = at["audio"]
    BY <1>36 DEF Clear
  <2> HIDE DEF StreamType
  <2> QED
    BY <2>1, <2>2, <2>3
<1>37. ASSUME UNCHANGED vars PROVE StreamInv'
  BY <1>37 DEF vars
<1> QED
  BY <1>1, <1>2, <1>3, <1>4, <1>5, <1>6, <1>7, <1>8, <1>9, <1>10, <1>11, <1>12, <1>13,
     <1>14, <1>15, <1>16, <1>17, <1>18, <1>19, <1>20, <1>21, <1>22, <1>23, <1>24, <1>25,
     <1>26, <1>27, <1>28, <1>29, <1>30, <1>31, <1>32, <1>33, <1>34, <1>35, <1>36, <1>37
     DEF Next, UiCall, UiStep, AudioStep
---------------------------------------------------------------------------
Inv == UiInv /\ FrameInv /\ StreamInv

(* The engine starts idle, outside any channel, with an empty stream table.   *)
LEMMA InitInv == Init => Inv
<1> SUFFICES ASSUME Init PROVE Inv
  OBVIOUS
<1>1. UiInv
  BY EngineAssumption
  DEF Init, UiInv, Types, OpenAtRest, ActiveIsReady, JoinOnCourse, Thread, Resting,
      Joining, Leaving
<1>2. FrameInv
  BY DEF Init, FrameInv, FrameOnCourse, StrayOnce, Framing, Thread
<1>3. StreamInv
  <2>1. streams \in [Slot -> StreamType]
    BY DEF Init, NoStream, StreamType
  <2>2. /\ DOMAIN pc = Thread /\ DOMAIN at = Thread /\ inbox = {}
        /\ pc["audio"] = "idle"
        /\ \A s \in Slot : ~streams[s].live
    BY DEF Init, Thread, NoStream
  <2> QED
    BY <2>1, <2>2 DEF StreamInv, Using, OneStreamPerPeer, FrameReachesItsStream
<1> QED
  BY <1>1, <1>2, <1>3 DEF Inv

(* The invariant holds throughout, whatever the two threads interleave.      *)
THEOREM Invariant == Spec => []Inv
<1>1. Inv /\ [Next]_vars => Inv'
  BY NextUi, NextFrame, NextStream DEF Inv
<1> QED
  BY InitInv, <1>1, PTL DEF Spec

(* ae_engine_join_channel and its kin: the microphone is never open outside  *)
(* a channel, without a connection or with a key that is not complete.       *)
THEOREM TransmitInside == Spec => []TransmitOnlyInChannel
<1>1. Inv => TransmitOnlyInChannel
  <2> SUFFICES ASSUME Inv, transmitting PROVE connected /\ active /\ CanDecrypt(num)
    BY DEF TransmitOnlyInChannel
  <2>1. connected /\ active /\ num \in keys /\ pc["ui"] \in Resting
    BY DEF Inv, UiInv, OpenAtRest, ActiveIsReady
  <2>2. blank = None
    BY <2>1 DEF Inv, UiInv, JoinOnCourse, Resting
  <2>3. num # None
    BY <2>1, EngineAssumption DEF Inv, UiInv, Types
  <2> QED
    BY <2>1, <2>2, <2>3 DEF CanDecrypt
<1> QED
  BY Invariant, <1>1, PTL

(* However a transmission ends, at most one frame goes out afterwards.       *)
THEOREM StrayBounded == Spec => []AtMostOneStrayFrame
<1>1. Inv => AtMostOneStrayFrame
  BY DEF Inv, FrameInv, StrayOnce, AtMostOneStrayFrame
<1> QED
  BY Invariant, <1>1, PTL

(* A frame whose transmission was not released carries one channel in its    *)
(* header and in its key, and that key is complete.                          *)
THEOREM UncutFrame == Spec => []UncutFrameKeepsItsChannel
<1>1. Inv /\ TransmitOnlyInChannel => UncutFrameKeepsItsChannel
  BY DEF Inv, FrameInv, FrameOnCourse, Framing, TransmitOnlyInChannel,
         UncutFrameKeepsItsChannel
<1> QED
  BY Invariant, TransmitInside, <1>1, PTL

(* No peer has two streams, for any size of the stream table.                *)
THEOREM OneStream == Spec => []OneStreamPerPeer
<1>1. Inv => OneStreamPerPeer
  BY DEF Inv, StreamInv
<1> QED
  BY Invariant, <1>1, PTL

(* A packet is decoded into its sender's stream, also when a leave releases   *)
(* the slot while the audio thread is on its way there.                      *)
THEOREM FrameArrives == Spec => []FrameReachesItsStream
<1>1. Inv => FrameReachesItsStream
  BY DEF Inv, StreamInv
<1> QED
  BY Invariant, <1>1, PTL
---------------------------------------------------------------------------
(* The refinement: what the fields of the engine will be when the call under  *)
(* way returns changes only where the call begins.                           *)
LEMMA CallsInit == Init => Calls!ControlInit
  BY DEF Init, Thread, Calls!ControlInit, CallConnected, CallChannel, CallTransmitting

CallUntouched == UNCHANGED <<CallConnected, CallChannel, CallTransmitting>>

LEMMA CallsStep == UiInv /\ [Next]_vars => [Calls!EngineCall]_(Calls!engineVars)
<1> SUFFICES ASSUME UiInv, [Next]_vars, ~CallUntouched
             PROVE  Calls!EngineCall
  BY DEF CallUntouched, Calls!engineVars
<1> USE EngineAssumption
   DEF UiInv, Types, OpenAtRest, ActiveIsReady, JoinOnCourse, Thread, Resting, Joining, Leaving,
       CallConnected, CallChannel, CallTransmitting, CallUntouched,
       Goto, GotoAt, UiGoto, StopTransmitting, flagVars, frameVars, localVars
(* The first step of each call.                                              *)
<1>1. ASSUME NEW ok \in BOOLEAN, Connect(ok) PROVE Calls!EngineCall
  <2>1. Calls!EngineConnect(ok)
    BY <1>1 DEF Connect, Calls!EngineConnect
  <2> QED
    BY <2>1 DEF Calls!EngineCall
<1>2. ASSUME Disconnect PROVE Calls!EngineCall
  <2>1. Calls!EngineDisconnect
    BY <1>2 DEF Disconnect, Calls!EngineDisconnect
  <2> QED
    BY <2>1 DEF Calls!EngineCall
<1>3. ASSUME pc["ui"] = "idle", Leave PROVE Calls!EngineCall
  <2>1. Calls!EngineLeave
    BY <1>3 DEF Leave, Calls!EngineLeave
  <2> QED
    BY <2>1 DEF Calls!EngineCall
<1>4. ASSUME NEW h \in Channel, Join(h) PROVE Calls!EngineCall
  <2>1. Calls!EngineJoin(h)
    BY <1>4 DEF Join, Calls!EngineJoin
  <2> QED
    BY <2>1 DEF Calls!EngineCall
<1>5. ASSUME Press PROVE Calls!EngineCall
  <2>1. Calls!EngineStart
    BY <1>5 DEF Press, Calls!EngineStart
  <2> QED
    BY <2>1 DEF Calls!EngineCall
<1>6. ASSUME Unpress PROVE Calls!EngineCall
  <2>1. Calls!EngineStop
    BY <1>6 DEF Unpress, Calls!EngineStop
  <2> QED
    BY <2>1 DEF Calls!EngineCall
(* The others carry the call out.                                            *)
<1>7. ~(pc["ui"] = "rejoin" /\ Leave)
  BY DEF Leave
<1>8. ~SetConnected
  <2> SUFFICES ASSUME SetConnected PROVE FALSE
    OBVIOUS
  <2>1. CallConnected' = CallConnected
    BY DEF SetConnected
  <2>2. CallChannel' = CallChannel
    BY DEF SetConnected
  <2>3. CallTransmitting' = CallTransmitting
    BY DEF SetConnected
  <2> QED
    BY <2>1, <2>2, <2>3
<1>9. ~Unconnect
  BY DEF Unconnect
<1>10. ~CloseSocket
  BY DEF CloseSocket
<1>11. ~Scan
  <2> SUFFICES ASSUME Scan PROVE FALSE
    OBVIOUS
  <2>1. pc["ui"] = "scan" /\ pc'["ui"] \in {"scan", "free", "deactivate"}
    <3> HIDE DEF CallConnected, CallChannel, CallTransmitting
    <3> QED
      BY DEF Scan
  <2>2. UNCHANGED <<connected, num, active, want, transmitting>>
    <3> HIDE DEF CallConnected, CallChannel, CallTransmitting
    <3> QED
      BY DEF Scan
  <2>3. CallConnected' = CallConnected
    BY <2>1, <2>2
  <2>4. CallChannel' = CallChannel
    BY <2>1, <2>2
  <2>5. CallTransmitting' = CallTransmitting
    BY <2>1, <2>2
  <2> QED
    BY <2>3, <2>4, <2>5
<1>12. ~Deactivate
  BY DEF Deactivate
<1>13. ~SetNum
  BY DEF SetNum
<1>14. ~Activate
  BY DEF Activate
<1>15. ~ClaimKey
  BY DEF ClaimKey
<1>16. ~WriteKey
  <2> SUFFICES ASSUME WriteKey PROVE FALSE
    OBVIOUS
  <2>1. CallConnected' = CallConnected
    BY DEF WriteKey
  <2>2. CallChannel' = CallChannel
    BY DEF WriteKey
  <2>3. CallTransmitting' = CallTransmitting
    BY DEF WriteKey
  <2> QED
    BY <2>1, <2>2, <2>3
<1>17. ~SetTransmitting
  <2> SUFFICES ASSUME SetTransmitting PROVE FALSE
    OBVIOUS
  <2>1. CallConnected' = CallConnected
    BY DEF SetTransmitting
  <2>2. CallChannel' = CallChannel
    BY DEF SetTransmitting
  <2>3. CallTransmitting' = CallTransmitting
    BY DEF SetTransmitting
  <2> QED
    BY <2>1, <2>2, <2>3
<1>18. ~(Free("ui") \/ Release("ui") \/ Clear("ui"))
  BY DEF Free, Release, Clear
<1>19. ~UiUntouched
  <2> SUFFICES ASSUME UiUntouched PROVE FALSE
    OBVIOUS
  <2>1. CallConnected' = CallConnected
    BY DEF UiUntouched
  <2>2. CallChannel' = CallChannel
    BY DEF UiUntouched
  <2>3. CallTransmitting' = CallTransmitting
    BY DEF UiUntouched
  <2> QED
    BY <2>1, <2>2, <2>3
<1>20. ~UNCHANGED vars
  <2> SUFFICES ASSUME UNCHANGED vars PROVE FALSE
    OBVIOUS
  <2>1. CallConnected' = CallConnected
    BY DEF vars
  <2>2. CallChannel' = CallChannel
    BY DEF vars
  <2>3. CallTransmitting' = CallTransmitting
    BY DEF vars
  <2> QED
    BY <2>1, <2>2, <2>3
<1> QED
  BY OthersLeaveUiAlone, <1>1, <1>2, <1>3, <1>4, <1>5, <1>6, <1>7, <1>8, <1>9, <1>10,
     <1>11, <1>12, <1>13, <1>14, <1>15, <1>16, <1>17, <1>18, <1>19, <1>20
  DEF Next, UiCall, UiStep

(* The engine's calls are the whole steps the front ends rely on, for any     *)
(* channels, peers and sizes, whatever the audio thread does in between.     *)
THEOREM Refinement == Spec => ImplementsCalls
<1>1. Inv => UiInv
  BY DEF Inv
<1> QED
  BY <1>1, CallsInit, CallsStep, Invariant, PTL DEF Spec, ImplementsCalls, Calls!CallSpec
=============================================================================
