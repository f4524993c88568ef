---------------------------- MODULE ClientProofs ----------------------------
(***************************************************************************)
(* Proofs about WindowsClient, for any number of connecting threads.  What    *)
(* keeps two connectors apart is the Connect button alone, so the invariant   *)
(* says who may enable it: until a "disconnected" event, only the thread      *)
(* that has disabled it, when it ends.                                       *)
(***************************************************************************)
EXTENDS WindowsClient, TLAPS, FiniteSetTheorems

(* t is at label, or goes there when its log line or its join is through.    *)
Heads(t, label) ==
  \/ pc[t] = label
  \/ pc[t] \in {"lock", "send", "join"} /\ next[t] = label

Running(k) == pc[k] # "none"

(* Where each thread can be.                                                 *)
Place == {"idle", "none", "lock", "send", "join", "post", "reset", "closing", "destructor",
          "freed", "ended", "connect", "dial", "handshake", "auth", "start", "failed", "udp",
          "giveUp", "check", "recv", "lost", "finished"}

UiOK ==
  \/ pc["ui"] \in {"idle", "reset", "closing", "destructor", "freed", "ended"}
  \/ pc["ui"] = "lock" /\ next["ui"] = "idle"
  \/ pc["ui"] = "join" /\ next["ui"] \in {"reset", "destructor", "freed"}

RecvOK ==
  \/ pc["recv"] \in {"none", "check", "recv", "lost", "post", "finished"}
  \/ pc["recv"] \in {"lock", "send"} /\ next["recv"] \in {"check", "post"}

ConnectorOK(k) ==
  \/ pc[k] \in {"none", "connect", "dial", "handshake", "auth", "start", "failed", "udp",
                "giveUp", "post"}
  \/ pc[k] \in {"lock", "send"} /\ next[k] \in {"connect", "udp", "giveUp", "post"}
  \/ pc[k] = "join" /\ next[k] \in {"dial", "failed", "post"}

PlaceOK == UiOK /\ RecvOK /\ \A k \in Connector : ConnectorOK(k)

(* Every variable has its type.                                              *)
TypeOK ==
  /\ gConnected \in BOOLEAN /\ wsConnected \in BOOLEAN /\ sock \in BOOLEAN
  /\ logHolder \in Thread \cup {None}
  /\ posted \in BOOLEAN /\ canConnect \in BOOLEAN /\ canDisconnect \in BOOLEAN
  /\ inChannel \in BOOLEAN
  /\ lost \in BOOLEAN /\ hasty \in BOOLEAN /\ crashed \in BOOLEAN
  /\ pc \in [Thread -> Place] /\ next \in [Thread -> Place]

(* Buttons that do not show g_connected are about to be corrected.           *)
ButtonInv ==
  \/ canDisconnect = gConnected /\ canConnect = ~gConnected
  \/ posted \/ Closed \/ Heads("recv", "post")
  \/ \E k \in Connector : Running(k)

(* Until a "disconnected" event nobody but a connector posts to the window,   *)
(* and both buttons are disabled until what it posted has been read.         *)
TurnInv ==
  ~lost =>
    /\ ~Heads("recv", "post")
    /\ \A k, l \in Connector : Running(k) /\ Running(l) => k = l
    /\ posted => \A k \in Connector : ~Running(k)
    /\ posted \/ (\E k \in Connector : Running(k)) => ~canConnect /\ ~canDisconnect
    /\ canDisconnect => ~canConnect
    /\ Heads("ui", "reset") => canDisconnect

(* The receiving thread may run, or have to be joined, while k goes on.      *)
HasReceiver(k) ==
  Heads(k, "udp") \/ Heads(k, "giveUp") \/ (pc[k] = "join" /\ next[k] = "post")

(* Until then, if no connect was under way when the window was closed, the    *)
(* receiving thread belongs to a connection, or to the connector that is     *)
(* making one, and every way out joins it.                                   *)
ReceiverInv ==
  /\ hasty => Closed
  /\ ~lost /\ ~hasty =>
      /\ ~crashed
      /\ pc["recv"] # "none" => gConnected \/ \E k \in Connector : HasReceiver(k)
      /\ \A k \in Connector :
           (\E label \in {"connect", "dial", "handshake", "auth", "start", "failed"} :
              Heads(k, label))
             => pc["recv"] = "none"
      /\ pc["ui"] \in {"reset", "destructor", "freed", "ended"} \/ Heads("ui", "freed")
           => pc["recv"] = "none"
      /\ Closed => \A k \in Connector : ~Running(k)

IInv == TypeOK /\ PlaceOK /\ ButtonInv /\ TurnInv /\ ReceiverInv
---------------------------------------------------------------------------
(* At the start nothing runs and the buttons are right.                      *)
LEMMA InitIInv == Init => IInv
<1> SUFFICES ASSUME Init PROVE IInv
  OBVIOUS
<1> USE ClientAssumption DEF Init, Thread
<1>1. TypeOK
  BY DEF TypeOK, Place
<1>2. PlaceOK
  BY DEF PlaceOK, UiOK, RecvOK, ConnectorOK
<1>3. ButtonInv
  BY DEF ButtonInv
<1>4. TurnInv
  BY DEF TurnInv, Heads, Running
<1>5. ReceiverInv
  BY DEF ReceiverInv, Heads, HasReceiver, Running, Closed
<1> QED
  BY <1>1, <1>2, <1>3, <1>4, <1>5 DEF IInv

(* The labels are labels: what the steps below need of Place.                *)
LEMMA Labels ==
  /\ "idle" \in Place /\ "none" \in Place /\ "lock" \in Place /\ "send" \in Place
  /\ "join" \in Place /\ "post" \in Place /\ "reset" \in Place /\ "closing" \in Place
  /\ "destructor" \in Place /\ "freed" \in Place /\ "ended" \in Place
  /\ "connect" \in Place /\ "dial" \in Place /\ "handshake" \in Place /\ "auth" \in Place
  /\ "start" \in Place /\ "failed" \in Place /\ "udp" \in Place /\ "giveUp" \in Place
  /\ "check" \in Place /\ "recv" \in Place /\ "lost" \in Place /\ "finished" \in Place
BY DEF Place

(* The part of TypeOK about the threads.                                     *)
Typed == pc \in [Thread -> Place] /\ next \in [Thread -> Place]

(* t has not moved.                                                          *)
Still(t) == pc'[t] = pc[t] /\ next'[t] = next[t]

(* t moves, and no other thread does.                                        *)
Moves(t, label, after) ==
  /\ Typed'
  /\ pc'[t] = label /\ next'[t] = after
  /\ \A s \in Thread \ {t} : Still(s)

(* What Goto and Wait do to the threads.                                     *)
LEMMA GotoMoves ==
  ASSUME Typed, NEW t \in Thread, NEW label \in Place, Goto(t, label), UNCHANGED next
  PROVE  Moves(t, label, next[t])
BY DEF Typed, Moves, Still, Goto

(* The same of Wait, which sets both.                                        *)
LEMMA WaitMoves ==
  ASSUME Typed, NEW t \in Thread, NEW how \in Place, NEW label \in Place,
         Wait(t, how, label)
  PROVE  Moves(t, how, label)
BY DEF Typed, Moves, Still, Goto, Wait

(* Every step leaves each thread at a label.                                 *)
LEMMA NextTyped == IInv /\ [Next]_vars => Typed'
<1> SUFFICES ASSUME IInv, [Next]_vars PROVE Typed'
  OBVIOUS
<1> USE Labels, GotoMoves, WaitMoves DEF Moves, StartLog
<1>a. Typed
  BY DEF IInv, TypeOK, Typed
<1>b. "ui" \in Thread /\ "recv" \in Thread /\ \A k \in Connector : k \in Thread
  BY DEF Thread
<1>c. \A t \in Thread : pc[t] \in Place /\ next[t] \in Place
  BY <1>a DEF Typed
<1> USE <1>a, <1>b, <1>c
<1>1. CASE UpdateConnectionUI
  BY <1>1 DEF UpdateConnectionUI, Typed
<1>2. CASE ClickDisconnect
  BY <1>2 DEF ClickDisconnect, Hangup
<1>3. CASE Reset
  BY <1>3 DEF Reset
<1>4. CASE ClickJoin
  BY <1>4 DEF ClickJoin
<1>25. CASE ClickJoined
  BY <1>25 DEF ClickJoined
<1>5. CASE CloseWindow
  BY <1>5 DEF CloseWindow
<1>6. CASE ShutDown
  BY <1>6 DEF ShutDown, Hangup
<1>7. CASE Exit
  BY <1>7 DEF Exit
<1>8. CASE Event
  BY <1>8 DEF Event
<1>9. CASE CheckConnected
  BY <1>9 DEF CheckConnected
<1>10. CASE RecvFails
  BY <1>10 DEF RecvFails
<1>11. CASE Disconnected
  BY <1>11 DEF Disconnected
<1>12. ASSUME NEW k \in Connector, ClickConnect(k) PROVE Typed'
  BY <1>12 DEF ClickConnect
<1>13. ASSUME NEW k \in Connector, Connect(k) PROVE Typed'
  BY <1>13 DEF Connect, Hangup
<1>14. ASSUME NEW k \in Connector, Failed(k) PROVE Typed'
  BY <1>14 DEF Failed
<1>15. ASSUME NEW k \in Connector, StartRecv(k) PROVE Typed'
  <2>1. CASE pc["recv"] # "none"
    BY <1>15, <2>1 DEF StartRecv, Typed
  <2>2. CASE pc["recv"] = "none"
    <3>1. /\ pc' = [pc EXCEPT !["recv"] = "check", ![k] = "lock"]
          /\ next' = [next EXCEPT ![k] = "udp"]
      BY <1>15, <2>2 DEF StartRecv
    <3> HIDE GotoMoves, WaitMoves
    <3> QED
      BY <3>1 DEF Typed
  <2> QED
    BY <2>1, <2>2
<1>16. ASSUME NEW k \in Connector, GiveUp(k) PROVE Typed'
  BY <1>16 DEF GiveUp, Hangup
<1>26. ASSUME NEW k \in Connector, NEW ok \in BOOLEAN, Dial(k, ok) PROVE Typed'
  BY <1>26 DEF Dial
<1>17. ASSUME NEW k \in Connector, NEW ok \in BOOLEAN, Handshake(k, ok) PROVE Typed'
  BY <1>17 DEF Handshake
<1>18. ASSUME NEW k \in Connector, NEW ok \in BOOLEAN, Auth(k, ok) PROVE Typed'
  BY <1>18 DEF Auth, Hangup
<1>19. ASSUME NEW k \in Connector, NEW ok \in BOOLEAN, Udp(k, ok) PROVE Typed'
  BY <1>19 DEF Udp
<1>20. ASSUME NEW t \in Thread, Lock(t) PROVE Typed'
  BY <1>20 DEF Lock
<1>21. ASSUME NEW t \in Thread, Logged(t) PROVE Typed'
  BY <1>21 DEF Logged
<1>22. ASSUME NEW t \in Thread, Join(t) PROVE Typed'
  BY <1>22 DEF Join, Typed
<1>23. ASSUME NEW t \in Thread, Post(t) PROVE Typed'
  BY <1>23 DEF Post
<1>24. CASE UNCHANGED vars
  BY <1>24 DEF vars, Typed
<1> HIDE Labels, GotoMoves, WaitMoves, <1>a, <1>b, <1>c DEF Moves
<1> QED
  BY <1>1, <1>2, <1>3, <1>4, <1>5, <1>6, <1>7, <1>8, <1>9, <1>10, <1>11, <1>12,
     <1>13, <1>14, <1>15, <1>16, <1>17, <1>18, <1>19, <1>20, <1>21, <1>22, <1>23, <1>24,
     <1>25, <1>26
  DEF Next, Ui, DoConnect, RecvLoop

(* The type of the other variables, which every step keeps.                  *)
FlagsOK ==
  /\ gConnected \in BOOLEAN /\ wsConnected \in BOOLEAN /\ sock \in BOOLEAN
  /\ logHolder \in Thread \cup {None}
  /\ posted \in BOOLEAN /\ canConnect \in BOOLEAN /\ canDisconnect \in BOOLEAN
  /\ inChannel \in BOOLEAN
  /\ lost \in BOOLEAN /\ hasty \in BOOLEAN /\ crashed \in BOOLEAN

(* No step takes a flag or the log's holder out of its type.                 *)
LEMMA NextFlagsOK == IInv /\ [Next]_vars => FlagsOK'
<1> SUFFICES ASSUME FlagsOK, [Next]_vars PROVE FlagsOK'
  BY DEF IInv, TypeOK, FlagsOK
<1> USE DEF FlagsOK, linkVars, buttonVars
<1>1. CASE UpdateConnectionUI
  BY <1>1 DEF UpdateConnectionUI
<1>2. CASE ClickDisconnect
  BY <1>2 DEF ClickDisconnect, Hangup
<1>3. CASE Reset
  BY <1>3 DEF Reset
<1>4. CASE ClickJoin
  BY <1>4 DEF ClickJoin
<1>25. CASE ClickJoined
  BY <1>25 DEF ClickJoined
<1>5. CASE CloseWindow
  BY <1>5 DEF CloseWindow
<1>6. CASE ShutDown
  BY <1>6 DEF ShutDown, Hangup
<1>7. CASE Exit
  BY <1>7 DEF Exit
<1>8. CASE Event
  BY <1>8 DEF Event
<1>9. CASE CheckConnected
  BY <1>9 DEF CheckConnected
<1>10. CASE RecvFails
  BY <1>10 DEF RecvFails
<1>11. CASE Disconnected
  BY <1>11 DEF Disconnected
<1>12. ASSUME NEW k \in Connector, ClickConnect(k) PROVE FlagsOK'
  BY <1>12 DEF ClickConnect
<1>13. ASSUME NEW k \in Connector, Connect(k) PROVE FlagsOK'
  BY <1>13 DEF Connect, Hangup
<1>14. ASSUME NEW k \in Connector, Failed(k) PROVE FlagsOK'
  BY <1>14 DEF Failed
<1>15. ASSUME NEW k \in Connector, StartRecv(k) PROVE FlagsOK'
  BY <1>15 DEF StartRecv
<1>16. ASSUME NEW k \in Connector, GiveUp(k) PROVE FlagsOK'
  BY <1>16 DEF GiveUp, Hangup
<1>26. ASSUME NEW k \in Connector, NEW ok \in BOOLEAN, Dial(k, ok) PROVE FlagsOK'
  BY <1>26 DEF Dial
<1>17. ASSUME NEW k \in Connector, NEW ok \in BOOLEAN, Handshake(k, ok) PROVE FlagsOK'
  BY <1>17 DEF Handshake
<1>18. ASSUME NEW k \in Connector, NEW ok \in BOOLEAN, Auth(k, ok) PROVE FlagsOK'
  BY <1>18 DEF Auth, Hangup
<1>19. ASSUME NEW k \in Connector, NEW ok \in BOOLEAN, Udp(k, ok) PROVE FlagsOK'
  BY <1>19 DEF Udp
<1>20. ASSUME NEW t \in Thread, Lock(t) PROVE FlagsOK'
  BY <1>20 DEF Lock
<1>21. ASSUME NEW t \in Thread, Logged(t) PROVE FlagsOK'
  BY <1>21 DEF Logged
<1>22. ASSUME NEW t \in Thread, Join(t) PROVE FlagsOK'
  BY <1>22 DEF Join
<1>23. ASSUME NEW t \in Thread, Post(t) PROVE FlagsOK'
  BY <1>23 DEF Post
<1>24. CASE UNCHANGED vars
  BY <1>24 DEF vars
<1> HIDE DEF FlagsOK, linkVars, buttonVars
<1> QED
  BY <1>1, <1>2, <1>3, <1>4, <1>5, <1>6, <1>7, <1>8, <1>9, <1>10, <1>11, <1>12,
     <1>13, <1>14, <1>15, <1>16, <1>17, <1>18, <1>19, <1>20, <1>21, <1>22, <1>23, <1>24,
     <1>25, <1>26
  DEF Next, Ui, DoConnect, RecvLoop

(* Every step keeps the variables in their types.                            *)
LEMMA NextTypeOK == IInv /\ [Next]_vars => TypeOK'
BY NextTyped, NextFlagsOK DEF Typed, FlagsOK, TypeOK

(* What the steps of a connector do to the threads.                          *)
LEMMA ConnectorMoves ==
  ASSUME Typed, NEW k \in Connector
  PROVE  /\ Connect(k) => /\ pc[k] = "connect"
                          /\ Moves(k, "dial", next[k]) \/ Moves(k, "join", "dial")
         /\ \A ok \in BOOLEAN : Dial(k, ok) =>
              /\ pc[k] = "dial"
              /\ Moves(k, "handshake", next[k]) \/ Moves(k, "lock", "post")
         /\ \A ok \in BOOLEAN : Handshake(k, ok) =>
              /\ pc[k] = "handshake"
              /\ Moves(k, "auth", next[k]) \/ Moves(k, "lock", "post")
         /\ \A ok \in BOOLEAN : Auth(k, ok) =>
              /\ pc[k] = "auth"
              /\ Moves(k, "start", next[k]) \/ Moves(k, "join", "failed")
         /\ Lock(k) => pc[k] = "lock" /\ Moves(k, "send", next[k])
<1>1. k \in Thread /\ k # "ui" /\ k # "recv"
  BY ClientAssumption DEF Thread
<1> USE <1>1, Labels, GotoMoves, WaitMoves
<1>2. ASSUME Connect(k)
      PROVE  /\ pc[k] = "connect"
             /\ Moves(k, "dial", next[k]) \/ Moves(k, "join", "dial")
  BY <1>2 DEF Connect, Hangup
<1>3. ASSUME NEW ok \in BOOLEAN, Handshake(k, ok)
      PROVE  /\ pc[k] = "handshake"
             /\ Moves(k, "auth", next[k]) \/ Moves(k, "lock", "post")
  BY <1>3 DEF Handshake, StartLog
<1>4. ASSUME NEW ok \in BOOLEAN, Auth(k, ok)
      PROVE  /\ pc[k] = "auth"
             /\ Moves(k, "start", next[k]) \/ Moves(k, "join", "failed")
  BY <1>4 DEF Auth, Hangup
<1>5. ASSUME Lock(k) PROVE pc[k] = "lock" /\ Moves(k, "send", next[k])
  BY <1>5 DEF Lock
<1>6. ASSUME NEW ok \in BOOLEAN, Dial(k, ok)
      PROVE  /\ pc[k] = "dial"
             /\ Moves(k, "handshake", next[k]) \/ Moves(k, "lock", "post")
  BY <1>6 DEF Dial, StartLog
<1> HIDE <1>1, Labels, GotoMoves, WaitMoves
<1> QED
  BY <1>2, <1>3, <1>4, <1>5, <1>6

(* A thread is started for the connector, or the program ends where it is.    *)
LEMMA StartRecvMoves ==
  ASSUME Typed, NEW k \in Connector, StartRecv(k)
  PROVE  /\ pc[k] = "start"
         /\ \/ pc["recv"] # "none" /\ crashed' /\ UNCHANGED <<pc, next>>
            \/ /\ pc["recv"] = "none" /\ pc'["recv"] = "check"
               /\ next'["recv"] = next["recv"]
               /\ pc'[k] = "lock" /\ next'[k] = "udp"
               /\ \A s \in Thread \ {k, "recv"} : Still(s)
               /\ UNCHANGED crashed
<1>1. k \in Thread /\ "recv" \in Thread /\ k # "recv"
  BY ClientAssumption DEF Thread
<1>2. CASE pc["recv"] # "none"
  BY <1>2 DEF StartRecv
<1>3. CASE pc["recv"] = "none"
  <2>1. /\ pc' = [pc EXCEPT !["recv"] = "check", ![k] = "lock"]
        /\ next' = [next EXCEPT ![k] = "udp"]
        /\ UNCHANGED crashed /\ pc[k] = "start"
    BY <1>3 DEF StartRecv
  <2> QED
    BY <1>1, <1>3, <2>1 DEF Typed, Still
<1> QED
  BY <1>2, <1>3

(* The same threads as they are seen from the parts of the invariant.        *)
LEMMA OtherThreads ==
  ASSUME NEW k \in Connector, \A s \in Thread \ {k} : Still(s)
  PROVE  /\ Still("ui") /\ Still("recv")
         /\ \A l \in Connector \ {k} : Still(l)
BY ClientAssumption DEF Thread

(* Where a thread can be depends on that thread alone.                       *)
LEMMA PlaceStill ==
  ASSUME PlaceOK, NEW k \in Connector, ConnectorOK(k)', Still("ui"), RecvOK',
         \A l \in Connector \ {k} : Still(l)
  PROVE  PlaceOK'
<1>1. UiOK'
  BY DEF PlaceOK, UiOK, Still
<1>2. ASSUME NEW l \in Connector, l # k PROVE ConnectorOK(l)'
  BY <1>2 DEF PlaceOK, ConnectorOK, Still
<1> QED
  BY <1>1, <1>2 DEF PlaceOK

(* The steps of a connector keep it, and the receiving thread, in place.      *)
LEMMA ConnectorPlace ==
  ASSUME PlaceOK, Typed, NEW k \in Connector,
         \/ Connect(k) \/ StartRecv(k)
         \/ \E ok \in BOOLEAN : Dial(k, ok) \/ Handshake(k, ok) \/ Auth(k, ok)
  PROVE  PlaceOK'
<1>1. CASE StartRecv(k)
  <2>1. CASE UNCHANGED <<pc, next>>
    BY <2>1 DEF PlaceOK, UiOK, RecvOK, ConnectorOK
  <2>2. CASE ~UNCHANGED <<pc, next>>
    <3>1. /\ pc'["recv"] = "check" /\ pc'[k] = "lock" /\ next'[k] = "udp"
          /\ \A s \in Thread \ {k, "recv"} : Still(s)
      BY <1>1, <2>2, StartRecvMoves
    <3>2. Still("ui") /\ \A l \in Connector \ {k} : Still(l)
      BY <3>1, ClientAssumption DEF Thread
    <3>3. RecvOK' /\ ConnectorOK(k)'
      BY <3>1 DEF RecvOK, ConnectorOK
    <3> QED
      BY <3>2, <3>3, PlaceStill
  <2> QED
    BY <2>1, <2>2
<1>2. CASE Connect(k) \/ \E ok \in BOOLEAN : Dial(k, ok) \/ Handshake(k, ok) \/ Auth(k, ok)
  <2>1. /\ \/ pc'[k] \in {"dial", "handshake", "auth", "start"}
           \/ pc'[k] = "join" /\ next'[k] \in {"dial", "failed"}
           \/ pc'[k] = "lock" /\ next'[k] = "post"
        /\ \A s \in Thread \ {k} : Still(s)
    BY <1>2, ConnectorMoves DEF Moves
  <2>2. Still("ui") /\ Still("recv") /\ \A l \in Connector \ {k} : Still(l)
    BY <2>1, OtherThreads
  <2>3. ConnectorOK(k)'
    BY <2>1 DEF ConnectorOK
  <2>4. RecvOK'
    BY <2>2 DEF PlaceOK, RecvOK, Still
  <2> QED
    BY <2>2, <2>3, <2>4, PlaceStill
<1> QED
  BY <1>1, <1>2

(* Every step keeps each thread where it can be.                             *)
LEMMA NextPlaceOK == IInv /\ [Next]_vars => PlaceOK'
<1> SUFFICES ASSUME IInv, [Next]_vars PROVE PlaceOK'
  OBVIOUS
<1> USE ClientAssumption
    DEF IInv, TypeOK, PlaceOK, UiOK, RecvOK, ConnectorOK, Thread, linkVars, buttonVars,
        Goto, Wait, StartLog, Hangup
<1>1. CASE UpdateConnectionUI
  BY <1>1 DEF UpdateConnectionUI
<1>2. CASE ClickDisconnect
  BY <1>2 DEF ClickDisconnect
<1>3. CASE Reset
  BY <1>3 DEF Reset
<1>4. CASE ClickJoin
  BY <1>4 DEF ClickJoin
<1>33. CASE ClickJoined
  BY <1>33 DEF ClickJoined
<1>5. CASE CloseWindow
  BY <1>5 DEF CloseWindow
<1>6. CASE ShutDown
  BY <1>6 DEF ShutDown
<1>7. CASE Exit
  BY <1>7 DEF Exit
<1>8. CASE Event
  BY <1>8 DEF Event
<1>9. CASE CheckConnected
  BY <1>9 DEF CheckConnected
<1>10. CASE RecvFails
  BY <1>10 DEF RecvFails
<1>11. CASE Disconnected
  BY <1>11 DEF Disconnected
<1>12. ASSUME NEW k \in Connector, ClickConnect(k) PROVE PlaceOK'
  BY <1>12 DEF ClickConnect
<1>13. ASSUME NEW k \in Connector, Failed(k) PROVE PlaceOK'
  BY <1>13 DEF Failed
<1>14. ASSUME NEW k \in Connector, GiveUp(k) PROVE PlaceOK'
  BY <1>14 DEF GiveUp
<1>15. ASSUME NEW k \in Connector, NEW ok \in BOOLEAN, Udp(k, ok) PROVE PlaceOK'
  BY <1>15 DEF Udp
<1>16. CASE Lock("ui")
  BY <1>16 DEF Lock
<1>17. CASE Lock("recv")
  BY <1>17 DEF Lock
<1>18. ASSUME NEW k \in Connector, Lock(k) PROVE PlaceOK'
  BY <1>18 DEF Lock
<1>19. CASE Logged("ui")
  BY <1>19 DEF Logged
<1>20. CASE Logged("recv")
  BY <1>20 DEF Logged
<1>21. ASSUME NEW k \in Connector, Logged(k) PROVE PlaceOK'
  BY <1>21 DEF Logged
<1>22. CASE Join("ui")
  BY <1>22 DEF Join
<1>23. CASE Join("recv")
  BY <1>23 DEF Join
<1>24. ASSUME NEW k \in Connector, Join(k) PROVE PlaceOK'
  BY <1>24 DEF Join
<1>25. CASE Post("ui")
  BY <1>25 DEF Post
<1>26. CASE Post("recv")
  BY <1>26 DEF Post
<1>27. ASSUME NEW k \in Connector, Post(k) PROVE PlaceOK'
  BY <1>27 DEF Post
<1>28. CASE UNCHANGED vars
  BY <1>28 DEF vars
<1>i. TypeOK /\ PlaceOK /\ ButtonInv /\ TurnInv /\ ReceiverInv /\ Typed
  BY DEF Typed
<1> HIDE DEF IInv, TypeOK, PlaceOK, UiOK, RecvOK, ConnectorOK, Thread, linkVars,
             buttonVars, Goto, Wait, StartLog, Hangup
<1>29. ASSUME NEW k \in Connector, Connect(k) PROVE PlaceOK'
  BY <1>29, <1>i, ConnectorPlace
<1>30. ASSUME NEW k \in Connector, StartRecv(k) PROVE PlaceOK'
  BY <1>30, <1>i, ConnectorPlace
<1>34. ASSUME NEW k \in Connector, NEW ok \in BOOLEAN, Dial(k, ok) PROVE PlaceOK'
  BY <1>34, <1>i, ConnectorPlace
<1>31. ASSUME NEW k \in Connector, NEW ok \in BOOLEAN, Handshake(k, ok) PROVE PlaceOK'
  BY <1>31, <1>i, ConnectorPlace
<1>32. ASSUME NEW k \in Connector, NEW ok \in BOOLEAN, Auth(k, ok) PROVE PlaceOK'
  BY <1>32, <1>i, ConnectorPlace
<1> QED
  BY <1>1, <1>2, <1>3, <1>4, <1>5, <1>6, <1>7, <1>8, <1>9, <1>10, <1>11, <1>12,
     <1>13, <1>14, <1>15, <1>16, <1>17, <1>18, <1>19, <1>20, <1>21, <1>22, <1>23, <1>24,
     <1>25, <1>26, <1>27, <1>28, <1>29, <1>30, <1>31, <1>32, <1>33, <1>34
  DEF Next, Ui, DoConnect, RecvLoop, Thread

(* Every step that makes the buttons wrong leaves someone to correct them.   *)
LEMMA NextButtonInv == IInv /\ [Next]_vars => ButtonInv'
<1> SUFFICES ASSUME IInv, [Next]_vars PROVE ButtonInv'
  OBVIOUS
<1> USE ClientAssumption
    DEF IInv, TypeOK, PlaceOK, UiOK, RecvOK, ConnectorOK, ButtonInv, TurnInv,
        ReceiverInv, HasReceiver, Heads, Running, Closed, Thread, linkVars, buttonVars,
        Goto, Wait, StartLog, Hangup
<1>1. CASE UpdateConnectionUI
  BY <1>1 DEF UpdateConnectionUI
<1>2. CASE ClickDisconnect
  BY <1>2 DEF ClickDisconnect
<1>3. CASE Reset
  BY <1>3 DEF Reset
<1>4. CASE ClickJoin
  BY <1>4 DEF ClickJoin
<1>33. CASE ClickJoined
  BY <1>33 DEF ClickJoined
<1>5. CASE CloseWindow
  BY <1>5 DEF CloseWindow
<1>6. CASE ShutDown
  BY <1>6 DEF ShutDown
<1>7. CASE Exit
  BY <1>7 DEF Exit
<1>8. CASE Event
  BY <1>8 DEF Event
<1>9. CASE CheckConnected
  BY <1>9 DEF CheckConnected
<1>10. CASE RecvFails
  BY <1>10 DEF RecvFails
<1>11. CASE Disconnected
  BY <1>11 DEF Disconnected
<1>12. ASSUME NEW k \in Connector, ClickConnect(k) PROVE ButtonInv'
  BY <1>12 DEF ClickConnect
<1>13. ASSUME NEW k \in Connector, Connect(k) PROVE ButtonInv'
  BY <1>13 DEF Connect
<1>14. ASSUME NEW k \in Connector, Failed(k) PROVE ButtonInv'
  BY <1>14 DEF Failed
<1>15. ASSUME NEW k \in Connector, StartRecv(k) PROVE ButtonInv'
  BY <1>15 DEF StartRecv
<1>16. ASSUME NEW k \in Connector, GiveUp(k) PROVE ButtonInv'
  BY <1>16 DEF GiveUp
<1>34. ASSUME NEW k \in Connector, NEW ok \in BOOLEAN, Dial(k, ok) PROVE ButtonInv'
  BY <1>34 DEF Dial
<1>17. ASSUME NEW k \in Connector, NEW ok \in BOOLEAN, Handshake(k, ok) PROVE ButtonInv'
  BY <1>17 DEF Handshake
<1>18. ASSUME NEW k \in Connector, NEW ok \in BOOLEAN, Auth(k, ok) PROVE ButtonInv'
  BY <1>18 DEF Auth
<1>19. ASSUME NEW k \in Connector, NEW ok \in BOOLEAN, Udp(k, ok) PROVE ButtonInv'
  BY <1>19 DEF Udp
<1>20. CASE Lock("ui")
  BY <1>20 DEF Lock
<1>21. ASSUME NEW k \in Connector, Lock(k) PROVE ButtonInv'
  BY <1>21 DEF Lock
<1>22. CASE Logged("ui")
  BY <1>22 DEF Logged
<1>23. CASE Logged("recv")
  BY <1>23 DEF Logged
<1>24. ASSUME NEW k \in Connector, Logged(k) PROVE ButtonInv'
  BY <1>24 DEF Logged
<1>25. CASE Join("ui")
  BY <1>25 DEF Join
<1>26. CASE Join("recv")
  BY <1>26 DEF Join
<1>27. ASSUME NEW k \in Connector, Join(k) PROVE ButtonInv'
  BY <1>27 DEF Join
<1>28. CASE Post("ui")
  BY <1>28 DEF Post
<1>29. CASE Post("recv")
  BY <1>29 DEF Post
<1>30. ASSUME NEW k \in Connector, Post(k) PROVE ButtonInv'
  BY <1>30 DEF Post
<1>31. CASE UNCHANGED vars
  BY <1>31 DEF vars
<1>i. TypeOK /\ PlaceOK /\ ButtonInv /\ TurnInv /\ ReceiverInv /\ Typed
  BY DEF Typed
<1> HIDE DEF IInv, TypeOK, PlaceOK, UiOK, RecvOK, ConnectorOK, ButtonInv, TurnInv,
             ReceiverInv, HasReceiver, Heads, Running, Closed, Thread, linkVars,
             buttonVars, Goto, Wait, StartLog, Hangup
<1>32. CASE Lock("recv")
  <2>1. /\ pc["recv"] = "lock" /\ pc'["recv"] = "send" /\ next'["recv"] = next["recv"]
        /\ \A s \in Thread \ {"recv"} : Still(s)
        /\ UNCHANGED <<gConnected, posted, canConnect, canDisconnect>>
    BY <1>32, <1>i, Labels, GotoMoves DEF Lock, Moves, Thread, linkVars, buttonVars
  <2>2. Still("ui") /\ \A k \in Connector : Still(k)
    BY <2>1, ClientAssumption DEF Thread
  <2>3. (Heads("recv", "post") => Heads("recv", "post")') /\ (Closed => Closed')
    BY <2>1, <2>2 DEF Heads, Closed, Still
  <2>4. \A k \in Connector : Running(k) => Running(k)'
    BY <2>2 DEF Running, Still
  <2> QED
    BY <1>i, <2>1, <2>3, <2>4 DEF ButtonInv
<1> QED
  BY <1>1, <1>2, <1>3, <1>4, <1>5, <1>6, <1>7, <1>8, <1>9, <1>10, <1>11, <1>12,
     <1>13, <1>14, <1>15, <1>16, <1>17, <1>18, <1>19, <1>20, <1>21, <1>22, <1>23, <1>24,
     <1>25, <1>26, <1>27, <1>28, <1>29, <1>30, <1>31, <1>32, <1>33, <1>34
  DEF Next, Ui, DoConnect, RecvLoop, Thread

(* A connector that goes on running, while nothing is posted and no button    *)
(* changes, takes no turn from anybody.                                      *)
LEMMA ConnectorGoesOn ==
  ASSUME TurnInv, NEW k \in Connector, Running(k), Running(k)', Still("ui"),
         \A l \in Connector \ {k} : Still(l),
         Heads("recv", "post")' => Heads("recv", "post"),
         UNCHANGED <<posted, canConnect, canDisconnect, lost>>
  PROVE  TurnInv'
<1> SUFFICES ASSUME ~lost PROVE TurnInv'
  BY DEF TurnInv
<1>1. /\ ~Heads("recv", "post")
      /\ \A l, m \in Connector : Running(l) /\ Running(m) => l = m
      /\ posted => \A l \in Connector : ~Running(l)
      /\ posted \/ (\E l \in Connector : Running(l)) => ~canConnect /\ ~canDisconnect
      /\ canDisconnect => ~canConnect
      /\ Heads("ui", "reset") => canDisconnect
  BY DEF TurnInv
<1>2. \A l \in Connector : Running(l)' <=> Running(l)
  BY DEF Running, Still
<1>3. Heads("ui", "reset")' <=> Heads("ui", "reset")
  BY DEF Heads, Still
<1> HIDE DEF Running, Heads, Still
<1> QED
  BY <1>1, <1>2, <1>3 DEF TurnInv

(* Nearly every step of a connector is one of those.                         *)
LEMMA ConnectorTurn ==
  ASSUME TurnInv, Typed, NEW k \in Connector,
         \/ Connect(k) \/ StartRecv(k) \/ Lock(k)
         \/ \E ok \in BOOLEAN : Dial(k, ok) \/ Handshake(k, ok) \/ Auth(k, ok)
  PROVE  TurnInv'
<1>1. UNCHANGED <<posted, canConnect, canDisconnect, lost>>
  BY DEF Connect, StartRecv, Lock, Dial, Handshake, Auth, buttonVars
<1>2. CASE StartRecv(k)
  <2>1. CASE UNCHANGED <<pc, next>>
    BY <1>1, <2>1 DEF TurnInv, Heads, Running
  <2>2. CASE ~UNCHANGED <<pc, next>>
    <3>1. /\ pc'["recv"] = "check" /\ pc'[k] = "lock" /\ pc[k] = "start"
          /\ \A s \in Thread \ {k, "recv"} : Still(s)
      BY <1>2, <2>2, StartRecvMoves
    <3>2. Still("ui") /\ \A l \in Connector \ {k} : Still(l)
      BY <3>1, ClientAssumption DEF Thread
    <3>3. ~Heads("recv", "post")' /\ Running(k) /\ Running(k)'
      BY <3>1 DEF Heads, Running
    <3> QED
      BY <1>1, <3>2, <3>3, ConnectorGoesOn
  <2> QED
    BY <2>1, <2>2
<1>3. CASE \/ Connect(k) \/ Lock(k)
           \/ \E ok \in BOOLEAN : Dial(k, ok) \/ Handshake(k, ok) \/ Auth(k, ok)
  <2>1. /\ pc[k] \in {"connect", "dial", "handshake", "auth", "lock"}
        /\ pc'[k] \in {"dial", "handshake", "auth", "start", "join", "lock", "send"}
        /\ \A s \in Thread \ {k} : Still(s)
    BY <1>3, ConnectorMoves DEF Moves
  <2>2. Still("ui") /\ Still("recv") /\ \A l \in Connector \ {k} : Still(l)
    BY <2>1, OtherThreads
  <2>3. Running(k) /\ Running(k)'
    BY <2>1 DEF Running
  <2>4. Heads("recv", "post")' => Heads("recv", "post")
    BY <2>2 DEF Heads, Still
  <2> QED
    BY <1>1, <2>2, <2>3, <2>4, ConnectorGoesOn
<1> QED
  BY <1>2, <1>3

(* No step lets a second connector start before the first loss.              *)
LEMMA NextTurnInv == IInv /\ [Next]_vars => TurnInv'
<1> SUFFICES ASSUME IInv, [Next]_vars PROVE TurnInv'
  OBVIOUS
<1> USE ClientAssumption
    DEF IInv, TypeOK, PlaceOK, UiOK, RecvOK, ConnectorOK, ButtonInv, TurnInv,
        ReceiverInv, HasReceiver, Heads, Running, Closed, Thread, linkVars, buttonVars,
        Goto, Wait, StartLog, Hangup
<1>1. CASE UpdateConnectionUI
  BY <1>1 DEF UpdateConnectionUI
<1>2. CASE ClickDisconnect
  BY <1>2 DEF ClickDisconnect
<1>3. CASE Reset
  BY <1>3 DEF Reset
<1>4. CASE ClickJoin
  BY <1>4 DEF ClickJoin
<1>33. CASE ClickJoined
  BY <1>33 DEF ClickJoined
<1>5. CASE CloseWindow
  BY <1>5 DEF CloseWindow
<1>6. CASE Exit
  BY <1>6 DEF Exit
<1>7. CASE Event
  <2>1. /\ pc["recv"] = "recv" /\ pc'["recv"] \in {"lock", "check"}
        /\ next'["recv"] \in {"check", next["recv"]}
        /\ pc'["recv"] = "lock" => next'["recv"] = "check"
        /\ \A t \in Thread \ {"recv"} : pc'[t] = pc[t] /\ next'[t] = next[t]
        /\ UNCHANGED <<linkVars, buttonVars, lost, hasty, crashed>>
    BY <1>7 DEF Event
  <2>2. \A k \in Connector : pc'[k] = pc[k] /\ next'[k] = next[k]
    BY <2>1
  <2>3. TurnInv
    OBVIOUS
  <2> QED
    BY <2>1, <2>2, <2>3
<1>8. CASE CheckConnected
  BY <1>8 DEF CheckConnected
<1>9. CASE RecvFails
  BY <1>9 DEF RecvFails
<1>10. CASE Disconnected
  BY <1>10 DEF Disconnected
<1>11. ASSUME NEW k \in Connector, ClickConnect(k) PROVE TurnInv'
  BY <1>11 DEF ClickConnect
<1>12. ASSUME NEW k \in Connector, Failed(k) PROVE TurnInv'
  BY <1>12 DEF Failed
<1>13. ASSUME NEW k \in Connector, GiveUp(k) PROVE TurnInv'
  BY <1>13 DEF GiveUp
<1>14. ASSUME NEW k \in Connector, NEW ok \in BOOLEAN, Udp(k, ok) PROVE TurnInv'
  BY <1>14 DEF Udp
<1>15. CASE Lock("ui")
  <2>1. /\ pc' = [pc EXCEPT !["ui"] = "idle"] /\ pc["ui"] = "lock"
        /\ UNCHANGED <<linkVars, buttonVars, next, lost, hasty, crashed>>
    BY <1>15 DEF Lock
  <2>2. \A k \in Connector : pc'[k] = pc[k] /\ next'[k] = next[k]
    BY <2>1
  <2>3. TurnInv
    OBVIOUS
  <2> QED
    BY <2>1, <2>2, <2>3
<1>16. CASE Lock("recv")
  <2>1. /\ pc' = [pc EXCEPT !["recv"] = "send"] /\ pc["recv"] = "lock"
        /\ UNCHANGED <<linkVars, buttonVars, next, lost, hasty, crashed>>
    BY <1>16 DEF Lock
  <2>2. \A k \in Connector : pc'[k] = pc[k] /\ next'[k] = next[k]
    BY <2>1
  <2>3. TurnInv
    OBVIOUS
  <2> QED
    BY <2>1, <2>2, <2>3
<1>17. CASE Logged("ui")
  BY <1>17 DEF Logged
<1>18. CASE Logged("recv")
  BY <1>18 DEF Logged
<1>19. ASSUME NEW k \in Connector, Logged(k) PROVE TurnInv'
  BY <1>19 DEF Logged
<1>20. CASE Join("ui")
  BY <1>20 DEF Join
<1>21. CASE Join("recv")
  BY <1>21 DEF Join
<1>22. ASSUME NEW k \in Connector, Join(k) PROVE TurnInv'
  BY <1>22 DEF Join
<1>23. CASE Post("ui")
  BY <1>23 DEF Post
<1>24. CASE Post("recv")
  BY <1>24 DEF Post
<1>25. ASSUME NEW k \in Connector, Post(k) PROVE TurnInv'
  BY <1>25 DEF Post
<1>26. CASE UNCHANGED vars
  BY <1>26 DEF vars
<1>i. TypeOK /\ PlaceOK /\ ButtonInv /\ TurnInv /\ ReceiverInv /\ Typed
  BY DEF Typed
<1> HIDE DEF IInv, TypeOK, PlaceOK, UiOK, RecvOK, ConnectorOK, ButtonInv, TurnInv,
             ReceiverInv, HasReceiver, Heads, Running, Closed, Thread, linkVars,
             buttonVars, Goto, Wait, StartLog, Hangup
<1>27. CASE ShutDown
  <2>1. /\ pc["ui"] \in {"closing", "destructor"} /\ pc'["ui"] = "join"
        /\ next'["ui"] \in {"destructor", "freed"}
        /\ \A s \in Thread \ {"ui"} : Still(s)
        /\ UNCHANGED <<posted, canConnect, canDisconnect, lost>>
    BY <1>27, <1>i, Labels, WaitMoves DEF ShutDown, Hangup, Moves, Thread, buttonVars
  <2>2. Still("recv") /\ \A l \in Connector : Still(l)
    BY <2>1, ClientAssumption DEF Thread
  <2> QED
    BY <1>i, <2>1, <2>2 DEF TurnInv, Heads, Running, Still
<1>28. ASSUME NEW k \in Connector, Connect(k) PROVE TurnInv'
  BY <1>28, <1>i, ConnectorTurn
<1>29. ASSUME NEW k \in Connector, StartRecv(k) PROVE TurnInv'
  BY <1>29, <1>i, ConnectorTurn
<1>34. ASSUME NEW k \in Connector, NEW ok \in BOOLEAN, Dial(k, ok) PROVE TurnInv'
  BY <1>34, <1>i, ConnectorTurn
<1>30. ASSUME NEW k \in Connector, NEW ok \in BOOLEAN, Handshake(k, ok) PROVE TurnInv'
  BY <1>30, <1>i, ConnectorTurn
<1>31. ASSUME NEW k \in Connector, NEW ok \in BOOLEAN, Auth(k, ok) PROVE TurnInv'
  BY <1>31, <1>i, ConnectorTurn
<1>32. ASSUME NEW k \in Connector, Lock(k) PROVE TurnInv'
  BY <1>32, <1>i, ConnectorTurn
<1> QED
  BY <1>1, <1>2, <1>3, <1>4, <1>5, <1>6, <1>7, <1>8, <1>9, <1>10, <1>11, <1>12,
     <1>13, <1>14, <1>15, <1>16, <1>17, <1>18, <1>19, <1>20, <1>21, <1>22, <1>23, <1>24,
     <1>25, <1>26, <1>27, <1>28, <1>29, <1>30, <1>31, <1>32, <1>33, <1>34
  DEF Next, Ui, DoConnect, RecvLoop, Thread

(* The invariant speaks of where a connector is headed, not of where it waits *)
(* for the log on the way.                                                   *)
LEMMA LockReceiver ==
  ASSUME ReceiverInv, Typed, NEW k \in Connector, Lock(k)
  PROVE  ReceiverInv'
<1>1. /\ pc[k] = "lock" /\ pc'[k] = "send" /\ next'[k] = next[k]
      /\ \A s \in Thread \ {k} : Still(s)
      /\ UNCHANGED <<gConnected, lost, hasty, crashed>>
  BY ConnectorMoves DEF Moves, Lock, linkVars
<1>2. Still("ui") /\ Still("recv") /\ \A l \in Connector \ {k} : Still(l)
  BY <1>1, OtherThreads
<1>3. ASSUME NEW l \in Connector
      PROVE  /\ Running(l)' <=> Running(l)
             /\ HasReceiver(l)' <=> HasReceiver(l)
             /\ \A label \in {"connect", "dial", "handshake", "auth", "start", "failed"} :
                  Heads(l, label)' <=> Heads(l, label)
  <2>1. CASE l = k
    BY <1>1, <2>1 DEF Running, HasReceiver, Heads
  <2>2. CASE l # k
    BY <1>2, <2>2 DEF Running, HasReceiver, Heads, Still
  <2> QED
    BY <2>1, <2>2
<1>4. /\ pc'["recv"] = pc["recv"] /\ pc'["ui"] = pc["ui"]
      /\ Heads("ui", "freed")' <=> Heads("ui", "freed")
      /\ Closed' <=> Closed
  BY <1>2 DEF Still, Heads, Closed
<1> HIDE DEF Running, HasReceiver, Heads, Closed
<1> QED
  BY <1>1, <1>3, <1>4 DEF ReceiverInv

(* The connector that starts the receiving thread finds none, or the program  *)
(* had its cause; until the loss no other connector runs, and the window is   *)
(* neither closed nor resetting.                                             *)
LEMMA StartReceiver ==
  ASSUME PlaceOK, TurnInv, ReceiverInv, Typed, NEW k \in Connector, StartRecv(k)
  PROVE  ReceiverInv'
<1>1. UNCHANGED <<gConnected, lost, hasty, canDisconnect>> /\ pc[k] = "start"
  BY DEF StartRecv, linkVars, buttonVars
<1>2. (hasty => Closed) /\ (pc'["ui"] = pc["ui"] /\ next'["ui"] = next["ui"])
  <2>1. k # "ui" /\ "recv" # "ui" /\ "ui" \in Thread
    BY ClientAssumption DEF Thread
  <2> QED
    BY <2>1, StartRecvMoves DEF ReceiverInv, Still
<1>3. hasty' => Closed'
  BY <1>1, <1>2 DEF Closed
<1>4. CASE lost \/ hasty
  BY <1>1, <1>3, <1>4 DEF ReceiverInv
<1>5. CASE ~lost /\ ~hasty
  <2>1. Running(k) /\ Heads(k, "start")
    BY <1>1 DEF Running, Heads
  <2>2. pc["recv"] = "none" /\ ~crashed
    BY <1>5, <2>1 DEF ReceiverInv
  <2>3. ~Closed
    BY <1>5, <2>1 DEF ReceiverInv
  <2>4. pc["ui"] # "reset"
    BY <1>5, <2>1 DEF TurnInv, Heads
  <2>5. ~Heads("ui", "freed")
    BY <2>3 DEF PlaceOK, UiOK, Heads, Closed
  <2>6. /\ pc'[k] = "lock" /\ next'[k] = "udp" /\ ~crashed'
        /\ \A s \in Thread \ {k, "recv"} : Still(s)
    BY <2>2, StartRecvMoves
  <2>7. ASSUME NEW l \in Connector, l # k PROVE pc'[l] = "none"
    <3>1. pc[l] = "none"
      BY <1>5, <2>1, <2>7 DEF TurnInv, Running
    <3> QED
      BY <2>6, <2>7, <3>1, ClientAssumption DEF Thread, Still
  <2>8. HasReceiver(k)'
    BY <2>6 DEF HasReceiver, Heads
  <2>9. ASSUME NEW l \in Connector,
               NEW label \in {"connect", "dial", "handshake", "auth", "start", "failed"}
        PROVE  ~Heads(l, label)'
    BY <2>6, <2>7 DEF Heads
  <2>10. /\ ~Closed' /\ ~Heads("ui", "freed")'
         /\ pc'["ui"] \notin {"reset", "destructor", "freed", "ended"}
    BY <1>2, <2>3, <2>4, <2>5 DEF Closed, Heads
  <2> HIDE DEF HasReceiver, Heads, Closed
  <2> QED
    BY <1>3, <2>6, <2>8, <2>9, <2>10 DEF ReceiverInv
<1> QED
  BY <1>4, <1>5

(* No step loses sight of the receiving thread before the first loss.        *)
LEMMA NextReceiverInv == IInv /\ [Next]_vars => ReceiverInv'
<1> SUFFICES ASSUME IInv, [Next]_vars PROVE ReceiverInv'
  OBVIOUS
<1> USE ClientAssumption
    DEF IInv, TypeOK, PlaceOK, UiOK, RecvOK, ConnectorOK, ButtonInv, TurnInv,
        ReceiverInv, HasReceiver, Heads, Running, Closed, Thread, linkVars, buttonVars,
        Goto, Wait, StartLog, Hangup
<1>1. CASE UpdateConnectionUI
  BY <1>1 DEF UpdateConnectionUI
<1>2. CASE ClickDisconnect
  BY <1>2 DEF ClickDisconnect
<1>3. CASE Reset
  BY <1>3 DEF Reset
<1>4. CASE ClickJoin
  BY <1>4 DEF ClickJoin
<1>33. CASE ClickJoined
  BY <1>33 DEF ClickJoined
<1>5. CASE CloseWindow
  <2>1. /\ pc["ui"] = "idle" /\ pc' = [pc EXCEPT !["ui"] = "closing"]
        /\ ~hasty' => \A k \in Connector : ~Running(k)
        /\ UNCHANGED <<linkVars, next, lost, crashed>>
    BY <1>5 DEF CloseWindow
  <2>2. \A k \in Connector : pc'[k] = pc[k] /\ next'[k] = next[k]
    BY <2>1
  <2>3. ReceiverInv
    OBVIOUS
  <2> QED
    BY <2>1, <2>2, <2>3
<1>6. CASE ShutDown
  <2>1. /\ \/ pc["ui"] = "closing" /\ next'["ui"] = "destructor"
           \/ pc["ui"] = "destructor" /\ next'["ui"] = "freed"
        /\ pc'["ui"] = "join" /\ pc'["recv"] = pc["recv"]
        /\ \A k \in Connector : pc'[k] = pc[k] /\ next'[k] = next[k]
        /\ UNCHANGED <<gConnected, lost, hasty, crashed>>
    <3>1. pc \in [Thread -> Place] /\ next \in [Thread -> Place]
      OBVIOUS
    <3> HIDE DEF IInv, TypeOK, PlaceOK, ButtonInv, TurnInv, ReceiverInv
    <3> QED
      BY <1>6, <3>1 DEF ShutDown
  <2>2. ReceiverInv
    OBVIOUS
  <2> HIDE DEF IInv, TypeOK, PlaceOK, ButtonInv, TurnInv
  <2> QED
    BY <2>1, <2>2
<1>7. CASE Exit
  BY <1>7 DEF Exit
<1>8. CASE Event
  <2>1. /\ pc["recv"] = "recv" /\ pc'["recv"] \in {"lock", "check"}
        /\ next'["recv"] \in {"check", next["recv"]}
        /\ pc'["recv"] = "lock" => next'["recv"] = "check"
        /\ \A t \in Thread \ {"recv"} : pc'[t] = pc[t] /\ next'[t] = next[t]
        /\ UNCHANGED <<linkVars, buttonVars, lost, hasty, crashed>>
    BY <1>8 DEF Event
  <2>2. \A k \in Connector : pc'[k] = pc[k] /\ next'[k] = next[k]
    BY <2>1
  <2>3. ReceiverInv
    OBVIOUS
  <2> QED
    BY <2>1, <2>2, <2>3
<1>9. CASE CheckConnected
  BY <1>9 DEF CheckConnected
<1>10. CASE RecvFails
  BY <1>10 DEF RecvFails
<1>11. CASE Disconnected
  BY <1>11 DEF Disconnected
<1>12. ASSUME NEW k \in Connector, ClickConnect(k) PROVE ReceiverInv'
  BY <1>12 DEF ClickConnect
<1>13. ASSUME NEW k \in Connector, Connect(k) PROVE ReceiverInv'
  BY <1>13 DEF Connect
<1>14. ASSUME NEW k \in Connector, Failed(k) PROVE ReceiverInv'
  BY <1>14 DEF Failed
<1>15. ASSUME NEW k \in Connector, GiveUp(k) PROVE ReceiverInv'
  BY <1>15 DEF GiveUp
<1>34. ASSUME NEW k \in Connector, NEW ok \in BOOLEAN, Dial(k, ok) PROVE ReceiverInv'
  BY <1>34 DEF Dial
<1>16. ASSUME NEW k \in Connector, NEW ok \in BOOLEAN, Handshake(k, ok) PROVE ReceiverInv'
  BY <1>16 DEF Handshake
<1>17. ASSUME NEW k \in Connector, NEW ok \in BOOLEAN, Auth(k, ok) PROVE ReceiverInv'
  BY <1>17 DEF Auth
<1>18. ASSUME NEW k \in Connector, NEW ok \in BOOLEAN, Udp(k, ok) PROVE ReceiverInv'
  BY <1>18 DEF Udp
<1>19. CASE Lock("ui")
  <2>1. /\ pc' = [pc EXCEPT !["ui"] = "idle"] /\ pc["ui"] = "lock"
        /\ UNCHANGED <<linkVars, buttonVars, next, lost, hasty, crashed>>
    BY <1>19 DEF Lock
  <2>2. \A k \in Connector : pc'[k] = pc[k] /\ next'[k] = next[k]
    BY <2>1
  <2>3. ReceiverInv
    OBVIOUS
  <2> QED
    BY <2>1, <2>2, <2>3
<1>20. CASE Lock("recv")
  <2>1. /\ pc' = [pc EXCEPT !["recv"] = "send"] /\ pc["recv"] = "lock"
        /\ UNCHANGED <<linkVars, buttonVars, next, lost, hasty, crashed>>
    BY <1>20 DEF Lock
  <2>2. \A k \in Connector : pc'[k] = pc[k] /\ next'[k] = next[k]
    BY <2>1
  <2>3. ReceiverInv
    OBVIOUS
  <2> QED
    BY <2>1, <2>2, <2>3
<1>21. CASE Logged("ui")
  BY <1>21 DEF Logged
<1>22. CASE Logged("recv")
  BY <1>22 DEF Logged
<1>23. ASSUME NEW k \in Connector, Logged(k) PROVE ReceiverInv'
  BY <1>23 DEF Logged
<1>24. CASE Join("ui")
  BY <1>24 DEF Join
<1>25. CASE Join("recv")
  BY <1>25 DEF Join
<1>26. ASSUME NEW k \in Connector, Join(k) PROVE ReceiverInv'
  BY <1>26 DEF Join
<1>27. CASE Post("ui")
  BY <1>27 DEF Post
<1>28. CASE Post("recv")
  BY <1>28 DEF Post
<1>29. ASSUME NEW k \in Connector, Post(k) PROVE ReceiverInv'
  BY <1>29 DEF Post
<1>30. CASE UNCHANGED vars
  BY <1>30 DEF vars
<1>i. TypeOK /\ PlaceOK /\ ButtonInv /\ TurnInv /\ ReceiverInv /\ Typed
  BY DEF Typed
<1> HIDE DEF IInv, TypeOK, PlaceOK, UiOK, RecvOK, ConnectorOK, ButtonInv, TurnInv,
             ReceiverInv, HasReceiver, Heads, Running, Closed, Thread, linkVars,
             buttonVars, Goto, Wait, StartLog, Hangup
<1>31. ASSUME NEW k \in Connector, StartRecv(k) PROVE ReceiverInv'
  BY <1>31, <1>i, StartReceiver
<1>32. ASSUME NEW k \in Connector, Lock(k) PROVE ReceiverInv'
  BY <1>32, <1>i, LockReceiver
<1> QED
  BY <1>1, <1>2, <1>3, <1>4, <1>5, <1>6, <1>7, <1>8, <1>9, <1>10, <1>11, <1>12,
     <1>13, <1>14, <1>15, <1>16, <1>17, <1>18, <1>19, <1>20, <1>21, <1>22, <1>23, <1>24,
     <1>25, <1>26, <1>27, <1>28, <1>29, <1>30, <1>31, <1>32, <1>33, <1>34
  DEF Next, Ui, DoConnect, RecvLoop, Thread

---------------------------------------------------------------------------
(* The invariant holds for ever.                                             *)
LEMMA Invariance == Spec => []IInv
<1>1. IInv /\ [Next]_vars => IInv'
  BY NextTypeOK, NextPlaceOK, NextButtonInv, NextTurnInv, NextReceiverInv DEF IInv
<1> QED
  BY <1>1, InitIInv, PTL DEF Spec

(* When nothing is under way the buttons show g_connected.                   *)
THEOREM ButtonsAgree == Spec => []ButtonsSettle
<1>1. IInv => ButtonsSettle
  BY ClientAssumption
  DEF IInv, ButtonInv, ButtonsSettle, AtRest, Heads, Running, Closed
<1> QED
  BY <1>1, Invariance, PTL

(* Until the first "disconnected" event at most one doConnect thread runs,    *)
(* however many clicks there are: the disabled button keeps them apart.      *)
THEOREM OneAtATime == Spec => []OneConnectorUntilLost
<1>1. ASSUME IInv, ~lost PROVE Cardinality({k \in Connector : pc[k] # "none"}) <= 1
  <2> DEFINE R == {k \in Connector : pc[k] # "none"}
  <2>1. \A k, l \in R : k = l
    BY <1>1 DEF IInv, TurnInv, Running
  <2>2. R = {} \/ \E k : R = {k}
    BY <2>1
  <2> HIDE DEF R
  <2>3. Cardinality(R) \in {0, 1}
    BY <2>2, FS_EmptySet, FS_Singleton
  <2> QED
    BY <2>3 DEF R
<1>2. IInv => OneConnectorUntilLost
  BY <1>1 DEF OneConnectorUntilLost
<1> QED
  BY <1>2, Invariance, PTL

(* Without a "disconnected" event, and with no connect under way when the     *)
(* window is closed, no connect terminates the program and no thread uses    *)
(* what wWinMain has freed.                                                  *)
THEOREM HarmNeedsCause == Spec => []HarmNeedsLossOrHaste
<1>1. IInv => HarmNeedsLossOrHaste
  BY ClientAssumption
  DEF IInv, ReceiverInv, HarmNeedsLossOrHaste, InUse, Thread, Running, Closed
<1> QED
  BY <1>1, Invariance, PTL
=============================================================================
