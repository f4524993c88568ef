--------------------------- MODULE AndroidProofs ---------------------------
(***************************************************************************)
(* Proofs about AndroidPtt, for any channels and any number of coroutines.   *)
(* What the properties promise a user who lets each tap take effect rests on *)
(* there being one coroutine at a time then: the invariant says, for each    *)
(* place that one can be at, what the fields, the buttons and the engine are. *)
(***************************************************************************)
EXTENDS AndroidPtt, TLAPS

Connecting == {"connect", "startAudio", "failed"}
Toggling   == {"toggle", "leave", "left", "join", "joined", "enable"}
Talking    == {"start", "started", "stop", "stopped"}

(* Where a coroutine can be; one that toggles or talks has a channel.        *)
JobOK ==
  /\ job \in [Job -> [at : {"none"} \cup Connecting \cup Toggling \cup Talking,
                      ch : Channel \cup {None}]]
  /\ \A j \in Job : /\ job[j].at = "none" => job[j] = NoJob
                    /\ job[j].at \in Toggling \cup Talking => job[j].ch \in Channel

(* Every variable has its type.                                              *)
TypeOK ==
  /\ isConnected \in BOOLEAN /\ joined \subseteq Channel
  /\ activeTransmit \in Channel \cup {None}
  /\ connectEnabled \in BOOLEAN /\ pttEnabled \in BOOLEAN /\ posted \in BOOLEAN
  /\ finger \in BOOLEAN
  /\ linked \in BOOLEAN /\ channel \in Channel \cup {None}
  /\ transmitting \in BOOLEAN /\ audio \in BOOLEAN
  /\ rushed \in BOOLEAN /\ several \in BOOLEAN /\ destroyed \in BOOLEAN
  /\ JobOK

At(labels) == \E j \in Job : job[j].at \in labels

(* The connect button is disabled only while something is under way that     *)
(* enables it again.                                                         *)
ButtonInv ==
  ~destroyed => /\ isConnected = linked
                /\ connectEnabled \/ posted \/ At({"connect", "failed"})

(* onDestroy shuts the microphone.                                           *)
EndInv == destroyed => ~transmitting

(* No tap has been made while another was under way.                         *)
Calm == ~rushed /\ ~destroyed

(* Then there is one coroutine, and it finds what the tap found.             *)
OneJobInv ==
  Calm =>
    /\ \A i, j \in Job : job[i] # NoJob /\ job[j] # NoJob => i = j
    /\ posted => isConnected
    /\ \A j \in Job :
         /\ job[j].at \in {"connect", "failed"} => ~isConnected /\ ~posted
         /\ job[j].at = "startAudio" => isConnected
         /\ job[j].at \in Toggling \cup Talking => isConnected /\ ~posted

(* The screen is right, except where the coroutine is about to correct it.   *)
ScreenInv ==
  Calm =>
    /\ ~isConnected => joined = {} /\ channel = None
    /\ audio => isConnected
    /\ At({"enable"}) \/ (pttEnabled <=> joined # {})
    /\ channel # None =>
         channel \in joined \/ \E j \in Job : job[j] = [at |-> "joined", ch |-> channel]
    /\ At({"left"}) => channel = None

(* While one channel is left before another is tapped, only the engine's is   *)
(* joined, or one the coroutine has just left, and it toggles that one.      *)
ChannelInv ==
  Calm /\ ~several =>
    /\ At({"left"}) \/ joined \subseteq {channel}
    /\ \A j \in Job :
         /\ job[j].at \in {"toggle", "leave", "left", "join", "joined"} =>
              joined \subseteq {job[j].ch}
         /\ job[j].at = "joined" => channel = job[j].ch

(* The microphone is open only while the button is held, or about to be shut. *)
TalkInv ==
  Calm =>
    /\ transmitting => /\ channel # None
                       /\ finger \/ At({"stop"})
                       /\ activeTransmit # None \/ At({"started"})
    /\ At({"start", "started"}) => finger
    /\ At({"left", "joined", "enable", "stopped"}) => ~transmitting

IInv == TypeOK /\ ButtonInv /\ EndInv /\ OneJobInv /\ ScreenInv /\ ChannelInv /\ TalkInv

---------------------------------------------------------------------------
(* The activity as it is created satisfies the invariant.                    *)
LEMMA InitIInv == Init => IInv
<1> SUFFICES ASSUME Init PROVE IInv
  OBVIOUS
<1> USE DEF Init, NoJob
<1>1. \A j \in Job : job[j] = NoJob /\ job[j].at = "none"
  OBVIOUS
<1>2. TypeOK
  BY <1>1 DEF TypeOK, JobOK, Connecting, Toggling, Talking
<1>3. ButtonInv /\ EndInv /\ ScreenInv /\ ChannelInv /\ TalkInv
  BY <1>1 DEF ButtonInv, EndInv, ScreenInv, ChannelInv, TalkInv, Calm, At
<1>4. OneJobInv
  BY <1>1 DEF OneJobInv, Calm, Toggling, Talking
<1> QED
  BY <1>2, <1>3, <1>4 DEF IInv

(* A tap that launches a coroutine gives it a place and a channel.           *)
LEMMA LaunchJob ==
  ASSUME JobOK, NEW label \in Connecting \cup Toggling \cup Talking,
         NEW h \in Channel \cup {None}, label \notin Connecting => h \in Channel,
         Launch(label, h)
  PROVE  /\ JobOK'
         /\ At({label})'
         /\ \A j \in Job : job[j] # NoJob => job'[j] = job[j]
         /\ (\A j \in Job : job[j] = NoJob) =>
              \E i \in Job : /\ job'[i].at = label /\ job'[i].ch = h
                            /\ \A j \in Job \ {i} : job'[j] = NoJob /\ job'[j].at = "none"
<1>1. PICK i \in Job : job[i] = NoJob /\ job' = [job EXCEPT ![i] = [at |-> label, ch |-> h]]
  BY DEF Launch
<1>2. job'[i].at = label /\ job'[i].ch = h /\ \A j \in Job \ {i} : job'[j] = job[j]
  BY <1>1 DEF JobOK
<1>3. JobOK'
  <2>1. job' \in [Job -> [at : {"none"} \cup Connecting \cup Toggling \cup Talking,
                         ch : Channel \cup {None}]]
    BY <1>1 DEF JobOK
  <2>2. ASSUME NEW j \in Job
        PROVE  /\ job'[j].at = "none" => job'[j] = NoJob
               /\ job'[j].at \in Toggling \cup Talking => job'[j].ch \in Channel
    BY <1>2 DEF JobOK, Connecting, Toggling, Talking
  <2> QED
    BY <2>1, <2>2 DEF JobOK
<1> QED
  BY <1>1, <1>2, <1>3 DEF At, NoJob

(* After a tap that was not rushed nothing else is under way.                *)
LEMMA NotRushed ==
  ASSUME rushed' = (rushed \/ ~Idle), TypeOK
  PROVE  ~rushed' => /\ ~rushed /\ ~posted
                     /\ \A j \in Job : job[j] = NoJob /\ job[j].at = "none"
<1>1. ~rushed' => ~rushed /\ Idle
  OBVIOUS
<1>2. Idle => ~posted /\ \A j \in Job : job[j] = NoJob
  BY DEF Idle
<1>3. NoJob.at = "none"
  BY DEF NoJob
<1> QED
  BY <1>1, <1>2, <1>3

(* A coroutine that goes on to another label stays a coroutine.               *)
LEMMA StepJobOK ==
  ASSUME JobOK, NEW j \in Job, NEW from, NEW label \in Toggling \cup Talking,
         Step(j, from, label), from \in Toggling \cup Talking
  PROVE  JobOK'
<1>1. job[j].at = from /\ job' = [job EXCEPT ![j].at = label]
  BY DEF Step
<1>2. job[j].ch \in Channel
  BY <1>1 DEF JobOK
<1>3. ASSUME NEW i \in Job
      PROVE  /\ job'[i] \in [at : {"none"} \cup Connecting \cup Toggling \cup Talking,
                            ch : Channel \cup {None}]
             /\ job'[i].at = "none" => job'[i] = NoJob
             /\ job'[i].at \in Toggling \cup Talking => job'[i].ch \in Channel
  <2>1. CASE i = j
    <3>1. job'[j].at = label /\ job'[j].ch = job[j].ch
      BY <1>1 DEF JobOK
    <3>2. job'[j] = [at |-> label, ch |-> job[j].ch]
      BY <1>1 DEF JobOK
    <3>3. label # "none"
      BY DEF Toggling, Talking
    <3> QED
      BY <1>2, <2>1, <3>1, <3>2, <3>3
  <2>2. CASE i # j
    BY <1>1, <2>2 DEF JobOK
  <2> QED
    BY <2>1, <2>2
<1>4. job' \in [Job -> [at : {"none"} \cup Connecting \cup Toggling \cup Talking,
                       ch : Channel \cup {None}]]
  BY <1>1, <1>3 DEF JobOK
<1> QED
  BY <1>3, <1>4 DEF JobOK

(* Every tap and every step of a coroutine keeps the invariant.              *)
LEMMA NextIInv == IInv /\ [Next]_vars => IInv'
<1> SUFFICES ASSUME IInv, [Next]_vars PROVE IInv'
  OBVIOUS
<1>j. JobOK
  BY DEF IInv, TypeOK
<1> USE AndroidAssumption
    DEF IInv, TypeOK, JobOK, ButtonInv, EndInv, OneJobInv, ScreenInv, ChannelInv, TalkInv,
        Calm, At, NoJob, Connecting, Toggling, Talking, fieldVars, screenVars, engineVars,
        userVars
<1>1. CASE UpdateUI /\ ~destroyed /\ UNCHANGED destroyed
  <2>1. /\ posted /\ posted' = FALSE /\ connectEnabled' = TRUE
        /\ pttEnabled' = (pttEnabled /\ isConnected)
        /\ UNCHANGED <<fieldVars, engineVars, finger, job, userVars, destroyed>>
    BY <1>1 DEF UpdateUI
  <2>2. TypeOK'
    BY <2>1
  <2>3. OneJobInv'
    BY <2>1
  <2>4. ScreenInv'
    BY <2>1
  <2>8. ChannelInv'
    BY <2>1
  <2>5. TalkInv'
    BY <2>1
  <2>6. ButtonInv'
    BY <2>1
  <2>7. EndInv'
    BY <2>1
  <2> HIDE DEF TypeOK, OneJobInv, ScreenInv, ChannelInv, TalkInv, ButtonInv, EndInv
  <2> QED
    BY <2>2, <2>3, <2>4, <2>5, <2>6, <2>7, <2>8
<1>2. CASE TapConnect /\ ~destroyed /\ UNCHANGED destroyed
  <2>1. Launch("connect", None)
    BY <1>2 DEF TapConnect
  <2>2. /\ JobOK' /\ At({"connect"})'
        /\ (\A j \in Job : job[j] = NoJob) =>
             \E i \in Job : /\ job'[i].at = "connect"
                            /\ \A j \in Job \ {i} : job'[j] = NoJob /\ job'[j].at = "none"
    <3> HIDE DEF IInv, TypeOK, JobOK, ButtonInv, EndInv, OneJobInv, ScreenInv, ChannelInv,
                 TalkInv, At
    <3> QED
      BY <1>j, <2>1, LaunchJob DEF Connecting
  <2>3. ~rushed' => /\ ~rushed /\ ~posted
                    /\ \A j \in Job : job[j] = NoJob /\ job[j].at = "none"
    BY <1>2, NotRushed DEF TapConnect, Gesture
  <2>4. ~isConnected /\ UNCHANGED <<fieldVars, pttEnabled, posted, engineVars, finger>>
    BY <1>2 DEF TapConnect
  <2>5. TypeOK'
    BY <1>2, <2>2, <2>4 DEF TapConnect, Gesture
  <2>6. ButtonInv' /\ EndInv'
    BY <1>2, <2>2, <2>3, <2>4
  <2>7. OneJobInv' /\ ScreenInv' /\ ChannelInv' /\ TalkInv'
    BY <1>2, <2>2, <2>3, <2>4
  <2> QED
    BY <2>5, <2>6, <2>7
<1>3. CASE TapDisconnect /\ ~destroyed /\ UNCHANGED destroyed
  <2>1. ~rushed' => Idle
    BY <1>3 DEF TapDisconnect
  <2>2. ~rushed' => ~posted /\ \A j \in Job : job[j] = NoJob /\ job[j].at = "none"
    BY <2>1 DEF Idle
  <2>3. TypeOK' /\ ButtonInv' /\ EndInv'
    BY <1>3 DEF TapDisconnect
  <2>4. OneJobInv' /\ ScreenInv' /\ ChannelInv' /\ TalkInv'
    BY <1>3, <2>2 DEF TapDisconnect
  <2> QED
    BY <2>3, <2>4
<1>4. CASE Press /\ ~destroyed /\ UNCHANGED destroyed
  BY <1>4 DEF Press, Gesture, Idle, Launch
<1>5. CASE Release /\ ~destroyed /\ UNCHANGED destroyed
  <2>1. ~rushed' => /\ ~rushed /\ ~posted
                    /\ \A j \in Job : job[j] = NoJob /\ job[j].at = "none"
    BY <1>5, NotRushed DEF Release, Gesture
  <2>2. finger' = FALSE /\ UNCHANGED <<fieldVars, screenVars, engineVars>>
    BY <1>5 DEF Release
  <2>3. CASE pttEnabled /\ activeTransmit # None
    <3>1. Launch("stop", activeTransmit)
      BY <1>5, <2>3 DEF Release
    <3>2. /\ JobOK' /\ At({"stop"})'
          /\ \A j \in Job : job[j] # NoJob => job'[j] = job[j]
          /\ (\A j \in Job : job[j] = NoJob) =>
               \E i \in Job : /\ job'[i].at = "stop"
                              /\ \A j \in Job \ {i} : job'[j] = NoJob /\ job'[j].at = "none"
      <4>1. activeTransmit \in Channel
        BY <2>3
      <4> HIDE DEF IInv, TypeOK, JobOK, ButtonInv, EndInv, OneJobInv, ScreenInv, ChannelInv,
                   TalkInv, At
      <4> QED
        BY <1>j, <3>1, <4>1, LaunchJob DEF Talking
    <3>3. TypeOK' /\ EndInv'
      BY <1>5, <2>1, <2>2, <3>2 DEF Release, Gesture
    <3>4. ButtonInv'
      BY <1>5, <2>2, <3>2
    <3>5. OneJobInv'
      BY <1>5, <2>1, <2>2, <2>3, <3>2 DEF Release, Gesture
    <3>6. ScreenInv'
      BY <1>5, <2>1, <2>2, <2>3, <3>2
    <3>7. ChannelInv'
      BY <1>5, <2>1, <2>2, <2>3, <3>2 DEF Release, Gesture
    <3>8. TalkInv'
      BY <1>5, <2>1, <2>2, <2>3, <3>2
    <3> QED
      BY <3>3, <3>4, <3>5, <3>6, <3>7, <3>8
  <2>4. CASE ~(pttEnabled /\ activeTransmit # None)
    <3>1. UNCHANGED job
      BY <1>5, <2>4 DEF Release
    <3>2. TypeOK'
      BY <1>5, <2>2, <3>1 DEF Release, Gesture
    <3>4. ButtonInv' /\ EndInv'
      BY <1>5, <2>1, <2>2, <3>1
    <3>3. OneJobInv' /\ ScreenInv'
      BY <1>5, <2>1, <2>2, <2>4, <3>1
    <3>5. ChannelInv'
      BY <1>5, <2>1, <2>2, <3>1 DEF Release, Gesture
    <3>6. TalkInv'
      BY <1>5, <2>1, <2>2, <2>4, <3>1
    <3> QED
      BY <3>2, <3>3, <3>4, <3>5, <3>6
  <2> QED
    BY <2>3, <2>4
<1>6. ASSUME NEW h \in Channel, TapChannel(h), ~destroyed, UNCHANGED destroyed PROVE IInv'
  <2>1. ~rushed' => /\ ~rushed /\ ~posted
                    /\ \A j \in Job : job[j] = NoJob /\ job[j].at = "none"
    BY <1>6, NotRushed DEF TapChannel
  <2>2. isConnected /\ UNCHANGED <<fieldVars, screenVars, engineVars, finger>>
    BY <1>6 DEF TapChannel
  <2>3. Launch("toggle", h)
    BY <1>6 DEF TapChannel
  <2>4. /\ JobOK'
        /\ \A j \in Job : job[j] # NoJob => job'[j] = job[j]
        /\ (\A j \in Job : job[j] = NoJob) =>
             \E i \in Job : /\ job'[i].at = "toggle" /\ job'[i].ch = h
                            /\ \A j \in Job \ {i} : job'[j] = NoJob /\ job'[j].at = "none"
    <3> HIDE DEF IInv, TypeOK, JobOK, ButtonInv, EndInv, OneJobInv, ScreenInv, ChannelInv,
                 TalkInv, At
    <3> QED
      BY <1>6, <1>j, <2>3, LaunchJob DEF Toggling
  <2>5. TypeOK' /\ EndInv'
    BY <1>6, <2>1, <2>2, <2>4 DEF TapChannel
  <2>6. ButtonInv'
    <3>1. At({"connect", "failed"}) => At({"connect", "failed"})'
      BY <2>4
    <3> QED
      BY <1>6, <2>2, <3>1
  <2>7. OneJobInv' /\ ScreenInv' /\ TalkInv'
    BY <1>6, <2>1, <2>2, <2>4
  <2>8. ~several' => ~several /\ joined \subseteq {h}
    BY <1>6 DEF TapChannel
  <2>9. ChannelInv'
    BY <1>6, <2>1, <2>2, <2>4, <2>8
  <2> QED
    BY <2>5, <2>6, <2>7, <2>9
<1>7. ASSUME NEW j \in Job, NEW ok \in BOOLEAN, StartAudio(j, ok), ~destroyed,
            UNCHANGED destroyed
      PROVE  IInv'
  BY <1>7 DEF StartAudio, End
<1>8. ASSUME NEW j \in Job, Failed(j), ~destroyed, UNCHANGED destroyed PROVE IInv'
  BY <1>8 DEF Failed, End
<1>9. ASSUME NEW j \in Job, Toggle(j), ~destroyed, UNCHANGED destroyed PROVE IInv'
  BY <1>9 DEF Toggle, Step
<1>10. ASSUME NEW j \in Job, NativeLeave(j), ~destroyed, UNCHANGED destroyed PROVE IInv'
  <2>1. TypeOK'
    <3>1. Step(j, "leave", "left") /\ JobOK
      BY <1>10 DEF NativeLeave
    <3>2. JobOK'
      <4> HIDE DEF JobOK, Toggling, Talking
      <4>1. "leave" \in Toggling \cup Talking /\ "left" \in Toggling \cup Talking
        BY DEF Toggling, Talking
      <4> QED
        BY <3>1, <4>1, StepJobOK
    <3> HIDE DEF JobOK, ButtonInv, EndInv, OneJobInv, ScreenInv, ChannelInv, TalkInv
    <3> QED
      BY <1>10, <3>2 DEF NativeLeave
  <2>2. ButtonInv'
    BY <1>10 DEF NativeLeave, Step
  <2>3. EndInv'
    BY <1>10 DEF NativeLeave, Step
  <2>4. OneJobInv'
    BY <1>10 DEF NativeLeave, Step
  <2>5. ScreenInv'
    BY <1>10 DEF NativeLeave, Step
  <2>8. ChannelInv'
    BY <1>10 DEF NativeLeave, Step
  <2>6. TalkInv'
    BY <1>10 DEF NativeLeave, Step
  <2> QED
    BY <2>1, <2>2, <2>3, <2>4, <2>5, <2>6, <2>8
<1>11. ASSUME NEW j \in Job, NativeJoin(j), ~destroyed, UNCHANGED destroyed PROVE IInv'
  <2>1. TypeOK'
    BY <1>11 DEF NativeJoin, Step
  <2>2. ButtonInv' /\ EndInv'
    BY <1>11 DEF NativeJoin, Step
  <2>3. OneJobInv'
    BY <1>11 DEF NativeJoin, Step
  <2>4. ScreenInv'
    BY <1>11 DEF NativeJoin, Step
  <2>8. ChannelInv'
    BY <1>11 DEF NativeJoin, Step
  <2>5. TalkInv'
    BY <1>11 DEF NativeJoin, Step
  <2> QED
    BY <2>1, <2>2, <2>3, <2>4, <2>5, <2>8
<1>12. ASSUME NEW j \in Job, Toggled(j), ~destroyed, UNCHANGED destroyed PROVE IInv'
  <2>1. TypeOK'
    BY <1>12 DEF Toggled, Step
  <2>2. ButtonInv' /\ EndInv'
    BY <1>12 DEF Toggled, Step
  <2>3. OneJobInv'
    BY <1>12 DEF Toggled, Step
  <2>4. ScreenInv'
    BY <1>12 DEF Toggled, Step
  <2>8. ChannelInv'
    BY <1>12 DEF Toggled, Step
  <2>5. TalkInv'
    BY <1>12 DEF Toggled, Step
  <2> QED
    BY <2>1, <2>2, <2>3, <2>4, <2>5, <2>8
<1>13. ASSUME NEW j \in Job, EnablePtt(j), ~destroyed, UNCHANGED destroyed PROVE IInv'
  BY <1>13 DEF EnablePtt, End
<1>14. ASSUME NEW j \in Job, NativeStart(j), ~destroyed, UNCHANGED destroyed PROVE IInv'
  BY <1>14 DEF NativeStart, Step
<1>15. ASSUME NEW j \in Job, Started(j), ~destroyed, UNCHANGED destroyed PROVE IInv'
  BY <1>15 DEF Started, End
<1>16. ASSUME NEW j \in Job, NativeStop(j), ~destroyed, UNCHANGED destroyed PROVE IInv'
  <2>1. TypeOK'
    <3>1. Step(j, "stop", "stopped") /\ JobOK
      BY <1>16 DEF NativeStop
    <3>2. JobOK'
      <4> HIDE DEF JobOK, Toggling, Talking
      <4>1. "stop" \in Toggling \cup Talking /\ "stopped" \in Toggling \cup Talking
        BY DEF Toggling, Talking
      <4> QED
        BY <3>1, <4>1, StepJobOK
    <3> HIDE DEF JobOK, ButtonInv, EndInv, OneJobInv, ScreenInv, ChannelInv, TalkInv
    <3> QED
      BY <1>16, <3>2 DEF NativeStop
  <2>2. ButtonInv'
    BY <1>16 DEF NativeStop, Step
  <2>3. EndInv'
    BY <1>16 DEF NativeStop, Step
  <2>4. OneJobInv'
    BY <1>16 DEF NativeStop, Step
  <2>5. ScreenInv'
    BY <1>16 DEF NativeStop, Step
  <2>8. ChannelInv'
    BY <1>16 DEF NativeStop, Step
  <2>6. TalkInv'
    BY <1>16 DEF NativeStop, Step
  <2> QED
    BY <2>1, <2>2, <2>3, <2>4, <2>5, <2>6, <2>8
<1>17. ASSUME NEW j \in Job, Stopped(j), ~destroyed, UNCHANGED destroyed PROVE IInv'
  BY <1>17 DEF Stopped, End
<1>18. ASSUME NEW j \in Job, NEW ok \in BOOLEAN, NativeConnect(j, ok), ~destroyed,
             UNCHANGED destroyed
      PROVE  IInv'
  <2>1. TypeOK'
    BY <1>18 DEF NativeConnect, Step
  <2>2. ButtonInv' /\ EndInv'
    BY <1>18 DEF NativeConnect, Step
  <2>3. OneJobInv'
    BY <1>18 DEF NativeConnect, Step
  <2>4. ScreenInv'
    BY <1>18 DEF NativeConnect, Step
  <2>8. ChannelInv'
    BY <1>18 DEF NativeConnect, Step
  <2>5. TalkInv'
    BY <1>18 DEF NativeConnect, Step
  <2> QED
    BY <2>1, <2>2, <2>3, <2>4, <2>5, <2>8
<1>19. CASE Destroy
  <2>1. PICK inside \in SUBSET Job :
          job' = [j \in Job |-> IF j \in inside THEN job[j] ELSE NoJob]
    BY <1>19 DEF Destroy
  <2>2. destroyed' = TRUE /\ transmitting' = FALSE
    BY <1>19 DEF Destroy
  <2>3. TypeOK'
    BY <1>19, <2>1 DEF Destroy
  <2>4. ButtonInv' /\ EndInv' /\ OneJobInv' /\ ScreenInv' /\ ChannelInv' /\ TalkInv'
    BY <2>2
  <2> QED
    BY <2>3, <2>4
<1>20. CASE UNCHANGED vars
  BY <1>20 DEF vars
<1> HIDE DEF IInv, TypeOK, JobOK, ButtonInv, EndInv, OneJobInv, ScreenInv, ChannelInv, TalkInv
<1> QED
  BY <1>1, <1>2, <1>3, <1>4, <1>5, <1>6, <1>7, <1>8, <1>9, <1>10, <1>11, <1>12, <1>13, <1>14,
     <1>15, <1>16, <1>17, <1>18, <1>19, <1>20
  DEF Next, Main, Coroutine

(* The invariant holds for ever.                                             *)
LEMMA Invariance == Spec => []IInv
  BY InitIInv, NextIInv, PTL DEF Spec

(* With every tap given its time, no transmission outlives the press.        *)
THEOREM TalkEnds == Spec => []TalkEndsUnlessRushed
<1>1. IInv => TalkEndsUnlessRushed
  BY DEF IInv, TypeOK, EndInv, TalkInv, Calm, At, Idle, NoJob, TalkEndsUnlessRushed
<1> QED
  BY <1>1, Invariance, PTL

(* With every tap given its time, the devices run only while connected; with  *)
(* one channel at a time besides, channel and push-to-talk are the engine's. *)
THEOREM ScreenAgrees == Spec => []ScreenAgreesUnlessRushed
<1>1. IInv => ScreenAgreesUnlessRushed
  BY AndroidAssumption
  DEF IInv, TypeOK, ScreenInv, ChannelInv, Calm, At, Idle, NoJob, ScreenAgreesUnlessRushed
<1> QED
  BY <1>1, Invariance, PTL

(* However quickly the user taps, the connect button comes back and says      *)
(* whether the engine is connected.                                          *)
THEOREM ButtonReturns == Spec => []ConnectButtonReturns
<1>1. IInv => ConnectButtonReturns
  BY DEF IInv, TypeOK, JobOK, ButtonInv, At, Idle, NoJob, ConnectButtonReturns
<1> QED
  BY <1>1, Invariance, PTL
=============================================================================
