----------------------------- MODULE AndroidPtt -----------------------------
(***************************************************************************)
(* The Android activity (MainActivity.kt): what the user taps on the main    *)
(* thread against the coroutines it launches on the IO dispatcher, where the *)
(* engine is called (native-bridge.cpp).  The fields isConnected,            *)
(* joinedChannels and activeTransmitChannel are shared without a lock.       *)
(* A call of the engine is one step here; Engine has its inside.             *)
(*                                                                          *)
(* Sliders, toasts and statistics are left out.                              *)
(***************************************************************************)
EXTENDS FiniteSets

CONSTANTS Channel,  \* channelIds
          Job,      \* bound on the coroutines in flight
          None      \* no channel

ASSUME AndroidAssumption == None \notin Channel

VARIABLES
  isConnected, joined, activeTransmit,  \* the fields of the activity
  connectEnabled, pttEnabled,           \* the two buttons
  posted,          \* an updateUI waits in the queue of the main thread
  finger,          \* the push-to-talk button is held
  linked,          \* engine.connected
  channel,         \* the engine's channel, None if it is not in one
  transmitting,    \* engine.transmitting
  audio,           \* the devices of g_audioIO run
  job,             \* the coroutines: where each is, and its channel
  rushed,          \* a gesture was made while one was in flight
  several,         \* a channel was tapped while another one was joined
  destroyed        \* onDestroy has freed the engine

fieldVars  == <<isConnected, joined, activeTransmit>>
screenVars == <<connectEnabled, pttEnabled, posted>>
engineVars == <<linked, channel, transmitting, audio>>
userVars   == <<rushed, several>>
vars == <<fieldVars, screenVars, engineVars, finger, job, userVars, destroyed>>

NoJob == [at |-> "none", ch |-> None]

Init ==
  /\ isConnected = FALSE /\ joined = {} /\ activeTransmit = None
  /\ connectEnabled = TRUE /\ pttEnabled = FALSE /\ posted = FALSE
  /\ finger = FALSE
  /\ linked = FALSE /\ channel = None /\ transmitting = FALSE /\ audio = FALSE
  /\ job = [j \in Job |-> NoJob]
  /\ rushed = FALSE /\ several = FALSE
  /\ destroyed = FALSE

Idle == ~posted /\ \A j \in Job : job[j] = NoJob

(* A gesture of the user.                                                    *)
Gesture ==
  /\ rushed' = (rushed \/ ~Idle)
  /\ UNCHANGED several

Launch(label, h) ==
  \E j \in Job : job[j] = NoJob /\ job' = [job EXCEPT ![j] = [at |-> label, ch |-> h]]

Step(j, from, label) ==
  /\ job[j].at = from
  /\ job' = [job EXCEPT ![j].at = label]

End(j, from) ==
  /\ job[j].at = from
  /\ job' = [job EXCEPT ![j] = NoJob]

---------------------------------------------------------------------------
(* The main thread.                                                          *)
UpdateUI ==
  /\ posted
  /\ posted' = FALSE
  /\ connectEnabled' = TRUE
  /\ pttEnabled' = (pttEnabled /\ isConnected)
  /\ UNCHANGED <<fieldVars, engineVars, finger, job, userVars>>

(* toggleConnection, connected: nativeDisconnect calls onDisconnected.  When *)
(* nothing else is under way, this makes up for whatever came before.        *)
TapDisconnect ==
  /\ connectEnabled /\ isConnected
  /\ rushed' = ~Idle /\ several' = (several /\ ~Idle)
  /\ audio' = FALSE /\ linked' = FALSE /\ channel' = None /\ transmitting' = FALSE
  /\ isConnected' = FALSE /\ joined' = {} /\ activeTransmit' = None
  /\ connectEnabled' = TRUE /\ pttEnabled' = FALSE
  /\ UNCHANGED <<posted, finger, job>>

TapConnect ==
  /\ connectEnabled /\ ~isConnected
  /\ Gesture
  /\ connectEnabled' = FALSE
  /\ Launch("connect", None)
  /\ UNCHANGED <<fieldVars, pttEnabled, posted, engineVars, finger>>

TapChannel(h) ==
  /\ isConnected
  /\ rushed' = (rushed \/ ~Idle)
  /\ several' = (several \/ joined \ {h} # {})
  /\ Launch("toggle", h)
  /\ UNCHANGED <<fieldVars, screenVars, engineVars, finger>>

(* startTransmitting, on the first channel of the set.                       *)
Press ==
  /\ pttEnabled /\ ~finger
  /\ Gesture
  /\ finger' = TRUE
  /\ IF joined = {} THEN UNCHANGED job ELSE \E h \in joined : Launch("start", h)
  /\ UNCHANGED <<fieldVars, screenVars, engineVars>>

(* stopTransmitting; a button that is disabled meanwhile hears nothing.      *)
Release ==
  /\ finger
  /\ Gesture
  /\ finger' = FALSE
  /\ IF pttEnabled /\ activeTransmit # None THEN Launch("stop", activeTransmit)
                                            ELSE UNCHANGED job
  /\ UNCHANGED <<fieldVars, screenVars, engineVars>>

---------------------------------------------------------------------------
(* Connecting.  The engine calls onConnected before nativeConnect returns.   *)
NativeConnect(j, ok) ==
  /\ Step(j, "connect", IF ok THEN "startAudio" ELSE "failed")
  /\ linked' = (linked \/ ok)
  /\ isConnected' = (isConnected \/ ok)
  /\ posted' = (posted \/ ok)
  /\ UNCHANGED <<joined, activeTransmit, connectEnabled, pttEnabled, channel,
                 transmitting, audio, finger, userVars>>

(* The result is ignored: a device may fail to open or to start, or its first *)
(* callback come before running_ is set, which stops the stream.             *)
StartAudio(j, ok) ==
  /\ End(j, "startAudio")
  /\ audio' = ok
  /\ UNCHANGED <<fieldVars, screenVars, linked, channel, transmitting, finger, userVars>>

(* Mutant of Failed: the button stays as it is.                              *)
FailedSilently(j) ==
  /\ End(j, "failed")
  /\ UNCHANGED <<fieldVars, screenVars, engineVars, finger, userVars>>

Failed(j) ==
  /\ End(j, "failed")
  /\ connectEnabled' = TRUE
  /\ UNCHANGED <<fieldVars, pttEnabled, posted, engineVars, finger, userVars>>

---------------------------------------------------------------------------
(* toggleChannel: on the IO dispatcher, on the main thread, and once more    *)
(* on the main thread.  The engine leaves its channel whatever the id.       *)
Toggle(j) ==
  /\ Step(j, "toggle", IF job[j].ch \in joined THEN "leave" ELSE "join")
  /\ UNCHANGED <<fieldVars, screenVars, engineVars, finger, userVars>>

NativeLeave(j) ==
  /\ Step(j, "leave", "left")
  /\ channel' = None /\ transmitting' = FALSE
  /\ UNCHANGED <<fieldVars, screenVars, linked, audio, finger, userVars>>

NativeJoin(j) ==
  /\ Step(j, "join", IF linked THEN "joined" ELSE "enable")
  /\ channel' = IF linked THEN job[j].ch ELSE channel
  /\ transmitting' = (transmitting /\ ~linked)
  /\ UNCHANGED <<fieldVars, screenVars, linked, audio, finger, userVars>>

Toggled(j) ==
  /\ \/ Step(j, "left", "enable") /\ joined' = joined \ {job[j].ch}
     \/ Step(j, "joined", "enable") /\ joined' = joined \cup {job[j].ch}
  /\ UNCHANGED <<isConnected, activeTransmit, screenVars, engineVars, finger, userVars>>

(* Mutant of EnablePtt: the button is enabled after every toggle.            *)
EnablePttAlways(j) ==
  /\ End(j, "enable")
  /\ pttEnabled' = TRUE
  /\ UNCHANGED <<fieldVars, connectEnabled, posted, engineVars, finger, userVars>>

EnablePtt(j) ==
  /\ End(j, "enable")
  /\ pttEnabled' = (joined # {})
  /\ UNCHANGED <<fieldVars, connectEnabled, posted, engineVars, finger, userVars>>

---------------------------------------------------------------------------
(* Talking.  The engine starts in whatever channel it is, if any.            *)
NativeStart(j) ==
  /\ Step(j, "start", "started")
  /\ transmitting' = (transmitting \/ channel # None)
  /\ UNCHANGED <<fieldVars, screenVars, linked, channel, audio, finger, userVars>>

(* Mutant of Started: the channel is not noted.                              *)
StartedUnnoted(j) ==
  /\ End(j, "started")
  /\ UNCHANGED <<fieldVars, screenVars, engineVars, finger, userVars>>

Started(j) ==
  /\ End(j, "started")
  /\ activeTransmit' = job[j].ch
  /\ UNCHANGED <<isConnected, joined, screenVars, engineVars, finger, userVars>>

NativeStop(j) ==
  /\ Step(j, "stop", "stopped")
  /\ transmitting' = FALSE
  /\ UNCHANGED <<fieldVars, screenVars, linked, channel, audio, finger, userVars>>

Stopped(j) ==
  /\ End(j, "stopped")
  /\ activeTransmit' = None
  /\ UNCHANGED <<isConnected, joined, screenVars, engineVars, finger, userVars>>

---------------------------------------------------------------------------
(* A coroutine may be inside a native call.                                   *)
InEngine(j) == job[j].at \in {"connect", "leave", "join", "start", "stop"}

(* onDestroy: scope.cancel() ends a coroutine where it would go on to the     *)
(* main thread or has not begun, but not inside a native call.  Then the      *)
(* devices are stopped and the engine is disconnected and freed, also under   *)
(* the coroutines that are inside.  The model ends here.                     *)
Destroy ==
  /\ destroyed' = TRUE
  /\ \E inside \in SUBSET {j \in Job : InEngine(j)} :
       job' = [j \in Job |-> IF j \in inside THEN job[j] ELSE NoJob]
  /\ audio' = FALSE /\ linked' = FALSE /\ channel' = None /\ transmitting' = FALSE
  /\ isConnected' = FALSE /\ joined' = {} /\ activeTransmit' = None
  /\ UNCHANGED <<screenVars, finger, userVars>>

---------------------------------------------------------------------------
Main == UpdateUI \/ TapConnect \/ TapDisconnect \/ Press \/ Release
        \/ \E h \in Channel : TapChannel(h)

Coroutine(j) ==
  \/ \E ok \in BOOLEAN : NativeConnect(j, ok) \/ StartAudio(j, ok)
  \/ Failed(j)
  \/ Toggle(j) \/ NativeLeave(j) \/ NativeJoin(j) \/ Toggled(j) \/ EnablePtt(j)
  \/ NativeStart(j) \/ Started(j) \/ NativeStop(j) \/ Stopped(j)

Next ==
  /\ ~destroyed
  /\ \/ /\ Main \/ \E j \in Job : Coroutine(j)
        /\ UNCHANGED destroyed
     \/ Destroy

Spec == Init /\ [][Next]_vars

---------------------------------------------------------------------------
(* Push-to-talk ends with the press, also when the channel is left, changed   *)
(* or disconnected while the button is held, for a user who lets each tap    *)
(* take effect.  A quick tap is over before activeTransmitChannel is set,     *)
(* and then the transmission goes on.  A rushed tap counts until a disconnect *)
(* that waits.                                                               *)
TalkEndsUnlessRushed == Idle /\ ~finger /\ ~rushed => ~transmitting

(* When nothing is under way, for the same user: the devices run only while   *)
(* connected.  If, besides, one channel is left before another is tapped, the *)
(* channel shown as joined is the engine's, and push-to-talk is enabled just *)
(* when the engine is in one.  Joining a second channel and leaving one of   *)
(* the two parts them: the engine leaves whatever channel it is in.          *)
ScreenAgreesUnlessRushed ==
  Idle /\ ~rushed /\ ~destroyed =>
    /\ audio => isConnected
    /\ ~several => joined = {channel} \ {None} /\ (pttEnabled <=> channel # None)

(* Whatever fails and however taps and coroutines interleave, the user is    *)
(* never left without a connect button, and what it says is what the engine  *)
(* is.                                                                       *)
ConnectButtonReturns ==
  Idle /\ ~destroyed => connectEnabled /\ isConnected = linked
=============================================================================
