------------------------------- MODULE Engine -------------------------------
(***************************************************************************)
(* The audio engine (core/src/audio_engine.c) between two threads.  The      *)
(* audio thread runs ae_engine_process tick after tick; the UI thread joins, *)
(* leaves, connects and presses push-to-talk.  Nothing but a few atomic       *)
(* flags orders them: channel, stream table and socket are plain memory that *)
(* both use, so the model interleaves their accesses.                        *)
(*                                                                          *)
(* Left out: samples, volumes, keepalive and ping, the statistics (among     *)
(* them stream_count), channel.transmitting, which nothing reads.  After a    *)
(* use of freed memory the model goes on as if the memory were intact.       *)
(***************************************************************************)
EXTENDS Naturals, FiniteSets

CONSTANTS Channel,   \* numeric channel ids
          Peer,      \* UDP ids of the other clients
          Slots,     \* AE_MAX_USERS_PER_CH
          MaxRecv,   \* MAX_RECV_PER_TICK
          InboxCap,  \* datagrams the socket's receive buffer holds
          None       \* no channel, no peer

ASSUME EngineAssumption ==
  /\ {Slots, MaxRecv, InboxCap} \subseteq Nat
  /\ None \notin Channel \cup Peer

VARIABLES
  connected, transmitting,   \* the atomic flags of the engine
  active, num,               \* channel.active, channel.channel_id_num
  keys,                      \* channels with an active entry in crypto.keys
  blank,                     \* the one whose key bytes are not written yet
  sock,                      \* the UDP socket is open
  inbox,                     \* datagrams in its receive buffer
  streams,                   \* the stream table
  pc, at,                    \* per thread: program counter, stream slot
  want,                      \* UI: the channel a join is heading for
  hdr, key,                  \* audio: channels of the frame's header and key
  pkt, recvd,                \* audio: packet at hand, packets in this tick
  cut,                       \* the frame's push-to-talk was released meanwhile
  stray                      \* frames sent since push-to-talk was released

flagVars  == <<connected, transmitting, active, num, keys, blank>>
netVars   == <<sock, inbox>>
frameVars == <<hdr, key, cut, stray>>
recvVars  == <<pkt, recvd>>
localVars == <<want, frameVars, recvVars>>
vars == <<flagVars, netVars, streams, pc, at, localVars>>

Slot   == 1..Slots
Thread == {"ui", "audio"}
NoStream == [live |-> FALSE, owner |-> None, objects |-> "null", age |-> "fresh"]
Packet == [from : Peer, channel : Channel]

Init ==
  /\ connected = FALSE /\ transmitting = FALSE
  /\ active = FALSE /\ num = None /\ keys = {} /\ blank = None
  /\ sock = FALSE /\ inbox = {}
  /\ streams = [s \in Slot |-> NoStream]
  /\ pc = [t \in Thread |-> "idle"]
  /\ at = [t \in Thread |-> 1]
  /\ want = None
  /\ hdr = None /\ key = None /\ cut = FALSE /\ stray = 0
  /\ pkt = None /\ recvd = 0

Goto(t, label) == pc' = [pc EXCEPT ![t] = label]
GotoAt(t, label, s) == Goto(t, label) /\ at' = [at EXCEPT ![t] = s]

StopTransmitting ==
  /\ transmitting' = FALSE
  /\ cut' = (cut \/ pc["audio"] \in {"header", "encrypt", "send"})
  /\ UNCHANGED <<connected, active, num, keys, blank, netVars, streams, want, hdr, key,
                 stray, recvVars>>

---------------------------------------------------------------------------
(* destroy_stream, on whichever thread: decoder and jitter buffer are freed, *)
(* the slot is released, and only then the dangling pointers are cleared.    *)
(* The audio thread goes on with the next slot of the mix loop, the UI       *)
(* thread with the next slot of leave_channel.                               *)
Free(t) ==
  /\ pc[t] = "free"
  /\ streams' = [streams EXCEPT ![at[t]].objects = IF @ = "null" THEN @ ELSE "freed"]
  /\ Goto(t, "release")
  /\ UNCHANGED <<flagVars, netVars, at, localVars>>

Release(t) ==
  /\ pc[t] = "release"
  /\ streams' = [streams EXCEPT ![at[t]].live = FALSE]
  /\ Goto(t, "clear")
  /\ UNCHANGED <<flagVars, netVars, at, localVars>>

Clear(t) ==
  /\ pc[t] = "clear"
  /\ streams' = [streams EXCEPT ![at[t]].objects = "null"]
  /\ GotoAt(t, IF t = "audio" THEN "mix" ELSE "scan", at[t] + 1)
  /\ UNCHANGED <<flagVars, netVars, localVars>>

---------------------------------------------------------------------------
(* The UI thread.                                                            *)
UiGoto(from, label) == pc["ui"] = from /\ Goto("ui", label)

(* ae_engine_connect: an open socket is closed first; no new one on failure. *)
Connect(ok) ==
  /\ UiGoto("idle", IF ok THEN "connected" ELSE "idle")
  /\ sock' = ok
  /\ inbox' = {}
  /\ UNCHANGED <<flagVars, streams, at, localVars>>

SetConnected ==
  /\ UiGoto("connected", "idle")
  /\ connected' = TRUE
  /\ UNCHANGED <<transmitting, active, num, keys, blank, netVars, streams, at, localVars>>

(* ae_engine_disconnect: the streams stay.                                   *)
Disconnect ==
  /\ UiGoto("idle", "unconnect")
  /\ StopTransmitting
  /\ UNCHANGED at

Unconnect ==
  /\ UiGoto("unconnect", "close")
  /\ connected' = FALSE
  /\ UNCHANGED <<transmitting, active, num, keys, blank, netVars, streams, at, localVars>>

(* Mutant of CloseSocket: the channel stays active.                          *)
CloseSocketOnly ==
  /\ UiGoto("close", "idle")
  /\ sock' = FALSE
  /\ inbox' = {}
  /\ UNCHANGED <<flagVars, streams, at, localVars>>

CloseSocket ==
  /\ UiGoto("close", "deactivate")
  /\ sock' = FALSE
  /\ inbox' = {}
  /\ UNCHANGED <<flagVars, streams, at, localVars>>

(* Mutant of Leave: transmission goes on.                                    *)
LeaveTransmitting ==
  /\ pc["ui"] \in {"idle", "rejoin"}
  /\ GotoAt("ui", "scan", 1)
  /\ UNCHANGED <<flagVars, netVars, streams, localVars>>

(* ae_engine_leave_channel                                                   *)
Leave ==
  /\ pc["ui"] \in {"idle", "rejoin"}
  /\ StopTransmitting
  /\ GotoAt("ui", "scan", 1)

Scan ==
  /\ pc["ui"] = "scan"
  /\ IF at["ui"] \notin Slot THEN GotoAt("ui", "deactivate", 1)
     ELSE IF streams[at["ui"]].live THEN Goto("ui", "free") /\ UNCHANGED at
     ELSE GotoAt("ui", "scan", at["ui"] + 1)
  /\ UNCHANGED <<flagVars, netVars, streams, localVars>>

Deactivate ==
  /\ UiGoto("deactivate", IF want = None THEN "idle" ELSE "setNum")
  /\ active' = FALSE
  /\ UNCHANGED <<connected, transmitting, num, keys, blank, netVars, streams, at, localVars>>

(* Mutant of Join: the current channel is not left.                          *)
JoinWithoutLeaving(h) ==
  /\ connected
  /\ UiGoto("idle", "setNum")
  /\ want' = h
  /\ UNCHANGED <<flagVars, netVars, streams, at, frameVars, recvVars>>

(* ae_engine_join_channel: out of the current channel first.                 *)
Join(h) ==
  /\ connected
  /\ UiGoto("idle", IF active THEN "rejoin" ELSE "setNum")
  /\ want' = h
  /\ UNCHANGED <<flagVars, netVars, streams, at, frameVars, recvVars>>

SetNum ==
  /\ UiGoto("setNum", "activate")
  /\ num' = want
  /\ UNCHANGED <<connected, transmitting, active, keys, blank, netVars, streams, at, localVars>>

Activate ==
  /\ UiGoto("activate", "setKey")
  /\ active' = TRUE
  /\ UNCHANGED <<connected, transmitting, num, keys, blank, netVars, streams, at, localVars>>

(* ae_crypto_set_channel_key: an entry is active before it has its bytes; an  *)
(* entry that was there gets the same bytes again.  The table has room for   *)
(* every channel of the application.                                         *)
ClaimKey ==
  /\ UiGoto("setKey", "writeKey")
  /\ keys' = keys \cup {num}
  /\ blank' = IF num \in keys THEN blank ELSE num
  /\ UNCHANGED <<connected, transmitting, active, num, netVars, streams, at, localVars>>

WriteKey ==
  /\ UiGoto("writeKey", "idle")
  /\ blank' = None
  /\ want' = None
  /\ UNCHANGED <<connected, transmitting, active, num, keys, netVars, streams, at,
                 frameVars, recvVars>>

(* ae_engine_start_transmit, ae_engine_stop_transmit                         *)
Press ==
  /\ active
  /\ UiGoto("idle", "press")
  /\ UNCHANGED <<flagVars, netVars, streams, at, localVars>>

SetTransmitting ==
  /\ UiGoto("press", "idle")
  /\ transmitting' = TRUE
  /\ stray' = 0
  /\ UNCHANGED <<connected, active, num, keys, blank, netVars, streams, at, want, hdr, key,
                 cut, recvVars>>

Unpress ==
  /\ UiGoto("idle", "idle")
  /\ StopTransmitting
  /\ UNCHANGED at

---------------------------------------------------------------------------
(* The audio thread: ae_engine_process.  connected is loaded once a tick.    *)
AudioGoto(from, label) == pc["audio"] = from /\ Goto("audio", label)

Tick ==
  /\ AudioGoto("idle", IF connected THEN "capture" ELSE "mix")
  /\ UNCHANGED <<flagVars, netVars, streams, at, localVars>>

(* Mutant of Capture: the flag is not looked at.                             *)
CaptureAlways(full) ==
  /\ AudioGoto("capture", IF full THEN "header" ELSE "recv")
  /\ UNCHANGED <<flagVars, netVars, streams, at, localVars>>

(* A frame is read from the capture ring and encoded, if one is there.       *)
Capture(full) ==
  /\ AudioGoto("capture", IF transmitting /\ full THEN "header" ELSE "recv")
  /\ UNCHANGED <<flagVars, netVars, streams, at, localVars>>

(* The channel is read for the header and again for the key.                 *)
Header ==
  /\ AudioGoto("header", "encrypt")
  /\ hdr' = num
  /\ UNCHANGED <<flagVars, netVars, streams, at, want, key, cut, stray, recvVars>>

Encrypt ==
  /\ AudioGoto("encrypt", "send")
  /\ key' = num
  /\ UNCHANGED <<flagVars, netVars, streams, at, want, hdr, cut, stray, recvVars>>

(* Encryption needs an active entry, authentic decryption its bytes too.      *)
CanEncrypt(h) == h \in keys
CanDecrypt(h) == h \in keys \ {blank}

(* Without that key the encryption fails and nothing is sent.                *)
SendFrame ==
  /\ AudioGoto("send", "recv")
  /\ stray' = IF CanEncrypt(key) /\ sock /\ ~transmitting THEN stray + 1 ELSE stray
  /\ hdr' = None /\ key' = None /\ cut' = FALSE
  /\ UNCHANGED <<flagVars, netVars, streams, at, want, recvVars>>

(* The audio thread is done with the packet at hand.                         *)
NextPacket ==
  /\ GotoAt("audio", "recv", 1)
  /\ pkt' = None

(* At most MaxRecv datagrams a tick; audio outside a channel is dropped.     *)
Recv ==
  /\ recvd < MaxRecv
  /\ sock
  /\ \E p \in inbox :
       /\ inbox' = inbox \ {p}
       /\ IF active THEN Goto("audio", "find") /\ pkt' = p /\ UNCHANGED at
                    ELSE NextPacket
  /\ pc["audio"] = "recv"
  /\ recvd' = recvd + 1
  /\ UNCHANGED <<flagVars, sock, streams, want, frameVars>>

RecvDone ==
  /\ recvd = MaxRecv \/ inbox = {}
  /\ pc["audio"] = "recv"
  /\ GotoAt("audio", "mix", 1)
  /\ recvd' = 0
  /\ UNCHANGED <<flagVars, netVars, streams, want, frameVars, pkt>>

(* Mutants of StreamsOf: any live stream is a match; none is.                *)
AnyStream(p) == {s \in Slot : streams[s].live}

NoStreamFound(p) == {}

StreamsOf(p) == {s \in Slot : streams[s].live /\ streams[s].owner = p}

(* find_stream, then create_stream up to the allocations.  The slot taken    *)
(* was free when the scan passed it, not always the first that is free now.  *)
FindStream ==
  /\ pc["audio"] = "find"
  /\ IF StreamsOf(pkt.from) # {}
     THEN /\ \E s \in StreamsOf(pkt.from) : GotoAt("audio", "decrypt", s)
          /\ UNCHANGED <<streams, pkt>>
     ELSE IF \A s \in Slot : streams[s].live
     THEN NextPacket /\ UNCHANGED streams
     ELSE \E s \in Slot :
            /\ ~streams[s].live
            /\ streams' = [streams EXCEPT ![s] =
                 [NoStream EXCEPT !.live = TRUE, !.owner = pkt.from]]
            /\ GotoAt("audio", "alloc", s)
            /\ UNCHANGED pkt
  /\ UNCHANGED <<flagVars, netVars, want, frameVars, recvd>>

Allocate ==
  /\ AudioGoto("alloc", "decrypt")
  /\ streams' = [streams EXCEPT ![at["audio"]].objects = "ok"]
  /\ UNCHANGED <<flagVars, netVars, at, localVars>>

Decrypt ==
  /\ pc["audio"] = "decrypt"
  /\ IF CanDecrypt(pkt.channel) THEN Goto("audio", "decode") /\ UNCHANGED <<at, pkt>>
                             ELSE NextPacket
  /\ UNCHANGED <<flagVars, netVars, streams, want, frameVars, recvd>>

(* Decoder and jitter buffer are in use from here to DecodeEnd.              *)
DecodeBegin ==
  /\ pc["audio"] = "decode"
  /\ IF streams[at["audio"]].objects = "null" THEN NextPacket
     ELSE Goto("audio", "decoding") /\ UNCHANGED <<at, pkt>>
  /\ UNCHANGED <<flagVars, netVars, streams, want, frameVars, recvd>>

DecodeEnd ==
  /\ pc["audio"] = "decoding"
  /\ NextPacket
  /\ streams' = [streams EXCEPT ![at["audio"]].age = "fresh"]
  /\ UNCHANGED <<flagVars, netVars, want, frameVars, recvd>>

(* The mix loop: a stream silent for 5 s is destroyed, one silent for 500 ms *)
(* skipped, the others popped (in use until PopEnd); then the mix is written. *)
MixStream ==
  /\ pc["audio"] = "mix"
  /\ at["audio"] \in Slot
  /\ LET s == streams[at["audio"]] IN
       IF ~s.live \/ s.objects = "null" \/ s.age = "quiet"
       THEN GotoAt("audio", "mix", at["audio"] + 1)
       ELSE Goto("audio", IF s.age = "silent" THEN "free" ELSE "popping") /\ UNCHANGED at
  /\ UNCHANGED <<flagVars, netVars, streams, localVars>>

PopEnd ==
  /\ pc["audio"] = "popping"
  /\ GotoAt("audio", "mix", at["audio"] + 1)
  /\ UNCHANGED <<flagVars, netVars, streams, localVars>>

MixDone ==
  /\ pc["audio"] = "mix"
  /\ at["audio"] \notin Slot
  /\ GotoAt("audio", "idle", 1)
  /\ UNCHANGED <<flagVars, netVars, streams, localVars>>

---------------------------------------------------------------------------
(* The network delivers, time passes.                                        *)
Arrive(p) ==
  /\ sock
  /\ Cardinality(inbox) < InboxCap
  /\ inbox' = inbox \cup {p}
  /\ UNCHANGED <<flagVars, sock, streams, pc, at, localVars>>

Age(s) ==
  /\ streams[s].live
  /\ streams[s].age # "silent"
  /\ streams' = [streams EXCEPT ![s].age = IF @ = "fresh" THEN "quiet" ELSE "silent"]
  /\ UNCHANGED <<flagVars, netVars, pc, at, localVars>>

UiCall == Disconnect \/ Press \/ Unpress \/ (\E ok \in BOOLEAN : Connect(ok))
          \/ (\E h \in Channel : Join(h)) \/ (pc["ui"] = "idle" /\ Leave)
UiStep == SetConnected \/ Unconnect \/ CloseSocket \/ (pc["ui"] = "rejoin" /\ Leave)
          \/ Scan \/ Deactivate \/ SetNum \/ Activate \/ ClaimKey \/ WriteKey \/ SetTransmitting
          \/ Free("ui") \/ Release("ui") \/ Clear("ui")

AudioStep == Tick \/ (\E full \in BOOLEAN : Capture(full)) \/ Header \/ Encrypt
             \/ SendFrame \/ Recv \/ RecvDone \/ FindStream \/ Allocate \/ Decrypt
             \/ DecodeBegin \/ DecodeEnd \/ MixStream \/ PopEnd \/ MixDone
             \/ Free("audio") \/ Release("audio") \/ Clear("audio")

Next == UiCall \/ UiStep \/ AudioStep
        \/ (\E p \in Packet : Arrive(p)) \/ (\E s \in Slot : Age(s))

Spec == Init /\ [][Next]_vars

---------------------------------------------------------------------------
(* The microphone is open only inside a channel, with its key complete and    *)
(* with a connection, at every point of every call of the UI thread.         *)
TransmitOnlyInChannel == transmitting => connected /\ active /\ CanDecrypt(num)

(* When push-to-talk is released, by a stop, a leave, a join or a disconnect, *)
(* at most one frame still goes out: the one whose tick had begun.           *)
AtMostOneStrayFrame == stray <= 1

(* A frame goes out under the channel it was captured for, in its header and  *)
(* in its key, unless push-to-talk was released while it was made.           *)
UncutFrameKeepsItsChannel ==
  pc["audio"] = "send" /\ ~cut => hdr = num /\ key = num /\ CanDecrypt(key)

(* No peer ever has two streams, so its frames are not split between two     *)
(* jitter buffers, although slots are released under the audio thread's feet. *)
OneStreamPerPeer ==
  \A s, t \in Slot :
    streams[s].live /\ streams[t].live /\ streams[s].owner = streams[t].owner => s = t

(* A frame goes to the stream of the peer it came from, also when the slot   *)
(* was released between finding it and using it.                             *)
FrameReachesItsStream ==
  pc["audio"] \in {"alloc", "decrypt", "decode", "decoding"} =>
    streams[at["audio"]].owner = pkt.from

(* What a call of the UI thread will have come to when it returns; between    *)
(* calls, what the fields say.                                               *)
CallConnected ==
  CASE pc["ui"] = "connected" -> TRUE
    [] pc["ui"] = "unconnect" -> FALSE
    [] OTHER -> connected

CallChannel ==
  IF pc["ui"] \in {"idle", "connected", "press"}
  THEN IF active THEN num ELSE None
  ELSE want

CallTransmitting ==
  CASE pc["ui"] = "press" -> TRUE
    [] pc["ui"] = "rejoin" -> FALSE
    [] OTHER -> transmitting

Calls == INSTANCE ChannelControl
           WITH connected <- CallConnected, engineCh <- CallChannel,
                transmitting <- CallTransmitting, volume <- 100,
                joined <- {}, talking <- {}, strayed <- {}

(* The calls do what ChannelControl has the front ends rely on, each as one   *)
(* step, although the audio thread runs between any two of their writes: a   *)
(* join that meets an open microphone, or a disconnect inside a channel,     *)
(* leaves none of connection, channel and transmission as it was before.     *)
ImplementsCalls == Calls!CallSpec

InUse == pc["audio"] \in {"decoding", "popping"}

(* A stream is not destroyed while the audio thread uses it.  The header      *)
(* comment says the lock-free rings bridge the two threads; the stream table *)
(* is shared too, and a leave frees what a tick is popping from.             *)
StreamOutlivesUse == InUse => streams[at["audio"]].objects # "freed"
=============================================================================
