# Verification of the audio platform

TLA+ models of the push-to-talk audio platform in this repository: the Rust
server that keeps channels and forwards packets (`server/`), the C engine that
records, encrypts, receives and mixes (`core/`), and the two clients that drive
the engine (`windows-client/`, `android-app/`). Every module is a translation of
the source; a definition's file and lines are in `PROJECT.json` under `map`.

Contents: 1 the system, 2 the modules, 3 the runs, 4 the bounds, 5 fairness,
6 the proofs, 7 what the work showed about the code, 8 what is left out,
9 the plan.

## 1. The system

    Windows GUI / Android activity          one per user
      |  WebSocket (JSON)      | calls
      |                        v
      |               audio engine (C) <--- audio thread: WASAPI loop / Oboe callback
      |                        |  UDP, encrypted packets
      v                        v
    ws_handler.rs  ------  channel.rs  ------  udp_handler.rs      the server

| component | state it keeps | operations | shares it with |
|---|---|---|---|
| Signalling server (`channel.rs`, `ws_handler.rs`, `client.rs`) | `clients`, `channels` (member sets), `udp_id_to_client`, `udp_addr_to_client`: four DashMaps | authenticate, join, leave, start, stop, disconnect clean-up, broadcasts | one tokio task per connection, and the UDP task |
| UDP loop (`udp_handler.rs`) | none of its own | learn an address from a keepalive, forward a packet to the other members | the four maps |
| Messages (`protocol.rs`) | what clients were told | `channel_joined`, `channel_left`, `user_joined`, `user_left`, `user_speaking`, `user_stopped` | the clients' screens |
| Ring buffer (`ring_buffer.c`) | slots, two atomic positions | write, read | device thread and engine tick |
| Jitter buffer (`jitter_buffer.c`) | slots, two positions, level | push, pop, reset | network and audio thread, says its header |
| Sequence tracker (`rtp.c`) | expected and highest number, loss count | update | the tick |
| Audio engine (`audio_engine.c`, `network.c`, `crypto.c`) | flags, channel, key table, socket, stream table | connect, disconnect, join, leave, start, stop; `ae_engine_process` | UI thread and audio thread |
| Device loops (`wasapi_audio.cpp`, `oboe-audio-io.cpp`) | device buffer, capture and playback ring | one round: capture, tick, render | engine |
| Windows GUI client (`main_gui.cpp`, `ws_signaling.cpp`) | connection flags, socket, thread handle, log mutex, buttons | connect, disconnect, log, receive | UI thread, connecting threads, receiving thread |
| Console client (`main.cpp`) | two arrays, joined and transmitting | one command after the other | the engine |
| Android activity (`MainActivity.kt`, `native-bridge.cpp`) | three fields, two buttons | taps, coroutines on the IO dispatcher, the end of the activity | main thread and IO threads |
| Mixer (`mixer.c`) | the volume it applied last, per position | mix | the tick |
| Opus wrapper, RTP header, health endpoint | little or none | | |

What is hard, and therefore what the properties are about (the full list, line
by line, is `hazards` in `PROJECT.json`):

- **Server: atomicity and order.** A request is a chain of map accesses with
  awaits in between. Membership has two copies. A broadcast works from a
  snapshot. A reply may be overtaken by the broadcasts of others. Correct
  means: the two copies agree, no lookup under a guard fails, nobody speaks
  outside a channel, a closed connection leaves nothing in five maps, nobody in
  a channel misses a member, a speech reaches who was there when it began and who
  joined once it was marked, late packets are bounded.
- **Engine: two threads, few atomics.** UI calls write fields that a running
  tick reads. Correct means: the microphone is open only in a channel, at most
  the frame at hand goes out after a release, header and key of a frame agree,
  a peer has one stream, a stream is not freed under the tick.
- **Buffers: lock-free copies and wrapping counters.** Correct means: no torn
  frame, exact level, first in first out.
- **Device loops: pace.** The tick runs once per frame time under Oboe and
  about four times under WASAPI. Correct means: no voice is thrown away or
  delayed, a transmission catches up, a volume does not jump, a stream that
  fell silent ends.
- **Measuring over UDP.** Pings, pongs and audio are lost, late and repeated.
  Correct means: the round-trip time and the loss count are exact where they can
  be, and err to one side elsewhere.
- **One channel, many copies.** The GUI has an array of joined channels, the engine
  one channel, the server a record; the first two change at once, the third when the
  request is read. Correct means: an open microphone is shown, the voice goes
  where Talk was pressed, a mute holds, and once all is read the three agree.
- **Clients: callbacks and background threads.** Correct means: the buttons end
  up saying what is true, threads exclude each other, nothing hangs or crashes,
  releasing the button ends the transmission.

## 2. The modules

| module | models | abstract specification |
|---|---|---|
| `ChannelBoard` | what the server promises: a client is in one channel or none and talks only inside one | |
| `SfuServer` | the tasks, the four maps, the UDP loop | refines `ChannelBoard` |
| `SfuRoster` | extends `SfuServer` with the messages and each client's view | |
| `FrameQueue` | a bounded first-in first-out queue that a consumer may reset | |
| `RingBuffer` | `ring_buffer.c` | refines `FrameQueue` |
| `JitterBuffer` | `jitter_buffer.c` | refines `FrameQueue` |
| `SeqTracker` | `ae_rtp_seq_update` and a network | |
| `LinkStats` | extends `SeqTracker` with ping, pong and reconnects | |
| `Engine` | `audio_engine.c` with its socket and key table | refines `ChannelControl` |
| `StreamMix` | step 4 of the tick with `mixer.c`: who is mixed, at what volume | |
| `AudioPump` | extends `StreamMix` with the pace of the device loops | uses rings as the queues `FrameQueue` promises |
| `WindowsClient` | threads of the GUI client, its connection and its shutdown | |
| `ChannelControl` | the engine's channel calls, one step each, and the arrays of a front end | (what `Engine` implements) |
| `GuiSession` | extends `ChannelControl` with the GUI's buttons and sliders, the WebSocket, the server | |
| `ConsoleSession` | extends `ChannelControl` with the console's commands | |
| `Sessions` | a user at either front end, and the properties | |
| `AndroidPtt` | the activity and its coroutines | engine calls are single steps; `Engine` has their inside |
| `MC*` | constants and symmetry sets for TLC | |
| `SfuProofs` | theorems about `SfuServer` and `SfuRoster` | |
| `RingProofs`, `StreamProofs` | theorems about `RingBuffer`; about `JitterBuffer`, `SeqTracker` and `LinkStats` | |
| `EngineProofs`, `PumpProofs` | theorems about `Engine`; about `AudioPump` with `StreamMix` | |
| `SessionProofs`, `ClientProofs`, `AndroidProofs` | theorems about `Sessions`, `WindowsClient`, `AndroidPtt` | |

**SfuServer.** One `pc[c]` per connection, one action per map access. `Take`
starts a request and takes the snapshot its broadcast works from; `Tell(c, m)` is
one send of that broadcast. A DashMap access is atomic because its guard is held
for its length; between two accesses any other task may run. The clean-up of a
connection is the request `"close"`: for a client in a channel it begins, as a
leave does, with `StopTransmit`, for one in none it is `CloseOutside`; both end
in `RemoveClient`, `UnmapAddr`, `UnmapId`. A refused
request (not a member, already in a channel) changes nothing, so it is a
stuttering step and its condition a conjunct. `late[c]` is a history variable.

**SfuRoster** conjoins each action with what the recipient learns. `told[x][h]`
is whom x was told of in channel h, `shown[x][h]` whom it was told is speaking.
`list[c]` is what `join_channel` collected before its broadcast; `heardBy[y]`, a
history variable, is whom y's speech is promised to. Its next-state
relation replaces that of `SfuServer` and leaves the UDP loop alone, which sends
no signalling.

**RingBuffer.** A call loads the other side's position once (`WriteBegin`,
`ReadBegin`), copies frame by frame, then publishes (`WriteEnd`, `ReadEnd`).
`Content` maps the slots between the positions to the queue of `FrameQueue`.

**JitterBuffer** has the same split with the level as a third atomic. Skipping and
cross-fading are modelled and turn out to be unreachable.

**SeqTracker.** One disjunct per return of `ae_rtp_seq_update`; the subtraction
`max_seq - 1000` is unsigned. **LinkStats** adds a clock in seconds, `SendPing` of
the tick and `Pong` of its receive loop. `echoes` is the set of send times of the
pings and pongs on their way, so `truth` can say how long the pong that set `rtt`
really took; the engine only has `pingSent`.

**Engine.** Thread `"ui"` runs the API calls, split at each write another thread
can see; thread `"audio"` runs the tick, split at each read of shared state and
around each use of a stream's decoder and jitter buffer (`DecodeBegin` to
`DecodeEnd`, `MixStream` to `PopEnd`). `destroy_stream` is three steps on either
thread: free, release the slot, clear the pointers. `keys` and `blank` are the
key table, whose entry is marked active before its bytes are written. `cut` and
`stray` are history variables for the properties.

**StreamMix.** `Mix(from, boundary)` is the mixing of a tick, given the streams that got a
packet: `Stays` and `Popped` are the two time-outs and the jitter buffer, `Mixed` the
inputs of `ae_mixer_mix`, in the order of the slots, `ramp` its `prev_volumes`.
`heard` and `jump` are history variables. A volume is 0 or 1, which is enough to
be at another one.

**AudioPump.** A round is one action: capture, one tick, render. It keeps queue
lengths in frames; a remote speaker delivers at most a frame per frame time.
The thread interleavings inside a round are those of `Engine` and `RingBuffer`.

**WindowsClient.** `Lock`, `Logged` are `appendLog` (mutex, then messages to the UI
thread); `Hangup` and `Join` are `WsSignaling::disconnect`; the rest follows
`doConnect` and `recvLoop` label by label. `Dial` is the TCP connection, after which
the socket is open to the UI thread too, `Handshake` the upgrade the connector waits for.
`ClickJoin` logs what could be sent, so it needs the open socket; leave, talk and mute
(`ClickJoined`) are enabled for a joined channel, which `inChannel` says there is. `CloseWindow`, `ShutDown` and `Exit` are the end of
`wWinMain`: two disconnects, of which the second is the destructor's, then everything
is freed while a detached connector may still run.

**Sessions.** Both front ends show `joined` and `talking`, and call the engine through
`ChannelControl`, whose operators are whole calls: the user's thread makes them one after
the other, and what the tick sees in between is in `Engine`. In `GuiSession` a
request is appended to `requests` and read by `Serve`; what the server does with it is
`SfuServer` for one client. `doConnect` is three steps, so that clicks come in between.
`strayed` collects what a user of one channel does not meet: `"second"`, a join while
another channel is shown as joined; `"early"`, a join while `doConnect` runs; `"slid"`, a slider
moved while something is muted; `"lost"`, a broken connection. Each property names
the ones it needs not to have happened, and TLC finds it false without them.

**AndroidPtt.** `job[j]` is a coroutine; every tap is a step of the main thread.
`rushed` records that a gesture came while something was under way, so that a
property can speak of a user who lets each tap take effect, `several` that a channel was
tapped while another was joined; a disconnect that waits makes up for both. `StartAudio`
may fail, and nobody looks at its result. `Destroy` is `onDestroy`: the coroutines end,
except those inside a native call. With it the model ends.

A definition marked "Mutant of X" is X with a plausible bug. It is in no
specification; for every property there is one that makes its run fail
(`mutants` in `PROJECT.json`).

## 3. The runs

| run | properties | what it shows |
|---|---|---|
| `Signalling` (44 k states) | `TypeOK`, `MembershipAgrees`, `EveryMemberAnnounced`, `SpeechIsShown`, `ImplementsBoard` | two clients, two channels, every order of requests, broadcasts and disconnects: maps, and what each client was told |
| `SfuUdp` (518 k) | `GoneLeavesNothing`, `ReverseLookupSound`, `AtMostOneLatePacket`, `TasksFinish`, `BecomesReachable` | the UDP loop and two addresses that clients may share; under fairness requests end and clients get an address |
| `Ring` (153 k) | `NoTornFrame`, `ImplementsQueue` | producer against consumer |
| `Jitter` (60 k) | `LevelExact`, `NeverTooFull`, `ImplementsQueue` | push against pop, counters wrapping |
| `Seq` (5.6 M) | `LossNotOverstated`, `LossExact`, `RttSound` | loss, delay, reordering, repetition, reconnects |
| `Engine` (8.4 M) | `TransmitOnlyInChannel`, `AtMostOneStrayFrame`, `UncutFrameKeepsItsChannel`, `OneStreamPerPeer`, `FrameReachesItsStream`, `ImplementsCalls` | UI thread against tick |
| `EngineInUse` | `StreamOutlivesUse`, **violated** | a leave frees what the tick is using |
| `Pump` (150 k) | `VoiceIsPlayed`, `SteadyVolume`, `TransmissionCatchesUp`, `SilentStreamsEnd` | one tick and four ticks per frame time, two remote streams, a volume that changes |
| `Client` (806 k) | `ButtonsSettle`, `OneConnectorUntilLost`, `HarmNeedsLossOrHaste` | the threads of the GUI client with failures and a closing window anywhere |
| `ClientHang` | `UiNeverHangs`, **violated** | a connector that logs and the UI thread that was asked to join wait for each other |
| `Android` (177 k) | `TalkEndsUnlessRushed`, `ScreenAgreesUnlessRushed`, `ConnectButtonReturns` | taps against two coroutines, with connects and device starts that fail |
| `Session` (351 k) | `OnAirIsShown`, `TalkGoesWherePressed`, `SilenceIsShown`, `MuteHolds`, `ServerAgrees` | either Windows front end with two channels: screen, engine and server |

`SfuServer!MembersHaveRecords` (the lookups under a channel guard find a record) and
`SpeakersAreMembers` are proved for all instances and in no run; a change that breaks them
breaks `ImplementsBoard`, `MembershipAgrees` or `GoneLeavesNothing` first.

Deadlock is checked except where the system may stop: a server whose
connections are all closed, a network whose bounded packets are all delivered, a
client that has crashed or hangs, an activity that was destroyed.

## 4. The bounds, and why they are enough

- `Signalling`: 2 clients, 2 channels. `SfuUdp`: 2 clients, 2 addresses, 1 channel, and no
  symmetry, which is unsound for liveness. The properties relate one client to one
  other (who is told of whom, who has whose address), two channels are what a
  client can confuse, and an address or a late packet is about one. A third client
  adds recipients to a broadcast, which are independent of each other. All but the
  two liveness properties are proved for any number of each (section 6).
- `Ring`: 4 slots, so 3 frames fit and a batch of 3 fills the ring and wraps
  it. Two frames, so that order shows. The theorem holds for any capacity.
- `Jitter`: 5 slots, depth 3, counters modulo 8. The code has 50 slots, a depth
  of at most 50 and counters modulo 2^32. 8 is no multiple of 5 and leaves 3, as
  2^32 is no multiple of 50 and leaves 46: at the wrap the slots of two
  positions less than the remainder apart stay distinct. The instance has the depth
  equal to the remainder, the tightest case that holds. A depth of 47 to 50
  would overwrite an unread frame at the wrap; the engine asks for 10. The proofs
  hold for every size and depth with `WrapAssumption`, which says just that.
- `Seq`: 4 packets sent, a window of 3, numbers that start at 0 (inside the window,
  where the subtraction wraps) and at 20 (outside). The clock runs to 6 with pings every 2, so
  that a pong can be late by more than one interval.
- `Engine`: 2 channels, 2 peers, 2 slots, one datagram in the socket buffer and
  one per tick. Two peers and two slots let a slot be released and taken by the
  other peer, and let the table be full. The properties look at one packet at a
  time, so a longer batch repeats what one packet does. Age is three values:
  `fresh`, `quiet` (500 ms, not mixed), `silent` (5 s, destroyed). Slots are
  plain numbers: their order matters to the scan, so they are not symmetric.
- `Pump`: `OboeAndWasapi` are the two pairs of ticks per frame time and frames of
  device buffer. The capture ring is 4 frames, the playback ring 6, the jitter
  buffer 2: large enough that full, empty and in between differ. Two streams, so
  that one can end before or after the other in the mix. The time-outs keep their
  order: concealment, out of the mix, destroyed.
- `Client`: 2 connectors, since the question is whether two can meet. `Android`: 2
  coroutines at a time, 2 channels.
- `Session`: 2 channels, slider positions 0 and 100, at most 3 requests unread. Two
  channels are what screen, engine and server can confuse; three requests hold a leave, a join
  and a start of a quick user. All its properties are proved for any.
- `MaxSent`, `MaxTime`, `MaxQueue`, `InboxCap`, `MaxBatch`, `Job` and `Connector` are bounds of the
  models, the other constants are parameters of the code.

## 5. Fairness

Only two runs use it.

- `SfuServer!Fairness`. Weak fairness of each task's own steps: tokio polls ready
  tasks, and no step waits for a client (sends are assumed to return). Strong
  fairness of receiving a client's keepalive: the engine repeats it every few
  seconds while it is connected, and it competes with other packets for a loop
  that keeps returning to `recv_from`. No request is fair: no client has to ask
  anything.
- `AudioPump!FairSpec`. Weak fairness of the device round: the platform keeps
  calling, with or without a connection. Nothing the user does is fair, and no
  speaker has to speak.

The other specifications are `Init /\ [][Next]_vars`, and their properties are
safety properties and refinements.

## 6. The proofs

`tlapm` proves these for every value of the constants, from the named
assumptions of the modules and nothing else. Every safety property of a passing run is
among them, and so are the four refinements.

Each proof has the same three steps: an invariant that is stronger than the
properties, since none of those is inductive; a lemma that the initial states have it and one
that every action keeps it; a temporal step that carries it to all states. What follows
is the argument of each, which is what its invariant adds.

### The server: `SfuProofs`

Assumption: `None` is no client, channel or address.

| theorem | property |
|---|---|
| `TypeCorrect` | `TypeOK` |
| `MembershipCorrect` | `MembershipAgrees` |
| `RecordsCorrect` | (`MembersHaveRecords`) |
| `SpeakersCorrect` | (`SpeakersAreMembers`) |
| `Refinement` | `ImplementsBoard` |
| `ReverseLookup` | `ReverseLookupSound` |
| `GoneIsGone` | `GoneLeavesNothing` |
| `LateBounded` | `AtMostOneLatePacket` |
| `MembersAnnounced` | `EveryMemberAnnounced` |
| `SpeechShown` | `SpeechIsShown` |
| `RosterRefinement` | `RosterSpec => ImplementsBoard` |
| `RequestsDescend` | (`BusyTasksDescend`, the variant of `TasksFinish`) |
| `LeaversFound` | (`LeaversAreMembers`) |
| `ReachableStays` | (`StaysReachable`, the stable half of `BecomesReachable`) |

**Membership.** Whether a leave may take a client out of the
member set depends on where the tasks of *that client* are. What protects the
server is that one task does all writes about a client, so the invariant says for
each place of a task what its record holds there:

    IInv == TypeOK /\ MembershipAgrees
            /\ RecordInv    \* a record exists just between insertion and removal
            /\ ChannelInv   \* a record names a channel only while the task is idle
                            \* or serves a request about that channel
            /\ FlagInv      \* the speaking flag is down where membership is given up

For the refinement, `RoomIsChannel` shows that under the invariant the abstract room of
a client is determined by its record; `MapsInit`, `MapsStutter` and `MapsStep`
map initial states, stuttering and every action.

**Addresses.** `UdpInv` adds to the reverse lookup that only a client with a record, or one at
the very step that unmaps it, has an address (`AddrInv`): a keepalive that races the clean-up
cannot leave one behind, because registration needs the record and the record goes first.
`RegisterKeeps` is the step that takes an address over. `LateInv` says of the targets the loop
still has that each is a member or has had nothing late yet.

**Messages.** Every step of `SfuRoster` is one of `SfuServer` with a conjunct added, so the
invariant above holds there too. That the messages hold no step of the server up is not
claimed, and the UDP loop does not run there. `RosterInv` has
`ToldInv`: of two members x and y, x knows y, or y is still telling x, or x waits for the
reply whose list has y. The step that matters is a join between another's broadcast
and its reply: the list is collected under the guard that also inserts the member, so
whoever is not in it begins to tell later. `HeardInv` and `ShownInv` follow a speech from the
snapshot of its recipients, recipient by recipient, to the idle task.

**Ends.** `TasksFinish` is liveness and stays with TLC, but what it rests on is proved for any
number of clients. `Stage` orders the places of a task by what is left of its request. A step of the task
goes down a stage or, within a broadcast, tells one member fewer (`WorkDescends`); no step
of another task or of the UDP loop moves it (`OthersUntouched`). The members to tell are counted, so
`FiniteInv` is needed: every set the server holds is finite, even if `Client` is not, since each
join adds one member. The one step that could find nothing to do, `LeaveRemove`, finds its
member by `MembershipAgrees`. What remains for fairness is that a task that can step does.

### Buffers and measures: `RingProofs`, `StreamProofs`

| theorem | property |
|---|---|
| `RingProofs!TypeCorrect` | (`TypeOK`) |
| `RingProofs!NoTorn` | `NoTornFrame` |
| `RingProofs!Refinement` | `ImplementsQueue` of `RingBuffer` |
| `StreamProofs!LevelAgrees` | `LevelExact` |
| `StreamProofs!NoCatchUp` | `NeverTooFull` |
| `StreamProofs!Refinement` | `ImplementsQueue` of `JitterBuffer` |
| `StreamProofs!LossAtMostMissing` | `LossNotOverstated` |
| `StreamProofs!LossIsMissing` | `LossExact` |
| `StreamProofs!RttHonest` | `RttSound` |

**Ring.** Assumptions: at least two slots, a positive batch, a silence that is
no frame; the capacity need not be a power of two, since masking is modelled by what it
does to a position: it subtracts the capacity at most once.
`IInv == TypeOK /\ ClaimsFit`, where `ClaimsFit` says that a claim made from a stale
position still fits. `WriterAdvances` and `ReaderAdvances` are the arithmetic: the
other side's moves only add room to write or frames to read. `ClaimsDisjoint` then
gives that the slots being written and read never meet. The refinement needs `Copied` as
well: what a call has copied so far is in the slots, or in the result, in its order.
`WriteEndPuts` and `ReadEndTakes` are the two steps that move the abstract queue, by a
whole batch; all others stutter.

**Jitter buffer.** Assumptions: a depth between 1 and the slots, positions that wrap somewhere
above the slots, and `WrapAssumption`: the wrap is a multiple of the slots, or leaves
at least the depth. The engine's buffer satisfies it, with a depth of 10
(`audio_engine.c:191`), 50 slots and 2^32 % 50 = 46. It is needed: without it the
queue loses a frame when the positions wrap, and `ae_jitter_create` admits such depths (47 to 50).
`LevelInv` says that a push that has begun has room and a pop that has begun
has a frame, however the level moves meanwhile, as the other thread moves it the helpful
way. From it come `LevelExact` and `NeverTooFull`. For the refinement, `Copied` says what the
two calls hold, and the lemmas on remainders (`DivMod` to `SlotsApart`: two positions closer than
the depth never share a slot) carry the queue across the wrap.

**Loss.** Assumptions: a window above 0, and numbers that stay below the wrap, as in the
runs. Each way out of `ae_rtp_seq_update` changes the count by at most as much as the
cardinality of `Missing`, and by just as much while no number is repeated or refused; the
lemmas on `MissingOf` are those of cardinalities, so no induction is needed.

**Round trip.** Assumption: an interval above 0. `PingInv`: a ping on its way is the last one
or at least an interval older, and the time the engine measures from is that of the last.

### The engine and its pace: `EngineProofs`, `PumpProofs`

| theorem | property |
|---|---|
| `EngineProofs!TransmitInside` | `TransmitOnlyInChannel` |
| `EngineProofs!StrayBounded` | `AtMostOneStrayFrame` |
| `EngineProofs!UncutFrame` | `UncutFrameKeepsItsChannel` |
| `EngineProofs!OneStream` | `OneStreamPerPeer` |
| `EngineProofs!FrameArrives` | `FrameReachesItsStream` |
| `EngineProofs!Refinement` | `ImplementsCalls` |
| `PumpProofs!VoicePlayed` | `VoiceIsPlayed` |
| `PumpProofs!VolumeSteady` | `SteadyVolume` |
| `PumpProofs!BacklogShrinks` | (`BacklogFalls`, the variant of `TransmissionCatchesUp`) |
| `PumpProofs!SilenceEnds` | (`SilenceBounded`) |
| `PumpProofs!SilenceRuns` | (`SilenceCounts`, the variant of `SilentStreamsEnd`) |

**Engine.** Assumptions: `None` is no channel and no peer, the sizes are natural numbers.
The invariant is three, one per owner of the state:

    UiInv     \* an open microphone has the UI thread at rest in a channel; a join
              \* keeps its channel and connection until it has the key
    FrameInv  \* what the tick has read for its frame, as long as nothing cut it;
              \* a stray frame is the one the tick is at
    StreamInv \* slots the tick works on; no two live slots of one owner

`OthersLeaveUiAlone` shows that no step of the audio thread or the network writes what `UiInv`
is about, which is why flags without a lock are enough there. `NextUi`, `NextFrame` and
`NextStream` then take the actions one by one. `StreamInv` is all there is to hold of the
unlocked stream table: it does not say that a live stream has its objects.
The refinement takes connection, channel and transmission as the call under way will leave
them (`CallConnected`, `CallChannel`, `CallTransmitting`): each changes in the first step of
a call and no step that carries it out (`CallsStep`) touches it again. So the front ends may
take a call for one step, as `Sessions` does.

**Pace.** Assumptions: rings, device and frame time are not empty, at least one slot.
`PaceInv`: with one tick per frame time the playback ring is empty between rounds and the
device is empty or full, so what a tick writes fits and goes on at once (`RenderAll`). That is
why `VoiceIsPlayed` can promise both that voice fits and that nothing waits in front of it.
`RampInv`: after a mix all its streams, and all positions up to its size, stand at one
volume (`EndedAt`). A mix that is not larger uses only those positions (`PositionInMix`), so
nobody jumps (`NobodyJumps`), whichever streams replaced which.
The variants of the two liveness properties need only counters in their ranges (`CountInv`, `AgeInv`).
`BacklogFalls` says tick by tick why a delay goes: with more than one tick to a frame time each
takes a frame and only the one at the boundary lets one in; with one tick, the delay stays.
`SilenceCounts` says that the time of a silent stream runs in and out of a channel, and `SilenceBounded`
that it ends.

### The clients: `SessionProofs`, `ClientProofs`, `AndroidProofs`

| theorem | property |
|---|---|
| `SessionProofs!OnAirShown` | `OnAirIsShown` |
| `SessionProofs!TalkFollowsPress` | `TalkGoesWherePressed` |
| `SessionProofs!MuteHeld` | `MuteHolds` |
| `SessionProofs!SilenceShown` | `SilenceIsShown` |
| `SessionProofs!ServerInStep` | `ServerAgrees` |
| `ClientProofs!ButtonsAgree` | `ButtonsSettle` |
| `ClientProofs!OneAtATime` | `OneConnectorUntilLost` |
| `ClientProofs!HarmNeedsCause` | `HarmNeedsLossOrHaste` |
| `AndroidProofs!TalkEnds` | `TalkEndsUnlessRushed` |
| `AndroidProofs!ScreenAgrees` | `ScreenAgreesUnlessRushed` |
| `AndroidProofs!ButtonReturns` | `ConnectButtonReturns` |

**Sessions.** Assumption: `None` is no channel.
`SessionInv` adds to the properties that the engine transmits only inside a channel
(`OnAirInside`), that who never joined a second channel has at most one on the screen and it is
the engine's (`OneChannel`), and that the console shows nothing as muted. They rest on `ChannelControl`
having whole calls, which `EngineProofs!Refinement` justifies.

`ServerAgrees` is about requests the server has not read. `AgreeInv` says of them that
there is a trajectory `f` of the server's record, one entry per unread request, that begins
where the record is and ends where the engine is (`Leads`). Since it only has to exist, no recursion over
the requests is needed: reading one drops the first entry (`ServeLeads`), sending one
appends the engine's new record (`SendLeads`), and with none left both ends are one (`NothingUnread`).
That the appended entry is what `Served` makes of the last one is where each button has to
be right.

**Windows GUI.** Assumption: connectors, the UI thread, the receiving thread and `None` are different.
Where a thread goes after its log line or join is in `next`, so the invariants speak of where it
`Heads`. `ButtonInv`: buttons that do not show `g_connected` are about to be corrected. `TurnInv`: until
a "disconnected" event, both buttons are disabled from a click to the message about it,
so one connector runs. `ReceiverInv`: until then, and with no
connect under way at the close, the receiving thread belongs to a connection or to
the connector that makes one, and each way out joins it.

**Android.** Assumption: `None` is no channel. For a user who lets each tap take
effect there is one coroutine (`OneJobInv`); `ScreenInv` and `TalkInv` say for each place it
can be at what fields, buttons and engine are. `ChannelInv` adds, for one who also leaves a channel
before tapping another, that nothing but the engine's channel is joined, except where the
coroutine is about to correct it. `ButtonInv` and `EndInv` need neither: the connect button is
disabled only while something is under way that enables it, and the end shuts the microphone.

### What is only model-checked

- The liveness properties `TasksFinish`, `BecomesReachable`, `TransmissionCatchesUp` and
  `SilentStreamsEnd`: fairness and ENABLED are out of the prover's reach. The safety half of each is
  proved (`RequestsDescend`, `ReachableStays`, `BacklogShrinks`, `SilenceRuns`); the step from there to
  "eventually" is TLC's.
- The two runs that must be violated, whose counterexamples are TLC's.
- That the numbers of a stream may pass 2^32 in the tracker: neither run nor proof has it.

## 7. What the work showed about the code

Two disagreements are held as runs that must be violated:

- **A leave frees a stream in use** (`EngineInUse`, `audio_engine.c:467`). The
  header of the file says lock-free rings bridge the two threads; the stream table
  bridges them too, without any synchronisation.
- **The Windows client hangs** (`ClientHang`, `main_gui.cpp:122`). `appendLog` holds
  its mutex while it sends to the log box, which needs the UI thread; the UI thread
  may be waiting for the mutex, or in `disconnect` for the receiving thread that is
  about to log "Connection lost". The trace takes the first way: the connector has opened
  the socket, so a click on Join is sent, and both log. The second is what a click on
  Disconnect does unless the receiving thread sees the flag before its read fails.

Others were met while modelling. The models do what the code does, and a
property says what does hold:

- Server. The reverse lookup is sound and not complete: two clients that used
  one address and one that disconnects leave the other without an entry
  (`channel.rs:287`). `channel_joined` may list a member that has left during the
  join and whose `user_left` came first (`channel.rs:142`): nobody is missed,
  somebody may be listed who is gone. A client that joins between the snapshot of
  `start_transmit` and its mark may not learn of that speech (`channel.rs:212`). A packet in flight when a client leaves is
  still sent to it, one at most.
- Tracker. For the first thousand numbers `max_seq - 1000` wraps and a late packet
  is refused, so its loss stays counted (`rtp.c:107`). A repeated packet is
  returned as reordered and lowers the count, where `rtp.h:68` promises -1
  (`rtp.c:110`). The engine, besides, feeds it `max_seq + 1` (`audio_engine.c:713`) and reports
  no loss: `LossExact` is about the tracker.
- Round trip. A pong names no ping to the engine. One that takes longer than the ping
  interval is measured from the next ping and shown as a short one (`audio_engine.c:664`).
- Engine. `ae_engine_process` allocates on the first packet of a peer
  (`audio_engine.c:187`), where line 573 says it does not. A slot whose creation meets
  a leave keeps null pointers and is never mixed nor ended until the channel is left
  (`audio_engine.c:208`); a stream created behind the scan of a leave survives it
  (line 465) and ends by silence. A frame that a join cut off may be encrypted
  under the new channel's key while its bytes are still unwritten: only frames not
  cut are promised their key.
- Jitter buffer. Its header has two threads. In the engine the tick does both the
  push and the pop, so `Jitter` shows more than the engine needs. Its
  catch-up branch is dead code.
- Pace. `audioLoop` ticks every 5 ms and each tick of a joined client writes a frame of
  20 ms: silence fills the playback ring and voice finds it full
  (`wasapi_audio.cpp:245`). With one tick per frame time that does not happen, but a
  transmission then never catches up with the capture ring, which is full when the
  button is pressed. On both platforms what was captured before the press is sent.
- Windows client. A successful connect after a lost connection assigns to a
  joinable thread and ends the program (`ws_signaling.cpp:392`). `doConnect` may show
  CONNECTED for a connection that is already lost (`main_gui.cpp:361`). The hang-up of a
  connect that gives up raises "disconnected" like a loss does, which enables the button while the
  connector still runs. Closing the window while a connect is under way frees the
  WsSignaling and the engine under the detached connector (`main_gui.cpp:600`).
- Channel buttons. A join of a second channel is refused by the server and done by
  the engine (`main_gui.cpp:435`). A join while `doConnect` runs is taken by the server and
  refused by the engine, or the other way round after a reconnect; the result of either is not
  looked at. A lost connection leaves the engine transmitting and the buttons as they were,
  which still say that it transmits. Mute and sliders of all channels set one volume.
  `MuteHolds` and `SilenceIsShown` are about the status label; the mute button keeps its
  "Unmute" after a leave or a disconnect, which clear the mute (`main_gui.cpp:479`), and no
  property is about that.
- Console client. Its mute, "Toggle channel mute" in its help (`main.cpp:101`), never
  restores the volume (`main.cpp:309`).
- Mixer. The volume to ramp from belongs to a position. When the mix grows, a stream
  that moves up starts from a volume another stream left there (`mixer.c:89`).
- Android. After a quick tap the release finds no channel to stop and transmission
  goes on (`MainActivity.kt:203`). A disconnect during a channel toggle leaves the
  channel shown as joined. Two channels can be shown as joined, and the engine has one;
  after one of them is left it has none, and push-to-talk stays enabled. The result of
  `nativeStartAudio` is ignored (`MainActivity.kt:159`): the activity may be connected
  without sound. `onDestroy` cancels the coroutines, which does not end a native call, and
  frees the engine at once (`MainActivity.kt:304`): a coroutine inside goes on with a freed
  one. The model has that step and ends there.

## 8. What is not modelled, and why

- Sample values, Opus, ciphers, RTP bytes, JSON: pure functions or library code.
  A payload is a frame, a packet a record of sender and channel.
- The master volume and the limiter, the last factors of every frame; packet counters;
  device opening and restarting; creating and destroying an engine; the health endpoint,
  which reads counters. They decide nothing the properties see.
- Type invariants other than the server's are in no run: in these modules a wrong type shows
  as a violation of another property or as an error of TLC. `Types` in the proof
  modules is the part the theorems need.
- Back-pressure: `broadcast_to_members` holds a DashMap guard across the await of a
  send, and `remove_client` waits for one. The server models assume a send returns. What a
  client that stops reading does to other tasks depends on the number of worker threads
  and on which keys share a shard, which the source does not fix.
- Weak memory: atomics are sequentially consistent here. The code's orders (acquire
  loads and release stores of positions) are what the interleavings assume for the
  rings. Plain fields of the engine are data races in C; the model takes each
  access as atomic, and after a use of freed memory it goes on as if the memory
  were intact.
- `Engine` has one UI thread, as `audio_engine.c:11` says. The Android coroutines call
  the engine from several at once: in `AndroidPtt` an engine call is one step.
- The quit of the console client, which calls the engine from one thread after the other.

## 9. The plan

Done, in this order: `SfuServer` with `ChannelBoard`, `RingBuffer`
with `FrameQueue`, `JitterBuffer`, `SeqTracker`, `Engine`, `AudioPump`,
`SfuRoster`, `WindowsClient`, `AndroidPtt`; then `Sessions` with its parts,
`StreamMix`, `LinkStats`, `onDestroy` and the window's shutdown; and the proofs of section 6:
first those about `SfuServer`, `RingBuffer`, `Engine` and the channel buttons, then all other
safety properties, then the variants of the liveness properties.

Next, proving:

1. That `AudioPump`'s rings may be queues because `RingBuffer` is one: a shared abstract
   specification with `FrameQueue`'s steps inside a round.
2. That `GuiSession`'s server is `SfuServer` for one client: `Serve` as the requests of
   one task, where a leave of a speaking client is two steps of `ChannelBoard`.
3. Invariants for the hazards of `PROJECT.json` that no property covers yet, once a run has them.

Next, modelling: the Android activity with several coroutines inside the engine at once,
which needs the calls of `ChannelControl` split as in `Engine`.
