# A verification of moonlight-common-rust

TLA+ models of the moonlight-common-rust streaming client, the TLC runs that
check them and the proofs TLAPS checks about them. Paths below are relative to
the repository.

## Inventory

The crate is a Moonlight client: it pairs with a game-streaming host over HTTP,
launches an app, negotiates a stream over RTSP and then runs three or four UDP
streams. The protocol code is sans-IO (`src/stream/proto`): each stream is a
struct with `handle_receive`, `handle_timeout`, `poll_transmit`, `poll_timeout`
and `poll_event` (the `UdpStream` trait, `runtime.rs`). A backend owns sockets
and clocks and drives it: threads (`stream/std`), a future (`stream/tokio`), or
foreign code (`bindings`).

| part | state | operations | what makes it correct | module |
|---|---|---|---|---|
| Video depayloader (`video/depayloader.rs`) | packets by sequence number, frames under construction | `handle_packet`, `take_frame`, `discard_frame` | a complete frame is the frame sent; enough packets of every block complete it | `VideoFec`, `VideoDepayloader` |
| Video stream (`video/mod.rs`) | the frame awaited, when an IDR frame was asked for, when frames were first seen | `handle_receive`, `handle_timeout` | the decoder gets only frames it can decode, in order; a stuck stream asks for an IDR frame | `VideoStream`, `DecodableStream` |
| Video payloader (`video/payloader.rs`) | sequence number, frame index, packet queue, FEC configuration | `push_frame`, `poll_packet`, `set_fec_config` | the depayloader gets the frame back; the receiver computes the same amount of parity | `VideoPayloader` |
| Audio depayloader and stream (`audio/`) | data and FEC queues, the sequence number awaited, when the last frame came | `handle_receive`, `handle_timeout` | frames once, in order, as sent; a lost frame is recovered or skipped | `AudioQueue`, `AudioStream` |
| Control stream, ENet peer, input batcher (`control/`, `enet.rs`) | peer and its configuration, buffered packets, events, batched motion, key and gamepad states, last ping and flush | `batch_input`, `send_raw`, `disconnect`, `handle_*`, `poll_*` | the server has what the batcher remembers; pings in time; the end is reported | `ControlStream` |
| Blocking driver (`std/driver.rs`) | mutex around the stream, one condition variable, stop flag | `run` (send, receive and timeout threads), `blocking_next_event`, `stream_mut`, `stop` | no lost wakeup; `run` returns after its threads; `stop` ends them | `SyncUdpDriver` |
| Blocking stream (`std/mod.rs`) | a driver per stream, the threads that run and consume them, the stop flag | `connect`, `stop`, the event loops | an error or a stop of any stream ends all threads that their drivers let go; the host's reason is reported | `StreamThreads` |
| Setup and RTSP (`proto/mod.rs`, `rtsp/`, the `connect()` loops of both backends) | state of the handshake, sequence number, what is expected | `poll_output`, `handle_input` | streams start in order and in one session, each when the host has granted it | `RtspClient`, `StreamSetup`, `Handshake` |
| Pairing (`http/pair/`, `pair()` in `high/`) | state of `ClientPairing`, keys, challenges and hashes, the client and the error of the call | `pair`, `poll_output`, `handle_response` | Ok only if the PIN entered is the one shown; a failed pairing leaves no trust behind; the call returns | `Pairing`, `PinPairing` |
| Host (`high/tokio.rs`, `high/std.rs`) | client behind a mutex, cache behind a read-write lock | `update`, `set_identity`, `pair`, `unpair`, `start_stream`, `cancel` | no deadlock; client and cache agree; decisions rest on recent answers | `MoonlightHost` |
| Tokio driver (`tokio/driver.rs`, `drive()` of `tokio/mod.rs`) | a transmit held back, the timer, the wakers it has registered | `DriveFuture::poll`, the drop of the future | it never sleeps on work; no transmit is lost or overtaken | `TokioDriver` |
| Control packets (`control/packet.rs`, `encryption.rs`, `peer.rs`, `bindings/src/control_packet.rs`) | sequence number of the encryption; the configuration of the peer | `serialize`, `deserialize`, `channel`, `encrypt_*`, `decrypt_*`, the conversions | what one side writes the other reads, in every version; a controller's packets stay in order; what lasts arrives | `ControlPacket`, `ControlPacketBindings`, `ControlWire` |

How they interact: the setup creates the control stream with two packets
buffered (`RequestIdr`, `StartB`), then the media streams. A driver shares its
stream with the application under a mutex. The consumer of video events asks
for IDR frames through the control stream. The consumer of control events ends
the stream when the host does. An error of one driver stops all others. The host
object is shared by tasks behind two locks.

What is hard: packets lost, repeated and reordered, with FEC recovery between
them; sequence numbers that wrap; resynchronisation after a loss; four groups
of threads with one condition variable each; a future that is dropped whenever
another stream is ready; stop and error racing everything; a connection that is
not there yet when the first input comes; a handshake of eight connections,
each of which may end anywhere; a pairing of five phases, the answer to any of
which may be lost after the host has acted on it; fifty packet layouts written
and read by separate code; calls that give up a lock to update and look again.

## Modules

**VideoFec** cuts a frame into FEC blocks and puts it together again:
`handle_packet`, `try_construct`, `take_frame` and `discard_frame` as functions
from one depayloader value to the next. **VideoDepayloader** runs it against
any sequence of packets, takes and discards. **VideoStream** builds the stream
on top, with a host that answers IDR requests and a lossy network;
**DecodableStream** is what it promises: each frame handed over is an IDR frame
or the successor of the one before. Instants are kept as ages, as large as the
timeout they are compared with, so that the models need no bound on time.

**VideoPayloader** is the sending half, byte by byte. Its packets go through
a reference depayloader: concatenate, take off the frame header of the server's
version, cut the last payload to its length unless the format is H264 or H265. So
sizes at block and payload boundaries are checked from end to end.

**AudioQueue** is the audio depayloader with the packets of an audio
payloader; **AudioStream** adds time, skipping and the network. Searches of the queue
are sets of places in it, and the frames that one call lets out a function of their number.

**ControlStream** has one action per input, call and handler. `Update` is all
of `do_update`: the events of the ENet host, then the batch, then the ping.
ENet is a library; of it only the peer's state is kept and which events that
state allows. `server` is what the server has made of the packets handed to a
connected peer, which come to it reliably, but for the state of a controller: that may be
lost on its way to a server like Sunshine, and `server.lost` says of which controllers it was.

**ControlPacket** has one record of fields for each kind of packet and, as the
code has, two tables: the fields `serialize` writes, with their widths and byte
orders, and those `deserialize` reads. A packet on the wire is the sequence of
fields with their values; reading at other offsets or in another order gives
something else. The type numbers depend on the version of the protocol, the
channel and the kind of delivery on the packet. **ControlPacketBindings** has
the records of the other languages and both conversions, again a table each.
**ControlWire** sends packets from one side to the other: conversion,
`serialize`, encryption with its IV, an ENet channel, and all the way back.
**WireFormats** puts it beside the payloader for one run.

**SyncUdpDriver** cuts each thread between the points where another thread can
make a difference: taking the lock, reading the stop flag, going to sleep,
storing the flag, notifying. The stream is any stream with transmits, events
and a timeout. **TokioDriver** does the same for the future of the other
backend, which has no threads: between two steps of `poll` datagrams come, time
passes and the send buffer of the socket drains, and each wakes the task only if a waker was
registered. The futures of the other streams are there as the drop that
`select!` may do. **UdpDrivers** has both, a behaviour being of one of them.
**StreamThreads** composes drivers with the consumers, `connect`, `stop` and the
control stream's events. Of a driver it has what `SyncUdpDriver` leaves of it: once
stopped, it may let its threads go, or keep one that missed the notification.

**RtspClient** is the RTSP client as functions on its state, one connection per
request. **StreamSetup** is `MoonlightStreamSetup` over it: an action is one turn
of `poll_output`'s loop with what `connect()` does with the output, for either
backend. The server has any of the versions in `Majors`; with one
that has no control stream the setup panics when that is granted. The host is free: it
grants or refuses, answers in any session with the right number or another, in
pieces, and closes or resets a connection whenever it likes. **Handshake** is what the setup promises. **StdConnection** is
`connect()` of the blocking backend as a whole: the setup, `Spawn`, and the
threads it waits for.

**Pairing** has calls of `pair()` with `ClientPairing` inside: one action per
output of `poll_output` and what `pair_impl` does with it, one for the answer
handed to `handle_response`, and those for a timeout, a drop of the future and
the unpairing a failure ends with. Hashes and cipher texts are terms, so that
two are equal exactly if everything that went into them is. The host, external,
has one session and refuses what does not fit it; requests given up may still
reach it. **PinPairing** is what all that comes to.

**MoonlightHost** has tasks that work off the steps of their calls on one host.
A step begins where the code waits, for a lock or an answer; there the future may be
dropped, and its guards go with it. What a call keeps in local variables is
in `local`; the answers of the server are reduced to whether they came.

The `...Proofs` modules hold the theorems. `MC...` modules and the `.cfg` files
give the constants small values. Definitions called "Variant" are the mistakes
a run is known to catch: replacing the definition after them by the variant
makes the named property fail.

## Runs

| run | shows | bounds |
|---|---|---|
| `depayloader` | complete frames are exact and come when enough packets have come; parity counted is at hand | 2 frames of 2 blocks (2 and 1 data packets, 1 parity each): first, last, full and short blocks, and recovery in each |
| `video_stream` | the decodable stream is implemented; frames are played in order; a stuck stream asks, a complete frame is played | 3 frames, so that a frame can be lost between two others; timeouts 1, 2, 3 ticks in the code's order; a discard limit of 3 known frames (200 in the code) |
| `wire_formats` | frames come back as sent, H264 and H265 with their padding, for versions with the payloader's frame header; both sides compute the same parity; every control packet arrives as sent, controllers' packets in order, and what lasts arrives | payloader: 11 sizes around every boundary, 3 FEC configurations, 2 frames, sequence numbers modulo 16; control: every kind of packet, all flags or the even bits, 7 links (every version of the protocol and method of encryption), 2 controllers, texts and effects of three and two lengths, 2 packets under way |
| `control_stream` | first packets, keys in step, gamepads too but for lost states, motion conserved and sent, pings in time, the end reported | one key, one gamepad, motion saturating at 1, ping interval 3 and ENet interval 2 batch intervals (the host's deadline comes first, as in the code), at most 2 queued events beyond those of one update |
| `udp_driver` | threads: no lost wakeup, `run` joins, transmits are served, threads with a timeout end after `stop`; future: never asleep on work, transmits kept in order | threads: one queued transmit and event, both answers of `poll_timeout`; future: 3 transmits, one datagram waiting |
| `udp_driver_stop` | `stop` between check and wait: a consumer sleeps for ever | the threads' |
| `connection` | the handshake is implemented and no panic is reached but for the control stream of a version without one; streams of one session; `connect()` ends; its `unreachable!()` is; stop and errors end every thread that its driver lets go | server versions 4 (without a control stream) and 7, 2 sessions, a right and a wrong sequence number, both backends, with and without microphone; a decoded stream (video), one without events (microphone) and the control stream, one reason |
| `stream_threads_reason` | the host's reason is lost | the same streams |
| `audio_stream` | frames once, in order, as sent; recovery whenever enough shards came; a lost frame holds nothing up | 8 frames: two FEC blocks of the real size (4 + 2), one frame that does not decrypt, one tick of waiting |
| `audio_wrap` | after the wrap frames are dropped as old | the block before the wrap |
| `host` | `unreachable!()`s are; client and cache agree on the identity; `start_stream` and `cancel` read a recent answer; only the crossed locks of `set_identity` and `update` hold up a call | 2 tasks (each hazard is of two calls), 2 identities |
| `pairing` | Ok only with the right PIN; a failed pairing leaves no trust; errors are the right ones; the call returns | 2 calls (a call met by what another has left), 2 PINs, a host before and after version 7 |

The bounds suffice in this sense: each of these parts compares counters or
times only with their neighbours or with one timeout, and every action and
disjunct of every next-state relation is taken in a run. Wraps are made to happen with a small
modulus. What the bounds cannot show for every size is proved where it matters
most (below).

The two parts of `wire_formats` and of `udp_driver` share no state; a behaviour
is about one of them, which one its first state says.

Deadlock is checked except where a system really stops: a stream that has
ended or a setup that is over (`connection`, `control_stream`), a payloader out
of frames or a link that has carried its packets (`wire_formats`), a driver
that has ended (`udp_driver`), calls of `pair()` that have returned (`pairing`),
and the host, whose two tasks do wait for each other when `set_identity` meets
`update` (`CallsReturn` says that nothing else stops them).

### Fairness

- `video_stream`, `audio_stream`: time passes and the driver calls
  `handle_timeout` (weakly fair `Tick`, `HandleTimeout`). `BufferedFramesPassed`
  also takes for granted that packets keep coming, because the audio stream
  acts on overdue frames only when one does (see hazards).
- `control_stream`: the same, and the application polls events.
- `wire_formats`: ENet sends a reliable packet again until it is acknowledged,
  so it is delivered at last (weakly fair delivery of reliable packets only).
- `udp_driver`: strong fairness for each thread, taken by itself: its next step
  needs the mutex, which others keep taking and releasing, and a queued thread
  gets it in the end. No datagram has to come. `stop()` finishes once begun. The
  future has safety properties only.
- `connection`: `connect()` goes on, and the host ends every connection at last.
  The second is an assumption the asynchronous backend needs: it has no deadline.
  Then weak fairness for the thread that joins, the caller, and the consumer of control
  events. A failure, a lost link, a termination or a call of `stop` need not happen, and
  nothing that waits inside a driver has to come back when it is stopped (it need not, see
  finding 1): that is the condition `NobodyInside` of `AllEnd`, without which only `connect()` is sure to end.
- `host`: strong fairness for each task: the locks are fair queues, and each
  request is answered or fails. The code itself bounds only the time to connect
  (`tokio_hyper.rs:98`); a server that keeps an answer to itself holds a call up.
- `pairing`: the loop of `pair_impl` goes on, and a request times out if nothing
  comes before, which is so for ureq (`timeout_global`). Nothing is assumed of
  host, user and network. With hyper `PairingEnds` fails (see hazards).

## Proofs

For every value of the constants that satisfies the named assumptions of the
modules (positive sizes, a last block no longer than the others, and so on). The
proofs about the two video modules are in `VideoProofs`, about the audio stream in
`AudioProofs`, about `VideoPayloader` and `ControlWire` in `WireFormatsProofs`, about
setup and threads in `StdConnectionProofs`, about both drivers in `UdpDriverProofs`,
and about the control stream, pairing and the host in a module each. Every safety property of
the passing runs is stated by a theorem:

| theorem | states |
|---|---|
| `DepayloaderTypeCorrect`, `CompleteFramesCorrect`, `CountedParityKept` | the depayloader's types; a complete frame is exactly the frame sent; each parity packet counted is still at hand when Reed-Solomon runs |
| `EnoughPacketsSuffice` | the converse: a frame of which enough packets of every block have come is complete |
| `StreamDecodable` | `VideoStream` implements `DecodableStream` |
| `PlaysInOrder`, `ShortSessionsPlayInOrder` | frames are handed over in increasing order while fewer frames than `update()` looks at (200) are behind the one awaited, and so in every session of no more frames than that |
| `LongFramesComeBack`, `ParityIsAgreed` | a frame whose first block holds a payload of it comes out of the depayloader as it went into the payloader (with its padding, if H264 or H265), for versions with the payloader's frame header; the percentage announced makes for the parity packets generated |
| `PlaysIntactInOrder`, `EnoughShardsSuffice` | audio frames come out once, in order and as sent, recovered ones included; FEC recovers a block as soon as enough of its packets are at hand; both up to the wrap of the sequence numbers and if no FEC packet is repeated |
| `QueuedComesOut` | no step loses a data packet that is queued and still to come: it stays ahead or comes out, unless it does not decrypt (the action property `QueuedIsPlayed`, stated beside its proof) |
| `FirstPacketsFirst`, `MotionIsConserved`, `PingsInTime`, `EndIsReported` | the first two packets of a control stream; no motion lost or sent twice; a ping in every interval; the end is told before the stream may be discarded |
| `ServerStaysInStep` | keys remembered are those of the connected server, and gamepads but for those whose disconnecting state was lost, if no input is given before `Connect` |
| `NoLostWakeup` | while a driver runs, no thread sleeps on work queued for it |
| `RunJoinsAll` | `run` returns only with the driver stopped and its workers ended |
| `NeverAsleepForNothing`, `TransmitsAreKept` | the future of the other backend sleeps only with nothing left to do, and loses and reorders no transmit however often it is dropped |
| `ConnectHasError` | when `connect()` finds the threads ended, one of them has left the error it unwraps |
| `SetupImplementsHandshake` | `StreamSetup` implements `Handshake`; among other things no `unreachable!()`, `unwrap()` or `expect()` of the setup fails, whatever the host does, but the `expect()` of the control stream, in place of starting it |
| `SupportedNeverPanics` | with a server version that has a control stream (5 to 7) that one does not fail either |
| `SetupKeepsOneSession` | a setup that succeeds has all its streams in the session of `session_id` |
| `StdImplementsHandshake`, `StdKeepsOneSession`, `StdConnectHasError` | the same three of `connect()` as a whole: setup, spawned threads, waiting |
| `ControllersInOrder` | a controller's packets come in the order sent, none before the controller's arrival |
| `ReadAsSent` | every packet that arrives is read as it was sent, through any sequence of packets, numbers and losses, if the tables of fields make that of each single packet (`TablesAgree`, which the run decides) |
| `WrittenAsRead` | the last two and the payloader's two, of the specification that `wire_formats` runs |
| `PairingKeepsPromise` | `Pairing` implements `PinPairing`: Ok only after the host accepted a call whose PIN was entered |
| `FailureIsClean` | a call that failed, and whose unpairing was answered, is not trusted |
| `ErrorsRight` | a call alone with the host is told of a wrong PIN only after a wrong PIN, and never that pairing failed |
| `UpdatesAreKept` | what an update has brought is there when its call looks again: the `unreachable!()`s of the host are |
| `IdentitiesComeToAgree` | client and cache have the same identity once the calls that set them have returned |
| `GameReadRecently` | `start_stream` and `cancel` decide by an answer that came after they began |
| `OnlyCrossedLocksBlock` | whoever waits for a lock of the host waits for a task that has a lock and waits for none, unless `set_identity` has met `update` |

*Depayloader.* That complete frames are right is not inductive: nothing says
what an incomplete frame holds. `FrameInv` says it: the write offset is that
of the current block, the shards counted belong to it, every unit of an earlier
block and every data shard counted of this one is in its place, and every
parity shard counted is among the packets kept. One lemma per operation keeps
it. `try_construct` goes on to the next block while it can; the model states the
loop by its result, the blocks it may stop at (`StopBlocks`) and the frame it
leaves there (`Advanced`), so `AdvancedInv` needs no induction over blocks. The
converse needs what is *not* thrown away: every packet given of a later block is
kept (`Kept`), and the current block lacks packets (`Lacking`), except in a frame
that became known by a later block while old packets of block 0 were still there.

*Video stream.* `StreamInv` adds to the played sequence that the frame awaited
is the successor of the last one played, and that the depayloader knows only
frames of the host. `UpdateStep` shows that every way through `update()` plays
an awaited frame, an IDR frame, or nothing: that maps each step to a step of
the abstract stream or a stutter. The order needs one more assumption: late packets
make played frames known again, `update()` discards only among the first 200 known
frames, and with more than that behind, an old IDR frame survives the discarding and
would be played at the next resynchronisation. `FewBehind` excludes that; the theorem is
`Spec /\ []FewBehind => []PlayedInOrder`, and `FewFramesFewBehind` discharges the
assumption for short sessions.

*Video payloader.* The packets of a frame are a recursive function of its blocks. The
prover has no induction over it, so `FrameLaidOut` takes the first block for which the
claim fails and shows that it does not (`LeastNumber`, from the well-foundedness of
`<`; `BlockByBlock` shows that the function exists). The claim is `LaidOut`: which
packet of the queue is which of its block, with which header, shards and bytes. It
rests on `BytesOfBlock` (which bytes of the frame a block has, and that they fill as
many packets as the header says) and `PayloadsFit` (which byte is where in the payloads,
with and without the frame header in front). From `LaidOut` alone follow the
agreement on parity (`LaidOutParityAgreed`) and the round trip
(`LaidOutRoundTrip`): packet `s` of block `b` has the number `b * MaxShards + s`
among the data packets, because every block but the last is full, and a data packet
has as many before it as its number says (`Ranked`). The code pads every last payload; a
format that is not cut keeps those zeroes (`Expected`). `QueueInvariant` says that the
last frame of the queue is such a frame while it is there whole. That the percentage
comes out right needs the 100 data packets to which `new()` clamps a
block: with more, rounding `100 * min / total` down could cost a packet
(`ParityAnnounced`). The theorems assume `BlocksNumbered`, at most four blocks to a frame,
and `PercentagesFit`, percentages below 256: the header has two and eight bits for
them, and no code keeps a caller within. The constants of `wire_formats` satisfy both, with
a frame of exactly four blocks and a percentage of 200.

*Audio.* `Sound` says of a depayloader that its data packets are packets of frames as
they were sent (`Entry`), that its FEC packets are those of whole blocks, and that
their queue is sorted by block and number (`Sorted`), which the bisection of
`handle_packet` and the clean-up from the front both rely on. `Recovering` is the
promise of FEC for each block that has a FEC packet queued. It is kept because every
packet queued is followed by an attempt at its block: a packet of one block changes
nothing of another (`BlocksApart`, `OthersKept`), and the clean-up takes a block's FEC packets
away before its data. That what is recovered is right needs each FEC packet in its own slot
(`SlotsRight`) and the timestamps' step to be the duration of a frame (`TimeStep`).
`PlayedBefore` puts all that was played before the current number, so that
what comes out next is later. `Polled` is a recursive function of the packets passed;
like the payloader's it is shown to exist (`PacketByPacket`) and treated by the first
packet for which a claim fails.

Two conditions are needed, and the code does not keep its promises without them.
`InOneRound`: the numbers of the frames, and those `saturating_add` looks at after them,
do not wrap. With numbers that do, TLC finds frames dropped (finding 3), and blocks
not recovered. `~FecRepeated`: a FEC packet 0 that comes twice fills both slots (see
the hazards). The run satisfies both conditions.

*Control stream.* `Inv` adds to the five properties what the events still unread
mean: a stream not yet configured has a peer not yet connected and its first two
packets waiting (`Early`), and a stream that has ended has queued or told its
`Disconnect` (`EndInOrder`). One update hears events, flushes the batch and pings; the parts of the
invariant are predicates of a host, a stream and a server, so that the lemmas can
follow these through the update's intermediate values (`Heard`). `ServerStaysInStep`
assumes `~EarlyInput`: `MoonlightStream::connect` returns only after the `Connect`
event (`tokio/mod.rs:209`), so its users have no handle to give input with before.
With `EarlyInput` the property is false (see below). Of the gamepads the invariant says only
what unreliable packets allow: a gamepad the server still has and the batcher has not is in
`server.lost`, which `LostStep` and the next state that arrives keep up to date.

*Drivers.* `Wakeups` is the property with the places of the threads; the step
lemma has one case per action. A thread falls asleep only after it has looked at
its queue under the lock, and whoever fills a queue notifies all before it
lets go of the lock. `Joined` says of `run` which threads it has still to wait
for. For the future of the other backend, `SocketWatched` and `TimerWatched` say,
place by place in `poll`, which wakers are registered and what has been looked at
since; `Transmits` says that what was written, followed by what is pending, is
what the stream produced.

*Threads.* `NobodyStops`: until a driver has failed or `connect()` has returned,
which is when the application can call `stop()`, nobody stops anything. So threads
that end before the connection do so behind a failed driver, and that one has
stored its error first. `StdInv` joins this with the setup's invariant: until the
setup is through, the threads are where they begin, and afterwards the setup stays
where it ended, so each half is kept by the steps of the other.

*Setup.* The refinement alone is far from inductive: that a stream may be started
when its answer is handed over rests on the answer being of the request the state
waits for. `IInv` has it in five parts: what each state means for the streams
started (`Progress`); that the client works on the state's request and its
connection was opened for it, and that it expects an answer exactly when the
request has one (`Requests`); that what was received is of the answer the host
gave (`Answers`); that the host is ahead by that request and no more (`Offers`).
`SessionInv` says the same of sessions; the setup needs it too, for the `unwrap()`
of the session. `Progress` also says when a panic is possible at all. Each step of the client is
proved to map to a step of the handshake or to leave it unmoved. The sequence number has no part in it: the
proof holds for a host that answers with any number.

*Control packets.* All packets of a controller take one channel and none of them is
sent unreliably (`ControllerOnOneChannel`, `ControllerDelivery`). `InChannels` says
that nothing reliable is lost, that what must come in order never comes before an
earlier reliable packet of its channel, and that arrivals in order are in the
order sent. For `ReadAsSent` the packets are separated from the link.
`TablesAgree` is what the two sides' tables make of each single packet, without
encryption: it is joining and folding sequences, induction over data, but the tables are finite
and `wire_formats` goes through every packet on every link. `SealedOpens` adds the
encryption: a side seals and its peer opens with the function for the same
direction, and the IV depends on nothing but the direction and the number, which is
sent along. So what has been sent stays readable (`AllReadable`), in whatever order
it arrives.

*Pairing.* `Agrees` ties the host's session to its call: its salt and certificate
are that call's, its PIN is the one entered for it, and a hash the host could
decrypt was made with the same key, so with the same salt and PIN (`Sessions`).
That is why a proof accepted in phase 4 implies the right PIN, whoever sent which request when.
`CallAgrees` says which answer each state waits for, so that the answer that ends the
call well is the one to phase 5. For `FailureIsClean` two facts are added: while
the first request of a call is under way the host has nothing else of it
(`Beginnings`), and once the host has answered the unpairing it has no session of the
call with its phase 4 still to come (`Unpaired`). The step lemmas do not look at the
code's actions one by one: five summaries (`Begins`, `Asks`, `GoesOn`, `Fails`, `Ends`)
are shown to cover them (`CallDoes`), and `HostRight` does the same for the host.
`ErrorsRight` is about a call that has met no other: `Right` adds that an answer is at
hand only to a request that was made (`Quiet`), and that as long as no two calls
overlapped, the host's session is the one call's and in the same phase (`InTouch`),
so that each answer is one the call's state expects.

*Host.* A call is the sequence of steps it has before it, so the invariant is about
sequences. `Orderly` says which step follows which; it gives who holds the mutex
(`Held`). `Provided`: a step that relies on something in the cache finds it there, or has
the step that brings it somewhere before it. `Allowed`: only the calls of an
identity have its steps. `Identities` adds the two moments at which client and
cache differ, each with the identity that the second step will put there. The calls of
`Steps` are shown to begin so, and one lemma per action keeps it; `OrdinaryStep`
covers those that change no identity. `Locks` adds that a lock that is
taken belongs to a task whose next step needs it, which rests on what follows the
locking steps in each call (`LocksUsed`). The holder of the cache can then only wait
for the client, whose holder can only wait in `setAuthenticated`: `WaitsEnd`, the
safety part of `CallsReturn`.

Only model-checked:

- everything that must eventually happen, which the prover cannot do: `StuckStreamAsks`,
  `CompleteFramePlayed`, `SetupEnds`, `AllEnd`, `MotionSent`, `TransmitServed`,
  `StoppedTimedThreadsEnd`, `BufferedFramesPassed`, `CallsReturn`, `LastingInputArrives`,
  `PairingEnds`;
- `TablesAgree`, the premise of `ReadAsSent`.

## Findings

Each is a violation run with a counterexample; PROJECT.json quotes the lines.

1. `udp_driver_stop`: `stop()` stores the flag and notifies without the mutex;
   a consumer between its check and its wait never wakes.
2. `stream_threads_reason`: `Disconnect` is queued before the termination
   packet, and the event loop leaves at `Disconnect`: the reason is always 0.
3. `audio_wrap`: sequence numbers are compared as plain integers after they wrap.

Seen on the way and kept as hazards or notes without a run of their own:

- video: the window of an incomplete frame is looked up for frame 0
  (`video/mod.rs:143`); a frame of more than four blocks does not fit the header,
  nor does a percentage above 255, which three parity packets for a block of one data
  packet make (`payloader.rs:215`); a block 0 with less than a payload of the
  frame is cut into two data packets while one is announced: a short frame, or any
  frame with `max_data_shards_per_block` 1, which `new()` admits;
  the payloader writes a frame header of eight bytes whatever the version of the server, while the
  depayloader takes off none or twelve for some (`depayloader.rs:290`);
  the payloader gives parity packets timestamp 0, and the depayloader asserts one
  timestamp per frame (`depayloader.rs:421`);
- audio: a repeated FEC packet 0 is taken for packet 1;
- control: a key pressed before ENet has connected is remembered as sent although it
  was not, and dropped from then on (`EarlyInput = TRUE`; both backends return
  only after the connection is made, a user of `ControlStream` itself or of the
  bindings is exposed); motion batched while the stream disconnects turns the
  disconnect into an error; `poll_timeout` of a stream that takes longer than a ping
  interval to connect lies in the past, so its driver spins; a button is sent at once
  and overtakes motion batched before it (`input_batcher.rs:203`); a gamepad is disconnected
  by one packet sent unreliably (`input_batcher.rs:353`): if it is lost, the server keeps the gamepad;
- control packets: the length check lets a packet that is one byte short pass and
  the slice after it panics (`packet.rs:2185`; `serialize` writes none such); the
  bindings lack `KeyModifiers::EXTENDED` and shorten texts and trigger effects;
- drivers: since a thread may stay inside a stopped driver (finding 1), `stop()` or an error need
  not end all threads, and the one that joins them never ends then;
  the future of the tokio driver may wait with a transmit although
  the socket has room, because `poll_send_ready` registers no waker when it says ready
  (`tokio/driver.rs:114`); driving a stream with a microphone over tokio runs into an
  `unreachable!()` of `drive()`, the microphone having no events; `connect()` of the blocking
  backend gives up after twenty seconds and returns while its threads still run
  (`std/mod.rs:254`);
- setup: with a server whose major version is below 5 or above 7 the setup panics when the
  host grants the control stream (`proto/mod.rs:629`; line 614 says that this cannot
  panic), although it has a client version for 3 and 4 and for any other (`proto/mod.rs:246`);
  a comment says that one host version answers PLAY only after an audio ping
  (`proto/mod.rs:657`), but pings start after `connect()`, which waits for PLAY
  (`PlayNeedsPing = TRUE`: `connect()` then never ends); the default port of the
  control stream is the video port's constant (`proto/mod.rs:585`); a reset ends an
  answer for the blocking backend, so a description cut short may be accepted; the
  asynchronous backend has no deadline;
- pairing: with a host older than version 7 the call panics at once, since a hash of
  20 bytes is copied into the 32 bytes of `hash_size_uneq` (`client.rs:534`; `Begin` of
  `Pairing`); unpairing goes by the unique id that all calls share; with hyper a request
  has no timeout once connected;
- host: `set_identity` and `update` take two locks in opposite orders; `unpair`
  leaves the host saying it is paired.

## Not modelled

- RTSP messages and SDP (`rtsp/moonlight.rs`, `rtsp/raw.rs`, `sdp/`): text formats
  without state; the setup uses what they say of streams and sessions.
- The ping sender (`ping.rs`): one timer that is set again until the first packet.
- The microphone's payloader, the units of H.264 and H.265, WebRTC offers and answers:
  formatting and parsing of one value.
- HTTP clients and endpoints: requests and their parsing; of the clients `Pairing` has
  the timeouts and the change to certificates.
- Crypto backends, Reed-Solomon and ENet are libraries; the models have what they
  promise: decryption with the right key, a block from enough shards in their
  places, ordered and reliable channels.
- The C backend: callbacks of a library whose code is a submodule and not here.
- The bindings other than control packets: each call under a mutex around the types
  above.

PROJECT.json lists every component and what of it is left out.
