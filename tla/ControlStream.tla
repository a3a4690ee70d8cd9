---------------------------- MODULE ControlStream ----------------------------
(***************************************************************************)
(* The client's control stream (proto/control/mod.rs), the ENet host it    *)
(* wraps (peer.rs) and the batcher of the user's input (input_batcher.rs). *)
(*                                                                         *)
(* ENet itself is a library: of its peer only the state is kept, and a     *)
(* datagram or a timeout hands over any events that state allows.  Packets *)
(* given to a connected peer reach the server, unless the connection ends  *)
(* first, those of one channel in order; but a server like Sunshine gets   *)
(* the state of a controller sequenced, that is unreliably: such a packet  *)
(* is lost, or comes before the next of its controller.  "server" is what  *)
(* the server makes of the packets, those under way included.              *)
(*                                                                         *)
(* Times are ages, measured in the batch interval: how long ago last_ping, *)
(* last_batch_send and last_now were.  The driver calls handle_timeout no  *)
(* later than poll_timeout asks for.  The public calls and the handlers    *)
(* run under the driver's lock, so each is one step.                       *)
(***************************************************************************)
EXTENDS Integers, SequencesExt

CONSTANTS
  MaxMotion,     \* the largest i16; the least one is taken as its negation
  Key, Pad,      \* keys and gamepads
  Position,      \* absolute pointer positions
  PingInterval,  \* PERIODIC_PING_INTERVAL, in batch intervals
  HostInterval,  \* EnetHost::poll_timeout's 50 ms, in batch intervals
  EarlyInput,    \* input may be given before the Connect event was polled
  Sunshine,      \* is_sunshine_like(): the state of controllers goes unreliably
  MaxEvents      \* bound: events queued, beyond those of one update

ASSUME ControlAssumption ==
  /\ MaxMotion \in Nat \ {0}
  /\ PingInterval \in Nat \ {0}
  /\ HostInterval \in Nat \ {0}
  /\ EarlyInput \in BOOLEAN
  /\ Sunshine \in BOOLEAN
  /\ MaxEvents \in Nat

VARIABLES
  host,      \* the ENet peer's state and whether peer_data knows it
  server,    \* what the server has of the packets sent, and history: the gamepads
             \* whose last packet was lost
  stream,    \* peer_connected, buffered_packets, the events, and whether a
             \* handler has failed, after which the driver calls none
  batch,     \* the batched input: relative motion, absolute position
  keys,      \* the batcher's key states: the keys that are down
  gamepads,  \* the batcher's connected gamepads
  age,       \* how long before last_now last_ping and last_batch_send were,
             \* and last_now before the present
  app        \* what the application has polled

vars == <<host, server, stream, batch, keys, gamepads, age, app>>

Nowhere == "nowhere"  \* no absolute position batched or sent

Least(a, b) == IF a < b THEN a ELSE b

\* Op over s in order, from x: no call sends or handles more than two.
InTurn(Op(_, _), x, s) ==
  IF Len(s) = 0 THEN x
  ELSE IF Len(s) = 1 THEN Op(x, s[1])
  ELSE Op(Op(x, s[1]), s[2])

\* saturating_add
Clamp(n) == IF n > MaxMotion THEN MaxMotion ELSE IF n < -MaxMotion THEN -MaxMotion ELSE n

\* The setup buffers these two before it hands the stream over.
Init ==
  /\ host = [peer |-> "connecting", configured |-> TRUE]
  /\ server = [first |-> <<>>, keys |-> {}, gamepads |-> {}, lost |-> {},
             behind |-> 0, sinceping |-> 0]
  /\ stream = [connected |-> FALSE, ok |-> TRUE, events |-> <<>>,
               buffered |-> <<[type |-> "RequestIdr"], [type |-> "StartB"]>>]
  /\ batch = [motion |-> 0, at |-> Nowhere]
  /\ keys = {} /\ gamepads = {}
  /\ age = [ping |-> 0, batch |-> 0, now |-> 0]
  /\ app = {}

-----------------------------------------------------------------------------
(* Sending                                                                 *)

\* What the server makes of packet p: of the first two, as they are sent, only the
\* kind is kept.  The state of a controller tells by its mask whether that controller
\* is connected.
Kind(p) ==
  IF p.type \in {"RequestIdr", "StartB", "PeriodicPing"} THEN p.type ELSE "other"
ControllerTypes == {"ControllerArrival", "ControllerState"}
Served(s, p) ==
  [first     |-> IF Len(s.first) < 2 THEN Append(s.first, Kind(p)) ELSE s.first,
   keys      |-> IF p.type # "Keyboard" THEN s.keys
                 ELSE IF p.down THEN s.keys \cup {p.key} ELSE s.keys \ {p.key},
   gamepads  |-> IF p.type \notin ControllerTypes THEN s.gamepads
                 ELSE IF p.pad \in p.mask THEN s.gamepads \cup {p.pad}
                 ELSE s.gamepads \ {p.pad},
   lost      |-> IF p.type \in ControllerTypes THEN s.lost \ {p.pad} ELSE s.lost,
   behind    |-> IF p.type = "MouseMoveRelative" THEN s.behind - p.delta ELSE s.behind,
   sinceping |-> IF p.type = "PeriodicPing" THEN 0 ELSE s.sinceping]

\* "w" is a host h, a server and whether every call so far has succeeded: a
\* packet can be sent to a peer that is connected and configured, and after
\* a failure the rest is not tried.
World(h) == [host |-> h, server |-> server, ok |-> TRUE]
Sendable(h) == h.peer = "connected" /\ h.configured
Send(w, p) ==
  IF w.ok /\ Sendable(w.host) THEN [w EXCEPT !.server = Served(@, p)]
  ELSE [w EXCEPT !.ok = FALSE]
SendAll(w, ps) == InTurn(Send, w, ps)

\* Variant: at most one packet of the pointer.
BatchedEither(b) ==
  IF b.at # Nowhere THEN <<[type |-> "MouseMoveAbsolute", at |-> b.at]>>
  ELSE <<[type |-> "MouseMoveRelative", delta |-> b.motion]>>

\* remove_batched_inputs: the packets, relative motion first.
Batched(b) ==
  (IF b.motion # 0 THEN <<[type |-> "MouseMoveRelative", delta |-> b.motion]>> ELSE <<>>)
  \o (IF b.at # Nowhere THEN <<[type |-> "MouseMoveAbsolute", at |-> b.at]>> ELSE <<>>)
Emptied == [motion |-> 0, at |-> Nowhere]

\* Variant: relative motion is overlooked.
IsDirtyAbsolute(b) == b.at # Nowhere

IsDirty(b) == b # Emptied

-----------------------------------------------------------------------------
(* The application's calls                                                 *)

MayInput == stream.ok /\ (EarlyInput \/ "Connect" \in app) /\ "Disconnect" \notin app

MouseMoveRelative(d) ==
  /\ MayInput
  /\ batch' = [batch EXCEPT !.motion = Clamp(@ + d)]
  /\ server' = [server EXCEPT !.behind = Clamp(@ + d)]
  /\ UNCHANGED <<host, stream, keys, gamepads, age, app>>

MouseMoveAbsolute(p) ==
  /\ MayInput
  /\ batch' = [batch EXCEPT !.at = p]
  /\ UNCHANGED <<host, server, stream, keys, gamepads, age, app>>

\* Every other input goes out at once, and the call returns the error if it
\* cannot; the batcher's own record of it is made before.
SendNow(p) ==
  /\ server' = Send(World(host), p).server
  /\ UNCHANGED <<host, stream, batch, age, app>>

\* The state of a controller does too, but may be lost on the way.
SendState(p, mask) ==
  \/ SendNow([type |-> "ControllerState", pad |-> p, mask |-> mask])
  \/ /\ Sunshine /\ Sendable(host)
     /\ server' = [server EXCEPT !.lost = @ \cup {p}]
     /\ UNCHANGED <<host, stream, batch, age, app>>

\* Only a change of the key's state is sent.
Keyboard(k, down) ==
  /\ MayInput
  /\ keys' = IF down THEN keys \cup {k} ELSE keys \ {k}
  /\ UNCHANGED gamepads
  /\ IF keys' # keys THEN SendNow([type |-> "Keyboard", key |-> k, down |-> down])
     ELSE UNCHANGED <<host, server, stream, batch, age, app>>

ControllerConnect(p) ==
  /\ MayInput
  /\ p \notin gamepads
  /\ gamepads' = gamepads \cup {p}
  /\ SendNow([type |-> "ControllerArrival", pad |-> p, mask |-> {p}])
  /\ UNCHANGED keys

ControllerState(p) ==
  /\ MayInput
  /\ p \in gamepads
  /\ SendState(p, gamepads)
  /\ UNCHANGED <<keys, gamepads>>

\* Variant: the packet is made before the gamepad is removed.
ControllerDisconnectLate(p) ==
  /\ MayInput
  /\ p \in gamepads
  /\ gamepads' = gamepads \ {p}
  /\ SendState(p, gamepads)
  /\ UNCHANGED keys

ControllerDisconnect(p) ==
  /\ MayInput
  /\ p \in gamepads
  /\ gamepads' = gamepads \ {p}
  /\ SendState(p, gamepads')
  /\ UNCHANGED keys

\* send_raw: the video threads ask for an IDR frame at any time and do not
\* look at the result; buttons, touch and pen input is sent likewise.
SendRaw ==
  /\ stream.ok
  /\ SendNow([type |-> "RequestIdr"])
  /\ UNCHANGED <<keys, gamepads>>

\* ENet drops a peer that is not connected yet without a word.
Disconnect ==
  /\ stream.ok
  /\ host.peer \in {"connecting", "connected"}
  /\ host' = [host EXCEPT !.peer = IF @ = "connected" THEN "disconnecting" ELSE "disconnected"]
  /\ UNCHANGED <<server, stream, batch, keys, gamepads, age, app>>

PollEvent ==
  /\ stream.events # <<>>
  /\ app' = app \cup {Head(stream.events)}
  /\ stream' = [stream EXCEPT !.events = Tail(@)]
  /\ UNCHANGED <<host, server, batch, keys, gamepads, age>>

CanDiscard == stream.events = <<>> /\ host.peer = "disconnected"

-----------------------------------------------------------------------------
(* The handlers                                                            *)

\* The events ENet may hand over in one call, of a peer in this state.
EnetEvents(peer) ==
  {<<>>} \cup
  (IF peer = "connecting"
   THEN {<<"Connect">>, <<"Connect", "Packet">>, <<"Connect", "Termination">>}
   ELSE {}) \cup
  (IF peer \in {"connected", "disconnecting"} THEN {<<"Packet">>, <<"Termination">>} ELSE {}) \cup
  (IF peer = "connected"
   THEN {<<"Packet", "Disconnect">>, <<"Packet", "Termination">>} ELSE {}) \cup
  (IF peer # "disconnected" THEN {<<"Disconnect">>} ELSE {})
Serviced(h, evs) ==
  [peer |-> IF "Disconnect" \in ToSet(evs) THEN "disconnected"
            ELSE IF "Connect" \in ToSet(evs) THEN "connected" ELSE h.peer,
   configured |-> h.configured]

\* handle_events: packets of a peer that is not configured are dropped, and
\* a Disconnect forgets the peer.  "e" is the host and the events passed on.
HostEvent(e, ev) ==
  IF ev = "Disconnect" THEN [host |-> [e.host EXCEPT !.configured = FALSE],
                             out |-> Append(e.out, ev)]
  ELSE IF ev = "Connect" \/ e.host.configured THEN [e EXCEPT !.out = Append(@, ev)]
  ELSE e
HandleEvents(h, evs) == InTurn(HostEvent, [host |-> h, out |-> <<>>], evs)

\* Variant: what was buffered stays there.
ConnectedKeeping(u) ==
  [u EXCEPT !.stream.connected = TRUE, !.stream.events = Append(@, "Connect")]

\* One event in do_update: "u" is a world and the stream.
Connected(u) ==
  LET w == SendAll(u.w, u.stream.buffered)
  IN [w |-> w,
      stream |-> [u.stream EXCEPT
        !.connected = TRUE, !.buffered = <<>>,
        !.events = IF w.ok THEN Append(@, "Connect") ELSE @]]

\* Variant: the Disconnect is left to ENet.
TerminatedQuietly(u) ==
  [w |-> [u.w EXCEPT !.host.peer = "disconnected"],
   stream |-> [u.stream EXCEPT !.events = Append(@, "Termination")]]

\* The peer is dropped at once; ENet has no event for that.
Terminated(u) ==
  [w |-> [u.w EXCEPT !.host.peer = "disconnected"],
   stream |-> [u.stream EXCEPT !.events = Append(Append(@, "Disconnect"), "Termination")]]
Disconnected(u) ==
  [u EXCEPT !.stream.connected = FALSE, !.stream.events = Append(@, "Disconnect")]
Handle(u, ev) ==
  IF ~u.w.ok THEN u
  ELSE IF ev = "Connect" THEN Connected(u)
  ELSE IF ev = "Termination" THEN Terminated(u)
  ELSE IF ev = "Disconnect" THEN Disconnected(u)
  ELSE [u EXCEPT !.stream.events = Append(@, ev)]

\* do_batching and do_ping, with the ages they see.
BatchDue(a) == IsDirty(batch) /\ a.batch >= 1
PingDue(a)  == a.ping >= PingInterval
\* A ping that cannot be sent for want of a connection is left for later; a
\* peer that is connected but not configured would be an error.
Ping(w) == IF w.ok /\ w.host.peer # "connected" /\ w.host.configured THEN w
           ELSE Send(w, [type |-> "PeriodicPing"])

PingSent(w) == w.ok /\ Sendable(w.host)

\* do_update at the present, after the events evs.
Aged == [ping |-> Least(age.ping + age.now, PingInterval),
         batch |-> Least(age.batch + age.now, 1), now |-> 0]
Update(evs) ==
  LET h == HandleEvents(Serviced(host, evs), evs)
      u == InTurn(Handle, [w |-> World(h.host), stream |-> stream], h.out)
      goon == u.w.ok /\ u.w.host.peer # "disconnected"
      flush == goon /\ BatchDue(Aged)
      b == IF flush THEN SendAll(u.w, Batched(batch)) ELSE u.w
      ping == goon /\ b.ok /\ PingDue(Aged)
      w == IF ping THEN Ping(b) ELSE b
  IN /\ host' = w.host
     /\ server' = w.server
     /\ stream' = [u.stream EXCEPT !.ok = w.ok]
     /\ batch' = IF flush THEN Emptied ELSE batch
     /\ age' = [Aged EXCEPT !.batch = IF flush THEN 0 ELSE @,
                            !.ping = IF ping /\ PingSent(b) THEN 0 ELSE @]
     /\ UNCHANGED <<keys, gamepads, app>>

\* Variant: the ping is left to ENet's timeouts.
DueUnpinged ==
  LET host_timeout == HostInterval - age.now
      batch_timeout == IF IsDirty(batch) THEN 1 - age.batch - age.now ELSE host_timeout
  IN Least(batch_timeout, host_timeout)

\* How long after the present poll_timeout is; the driver calls when it is 0.
Due == LET host_timeout == HostInterval - age.now
           ping_timeout == PingInterval - age.ping - age.now
           batch_timeout == IF IsDirty(batch) THEN 1 - age.batch - age.now ELSE host_timeout
       IN Least(batch_timeout, Least(ping_timeout, host_timeout))

HandleReceive ==
  /\ stream.ok /\ Len(stream.events) <= MaxEvents
  /\ \E evs \in EnetEvents(host.peer) : Update(evs)

\* Without a datagram ENet can only find that the peer has timed out.
HandleTimeout ==
  /\ stream.ok /\ ~CanDiscard
  /\ Due <= 0
  /\ \E evs \in EnetEvents(host.peer) \cap {<<>>, <<"Disconnect">>} : Update(evs)

\* A batch interval passes.  An unconnected peer's ping stays overdue: the
\* driver calls again and again, and time passes all the same.
Tick ==
  /\ stream.ok
  /\ \/ Due > 0
     \/ host.peer # "connected" /\ age.now < HostInterval
  /\ age' = [age EXCEPT !.now = @ + 1]
  /\ server' = [server EXCEPT !.sinceping = Least(@ + 1, PingInterval + 1)]
  /\ UNCHANGED <<host, stream, batch, keys, gamepads, app>>

Next ==
  \/ \E d \in {-1, 1} : MouseMoveRelative(d)
  \/ \E p \in Position : MouseMoveAbsolute(p)
  \/ \E k \in Key, down \in BOOLEAN : Keyboard(k, down)
  \/ \E p \in Pad : ControllerConnect(p) \/ ControllerState(p) \/ ControllerDisconnect(p)
  \/ SendRaw
  \/ Disconnect
  \/ PollEvent
  \/ HandleReceive
  \/ HandleTimeout
  \/ Tick

Spec == Init /\ [][Next]_vars

\* The driver's threads go on, and so does the application.
FairSpec == Spec /\ WF_vars(Tick) /\ WF_vars(HandleTimeout) /\ WF_vars(PollEvent)

-----------------------------------------------------------------------------

\* RequestIdr and StartB "should be the first packets" (proto/mod.rs), whatever
\* the application sends and whenever it does.
FirstPackets == IsPrefix(server.first, <<"RequestIdr", "StartB">>)

\* What the batcher takes for the keys that are down is what the server has:
\* otherwise a key is stuck, since only changes are sent.  A gamepad that is connected
\* is known to the server, whose arrival is sent but once; and the server takes no other
\* for connected, unless the packet that disconnects it was lost, as only happens
\* where the state of controllers is sent unreliably.
ServerInStep ==
  host.peer = "connected" =>
    /\ server.keys = keys
    /\ gamepads \subseteq server.gamepads
    /\ server.gamepads \ gamepads \subseteq (IF Sunshine THEN server.lost ELSE {})

\* No motion is lost or sent twice, but for what saturates: what the user has
\* moved and the server has not heard of is what is batched.
MotionConserved ==
  host.peer = "connected" /\ stream.ok => server.behind = batch.motion

\* The host hears from a connected client at least once in a ping interval, if
\* the driver keeps to poll_timeout and however many datagrams come in between.
PingInTime ==
  host.peer = "connected" /\ "Connect" \in app /\ stream.ok => server.sinceping <= PingInterval

\* A host's termination and the end of a connection "must reach the client"
\* (control/peer_tests.rs): a stream that can be discarded has told of both.
EndReported ==
  /\ "Termination" \in app => "Disconnect" \in app
  /\ CanDiscard /\ stream.connected => {"Termination", "Disconnect"} \subseteq app
  /\ CanDiscard /\ stream.ok /\ "Connect" \in app => "Disconnect" \in app

\* Motion is sent within the batch interval or the connection ends.
MotionSent ==
  (host.peer = "connected" /\ stream.ok /\ batch.motion # 0)
    ~> (batch.motion = 0 \/ host.peer # "connected" \/ ~stream.ok)
=============================================================================
