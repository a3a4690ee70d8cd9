----------------------------- MODULE ControlWire -----------------------------
(***************************************************************************)
(* Control packets on their way from one ControlHost (control/peer.rs) to  *)
(* the other: from a program in another language through the bindings,     *)
(* serialize() and the encryption of control/encryption.rs, over a channel *)
(* of ENet, and the whole way back.  ENet is external: what is sent        *)
(* Reliable arrives once and in the order of its channel, what is sent     *)
(* Sequenced may be lost but never arrives after something later of its    *)
(* channel nor before a reliable packet sent earlier on it, and Unreliable *)
(* packets are lost and reordered at will.                                 *)
(***************************************************************************)
EXTENDS ControlPacketBindings

CONSTANTS
  Profiles,      \* the links: server [major, ping, sunshine], encryption method, web_state set
  Controllers,   \* controller numbers
  TextLens,      \* lengths of the texts
  TriggerLens,   \* lengths of the vector of a trigger effect
  MaxSent        \* bound: packets sent on a link

ASSUME WireAssumption ==
  /\ \A profile \in Profiles :
       /\ profile.method \in {"None", "Nvidia", "Sunshine"}
       /\ profile.server.major \in 5 .. 7
  /\ Controllers \subseteq Nat /\ TextLens \subseteq Nat /\ TriggerLens \subseteq Nat
  /\ MaxSent \in Nat

VARIABLES
  link,                   \* the profile and the role of the sender
  send_sequence_number,
  sent,                   \* the packets accepted, in order, and their bytes
  flight,                 \* what ENet still carries: places in sent
  got                     \* those that have arrived, in the order of arrival

WireVars == <<link, send_sequence_number, sent, flight, got>>

-----------------------------------------------------------------------------
(* The packets a program may send.                                         *)

Lengths(kind) ==
  CASE kind = "Text" -> TextLens
    [] kind = "ControllerSetAdaptiveTriggers" -> TriggerLens
    [] OTHER -> {0}

\* All Booleans of a record of flags, or those of the even bits.
FlagsPicked(f, all) == {name \in Bools[f] : all \/ Bits[f][name] % 2 = 0}

\* still: a motion of the gyroscope, all three axes zero.
BoundPacket(kind, n, controller, still, all) ==
  [kind |-> kind, n |-> n, controller |-> controller, still |-> still,
   fields |-> [f \in BoundFields(kind) |->
                 CASE IsFlags(f)           -> <<f, FlagsPicked(f, all)>>
                   [] f = "text" /\ n = 0 -> Value("")
                   [] OTHER                -> Value(f)]]

BoundPackets ==
  UNION { { BoundPacket(kind, n, controller, still, all) :
              n \in Lengths(kind),
              controller \in IF kind \in PerControllerKinds THEN Controllers ELSE {0},
              still \in IF kind = "ControllerMotion" THEN BOOLEAN ELSE {FALSE},
              all \in IF \E f \in DOMAIN Fields[kind] : IsFlags(f) THEN BOOLEAN ELSE {TRUE} } :
          kind \in Kinds }

\* A program in Rust also has the extended modifier, which tells the Enter
\* key of the number block from the other one.
NumpadEnter ==
  [ToNative(BoundPacket("KeyDown", 0, 0, FALSE, TRUE)) EXCEPT
     !.fields["modifiers"] = <<"modifiers", {KeyModifierBit["extended"]}>>]

-----------------------------------------------------------------------------
(* Encryption.  A cipher text carries the IV it was made with: decrypting  *)
(* it succeeds exactly with an equal one.                                  *)

Roles == {"Client", "Server"}
Outgoing(role) == IF role = "Client" THEN "ServerBound" ELSE "ClientBound"
Incoming(role) == IF role = "Client" THEN "ClientBound" ELSE "ServerBound"
Peer(role) == IF role = "Client" THEN "Server" ELSE "Client"

\* web_state is set by the program that extends the protocol.
Packets ==
  [PacketConfig(link.server, link.method # "None") EXCEPT
     !.WebState = IF link.web THEN 28673 (* 0x7001 *) ELSE 0]

\* generate_iv
GenerateIv(direction, seq) ==
  IF link.method = "Nvidia" THEN <<seq % 256>>
  ELSE <<seq, IF direction = "ServerBound" THEN "C" ELSE "H", "C">>

SubLen == 4 + 16   \* the sequence number and the tag

\* encrypt_*_control_packet_into
Encrypt(direction, seq, packet) ==
  [ty |-> 1, len |-> SubLen + Size(packet), seq |-> seq,
   iv |-> GenerateIv(direction, seq), payload |-> packet]

\* decrypt_*_control_packet_into
Decrypt(direction, datagram) ==
  IF /\ datagram.ty = 1
     /\ datagram.len >= SubLen
     /\ Size(datagram.payload) = datagram.len - SubLen
     /\ datagram.iv = GenerateIv(direction, datagram.seq)
  THEN datagram.payload ELSE None

\* The functions for the two directions, chosen by the role of the peer.
Encrypted == link.method # "None"
Sealed(packet) ==
  IF Encrypted THEN Encrypt(Outgoing(link.role), send_sequence_number, packet) ELSE packet
Opened(datagram) ==
  IF Encrypted THEN Decrypt(Incoming(Peer(link.role)), datagram) ELSE datagram

-----------------------------------------------------------------------------
(* ControlHost::send.  A packet of the wrong direction or one the server   *)
(* does not know is refused and changes nothing.                           *)

\* Where serialize() would panic, Panic is what is sent.
Send(app, packet) ==
  LET bytes == Serialize(Packets, packet) IN
  /\ Len(sent) < MaxSent
  /\ Direction(Type(packet.kind)) = Outgoing(link.role)
  /\ bytes # None
  /\ sent' = Append(sent,
       [app |-> app, packet |-> packet,
        channel |-> Channel(link.server.sunshine, packet),
        delivery |-> Delivery(link.server.sunshine, packet),
        wire |-> IF bytes = Panic THEN Panic ELSE Sealed(bytes)])
  /\ flight' = flight \cup {Len(sent) + 1}
  /\ send_sequence_number' =
       IF Encrypted THEN (send_sequence_number + 1) % 2 ^ 16 ELSE send_sequence_number
  /\ UNCHANGED <<link, got>>

-----------------------------------------------------------------------------
(* ENet.                                                                   *)

SameChannel(i) == {j \in DOMAIN sent : sent[j].channel = sent[i].channel}

Arrived == {got[k] : k \in DOMAIN got}

MayArrive(i) ==
  CASE sent[i].delivery = "Unreliable" -> TRUE
    [] sent[i].delivery = "Reliable"   ->
         \A j \in SameChannel(i) : j < i /\ sent[j].delivery = "Reliable" => j \notin flight
    [] sent[i].delivery = "Sequenced"  ->
         /\ \A j \in SameChannel(i) : j < i /\ sent[j].delivery = "Reliable" => j \notin flight
         /\ \A j \in SameChannel(i) : j > i /\ sent[j].delivery # "Unreliable" => j \notin Arrived

Lose(i) ==
  /\ sent[i].delivery # "Reliable"
  /\ flight' = flight \ {i}
  /\ UNCHANGED <<link, send_sequence_number, sent, got>>

\* handle_events: what cannot be decrypted or read is dropped (None).  What
\* becomes of a packet depends on its bytes alone.
Received(i) ==
  LET plain == IF sent[i].wire = Panic THEN Panic ELSE Opened(sent[i].wire) IN
  IF plain \in {None, Panic} THEN plain
  ELSE Deserialize(Incoming(Peer(link.role)), link.server.sunshine, Packets, plain)

Deliver(i) ==
  /\ MayArrive(i)
  /\ flight' = flight \ {i}
  /\ got' = Append(got, i)
  /\ UNCHANGED <<link, send_sequence_number, sent>>

-----------------------------------------------------------------------------

WireInit ==
  /\ \E profile \in Profiles, role \in Roles :
       link = [server |-> profile.server, method |-> profile.method, web |-> profile.web,
               role |-> role]
  /\ send_sequence_number = 0
  /\ sent = << >>
  /\ flight = {}
  /\ got = << >>

SendBound == \E app \in BoundPackets : Send(app, ToNative(app))
SendNative == Send(None, NumpadEnter)
DeliverReliable == \E i \in flight : sent[i].delivery = "Reliable" /\ Deliver(i)
DeliverOther == \E i \in flight : sent[i].delivery # "Reliable" /\ Deliver(i)

WireNext ==
  \/ SendBound
  \/ SendNative
  \/ \E i \in flight : Lose(i)
  \/ DeliverReliable
  \/ DeliverOther

\* ENet sends a reliable packet again until it is acknowledged.
WireFairness == WF_WireVars(DeliverReliable)

WireSpec == WireInit /\ [][WireNext]_WireVars

-----------------------------------------------------------------------------
(* Properties.                                                             *)

\* The metadata of HDR gets lost on its way from a server other than Sunshine.
MetadataIgnored(packet) == packet.kind = "HdrModeSunshine" /\ ~link.server.sunshine

ReadBack(packet) ==
  IF MetadataIgnored(packet)
  THEN [kind |-> "HdrMode", n |-> 0, fields |-> [enabled |-> packet.fields["enabled"]]]
  ELSE [kind |-> packet.kind, n |-> packet.n, fields |-> packet.fields]

\* What the bindings cannot hand over: a text of more than 32 bytes and trigger
\* effects that are not ten bytes long.
Cut(app) ==
  \/ app.kind = "Text" /\ app.n > UTF8_TEXT_MAX_COUNT
  \/ app.kind = "ControllerSetAdaptiveTriggers" /\ app.n # DS_EFFECT_PAYLOAD_SIZE

\* Fields that must be zero say nothing (that of MouseScroll is written and
\* read in different byte orders).
Told(p) == [p EXCEPT !.fields = [f \in DOMAIN p.fields \ {"zero"} |-> p.fields[f]]]

\* Whatever packet one side was able to send, in whichever version of the
\* protocol, encrypted or not, the other side reads with the same kind and the
\* same value in every field, and a program behind the bindings is shown the
\* packet the other program gave to its bindings.
ArrivesAsSent ==
  \A k \in DOMAIN got :
    LET s        == sent[got[k]]
        received == Received(got[k])
    IN
    /\ received \notin {None, Panic}
    /\ Told(received) = Told(ReadBack(s.packet))
    /\ s.app # None /\ ~MetadataIgnored(s.packet) /\ ~Cut(s.app) =>
         Told(FromNative(received)) =
           Told([kind |-> s.app.kind, n |-> s.app.n, fields |-> s.app.fields])

OfController(i, c) == sent[i].packet.kind \in PerControllerKinds /\ sent[i].packet.controller = c

\* What is said of one controller is received in the order it was said in, and
\* nothing before the controller's arrival: an old state of its sticks does not
\* replace a newer one, and a state does not overtake the arrival.
ControllerUpdatesInOrder ==
  \A k \in DOMAIN got : \A c \in {c \in Controllers : OfController(got[k], c)} :
    /\ \A l \in DOMAIN got : k < l /\ OfController(got[l], c) => got[k] < got[l]
    /\ \A i \in 1 .. got[k] - 1 :
         sent[i].packet.kind = "ControllerArrival" /\ OfController(i, c) =>
           \E l \in 1 .. k : got[l] = i

\* Input whose effect lasts until it is taken back, and requests nobody repeats.
LastingKinds ==
  {"KeyDown", "KeyUp", "MouseButtonPress", "MouseButtonRelease", "Text", "Touch", "Pen",
   "ControllerTouch", "ControllerArrival", "RequestIdr", "InvalidateReferenceFrames", "StartB",
   "TerminationShort", "TerminationLong"}
Lasting(packet) == packet.kind \in LastingKinds \/ (packet.kind = "ControllerMotion" /\ packet.still)

\* Such a packet is never lost: in the end it is received and read.  A
\* gyroscope that has come to rest is one of them.
LastingInputArrives ==
  \A i \in 1 .. MaxSent :
    i \in DOMAIN sent /\ Lasting(sent[i].packet)
      ~> \E k \in DOMAIN got : got[k] = i /\ Received(i) \notin {None, Panic}
=============================================================================
