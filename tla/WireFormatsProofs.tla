-------------------------- MODULE WireFormatsProofs --------------------------
(***************************************************************************)
(* What one side writes the other side reads, for every value of the        *)
(* constants.  A frame of video comes out of the depayloader as it went into *)
(* the payloader, and both sides count the same parity packets.  What is    *)
(* said of a controller is received in the order it was said in, for any    *)
(* number of packets, controllers and links, whatever ENet loses and however *)
(* long it holds back the rest.  What the tables make of a single packet     *)
(* they make of it in every sequence of packets, encrypted or not.          *)
(*                                                                         *)
(* The packets of a frame are shown to be laid out block after block        *)
(* (LaidOut).  From that alone follow the number of parity packets and, as   *)
(* the data packets are numbered through all blocks, the byte at each place.  *)
(***************************************************************************)
EXTENDS WireFormats, SequenceTheorems, FiniteSetTheorems, WellFoundedInduction, TLAPS

-----------------------------------------------------------------------------
(* Channels and kinds of delivery.                                         *)

\* All packets of a controller take one channel.
LEMMA ControllerOnOneChannel ==
  ASSUME NEW sunshine, NEW p, NEW q,
         p.kind \in PerControllerKinds, q.kind \in PerControllerKinds,
         p.controller = q.controller
  PROVE  Channel(sunshine, p) = Channel(sunshine, q)
<1>1. CASE ~sunshine
  BY <1>1 DEF Channel
<1>2. CASE sunshine
  <2>1. ASSUME NEW r, r.kind \in PerControllerKinds
        PROVE  Channel(sunshine, r) = ControllerChannel(r.controller)
    <3>1. /\ r.kind \notin UrgentKinds /\ r.kind \notin MouseKinds
          /\ r.kind \notin {"KeyDown", "KeyUp", "WebState"}
          /\ r.kind # "Text" /\ r.kind # "Pen" /\ r.kind \notin {"Touch", "ControllerTouch"}
      BY <2>1 DEF PerControllerKinds, UrgentKinds, MouseKinds
    <3> QED  BY <1>2, <2>1, <3>1 DEF Channel
  <2> QED  BY <2>1
<1> QED  BY <1>1, <1>2

\* None of them is sent Unreliable, and their arrival is sent Reliable.
LEMMA ControllerDelivery ==
  ASSUME NEW sunshine, NEW p, p.kind \in PerControllerKinds
  PROVE  /\ Delivery(sunshine, p) # "Unreliable"
         /\ p.kind = "ControllerArrival" => Delivery(sunshine, p) = "Reliable"
  BY DEF Delivery, PerControllerKinds

-----------------------------------------------------------------------------
(* What ENet keeps.                                                        *)

Places ==
  /\ \E S : sent \in Seq(S)
  /\ got \in Seq(Nat)
  /\ Arrived \subseteq 1 .. Len(sent)
  /\ flight \subseteq 1 .. Len(sent)
  /\ Arrived \cap flight = {}

\* A packet takes the channel and the delivery that are its own.
Classed ==
  \A i \in 1 .. Len(sent) :
    /\ sent[i].channel = Channel(link.server.sunshine, sent[i].packet)
    /\ sent[i].delivery = Delivery(link.server.sunshine, sent[i].packet)

SentReliable(i) == sent[i].delivery = "Reliable"
InOrder(i) == sent[i].delivery # "Unreliable"

NothingReliableLost ==
  \A i \in 1 .. Len(sent) : SentReliable(i) => i \in flight \/ i \in Arrived

\* Nothing arrives, in order, before a reliable packet of its channel sent earlier.
ReliableFirst ==
  \A j \in Arrived : \A i \in 1 .. j - 1 :
    InOrder(j) /\ SentReliable(i) /\ sent[i].channel = sent[j].channel => i \notin flight

ArrivalsInOrder ==
  \A k \in 1 .. Len(got) : \A l \in 1 .. Len(got) :
    /\ k < l /\ InOrder(got[k]) /\ InOrder(got[l])
    /\ sent[got[k]].channel = sent[got[l]].channel
    => got[k] < got[l]

InChannels == Places /\ Classed /\ NothingReliableLost /\ ReliableFirst /\ ArrivalsInOrder

LEMMA InChannelsInit == WireInit => InChannels
<1> SUFFICES ASSUME WireInit PROVE InChannels
  OBVIOUS
<1>1. sent = << >> /\ got = << >> /\ flight = {}
  BY DEF WireInit
<1>2. Len(sent) = 0 /\ sent \in Seq(Nat) /\ got \in Seq(Nat) /\ DOMAIN got = {} /\ Len(got) = 0
  BY <1>1, EmptySeq
<1>3. Arrived = {}
  BY <1>2 DEF Arrived
<1> QED
  BY <1>1, <1>2, <1>3
     DEF InChannels, Places, Classed, NothingReliableLost, ReliableFirst, ArrivalsInOrder

\* Sending: the new packet is behind all others and has not arrived.
LEMMA InChannelsSend ==
  ASSUME InChannels, NEW app, NEW packet, Send(app, packet)
  PROVE  InChannels'
<1> DEFINE n == Len(sent) + 1
<1>1. PICK entry :
        /\ sent' = Append(sent, entry)
        /\ entry.packet = packet
        /\ entry.channel = Channel(link.server.sunshine, packet)
        /\ entry.delivery = Delivery(link.server.sunshine, packet)
  BY DEF Send
<1>2. flight' = flight \cup {n} /\ UNCHANGED <<link, got>>
  BY DEF Send
<1>3. PICK S : sent \in Seq(S)
  BY DEF InChannels, Places
<1>4. /\ Len(sent) \in Nat
      /\ sent' \in Seq(S \cup {entry}) /\ Len(sent') = n /\ sent'[n] = entry
      /\ \A i \in 1 .. Len(sent) : sent'[i] = sent[i]
  <2>1. sent \in Seq(S \cup {entry}) /\ Len(sent) \in Nat
    BY <1>3, SeqMonotonic, LenProperties
  <2> QED  BY <1>1, <2>1, AppendProperties
<1>5. Arrived' = Arrived
  BY <1>2 DEF Arrived
<1> HIDE DEF n
<1>6. n = Len(sent) + 1 /\ n \notin Arrived /\ n \notin flight
  BY <1>4 DEF n, InChannels, Places
<1>7. Places'
  <2>1. \E T : sent' \in Seq(T)
    BY <1>4
  <2>2. 1 .. Len(sent') = (1 .. Len(sent)) \cup {n}
    BY <1>4, <1>6
  <2> QED  BY <1>2, <1>5, <1>6, <2>1, <2>2 DEF InChannels, Places
<1>8. Classed'
  BY <1>1, <1>2, <1>4, <1>6 DEF InChannels, Classed
<1>9. NothingReliableLost'
  BY <1>2, <1>4, <1>5, <1>6 DEF InChannels, NothingReliableLost, SentReliable
<1>10. ReliableFirst'
  <2> SUFFICES ASSUME NEW j \in Arrived, NEW i \in 1 .. j - 1,
                      InOrder(j)', SentReliable(i)', sent'[i].channel = sent'[j].channel
               PROVE  i \notin flight'
    BY <1>5 DEF ReliableFirst
  <2>1. j \in 1 .. Len(sent) /\ i \in 1 .. Len(sent) /\ i # n
    BY <1>4, <1>6 DEF InChannels, Places
  <2>2. i \notin flight
    BY <1>4, <2>1 DEF InChannels, ReliableFirst, InOrder, SentReliable
  <2> QED  BY <1>2, <2>1, <2>2
<1>11. ArrivalsInOrder'
  <2>1. \A k \in 1 .. Len(got) : got[k] \in 1 .. Len(sent)
    BY LenProperties DEF InChannels, Places, Arrived
  <2> QED  BY <1>2, <1>4, <2>1 DEF InChannels, ArrivalsInOrder, InOrder
<1> QED  BY <1>7, <1>8, <1>9, <1>10, <1>11 DEF InChannels

LEMMA InChannelsLose ==
  ASSUME InChannels, NEW i \in flight, Lose(i)
  PROVE  InChannels'
<1>1. flight' = flight \ {i} /\ UNCHANGED <<link, sent, got>> /\ ~SentReliable(i)
  BY DEF Lose, SentReliable
<1>2. Arrived' = Arrived
  BY <1>1 DEF Arrived
<1> QED
  BY <1>1, <1>2
     DEF InChannels, Places, Classed, NothingReliableLost, ReliableFirst, ArrivalsInOrder,
         SentReliable, InOrder

\* What arrives has nothing reliable before it, and nothing after it has arrived.
LEMMA InChannelsDeliver ==
  ASSUME InChannels, NEW i \in flight, Deliver(i)
  PROVE  InChannels'
<1>1. flight' = flight \ {i} /\ got' = Append(got, i) /\ UNCHANGED <<link, sent>>
  BY DEF Deliver
<1>2. /\ got \in Seq(Nat) /\ Len(got) \in Nat /\ DOMAIN got = 1 .. Len(got)
      /\ i \in Nat /\ i \in 1 .. Len(sent) /\ i \notin Arrived
  BY LenProperties DEF InChannels, Places
<1>3. /\ got' \in Seq(Nat) /\ Len(got') = Len(got) + 1 /\ got'[Len(got) + 1] = i
      /\ \A k \in 1 .. Len(got) : got'[k] = got[k]
      /\ DOMAIN got' = 1 .. Len(got) + 1
  BY <1>1, <1>2, AppendProperties, LenProperties
<1>4. Arrived' = Arrived \cup {i}
  <2>1. Arrived = {got[k] : k \in 1 .. Len(got)}
    BY <1>2 DEF Arrived
  <2>2. Arrived' = {got'[k] : k \in 1 .. Len(got) + 1}
    BY <1>3 DEF Arrived
  <2>3. 1 .. Len(got) + 1 = (1 .. Len(got)) \cup {Len(got) + 1}
    BY <1>2
  <2>4. Arrived' = {got'[k] : k \in 1 .. Len(got)} \cup {got'[Len(got) + 1]}
    BY <2>2, <2>3
  <2>5. {got'[k] : k \in 1 .. Len(got)} = {got[k] : k \in 1 .. Len(got)}
    BY <1>3
  <2> QED  BY <1>3, <2>1, <2>4, <2>5
<1>5. DOMAIN sent = 1 .. Len(sent) /\ Len(sent) \in Nat
  BY LenProperties DEF InChannels, Places
<1>6. \A j \in 1 .. Len(sent) :
        j < i /\ InOrder(i) /\ SentReliable(j) /\ sent[j].channel = sent[i].channel => j \notin flight
  <2> SUFFICES ASSUME NEW j \in 1 .. Len(sent), j < i, InOrder(i), SentReliable(j),
                      sent[j].channel = sent[i].channel
               PROVE  j \notin flight
    OBVIOUS
  <2>1. j \in SameChannel(i)
    BY <1>5 DEF SameChannel
  <2>2. sent[i].delivery \in {"Reliable", "Sequenced", "Unreliable"}
    BY <1>2 DEF InChannels, Classed, Delivery
  <2> QED  BY <2>1, <2>2 DEF Deliver, MayArrive, InOrder, SentReliable
<1>7. \A j \in Arrived : InOrder(i) /\ InOrder(j) /\ sent[j].channel = sent[i].channel => j < i
  <2> SUFFICES ASSUME NEW j \in Arrived, InOrder(i), InOrder(j), sent[j].channel = sent[i].channel,
                      ~(j < i)
               PROVE  FALSE
    OBVIOUS
  <2>1. j \in 1 .. Len(sent) /\ j > i
    BY <1>2, <1>5 DEF InChannels, Places
  <2>2. j \in SameChannel(i)
    BY <1>5, <2>1 DEF SameChannel
  <2>3. sent[i].delivery \in {"Reliable", "Sequenced"}
    BY <1>2 DEF InChannels, Classed, Delivery, InOrder
  <2>4. CASE sent[i].delivery = "Reliable"
    BY <1>2, <2>1, <2>4 DEF InChannels, ReliableFirst, SentReliable
  <2>5. CASE sent[i].delivery = "Sequenced"
    BY <2>1, <2>2, <2>5 DEF Deliver, MayArrive, InOrder
  <2> QED  BY <2>3, <2>4, <2>5
<1>8. Places'
  BY <1>1, <1>2, <1>3, <1>4 DEF InChannels, Places
<1>9. Classed'
  BY <1>1 DEF InChannels, Classed
<1>10. NothingReliableLost'
  BY <1>1, <1>4 DEF InChannels, NothingReliableLost, SentReliable
<1>11. ReliableFirst'
  <2> SUFFICES ASSUME NEW j \in Arrived \cup {i}, NEW m \in 1 .. j - 1,
                      InOrder(j), SentReliable(m), sent[m].channel = sent[j].channel
               PROVE  m \notin flight
    BY <1>1, <1>4 DEF ReliableFirst, InOrder, SentReliable
  <2>1. m \in 1 .. Len(sent) /\ m < j
    BY <1>2, <1>5 DEF InChannels, Places
  <2>2. CASE j \in Arrived
    BY <2>2 DEF InChannels, ReliableFirst
  <2>3. CASE j = i
    BY <1>6, <2>1, <2>3
  <2> QED  BY <2>2, <2>3
<1>12. ArrivalsInOrder'
  <2> SUFFICES ASSUME NEW k \in 1 .. Len(got) + 1, NEW l \in 1 .. Len(got) + 1, k < l,
                      InOrder(got'[k]), InOrder(got'[l]),
                      sent[got'[k]].channel = sent[got'[l]].channel
               PROVE  got'[k] < got'[l]
    BY <1>1, <1>3 DEF ArrivalsInOrder, InOrder
  <2>1. k \in 1 .. Len(got) /\ got'[k] = got[k] /\ got[k] \in Arrived
    BY <1>2, <1>3 DEF Arrived
  <2>2. CASE l \in 1 .. Len(got)
    BY <1>3, <2>1, <2>2 DEF InChannels, ArrivalsInOrder
  <2>3. CASE l = Len(got) + 1
    BY <1>3, <1>7, <2>1, <2>3
  <2> QED  BY <1>2, <2>2, <2>3
<1> QED  BY <1>8, <1>9, <1>10, <1>11, <1>12 DEF InChannels

LEMMA InChannelsStep == InChannels /\ [WireNext]_WireVars => InChannels'
<1> SUFFICES ASSUME InChannels, [WireNext]_WireVars PROVE InChannels'
  OBVIOUS
<1>1. CASE SendBound \/ SendNative
  BY <1>1, InChannelsSend DEF SendBound, SendNative
<1>2. ASSUME NEW i \in flight, Lose(i) PROVE InChannels'
  BY <1>2, InChannelsLose
<1>3. CASE DeliverReliable \/ DeliverOther
  BY <1>3, InChannelsDeliver DEF DeliverReliable, DeliverOther
<1>4. CASE UNCHANGED WireVars
  BY <1>4
     DEF WireVars, InChannels, Places, Arrived, Classed, NothingReliableLost, ReliableFirst,
         ArrivalsInOrder, SentReliable, InOrder
<1> QED  BY <1>1, <1>2, <1>3, <1>4 DEF WireNext

-----------------------------------------------------------------------------

\* All updates of one controller share a channel of ENet in order, and its
\* arrival is reliable.
LEMMA ChannelsKeepUpdatesInOrder == InChannels => ControllerUpdatesInOrder
<1> SUFFICES ASSUME InChannels,
                    NEW k \in DOMAIN got, NEW c \in Controllers, OfController(got[k], c)
             PROVE  /\ \A l \in DOMAIN got : k < l /\ OfController(got[l], c) => got[k] < got[l]
                    /\ \A i \in 1 .. got[k] - 1 :
                         sent[i].packet.kind = "ControllerArrival" /\ OfController(i, c) =>
                           \E l \in 1 .. k : got[l] = i
  BY DEF ControllerUpdatesInOrder
<1>1. /\ DOMAIN got = 1 .. Len(got) /\ Len(got) \in Nat /\ Len(sent) \in Nat
      /\ \A l \in DOMAIN got : got[l] \in Arrived /\ got[l] \in 1 .. Len(sent)
  BY LenProperties DEF InChannels, Places, Arrived
<1>2. ASSUME NEW i \in 1 .. Len(sent), OfController(i, c)
      PROVE  /\ InOrder(i)
             /\ sent[i].packet.kind = "ControllerArrival" => SentReliable(i)
             /\ sent[i].channel = sent[got[k]].channel
  <2>1. sent[i].delivery = Delivery(link.server.sunshine, sent[i].packet)
        /\ sent[i].channel = Channel(link.server.sunshine, sent[i].packet)
        /\ sent[got[k]].channel = Channel(link.server.sunshine, sent[got[k]].packet)
    BY <1>1 DEF InChannels, Classed
  <2>2. Channel(link.server.sunshine, sent[i].packet)
          = Channel(link.server.sunshine, sent[got[k]].packet)
    BY <1>2, ControllerOnOneChannel DEF OfController
  <2> QED  BY <1>2, <2>1, <2>2, ControllerDelivery DEF OfController, InOrder, SentReliable
<1>3. ASSUME NEW l \in DOMAIN got, k < l, OfController(got[l], c) PROVE got[k] < got[l]
  BY <1>1, <1>2, <1>3 DEF InChannels, ArrivalsInOrder
<1>4. ASSUME NEW i \in 1 .. got[k] - 1, sent[i].packet.kind = "ControllerArrival",
             OfController(i, c)
      PROVE  \E l \in 1 .. k : got[l] = i
  <2>1. i \in 1 .. Len(sent) /\ i < got[k]
    BY <1>1
  <2>2. InOrder(i) /\ InOrder(got[k]) /\ SentReliable(i) /\ sent[i].channel = sent[got[k]].channel
    BY <1>1, <1>2, <1>4, <2>1
  <2>3. i \in Arrived
    BY <1>1, <2>1, <2>2 DEF InChannels, ReliableFirst, NothingReliableLost
  <2>4. PICK l \in 1 .. Len(got) : got[l] = i
    BY <1>1, <2>3 DEF Arrived
  <2>5. ~(k < l)
    BY <1>1, <2>1, <2>2, <2>4 DEF InChannels, ArrivalsInOrder
  <2> QED  BY <1>1, <2>4, <2>5
<1> QED  BY <1>3, <1>4

\* An old state of a controller does not replace a newer one, and no state of a
\* controller overtakes its arrival (packet.rs, channel).
THEOREM ControllersInOrder == WireSpec => []ControllerUpdatesInOrder
<1>1. WireSpec => []InChannels
  BY InChannelsInit, InChannelsStep, PTL DEF WireSpec
<1> QED  BY <1>1, ChannelsKeepUpdatesInOrder, PTL

-----------------------------------------------------------------------------
(* What is sent is read.                                                   *)

\* What a program gives to its bindings, and the packet sent for it.
Offers == { <<app, ToNative(app)>> : app \in BoundPackets } \cup { <<None, NumpadEnter>> }

\* The packet received is the one sent, and shown to the program as it was given.
AsSent(app, packet, received) ==
  /\ received \notin {None, Panic}
  /\ Told(received) = Told(ReadBack(packet))
  /\ app # None /\ ~MetadataIgnored(packet) /\ ~Cut(app) =>
       Told(FromNative(received)) = Told([kind |-> app.kind, n |-> app.n, fields |-> app.fields])

\* What the tables of the two sides make of single packets, without encryption:
\* each that can be sent on the link at all is written to bytes that are read as it.
TablesAgree ==
  \A offer \in Offers :
    LET bytes == Serialize(Packets, offer[2]) IN
    Direction(Type(offer[2].kind)) = Outgoing(link.role) /\ bytes # None =>
      /\ bytes # Panic
      /\ Size(bytes) \in Nat
      /\ AsSent(offer[1], offer[2],
                Deserialize(Incoming(Peer(link.role)), link.server.sunshine, Packets, bytes))

Readable(i) == AsSent(sent[i].app, sent[i].packet, Received(i))

AllReadable ==
  /\ Places
  /\ link.role \in Roles
  /\ TablesAgree
  /\ \A i \in 1 .. Len(sent) : Readable(i)

\* What a side seals with any number its peer opens: they take the functions
\* for the same direction, and the IV depends on nothing else but the number.
LEMMA SealedOpens ==
  ASSUME link.role \in Roles, NEW bytes, Size(bytes) \in Nat
  PROVE  Opened(Sealed(bytes)) = bytes
<1>1. Incoming(Peer(link.role)) = Outgoing(link.role)
  BY DEF Roles, Incoming, Peer, Outgoing
<1>2. CASE ~Encrypted
  BY <1>2 DEF Opened, Sealed
<1>3. CASE Encrypted
  <2> DEFINE datagram == Encrypt(Outgoing(link.role), send_sequence_number, bytes)
  <2>1. /\ datagram.ty = 1 /\ datagram.len = SubLen + Size(bytes) /\ datagram.payload = bytes
        /\ datagram.seq = send_sequence_number
        /\ datagram.iv = GenerateIv(Outgoing(link.role), send_sequence_number)
    BY DEF Encrypt
  <2> HIDE DEF datagram
  <2>2. SubLen = 20
    BY DEF SubLen
  <2>3. datagram.len >= SubLen /\ Size(bytes) = datagram.len - SubLen
    BY <2>1, <2>2
  <2>4. Decrypt(Incoming(Peer(link.role)), datagram) = bytes
    BY <1>1, <2>1, <2>3 DEF Decrypt
  <2> QED  BY <1>3, <2>4 DEF Opened, Sealed, datagram
<1> QED  BY <1>2, <1>3

\* A packet that is sent can be read from what is on the wire.
LEMMA SentReadable ==
  ASSUME AllReadable, NEW offer \in Offers, Send(offer[1], offer[2])
  PROVE  \E entry :
           /\ sent' = Append(sent, entry)
           /\ AsSent(entry.app, entry.packet,
                LET plain == IF entry.wire = Panic THEN Panic ELSE Opened(entry.wire) IN
                IF plain \in {None, Panic} THEN plain
                ELSE Deserialize(Incoming(Peer(link.role)), link.server.sunshine, Packets, plain))
<1> DEFINE bytes == Serialize(Packets, offer[2])
           entry == [app |-> offer[1], packet |-> offer[2],
                     channel |-> Channel(link.server.sunshine, offer[2]),
                     delivery |-> Delivery(link.server.sunshine, offer[2]),
                     wire |-> IF bytes = Panic THEN Panic ELSE Sealed(bytes)]
           Read(x) == Deserialize(Incoming(Peer(link.role)), link.server.sunshine, Packets, x)
<1>1. sent' = Append(sent, entry) /\ Direction(Type(offer[2].kind)) = Outgoing(link.role) /\ bytes # None
  BY DEF Send
<1>2. bytes # Panic /\ Size(bytes) \in Nat /\ AsSent(offer[1], offer[2], Read(bytes))
  BY <1>1 DEF AllReadable, TablesAgree
<1>3. entry.app = offer[1] /\ entry.packet = offer[2] /\ entry.wire = Sealed(bytes)
  BY <1>2
<1> HIDE DEF bytes, Read, entry
<1>4. Opened(Sealed(bytes)) = bytes
  BY <1>2, SealedOpens DEF AllReadable
<1>5. Sealed(bytes) # Panic
  <2> SUFFICES ASSUME Sealed(bytes) = Panic PROVE FALSE
    OBVIOUS
  <2>1. CASE Encrypted
    <3>1. PICK s : s = Sealed(bytes) /\ s = Encrypt(Outgoing(link.role), send_sequence_number, bytes)
      BY <2>1 DEF Sealed
    <3>2. "ty" \in DOMAIN s
      BY <3>1 DEF Encrypt
    <3>3. "ty" \notin DOMAIN Panic
      BY DEF Panic
    <3> QED  BY <3>1, <3>2, <3>3
  <2>2. CASE ~Encrypted
    BY <1>2, <2>2 DEF Sealed
  <2> QED  BY <2>1, <2>2
<1>6. bytes \notin {None, Panic}
  BY <1>1, <1>2 DEF bytes
<1> QED  BY <1>1, <1>2, <1>3, <1>4, <1>5, <1>6 DEF Read

\* While the link and a packet stay what they are, so does what is read of it.
LEMMA SameReading ==
  ASSUME link' = link, NEW i, NEW j, sent'[i] = sent[j], Readable(j)
  PROVE  Readable(i)'
BY DEF Readable, AsSent, Received, ReadBack, MetadataIgnored, Opened, Decrypt, Encrypted, GenerateIv, Packets

LEMMA SameTables ==
  ASSUME link' = link, TablesAgree
  PROVE  TablesAgree'
BY DEF TablesAgree, AsSent, ReadBack, MetadataIgnored, Packets

LEMMA AllReadableSend ==
  ASSUME AllReadable, Places', NEW offer \in Offers, Send(offer[1], offer[2])
  PROVE  AllReadable'
<1>1. link' = link
  BY DEF Send
<1>2. PICK entry :
        /\ sent' = Append(sent, entry)
        /\ AsSent(entry.app, entry.packet,
             LET plain == IF entry.wire = Panic THEN Panic ELSE Opened(entry.wire) IN
             IF plain \in {None, Panic} THEN plain
             ELSE Deserialize(Incoming(Peer(link.role)), link.server.sunshine, Packets, plain))
  BY SentReadable
<1>3. PICK S : sent \in Seq(S)
  BY DEF AllReadable, Places
<1>4. /\ Len(sent) \in Nat
      /\ Len(sent') = Len(sent) + 1 /\ sent'[Len(sent) + 1] = entry
      /\ \A i \in 1 .. Len(sent) : sent'[i] = sent[i]
  <2>1. sent \in Seq(S \cup {entry}) /\ Len(sent) \in Nat
    BY <1>3, SeqMonotonic, LenProperties
  <2> QED  BY <1>2, <2>1, AppendProperties
<1>5. ASSUME NEW i \in 1 .. Len(sent') PROVE Readable(i)'
  <2>1. CASE i \in 1 .. Len(sent)
    BY <1>1, <1>4, <2>1, SameReading DEF AllReadable
  <2>2. CASE i = Len(sent) + 1
    <3>1. sent'[i] = entry
      BY <1>4, <2>2
    <3> QED
      BY <1>1, <1>2, <3>1
         DEF Readable, AsSent, Received, ReadBack, MetadataIgnored, Opened, Decrypt, Encrypted,
             GenerateIv, Packets
  <2> QED  BY <1>4, <2>1, <2>2
<1> QED  BY <1>1, <1>5, SameTables DEF AllReadable

LEMMA AllReadableStep == AllReadable /\ Places' /\ [WireNext]_WireVars => AllReadable'
<1> SUFFICES ASSUME AllReadable, Places', [WireNext]_WireVars PROVE AllReadable'
  OBVIOUS
<1>1. CASE SendBound
  <2>1. PICK app \in BoundPackets : Send(app, ToNative(app))
    BY <1>1 DEF SendBound
  <2>2. <<app, ToNative(app)>> \in Offers
    BY DEF Offers
  <2> QED  BY <2>1, <2>2, AllReadableSend
<1>2. CASE SendNative
  <2>1. Send(None, NumpadEnter)
    BY <1>2 DEF SendNative
  <2>2. <<None, NumpadEnter>> \in Offers
    BY DEF Offers
  <2> QED  BY <2>1, <2>2, AllReadableSend
<1>3. ASSUME UNCHANGED <<link, sent>> PROVE AllReadable'
  <2>1. \A i \in 1 .. Len(sent') : Readable(i)'
    BY <1>3, SameReading DEF AllReadable
  <2> QED  BY <1>3, <2>1, SameTables DEF AllReadable
<1>4. ASSUME NEW i \in flight, Lose(i) PROVE AllReadable'
  BY <1>3, <1>4 DEF Lose
<1>5. CASE DeliverReliable \/ DeliverOther
  BY <1>3, <1>5 DEF DeliverReliable, DeliverOther, Deliver
<1>6. CASE UNCHANGED WireVars
  BY <1>3, <1>6 DEF WireVars
<1> QED  BY <1>1, <1>2, <1>4, <1>5, <1>6 DEF WireNext

LEMMA AllReadableInit == WireInit /\ TablesAgree => AllReadable
<1> SUFFICES ASSUME WireInit, TablesAgree PROVE AllReadable
  OBVIOUS
<1>1. Places
  BY InChannelsInit DEF InChannels
<1>2. link.role \in Roles
  BY DEF WireInit
<1>3. Len(sent) = 0
  BY DEF WireInit
<1> QED  BY <1>1, <1>2, <1>3 DEF AllReadable

LEMMA AllReadableArrives == AllReadable => ArrivesAsSent
<1> SUFFICES ASSUME AllReadable, NEW k \in DOMAIN got PROVE Readable(got[k])
  BY DEF ArrivesAsSent, Readable, AsSent
<1>1. got[k] \in 1 .. Len(sent)
  BY DEF AllReadable, Places, Arrived
<1> QED  BY <1>1 DEF AllReadable

\* If the tables agree on every single packet, whatever arrives is read as it
\* was sent: in any sequence of packets, encrypted by either method with
\* whatever sequence number, behind any losses (ControlHost::send, the
\* encrypt_ and decrypt_ functions, and handle_events of the peer).
THEOREM ReadAsSent == WireSpec /\ TablesAgree => []ArrivesAsSent
<1>1. WireInit /\ TablesAgree => InChannels /\ AllReadable
  BY InChannelsInit, AllReadableInit
<1>2. InChannels /\ AllReadable /\ [WireNext]_WireVars => (InChannels /\ AllReadable)'
  <2> SUFFICES ASSUME InChannels, AllReadable, [WireNext]_WireVars PROVE (InChannels /\ AllReadable)'
    OBVIOUS
  <2>1. InChannels'
    BY InChannelsStep
  <2>2. Places'
    BY <2>1 DEF InChannels
  <2> QED  BY <2>1, <2>2, AllReadableStep
<1> QED  BY <1>1, <1>2, AllReadableArrives, PTL DEF WireSpec

-----------------------------------------------------------------------------
(* Numbers.                                                                *)

LEMMA Grows ==
  ASSUME NEW p \in Nat, NEW q \in Int, NEW r \in Int, q < r
  PROVE  (q + 1) * p <= r * p /\ (q + 1) * p = q * p + p
<1>1. PICK d \in Nat : r = q + 1 + d
  <2> r - (q + 1) \in Nat /\ r = q + 1 + (r - (q + 1))
    OBVIOUS
  <2> QED  OBVIOUS
<1>2. r * p = (q + 1) * p + d * p /\ d * p >= 0
  BY <1>1
<1>3. (q + 1) * p = q * p + p
  OBVIOUS
<1> QED  BY <1>2, <1>3

LEMMA TimesAtMost ==
  ASSUME NEW p \in Nat, NEW q \in Int, NEW r \in Int, q <= r
  PROVE  q * p <= r * p
<1>1. PICK d \in Nat : r = q + d
  <2>1. r - q \in Nat /\ r = q + (r - q)
    OBVIOUS
  <2> QED  BY <2>1
<1>2. r * p = q * p + d * p /\ d * p >= 0
  BY <1>1
<1> QED  BY <1>2

LEMMA DivBounds ==
  ASSUME NEW a \in Nat, NEW p \in Nat \ {0}
  PROVE  /\ a \div p \in Nat
         /\ (a \div p) * p <= a
         /\ a < (a \div p) * p + p
         /\ a % p = a - (a \div p) * p
  OBVIOUS

LEMMA Between ==
  ASSUME NEW a \in Int, NEW p \in Nat, NEW q \in Int, NEW r \in Int,
         q * p <= a, a < q * p + p, r * p <= a, a < r * p + p
  PROVE  q = r
<1>1. CASE q < r
  BY <1>1, Grows
<1>2. CASE r < q
  BY <1>2, Grows
<1> QED  BY <1>1, <1>2

LEMMA DivUnique ==
  ASSUME NEW a \in Nat, NEW p \in Nat \ {0}, NEW q \in Int, q * p <= a, a < q * p + p
  PROVE  a \div p = q /\ a % p = a - q * p
<1>1. a \div p = q
  BY DivBounds, Between
<1> QED  BY <1>1, DivBounds

LEMMA DivCeilBounds ==
  ASSUME NEW a \in Nat, NEW p \in Nat \ {0}
  PROVE  /\ DivCeil(a, p) \in Nat
         /\ a <= DivCeil(a, p) * p
         /\ DivCeil(a, p) * p < a + p
<1>1. a + p - 1 \in Nat
  OBVIOUS
<1>2. PICK b \in Nat : b = a + p - 1
  BY <1>1
<1>3. b \div p \in Nat /\ (b \div p) * p <= b /\ b < (b \div p) * p + p
  BY DivBounds
<1> QED  BY <1>2, <1>3 DEF DivCeil

LEMMA DivCeilUnique ==
  ASSUME NEW a \in Nat, NEW p \in Nat \ {0}, NEW q \in Int, a <= q * p, q * p < a + p
  PROVE  DivCeil(a, p) = q
<1>1. PICK b \in Nat : b = a + p - 1
  OBVIOUS
<1>2. b \div p = q
  BY <1>1, DivUnique
<1> QED  BY <1>1, <1>2 DEF DivCeil


\* A receiver counts as many parity packets as are generated.
LEMMA ParityAnnounced ==
  ASSUME NEW t \in 1 .. 100, fec_config \in [percent : Nat, min : Nat]
  PROVE  /\ ParityCount(t) \in Nat
         /\ Announced(t) \in Nat
         /\ ParityOf(t, Announced(t)) = ParityCount(t)
<1> PICK n \in Nat \ {0} : n = t /\ n <= 100
  OBVIOUS
<1> PICK c \in Nat : c = fec_config.percent
  OBVIOUS
<1> PICK m \in Nat : m = fec_config.min
  OBVIOUS
<1>1. n * c \in Nat
  OBVIOUS
<1>2. PICK o \in Nat : o = ParityOf(t, c)
  <2>1. PICK a \in Nat : a = t * c
    BY <1>1
  <2>2. 100 \in Nat \ {0}
    OBVIOUS
  <2>3. DivCeil(a, 100) \in Nat
    BY <2>2, DivCeilBounds
  <2> QED  BY <2>1, <2>3 DEF ParityOf
<1>3. /\ ParityCount(t) = IF o < m THEN m ELSE o
      /\ Announced(t) = IF o < m THEN (100 * m) \div n ELSE c
  BY <1>2 DEF ParityCount, Announced, Percentage
<1>4. CASE ~(o < m)
  BY <1>2, <1>3, <1>4
<1>5. CASE o < m
  <2>1. PICK a \in Nat : a = 100 * m
    OBVIOUS
  <2>2. PICK q \in Nat : q = a \div n
    BY DivBounds
  <2>3. q * n <= a /\ a < q * n + n
    BY <2>2, DivBounds
  <2>4. n * q \in Nat /\ n * q <= m * 100 /\ m * 100 < n * q + 100
    BY <2>1, <2>3
  <2>5. DivCeil(n * q, 100) = m
    BY <2>4, DivCeilUnique
  <2>6. ParityCount(t) = m /\ Announced(t) = q
    BY <1>3, <1>5, <2>1, <2>2
  <2> QED  BY <2>5, <2>6 DEF ParityOf
<1> QED  BY <1>4, <1>5

-----------------------------------------------------------------------------
(* Blocks.                                                                 *)

\* The data packets of a frame, and those of its block b.
Shards(len) == DivCeil(HeaderSize + len, PayloadLen)
ShardsOf(len, b) == Least(MaxShards, Shards(len) - b * MaxShards)

HeaderOf(b) == IF b = 0 THEN HeaderSize ELSE 0

LEMMA Constants ==
  PayloaderAssumption =>
    /\ HeaderSize \in Nat \ {0} /\ PayloadLen \in Nat \ {0} /\ HeaderSize <= PayloadLen
    /\ MaxShards \in Nat \ {0} /\ MaxShards <= 100
    /\ SeqModulus \in Nat \ {0} /\ BlockModulus \in Nat \ {0}
BY DEF PayloaderAssumption, MAX_DATA_SHARDS_PER_BLOCK

LEMMA FrameShards ==
  ASSUME PayloaderAssumption, NEW len \in Nat
  PROVE  /\ Shards(len) \in Nat \ {0}
         /\ HeaderSize + len <= Shards(len) * PayloadLen
         /\ Shards(len) * PayloadLen < HeaderSize + len + PayloadLen
         /\ Blocks(len) \in Nat \ {0}
         /\ Shards(len) <= Blocks(len) * MaxShards
         /\ Blocks(len) * MaxShards < Shards(len) + MaxShards
<1> USE Constants
<1>1. PICK full \in Nat : full = HeaderSize + len /\ full > 0
  OBVIOUS
<1>2. PICK d \in Nat : d = Shards(len)
  BY <1>1, DivCeilBounds DEF Shards
<1>3. full <= d * PayloadLen /\ d * PayloadLen < full + PayloadLen
  BY <1>1, <1>2, DivCeilBounds DEF Shards
<1>4. d # 0
  BY <1>1, <1>3
<1>5. PICK n \in Nat : n = Blocks(len)
  BY <1>2, DivCeilBounds DEF Shards, Blocks
<1>6. d <= n * MaxShards /\ n * MaxShards < d + MaxShards
  BY <1>2, <1>5, DivCeilBounds DEF Shards, Blocks
<1>7. n # 0
  BY <1>4, <1>6
<1> QED  BY <1>1, <1>2, <1>3, <1>4, <1>5, <1>6, <1>7

\* The bytes of a frame that go into a block are those from its start to its end
\* or that of the frame.
LEMMA BytesOfBlock ==
  ASSUME PayloaderAssumption, NEW len \in Nat, NEW b \in 0 .. Blocks(len) - 1
  PROVE  /\ BlockBytes(len, b) \in Seq(Int)
         /\ BlockStart(b) \in Nat
         /\ BlockStart(b) = b * MaxShards * PayloadLen - HeaderSize + HeaderOf(b)
         /\ BlockStart(b + 1) = (b + 1) * MaxShards * PayloadLen - HeaderSize
         /\ Len(BlockBytes(len, b)) = Least(BlockStart(b + 1), len) - BlockStart(b)
         /\ \A i \in 1 .. Len(BlockBytes(len, b)) : BlockBytes(len, b)[i] = BlockStart(b) + i
         /\ ShardsOf(len, b) \in 1 .. MaxShards
         /\ DivCeil(Len(BlockBytes(len, b)) + HeaderOf(b), PayloadLen) = ShardsOf(len, b)
<1> DEFINE H == HeaderSize
           P == PayloadLen
           M == MaxShards
           D == Shards(len)
           n == Blocks(len)
<1>0. H \in Nat \ {0} /\ P \in Nat \ {0} /\ H <= P /\ M \in Nat \ {0} /\ D \in Nat \ {0} /\ n \in Nat \ {0}
      /\ b \in Nat /\ b < n
  BY Constants, FrameShards
<1>size. H + len <= D * P /\ D * P < H + len + P /\ D <= n * M /\ n * M < D + M
  BY FrameShards
<1> HIDE DEF H, P, M, D, n
<1>1. b * M < D
  <2>1. (b + 1) * M <= n * M /\ (b + 1) * M = b * M + M
    BY <1>0, Grows
  <2>2. b * M \in Nat /\ n * M \in Nat
    BY <1>0
  <2> QED  BY <1>0, <1>size, <2>1, <2>2
<1>2. b * M * P < H + len
  <2>1. PICK d \in Nat : d = b * M
    BY <1>0
  <2>2. (d + 1) * P <= D * P /\ (d + 1) * P = d * P + P
    BY <1>0, <1>1, <2>1, Grows
  <2>3. d * P \in Nat /\ D * P \in Nat
    BY <1>0
  <2> QED  BY <1>0, <1>size, <2>1, <2>2, <2>3
<1>3. PICK s \in Nat : s = b * M * P
  BY <1>0
<1>4. PICK w \in Nat : w = M * P /\ P <= w
  <2>1. M * P \in Nat
    BY <1>0
  <2>2. CASE M = 1
    BY <1>0, <2>1, <2>2
  <2>3. CASE 1 < M
    BY <1>0, <2>1, <2>3, Grows
  <2> QED  BY <1>0, <2>1, <2>2, <2>3
<1>5. (b + 1) * M * P = s + w
  BY <1>0, <1>3, <1>4
<1>6. /\ b = 0 => s = 0
      /\ b # 0 => s >= w
  <2>1. CASE b = 0
    BY <1>0, <1>3, <2>1
  <2>2. CASE b # 0
    <3>1. PICK c \in Nat : b = c + 1
      <4> b - 1 \in Nat /\ b = (b - 1) + 1
        BY <1>0, <2>2
      <4> QED  OBVIOUS
    <3>2. s = c * w + w /\ c * w >= 0
      BY <1>0, <1>3, <1>4, <3>1
    <3> QED  BY <3>2, <2>2, <1>4
  <2> QED  BY <2>1, <2>2
<1>7. BlockStart(b + 1) = s + w - H
  <2>1. (b + 1) * P * M = (b + 1) * M * P
    BY <1>0
  <2> QED  BY <1>0, <1>5, <2>1 DEF BlockStart, H, P, M
<1>8. BlockStart(b) = IF b = 0 THEN 0 ELSE s - H
  <2>1. b * P * M = b * M * P
    BY <1>0
  <2> QED  BY <1>0, <1>3, <2>1 DEF BlockStart, H, P, M
<1>9. BlockStart(b) \in Nat /\ BlockStart(b) = s - H + HeaderOf(b) /\ HeaderOf(b) \in Nat
      /\ BlockStart(b + 1) \in Nat
  BY <1>0, <1>4, <1>6, <1>7, <1>8 DEF HeaderOf, H
<1>10. PICK a \in Nat : a = BlockStart(b)
  BY <1>9
<1>11. PICK z \in Nat : z = BlockStart(b + 1)
  BY <1>9
<1>12. PICK h \in Nat : h = HeaderOf(b)
  BY <1>9
<1>13. a = s - H + h /\ z = s + w - H /\ (b = 0 => a = 0) /\ (b # 0 => h = 0) /\ h <= H
  BY <1>0, <1>6, <1>7, <1>8, <1>9, <1>10, <1>11, <1>12 DEF HeaderOf, H
<1>14. PICK e \in Nat : e = Least(z, len)
  BY DEF Least
<1>end. e \in {z, len} /\ e <= z /\ e <= len
  BY <1>14 DEF Least
<1>15. a <= e
  <2>1. a <= z
    BY <1>0, <1>4, <1>13
  <2>2. a <= len
    BY <1>0, <1>2, <1>3, <1>13
  <2> QED  BY <1>end, <2>1, <2>2
<1> DEFINE bytes == BlockBytes(len, b)
<1>16. bytes \in Seq(Int) /\ Len(bytes) = e - a /\ (\A i \in 1 .. e - a : bytes[i] = a + i)
  <2>1. PICK f \in Seq(Int) : f = FrameBytes(len) /\ Len(f) = len /\ \A i \in 1 .. len : f[i] = i
    <3>1. /\ FrameBytes(len) \in Seq(Int) /\ Len(FrameBytes(len)) = len
          /\ \A i \in 1 .. len : FrameBytes(len)[i] = i
      BY DEF FrameBytes
    <3> QED  BY <3>1
  <2>2. PICK m \in Nat \ {0} : m = a + 1
    OBVIOUS
  <2>3. m \in 1 .. Len(f) + 1 /\ e \in m - 1 .. Len(f)
    BY <1>15, <1>end, <2>1, <2>2
  <2>4. /\ SubSeq(f, m, e) \in Seq(Int)
        /\ Len(SubSeq(f, m, e)) = e - m + 1
        /\ \A i \in 1 .. e - m + 1 : SubSeq(f, m, e)[i] = f[m + i - 1]
    <3>1. \A i \in m .. e : f[i] \in Int
      BY <2>3
    <3>2. e - m + 1 = IF m <= e THEN e - m + 1 ELSE 0
      BY <2>3
    <3> QED  BY <3>1, <3>2, SubSeqProperties
  <2>5. bytes = SubSeq(f, m, e)
    BY <1>10, <1>11, <1>14, <2>1, <2>2 DEF BlockBytes
  <2>6. e - m + 1 = e - a
    BY <2>2
  <2>7. ASSUME NEW i \in 1 .. e - a PROVE bytes[i] = a + i
    <3>1. bytes[i] = f[m + i - 1]
      BY <2>4, <2>5, <2>6
    <3>2. m + i - 1 = a + i /\ a + i \in 1 .. len
      BY <1>15, <1>end, <2>2
    <3> QED  BY <2>1, <3>1, <3>2
  <2> QED  BY <2>4, <2>5, <2>6, <2>7
<1> HIDE DEF bytes
<1>17. PICK x \in Nat : x = Len(bytes) + h /\ x = e - s + H
  <2>1. Len(bytes) + h = e - s + H /\ Len(bytes) + h \in Nat
    BY <1>0, <1>13, <1>15, <1>16
  <2> QED  BY <2>1
<1>gap. PICK g \in Int : g = D - b * M /\ ShardsOf(len, b) = IF M <= g THEN M ELSE g
  BY <1>0 DEF ShardsOf, Least, D, M
<1>goal. SUFFICES DivCeil(x, P) = (IF M <= g THEN M ELSE g) /\ g > 0
  <2>1. ShardsOf(len, b) \in 1 .. MaxShards
    BY <1>0, <1>gap, <1>goal DEF M
  <2>2. DivCeil(Len(bytes) + HeaderOf(b), PayloadLen) = ShardsOf(len, b)
    BY <1>12, <1>17, <1>gap, <1>goal DEF P
  <2>3. BlockStart(b) = b * MaxShards * PayloadLen - HeaderSize + HeaderOf(b)
    BY <1>3, <1>10, <1>12, <1>13 DEF P, M, H
  <2>4. BlockStart(b + 1) = (b + 1) * MaxShards * PayloadLen - HeaderSize
    BY <1>5, <1>11, <1>13 DEF P, M, H
  <2> QED  BY <1>10, <1>11, <1>14, <1>16, <2>1, <2>2, <2>3, <2>4 DEF bytes
<1>positive. g > 0
  BY <1>0, <1>1, <1>gap
<1>18. CASE s + w <= H + len
  <2>0. e = z
    BY <1>0, <1>13, <1>end, <1>18
  <2>1. x = M * P
    BY <1>0, <1>4, <1>13, <1>17, <2>0
  <2>2. DivCeil(x, P) = M
    BY <1>0, <2>1, DivCeilUnique
  <2>3. M <= g
    <3>1. (b + 1) * M * P <= D * P
      BY <1>0, <1>5, <1>18, <1>size
    <3>2. PICK d \in Nat : d = (b + 1) * M
      BY <1>0
    <3>3. ~(D < d)
      <4>1. D * P \in Nat /\ d * P \in Nat
        BY <1>0
      <4> QED  BY <3>1, <3>2, <1>0, Grows, <4>1
    <3>4. (b + 1) * M = b * M + M
      BY <1>0
    <3> QED  BY <3>2, <3>3, <3>4, <1>0, <1>gap
  <2> QED  BY <1>positive, <2>2, <2>3
<1>19. CASE H + len < s + w
  <2>1. e = len /\ x = H + len - s
    <3>1. e = len
      BY <1>0, <1>13, <1>end, <1>19
    <3> QED  BY <1>0, <1>17, <3>1
  <2>2. PICK d \in Nat : d = g
    BY <1>positive
  <2>3. d * P = D * P - s /\ d * P \in Nat
    BY <1>0, <1>3, <1>gap, <2>2
  <2>4. DivCeil(x, P) = d
    BY <1>0, <1>size, <2>1, <2>3, DivCeilUnique
  <2>5. d <= M
    <3>1. d * P < M * P + P
      <4>1. PICK u \in Nat : u = d * P
        BY <2>3
      <4>2. PICK v \in Nat : v = D * P
        BY <1>0
      <4>3. u < w + P
        BY <1>0, <1>size, <1>19, <2>3, <4>1, <4>2
      <4> QED  BY <1>4, <4>1, <4>3
    <3>2. ~(M < d)
      <4>1. M * P \in Nat
        BY <1>0
      <4> QED  BY <3>1, <1>0, <4>1, <2>3, Grows
    <3> QED  BY <3>2, <1>0
  <2> QED  BY <1>0, <1>positive, <2>2, <2>4, <2>5
<1>20. s + w \in Nat /\ H + len \in Nat
  BY <1>0
<1> QED  BY <1>18, <1>19, <1>20

-----------------------------------------------------------------------------
(* Payloads.                                                               *)

LEMMA Padded ==
  ASSUME NEW bytes \in Seq(Int), NEW n \in Nat, Len(bytes) <= n
  PROVE  /\ \A i \in 1 .. Len(bytes) : PadTo(bytes, n)[i] = bytes[i]
         /\ \A i \in Len(bytes) + 1 .. n : PadTo(bytes, n)[i] = PadByte
<1>1. PICK pad \in Seq(Int) :
        /\ pad = Repeated(PadByte, n - Len(bytes)) /\ Len(pad) = n - Len(bytes)
        /\ \A i \in 1 .. n - Len(bytes) : pad[i] = PadByte
  <2>1. n - Len(bytes) \in Nat
    OBVIOUS
  <2>2. PICK m \in Nat : m = n - Len(bytes)
    BY <2>1
  <2>3. /\ Repeated(PadByte, m) \in Seq(Int) /\ Len(Repeated(PadByte, m)) = m
        /\ \A i \in 1 .. m : Repeated(PadByte, m)[i] = PadByte
    BY DEF Repeated, PadByte
  <2> QED  BY <2>2, <2>3
<1>2. \A i \in 1 .. Len(bytes) + Len(pad) :
        (bytes \o pad)[i] = IF i <= Len(bytes) THEN bytes[i] ELSE pad[i - Len(bytes)]
  BY ConcatProperties
<1>3. Len(bytes) \in Nat /\ Len(pad) \in Nat
  OBVIOUS
<1>4. ASSUME NEW i \in Len(bytes) + 1 .. n PROVE (bytes \o pad)[i] = PadByte
  <2>1. i \in 1 .. Len(bytes) + Len(pad) /\ ~(i <= Len(bytes)) /\ i - Len(bytes) \in 1 .. n - Len(bytes)
    BY <1>1, <1>3
  <2>2. (bytes \o pad)[i] = pad[i - Len(bytes)]
    BY <1>2, <2>1
  <2> QED  BY <1>1, <2>1, <2>2
<1> QED  BY <1>1, <1>2, <1>3, <1>4 DEF PadTo

\* Byte n of what is cut into chunks is in chunk n \div PayloadLen, from zero, and
\* padding after the last.
LEMMA Chunked ==
  ASSUME PayloadLen \in Nat \ {0}, NEW bytes \in Seq(Int)
  PROVE  /\ Len(Chunks(bytes)) = DivCeil(Len(bytes), PayloadLen)
         /\ DOMAIN Chunks(bytes) = 1 .. DivCeil(Len(bytes), PayloadLen)
         /\ Chunks(bytes) \in Seq({ Chunks(bytes)[k] : k \in 1 .. DivCeil(Len(bytes), PayloadLen) })
         /\ \A k \in 1 .. DivCeil(Len(bytes), PayloadLen) : \A j \in 1 .. PayloadLen :
              Chunks(bytes)[k][j] = IF (k - 1) * PayloadLen + j <= Len(bytes)
                                    THEN bytes[(k - 1) * PayloadLen + j] ELSE PadByte
<1> DEFINE P == PayloadLen
<1>1. PICK l \in Nat : l = Len(bytes)
  OBVIOUS
<1>2. PICK d \in Nat : d = DivCeil(l, P)
  BY DivCeilBounds
<1>3. l <= d * P /\ d * P < l + P
  BY <1>2, DivCeilBounds
<1>4. /\ Chunks(bytes) \in Seq({ Chunks(bytes)[k] : k \in 1 .. d })
      /\ Len(Chunks(bytes)) = d /\ DOMAIN Chunks(bytes) = 1 .. d
  <2>1. PICK c : c = Chunks(bytes)
    OBVIOUS
  <2>2. DOMAIN c = 1 .. d /\ c = [k \in 1 .. d |-> c[k]]
    BY <1>1, <1>2, <2>1 DEF Chunks
  <2>3. c \in [1 .. d -> { c[k] : k \in 1 .. d }]
    BY <2>2
  <2> QED  BY <2>1, <2>3
<1>5. ASSUME NEW k \in 1 .. d, NEW j \in 1 .. P
      PROVE  Chunks(bytes)[k][j] = IF (k - 1) * P + j <= l THEN bytes[(k - 1) * P + j] ELSE PadByte
  <2>1. PICK o \in Nat : o = (k - 1) * P
    <3> k - 1 \in Nat
      OBVIOUS
    <3> QED  OBVIOUS
  <2>2. k * P = o + P
    BY <2>1
  <2>3. PICK e \in Nat : e = Least(k * P, l) /\ e = IF o + P <= l THEN o + P ELSE l
    BY <2>1, <2>2 DEF Least
  <2>last. o < l
    <3>1. (k - 1) * P <= (d - 1) * P /\ (d - 1) * P = d * P - P
      <4>1. PICK c \in Nat : c = k - 1 /\ c <= d - 1
        OBVIOUS
      <4>2. PICK g \in Nat : g = d - 1
        BY <4>1
      <4>3. c * P <= g * P
        BY <4>1, <4>2, TimesAtMost
      <4>4. (d - 1) * P = d * P - P
        OBVIOUS
      <4> QED  BY <4>1, <4>2, <4>3, <4>4
    <3>2. PICK y \in Nat : y = d * P
      OBVIOUS
    <3> QED  BY <1>3, <2>1, <3>1, <3>2
  <2>4. /\ e <= l /\ e <= o + P /\ o + j \in Nat /\ o < e
        /\ (o + j <= l <=> o + j <= e)
    BY <2>1, <2>3, <2>last
  <2>5. PICK m \in Nat : m = o + 1
    OBVIOUS
  <2>6. \A i \in m .. e : bytes[i] \in Int
    BY <1>1, <2>4, <2>5
  <2>7. PICK part \in Seq(Int) :
          /\ part = SubSeq(bytes, m, e)
          /\ Len(part) = e - o
          /\ \A i \in 1 .. e - o : part[i] = bytes[o + i]
    <3>1. /\ SubSeq(bytes, m, e) \in Seq(Int)
          /\ Len(SubSeq(bytes, m, e)) = (IF m <= e THEN e - m + 1 ELSE 0)
          /\ \A i \in 1 .. e - m + 1 : SubSeq(bytes, m, e)[i] = bytes[m + i - 1]
      BY <2>6, SubSeqProperties
    <3>2. e - m + 1 = e - o /\ m <= e
      BY <2>4, <2>5
    <3>3. \A i \in 1 .. e - o : m + i - 1 = o + i
      BY <2>5
    <3>4. Len(SubSeq(bytes, m, e)) = e - o
      BY <3>1, <3>2
    <3>5. \A i \in 1 .. e - o : SubSeq(bytes, m, e)[i] = bytes[o + i]
      <4>1. \A i \in 1 .. e - o : SubSeq(bytes, m, e)[i] = bytes[m + i - 1]
        BY <3>1, <3>2
      <4> QED  BY <3>3, <4>1
    <3>6. SubSeq(bytes, m, e) \in Seq(Int)
      BY <3>1
    <3> WITNESS SubSeq(bytes, m, e) \in Seq(Int)
    <3> QED  BY <3>4, <3>5
  <2>8. PadTo(part, P)[j] = IF o + j <= l THEN bytes[o + j] ELSE PadByte
    <3>1. PICK x \in Nat : x = e - o /\ x = Len(part) /\ x <= P
      BY <2>4, <2>7
    <3>2. /\ \A i \in 1 .. x : PadTo(part, P)[i] = part[i]
          /\ \A i \in x + 1 .. P : PadTo(part, P)[i] = PadByte
      <4>1. Len(part) <= P /\ P \in Nat
        BY <3>1
      <4>2. \A i \in 1 .. Len(part) : PadTo(part, P)[i] = part[i]
        BY <4>1, Padded
      <4>3. \A i \in Len(part) + 1 .. P : PadTo(part, P)[i] = PadByte
        BY <4>1, Padded
      <4> QED  BY <3>1, <4>2, <4>3
    <3>3. CASE o + j <= l
      <4>1. j \in 1 .. x
        BY <2>4, <3>1, <3>3
      <4> QED  BY <2>7, <3>1, <3>2, <3>3, <4>1
    <3>4. CASE ~(o + j <= l)
      <4>1. j \in x + 1 .. P
        BY <2>4, <3>1, <3>4
      <4> QED  BY <3>2, <3>4, <4>1
    <3> QED  BY <3>3, <3>4
  <2>9. Chunks(bytes)[k] = PadTo(part, P)
    BY <1>1, <1>2, <2>1, <2>3, <2>5, <2>7 DEF Chunks
  <2> QED  BY <2>1, <2>8, <2>9
<1> QED  BY <1>1, <1>2, <1>4, <1>5

\* The payloads of block b when it holds these bytes of the frame.
PayloadsOf(b, bytes) == IF b = 0 THEN HeaderFirst(bytes) ELSE Chunks(bytes)

\* A block with the header whose first packet is full, or without: byte n of its
\* header and bytes is in payload n \div PayloadLen, from zero, and padding after them.
LEMMA PayloadsFit ==
  ASSUME PayloaderAssumption, NEW b \in Nat, NEW bytes \in Seq(Int),
         b = 0 => Len(bytes) >= PayloadLen
  PROVE  /\ Len(PayloadsOf(b, bytes)) = DivCeil(Len(bytes) + HeaderOf(b), PayloadLen)
         /\ \A k \in 1 .. Len(PayloadsOf(b, bytes)) : \A j \in 1 .. PayloadLen :
              HeaderOf(b) < (k - 1) * PayloadLen + j
              => PayloadsOf(b, bytes)[k][j] =
                   IF (k - 1) * PayloadLen + j <= HeaderOf(b) + Len(bytes)
                   THEN bytes[(k - 1) * PayloadLen + j - HeaderOf(b)] ELSE PadByte
<1> DEFINE P == PayloadLen
           H == HeaderSize
<1>0. P \in Nat \ {0} /\ H \in Nat \ {0} /\ H <= P
  BY Constants
<1> HIDE DEF P, H
<1>1. CASE b # 0
  <2>1. PayloadsOf(b, bytes) = Chunks(bytes) /\ HeaderOf(b) = 0
    BY <1>1 DEF PayloadsOf, HeaderOf
  <2>2. PICK d \in Nat : d = DivCeil(Len(bytes), PayloadLen)
    BY <1>0, DivCeilBounds DEF P
  <2>3. /\ Len(Chunks(bytes)) = d
        /\ \A k \in 1 .. d : \A j \in 1 .. PayloadLen :
              Chunks(bytes)[k][j] = IF (k - 1) * PayloadLen + j <= Len(bytes)
                                    THEN bytes[(k - 1) * PayloadLen + j] ELSE PadByte
    BY <1>0, <2>2, Chunked DEF P
  <2>4. Len(bytes) + 0 = Len(bytes)
    OBVIOUS
  <2>5. ASSUME NEW k \in 1 .. d, NEW j \in 1 .. PayloadLen
        PROVE  Chunks(bytes)[k][j] = IF (k - 1) * PayloadLen + j <= 0 + Len(bytes)
                                     THEN bytes[(k - 1) * PayloadLen + j - 0] ELSE PadByte
    <3>1. PICK n \in Int : n = (k - 1) * PayloadLen + j
      BY <1>0 DEF P
    <3>2. n - 0 = n /\ 0 + Len(bytes) = Len(bytes)
      BY <3>1
    <3>3. Chunks(bytes)[k][j] = IF n <= Len(bytes) THEN bytes[n] ELSE PadByte
      BY <2>3, <3>1
    <3> QED  BY <3>1, <3>2, <3>3
  <2> QED  BY <2>1, <2>2, <2>3, <2>4, <2>5
<1>2. CASE b = 0
  <2>1. PICK l \in Nat : l = Len(bytes) /\ P <= l
    BY <1>2 DEF P
  <2>2. PICK f \in Nat : f = P - H /\ f <= l
    BY <1>0, <2>1
  <2>3. AtLeastZero(Least(PayloadLen, Len(bytes)) - HeaderSize) = f
    BY <1>0, <2>1, <2>2 DEF AtLeastZero, Least, P, H
  <2>4. PICK rest : rest = SubSeq(bytes, f + 1, Len(bytes))
    OBVIOUS
  <2>length. PICK x \in Nat : x = l - f
    BY <2>2
  <2>rest. rest \in Seq(Int) /\ Len(rest) = x /\ (\A i \in 1 .. x : rest[i] = bytes[f + i])
    <3>1. PICK m \in Nat : m = f + 1
      OBVIOUS
    <3>2. \A i \in m .. l : bytes[i] \in Int
      BY <2>1, <3>1
    <3>3. rest = SubSeq(bytes, m, l)
      BY <2>1, <2>4, <3>1
    <3>4. /\ rest \in Seq(Int)
          /\ Len(rest) = (IF m <= l THEN l - m + 1 ELSE 0)
          /\ \A i \in 1 .. l - m + 1 : rest[i] = bytes[m + i - 1]
      <4>1. m \in Int /\ l \in Int
        OBVIOUS
      <4>2. /\ SubSeq(bytes, m, l) \in Seq(Int)
            /\ Len(SubSeq(bytes, m, l)) = (IF m <= l THEN l - m + 1 ELSE 0)
            /\ \A i \in 1 .. l - m + 1 : SubSeq(bytes, m, l)[i] = bytes[m + i - 1]
        BY <3>2, <4>1, SubSeqProperties
      <4> QED  BY <3>3, <4>2
    <3>5. l - m + 1 = x /\ (IF m <= l THEN l - m + 1 ELSE 0) = x
      BY <2>2, <2>length, <3>1
    <3>6. \A i \in 1 .. x : m + i - 1 = f + i
      BY <3>1
    <3> QED  BY <3>4, <3>5, <3>6
  <2>5. PICK start \in Seq(Int) :
          /\ start = SubSeq(bytes, 1, f)
          /\ Len(start) = f
          /\ \A i \in 1 .. f : start[i] = bytes[i]
    <3>1. \A i \in 1 .. f : bytes[i] \in Int
      BY <2>1, <2>2
    <3>2. /\ SubSeq(bytes, 1, f) \in Seq(Int)
          /\ Len(SubSeq(bytes, 1, f)) = (IF 1 <= f THEN f - 1 + 1 ELSE 0)
          /\ \A i \in 1 .. f - 1 + 1 : SubSeq(bytes, 1, f)[i] = bytes[1 + i - 1]
      BY <3>1, SubSeqProperties
    <3>3. f - 1 + 1 = f /\ (IF 1 <= f THEN f - 1 + 1 ELSE 0) = f
      OBVIOUS
    <3>4. \A i \in 1 .. f : 1 + i - 1 = i
      OBVIOUS
    <3> QED  BY <3>2, <3>3, <3>4
  <2>6. PICK head \in Seq(Int) : head = Repeated(HeaderByte, H) /\ Len(head) = H
    <3>1. Repeated(HeaderByte, H) \in Seq(Int) /\ Len(Repeated(HeaderByte, H)) = H
      BY <1>0 DEF Repeated, HeaderByte
    <3> QED  BY <3>1
  <2>7. PICK first \in Seq(Int) :
          /\ first = head \o start
          /\ Len(first) = P
          /\ \A i \in H + 1 .. P : first[i] = bytes[i - H]
    <3>1. /\ head \o start \in Seq(Int)
          /\ Len(head \o start) = Len(head) + Len(start)
          /\ \A i \in 1 .. Len(head) + Len(start) :
               (head \o start)[i] = IF i <= Len(head) THEN head[i] ELSE start[i - Len(head)]
      BY ConcatProperties
    <3>2. Len(head) + Len(start) = P
      BY <1>0, <2>2, <2>5, <2>6
    <3>3. ASSUME NEW i \in H + 1 .. P PROVE (head \o start)[i] = bytes[i - H]
      <4>1. i \in 1 .. P /\ ~(i <= H) /\ i - H \in 1 .. f
        BY <1>0, <2>2
      <4>2. (head \o start)[i] = start[i - H]
        BY <2>6, <3>1, <3>2, <4>1
      <4> QED  BY <2>5, <4>1, <4>2
    <3> QED  BY <3>1, <3>2, <3>3
  <2>8. PICK d \in Nat : d = DivCeil(x, P) /\ x <= d * P /\ d * P < x + P
    BY <1>0, DivCeilBounds
  <2>9. PICK chunks : chunks = Chunks(rest)
    OBVIOUS
  <2>10. /\ chunks \in Seq({ chunks[k] : k \in 1 .. d })
         /\ Len(chunks) = d
         /\ \A k \in 1 .. d : \A j \in 1 .. P :
              chunks[k][j] = IF (k - 1) * P + j <= x THEN rest[(k - 1) * P + j] ELSE PadByte
    <3>1. PayloadLen \in Nat \ {0} /\ rest \in Seq(Int)
      BY <1>0, <2>rest DEF P
    <3>2. d = DivCeil(Len(rest), PayloadLen) /\ Len(rest) = x
      BY <2>rest, <2>8 DEF P
    <3> QED  BY <2>9, <3>1, <3>2, Chunked DEF P
  <2>11. PICK one : one = PadTo(first, P)
    OBVIOUS
  <2>12. PICK S : S = { chunks[k] : k \in 1 .. d } \cup {one}
    OBVIOUS
  <2>13. chunks \in Seq(S) /\ <<one>> \in Seq(S)
    <3>1. { chunks[k] : k \in 1 .. d } \subseteq S /\ one \in S
      BY <2>12
    <3> QED  BY <2>10, <3>1, SeqMonotonic
  <2>14. PayloadsOf(b, bytes) = <<one>> \o chunks
    BY <1>2, <2>3, <2>4, <2>5, <2>6, <2>7, <2>9, <2>11 DEF PayloadsOf, HeaderFirst, P, H
  <2>15. PICK joined : joined = <<one>> \o chunks
    OBVIOUS
  <2>17. /\ Len(joined) = 1 + d
         /\ \A k \in 1 .. 1 + d : joined[k] = IF k <= 1 THEN one ELSE chunks[k - 1]
    <3>1. Len(<<one>>) = 1 /\ <<one>>[1] = one
      OBVIOUS
    <3>2. /\ Len(joined) = 1 + d
          /\ \A k \in 1 .. 1 + d : joined[k] = IF k <= 1 THEN <<one>>[k] ELSE chunks[k - 1]
      BY <2>10, <2>13, <2>15, <3>1, ConcatProperties
    <3>3. \A k \in 1 .. 1 + d : k <= 1 => k = 1
      OBVIOUS
    <3> QED  BY <3>1, <3>2, <3>3
  <2>16. DivCeil(Len(bytes) + HeaderOf(b), PayloadLen) = 1 + d
    <3>1. HeaderOf(b) = H
      BY <1>2 DEF HeaderOf, H
    <3>2. PICK y \in Nat : y = l + H
      BY <1>0
    <3>3. (1 + d) * P = P + d * P /\ d * P \in Nat
      BY <1>0
    <3>4. y <= (1 + d) * P /\ (1 + d) * P < y + P
      BY <1>0, <2>2, <2>length, <2>8, <3>2, <3>3
    <3>5. DivCeil(y, P) = 1 + d
      BY <1>0, <3>4, DivCeilUnique
    <3> QED  BY <2>1, <3>1, <3>2, <3>5 DEF P
  <2>18. ASSUME NEW k \in 1 .. 1 + d, NEW j \in 1 .. P, NEW n \in Int, n = (k - 1) * P + j,
                H < n
         PROVE  joined[k][j] = IF n <= H + l THEN bytes[n - H] ELSE PadByte
    <3>0. H < n
      BY <2>18
    <3>1. CASE k = 1
      <4>1. n = j
        BY <1>0, <2>18, <3>1
      <4>2. j \in H + 1 .. P /\ j \in 1 .. Len(first) /\ Len(first) <= P
        BY <1>0, <2>7, <3>0, <4>1
      <4>3. PadTo(first, P)[j] = first[j]
        <5> P \in Nat
          BY <1>0
        <5> QED  BY <4>2, Padded
      <4>4. first[j] = bytes[j - H]
        BY <2>7, <4>2
      <4>5. joined[k] = one
        <5>1. joined[k] = IF k <= 1 THEN one ELSE chunks[k - 1]
          BY <2>17
        <5> QED  BY <3>1, <5>1
      <4>6. joined[k][j] = bytes[j - H]
        BY <2>11, <4>3, <4>4, <4>5
      <4>7. n <= H + l
        BY <1>0, <2>1, <4>1
      <4> QED  BY <4>1, <4>6, <4>7
    <3>2. CASE k # 1
      <4>1. PICK c \in 1 .. d : c = k - 1
        BY <3>2
      <4>2. PICK o \in Nat : o = (c - 1) * P
        <5> c - 1 \in Nat
          OBVIOUS
        <5> QED  BY <1>0
      <4>3. n = o + P + j
        BY <1>0, <2>18, <4>1, <4>2
      <4>4. PICK m \in Nat \ {0} : m = o + j /\ f + m = n - H /\ (m <= x <=> n <= H + l)
        BY <1>0, <2>2, <2>length, <4>3
      <4>5. chunks[c][j] = IF m <= x THEN rest[m] ELSE PadByte
        <5>1. (c - 1) * P + j = m
          BY <4>2, <4>4
        <5>2. chunks[c][j] = IF (c - 1) * P + j <= x THEN rest[(c - 1) * P + j] ELSE PadByte
          BY <2>10
        <5> QED  BY <5>1, <5>2
      <4>6. m <= x => rest[m] = bytes[n - H]
        BY <2>rest, <4>4
      <4>7. joined[k] = chunks[c]
        <5>1. joined[k] = IF k <= 1 THEN one ELSE chunks[k - 1]
          BY <2>17
        <5>2. ~(k <= 1)
          BY <3>2
        <5> QED  BY <4>1, <5>1, <5>2
      <4>8. joined[k][j] = IF m <= x THEN rest[m] ELSE PadByte
        BY <4>5, <4>7
      <4>9. CASE m <= x
        <5>1. n <= H + l
          BY <4>4, <4>9
        <5> QED  BY <4>6, <4>8, <4>9, <5>1
      <4>10. CASE ~(m <= x)
        <5>1. ~(n <= H + l)
          BY <4>4, <4>10
        <5> QED  BY <4>8, <4>10, <5>1
      <4> QED  BY <4>9, <4>10
    <3> QED  BY <3>1, <3>2
  <2>19. HeaderOf(b) = H /\ Len(bytes) = l
    BY <1>2, <2>1 DEF HeaderOf, H
  <2>20. Len(joined) = DivCeil(Len(bytes) + HeaderOf(b), PayloadLen)
    BY <2>16, <2>17
  <2>21. ASSUME NEW k \in 1 .. Len(joined), NEW j \in 1 .. PayloadLen,
                HeaderOf(b) < (k - 1) * PayloadLen + j
         PROVE  joined[k][j] = IF (k - 1) * PayloadLen + j <= HeaderOf(b) + Len(bytes)
                               THEN bytes[(k - 1) * PayloadLen + j - HeaderOf(b)] ELSE PadByte
    <3>1. j \in 1 .. P /\ k \in 1 .. 1 + d
      BY <2>17 DEF P
    <3>2. PICK n \in Int : n = (k - 1) * P + j
      BY <1>0, <3>1
    <3>3. n = (k - 1) * PayloadLen + j
      BY <3>2 DEF P
    <3>4. H < n
      BY <2>19, <2>21, <3>3
    <3>5. joined[k][j] = IF n <= H + l THEN bytes[n - H] ELSE PadByte
      BY <2>18, <3>1, <3>2, <3>4
    <3>6. n - H = (k - 1) * PayloadLen + j - HeaderOf(b)
      <4>1. PayloadLen \in Nat /\ H \in Nat
        BY <1>0 DEF P
      <4> QED  BY <2>19, <3>3, <4>1
    <3> QED  BY <2>19, <3>3, <3>5, <3>6
  <2>22. PayloadsOf(b, bytes) = joined
    BY <2>14, <2>15
  <2> QED  BY <2>20, <2>21, <2>22
<1> QED  BY <1>1, <1>2

-----------------------------------------------------------------------------
(* The packets of a frame, block after block.                              *)

LEMMA LeastNumber ==
  ASSUME NEW T \in SUBSET Nat, T # {}
  PROVE  \E x \in T : \A y \in T : x <= y
<1>1. IsWellFoundedOn(OpToRel(<, Nat), Nat)
  BY NatLessThanWellFounded
<1>2. PICK x \in T : \A y \in T : ~(<<y, x>> \in OpToRel(<, Nat))
  BY <1>1, WFMin
<1>3. ASSUME NEW y \in T PROVE x <= y
  <2>1. x \in Nat /\ y \in Nat
    OBVIOUS
  <2>2. ~(<<y, x>> \in OpToRel(<, Nat))
    BY <1>2
  <2>3. ~(y < x)
    BY <2>1, <2>2 DEF OpToRel
  <2> QED  BY <2>1, <2>3
<1> QED  BY <1>3

LEMMA Listed ==
  ASSUME NEW n \in Nat, NEW q, DOMAIN q = 1 .. n, q = [k \in 1 .. n |-> q[k]]
  PROVE  q \in Seq({ q[k] : k \in 1 .. n }) /\ Len(q) = n
<1>1. q \in [1 .. n -> { q[k] : k \in 1 .. n }]
  OBVIOUS
<1> QED  BY <1>1

\* The packets of block b of a frame that follow these.
BlockAfter(len, b, before) ==
  FecBlock((sequence_number + Len(before)) % SeqModulus, b, Blocks(len) - 1, BlockBytes(len, b))

\* The function that FramePackets defines by recursion exists.
LEMMA BlockByBlock ==
  ASSUME NEW len, NEW n \in Nat
  PROVE  \E f : f = [b \in 0 .. n |-> IF b = 0 THEN << >>
                                      ELSE f[b - 1] \o BlockAfter(len, b - 1, f[b - 1])]
<1> DEFINE Following(f, b) == IF b = 0 THEN << >> ELSE f[b - 1] \o BlockAfter(len, b - 1, f[b - 1])
           T == { m \in Nat : ~ \E f : f = [b \in 0 .. m |-> Following(f, b)] }
<1>1. CASE T = {}
  BY <1>1
<1>2. CASE T # {}
  <2>1. PICK m \in T : \A y \in T : m <= y
    BY <1>2, LeastNumber
  <2>2. CASE m = 0
    <3>1. PICK f : f = [b \in 0 .. m |-> << >>]
      OBVIOUS
    <3>2. \A b \in 0 .. m : b = 0
      BY <2>2
    <3>3. \A b \in 0 .. m : Following(f, b) = << >>
      BY <3>2
    <3> HIDE DEF Following
    <3>4. f = [b \in 0 .. m |-> Following(f, b)]
      BY <3>1, <3>3
    <3> QED  BY <2>1, <3>4
  <2>3. CASE m # 0
    <3>1. PICK l \in Nat : m = l + 1
      <4>1. m - 1 \in Nat /\ m = (m - 1) + 1
        BY <2>3
      <4> QED  BY <4>1
    <3>2. l \notin T
      <4> SUFFICES ASSUME l \in T PROVE FALSE
        OBVIOUS
      <4> HIDE DEF T
      <4>1. m <= l
        BY <2>1
      <4> QED  BY <3>1, <4>1
    <3>3. PICK g : g = [b \in 0 .. l |-> Following(g, b)]
      BY <3>2
    <3> DEFINE f == [b \in 0 .. m |-> IF b = m THEN g[l] \o BlockAfter(len, l, g[l]) ELSE g[b]]
    <3>4. ASSUME NEW b \in 0 .. m PROVE f[b] = Following(f, b)
      <4>1. CASE b = m
        <5>1. b # 0 /\ b - 1 = l /\ l \in 0 .. m /\ l # m
          BY <3>1, <4>1
        <5>2. f[l] = g[l]
          BY <5>1
        <5>3. f[b] = g[l] \o BlockAfter(len, l, g[l])
          BY <4>1
        <5> QED  BY <5>1, <5>2, <5>3
      <4>2. CASE b # m
        <5>1. b \in 0 .. l
          BY <3>1, <4>2
        <5>2. f[b] = g[b]
          BY <4>2
        <5>3. g[b] = Following(g, b)
          BY <3>3, <5>1
        <5>4. CASE b = 0
          BY <5>2, <5>3, <5>4
        <5>5. CASE b # 0
          <6>1. b - 1 \in 0 .. m /\ b - 1 # m
            BY <3>1, <5>1, <5>5
          <6>2. f[b - 1] = g[b - 1]
            BY <6>1
          <6> QED  BY <5>2, <5>3, <6>2
        <5> QED  BY <5>4, <5>5
      <4> QED  BY <4>1, <4>2
    <3>5. f = [b \in 0 .. m |-> f[b]]
      OBVIOUS
    <3> HIDE DEF f
    <3>6. f = [b \in 0 .. m |-> Following(f, b)]
      BY <3>4, <3>5
    <3>7. \E h : h = [b \in 0 .. m |-> Following(h, b)]
      BY <3>6
    <3> QED  BY <2>1, <3>7
  <2> QED  BY <2>2, <2>3
<1> QED  BY <1>1, <1>2

LEMMA FramePacketsUnfold ==
  ASSUME NEW len, Blocks(len) \in Nat
  PROVE  \E f : /\ FramePackets(len) = f[Blocks(len)]
                /\ f[0] = << >>
                /\ \A b \in 0 .. Blocks(len) - 1 : f[b + 1] = f[b] \o BlockAfter(len, b, f[b])
<1>1. PICK u : u = CHOOSE f : f = [b \in 0 .. Blocks(len) |->
                                     IF b = 0 THEN << >>
                                     ELSE f[b - 1] \o BlockAfter(len, b - 1, f[b - 1])]
  OBVIOUS
<1>2. FramePackets(len) = u[Blocks(len)]
  BY <1>1 DEF FramePackets, BlockAfter
<1>3. u = [b \in 0 .. Blocks(len) |-> IF b = 0 THEN << >>
                                     ELSE u[b - 1] \o BlockAfter(len, b - 1, u[b - 1])]
  <2>1. \E f : f = [b \in 0 .. Blocks(len) |->
                                     IF b = 0 THEN << >>
                                     ELSE f[b - 1] \o BlockAfter(len, b - 1, f[b - 1])]
    BY BlockByBlock
  <2> QED  BY <1>1, <2>1
<1>4. u[0] = << >>
  BY <1>3
<1>5. ASSUME NEW b \in 0 .. Blocks(len) - 1
      PROVE  u[b + 1] = u[b] \o BlockAfter(len, b, u[b])
  <2>1. PICK c \in 0 .. Blocks(len) : c = b + 1
    OBVIOUS
  <2>2. c # 0 /\ c - 1 = b
    BY <2>1
  <2>3. u[c] = IF c = 0 THEN << >> ELSE u[c - 1] \o BlockAfter(len, c - 1, u[c - 1])
    BY <1>3
  <2> QED  BY <2>1, <2>2, <2>3
<1> QED  BY <1>2, <1>4, <1>5

-----------------------------------------------------------------------------
(* The packets of a block.                                                 *)

\* p is packet k of block b, from one.
IsPacket(len, b, k, p) ==
  /\ p.block = b
  /\ p.shard = k - 1
  /\ p.total = ShardsOf(len, b)
  /\ ParityOf(p.total, p.percent) = ParityCount(ShardsOf(len, b))
  /\ p.covers = IF k <= ShardsOf(len, b) THEN {} ELSE 0 .. ShardsOf(len, b) - 1
  /\ k <= ShardsOf(len, b) => p.data = PayloadsOf(b, BlockBytes(len, b))[k]

\* The number of packets of a block.
SizeOf(len, b) == ShardsOf(len, b) + ParityCount(ShardsOf(len, b))

FrameFits(len) == Blocks(len) <= BlockModulus /\ Len(BlockBytes(len, 0)) >= PayloadLen

ConfigTyped == fec_config \in [percent : Nat, min : Nat] /\ fec_config \in FecConfigs

\* No block has a percentage too large for its field of the header.
PercentagesFit ==
  \A config \in FecConfigs : \A total \in 1 .. MaxShards :
    Percentage(config, total) < PercentModulus

LEMMA SmallModulo ==
  ASSUME NEW a \in Nat, NEW m \in Nat \ {0}, a < m
  PROVE  (a % m) = a
<1>1. 0 * m <= a /\ a < 0 * m + m /\ a - 0 * m = a
  OBVIOUS
<1> QED  BY <1>1, DivUnique

LEMMA PacketsOfBlock ==
  ASSUME PayloaderAssumption, PercentagesFit, ConfigTyped, NEW len \in Nat, FrameFits(len),
         NEW b \in 0 .. Blocks(len) - 1, NEW before
  PROVE  /\ \E S : BlockAfter(len, b, before) \in Seq(S)
         /\ SizeOf(len, b) \in Nat /\ ShardsOf(len, b) <= SizeOf(len, b)
         /\ Len(BlockAfter(len, b, before)) = SizeOf(len, b)
         /\ \A k \in 1 .. SizeOf(len, b) : IsPacket(len, b, k, BlockAfter(len, b, before)[k])
<1>1. /\ Blocks(len) \in Nat \ {0} /\ Blocks(len) <= BlockModulus
      /\ BlockModulus \in Nat \ {0} /\ b \in Nat /\ b < BlockModulus
  <2>1. PICK n \in Nat \ {0} : n = Blocks(len)
    BY FrameShards
  <2>2. BlockModulus \in Nat \ {0} /\ n <= BlockModulus
    BY <2>1, Constants DEF FrameFits
  <2>3. b \in Nat /\ b < n
    BY <2>1
  <2> QED  BY <2>1, <2>2, <2>3
<1>2. PICK bytes \in Seq(Int) :
        /\ bytes = BlockBytes(len, b)
        /\ ShardsOf(len, b) \in 1 .. MaxShards
        /\ DivCeil(Len(bytes) + HeaderOf(b), PayloadLen) = ShardsOf(len, b)
  <2>1. /\ BlockBytes(len, b) \in Seq(Int)
        /\ ShardsOf(len, b) \in 1 .. MaxShards
        /\ DivCeil(Len(BlockBytes(len, b)) + HeaderOf(b), PayloadLen) = ShardsOf(len, b)
    BY BytesOfBlock
  <2> QED  BY <2>1
<1>3. PICK t \in 1 .. 100 : t = ShardsOf(len, b)
  <2>1. PICK m \in 1 .. 100 : m = MaxShards
    BY DEF PayloaderAssumption, MAX_DATA_SHARDS_PER_BLOCK
  <2>2. ShardsOf(len, b) \in 1 .. m
    BY <1>2, <2>1
  <2>3. PICK t \in 1 .. m : t = ShardsOf(len, b)
    BY <2>2
  <2>4. t \in 1 .. 100
    OBVIOUS
  <2> QED  BY <2>3, <2>4
<1>4. PICK c \in Nat : c = ParityCount(t) /\ ParityOf(t, Announced(t)) = c
  BY ParityAnnounced DEF ConfigTyped
<1>percent. (Announced(t) % PercentModulus) = Announced(t)
  <2>1. PICK a \in Nat : a = Announced(t)
    BY ParityAnnounced DEF ConfigTyped
  <2>2. t \in 1 .. MaxShards
    BY <1>2, <1>3
  <2>3. a < PercentModulus
    BY <2>1, <2>2 DEF PercentagesFit, ConfigTyped, Announced
  <2>4. PercentModulus \in Nat \ {0}
    BY DEF PayloaderAssumption
  <2> QED  BY <2>1, <2>3, <2>4, SmallModulo
<1>5. PICK payloads : payloads = PayloadsOf(b, bytes)
  OBVIOUS
<1>6. Len(payloads) = t
  <2>1. b = 0 => Len(bytes) >= PayloadLen
    BY <1>2 DEF FrameFits
  <2> QED  BY <1>1, <1>2, <1>3, <1>5, <2>1, PayloadsFit
<1>7. PICK s : s = (sequence_number + Len(before)) % SeqModulus
  OBVIOUS
<1>8. PICK last : last = Blocks(len) - 1
  OBVIOUS
<1>9. (b % BlockModulus) = b
  BY <1>1, SmallModulo
<1>10. PICK q : q = BlockAfter(len, b, before)
  OBVIOUS
<1>11. q = [k \in 1 .. t + c |->
              [seq   |-> (s + k - 1) % SeqModulus,
               frame |-> frame_index,
               block |-> b % BlockModulus,
               last  |-> last % BlockModulus,
               shard |-> k - 1,
               total |-> t,
               percent |-> Announced(t) % PercentModulus,
               data  |-> IF k <= t THEN payloads[k] ELSE << >>,
               covers |-> IF k <= t THEN {} ELSE (t - t) .. (t - 1)]]
  <2>1. DivCeil(Len(bytes) + (IF b = 0 THEN HeaderSize ELSE 0), PayloadLen) = t
    BY <1>2, <1>3 DEF HeaderOf
  <2>2. (IF b = 0 THEN HeaderFirst(bytes) ELSE Chunks(bytes)) = payloads
    BY <1>5 DEF PayloadsOf
  <2> QED  BY <1>2, <1>4, <1>6, <1>7, <1>8, <1>10, <2>1, <2>2 DEF BlockAfter, FecBlock, DataShards
<1>12. PICK n \in Nat : n = t + c /\ t <= n /\ SizeOf(len, b) = n
  <2>1. t + c \in Nat /\ t <= t + c
    OBVIOUS
  <2>2. SizeOf(len, b) = t + c
    BY <1>3, <1>4 DEF SizeOf
  <2> QED  BY <2>1, <2>2
<1>13. q \in Seq({ q[k] : k \in 1 .. n }) /\ Len(q) = n
  <2>1. DOMAIN q = 1 .. t + c /\ q = [k \in DOMAIN q |-> q[k]]
    BY <1>11
  <2>2. DOMAIN q = 1 .. n /\ q = [k \in 1 .. n |-> q[k]]
    BY <1>12, <2>1
  <2> QED  BY <2>2, Listed
<1>14. ASSUME NEW k \in 1 .. n PROVE IsPacket(len, b, k, q[k])
  <2>1. PICK p : p = q[k]
    OBVIOUS
  <2>2. /\ p.block = b % BlockModulus
        /\ p.shard = k - 1
        /\ p.total = t
        /\ p.percent = Announced(t) % PercentModulus
        /\ p.covers = IF k <= t THEN {} ELSE (t - t) .. (t - 1)
        /\ p.data = IF k <= t THEN payloads[k] ELSE << >>
    BY <1>11, <1>12, <2>1
  <2>3. t - t = 0
    OBVIOUS
  <2> QED  BY <1>2, <1>3, <1>4, <1>percent, <1>5, <1>9, <2>1, <2>2, <2>3 DEF IsPacket
<1> QED  BY <1>3, <1>10, <1>12, <1>13, <1>14

\* The first n blocks of a frame, of which block b begins after off[b] packets.
BlocksPlaced(len, off, n, frame) ==
  /\ off \in [0 .. n -> Nat] /\ off[0] = 0
  /\ \A b \in 0 .. n - 1 : /\ SizeOf(len, b) \in Nat /\ ShardsOf(len, b) <= SizeOf(len, b)
                           /\ off[b + 1] = off[b] + SizeOf(len, b)
  /\ \A b \in 0 .. n : \A c \in 0 .. b : off[c] <= off[b]
  /\ \A i \in 1 .. off[n] : \E b \in 0 .. n - 1 : \E k \in 1 .. SizeOf(len, b) : i = off[b] + k

LaidOut(len, off, n, frame) ==
  /\ BlocksPlaced(len, off, n, frame)
  /\ \E S : frame \in Seq(S)
  /\ Len(frame) = off[n]
  /\ \A b \in 0 .. n - 1 : \A k \in 1 .. SizeOf(len, b) : IsPacket(len, b, k, frame[off[b] + k])

LEMMA Joined ==
  ASSUME NEW s, NEW t, \E S : s \in Seq(S), \E S : t \in Seq(S)
  PROVE  /\ \E S : s \o t \in Seq(S)
         /\ Len(s) \in Nat /\ Len(t) \in Nat
         /\ Len(s \o t) = Len(s) + Len(t)
         /\ \A i \in 1 .. Len(s) : (s \o t)[i] = s[i]
         /\ \A i \in 1 .. Len(t) : (s \o t)[Len(s) + i] = t[i]
<1>1. PICK S : s \in Seq(S)
  OBVIOUS
<1>2. PICK R : t \in Seq(R)
  OBVIOUS
<1>3. PICK U : U = S \cup R
  OBVIOUS
<1>4. s \in Seq(U) /\ t \in Seq(U)
  <2>1. S \subseteq U /\ R \subseteq U
    BY <1>3
  <2> QED  BY <1>1, <1>2, <2>1, SeqMonotonic
<1>5. PICK m \in Nat : m = Len(s)
  BY <1>4, LenProperties
<1>6. PICK n \in Nat : n = Len(t)
  BY <1>4, LenProperties
<1>7. /\ s \o t \in Seq(U)
      /\ Len(s \o t) = m + n
      /\ \A i \in 1 .. m + n : (s \o t)[i] = IF i <= m THEN s[i] ELSE t[i - m]
  BY <1>4, <1>5, <1>6, ConcatProperties
<1>8. ASSUME NEW i \in 1 .. m PROVE (s \o t)[i] = s[i]
  <2>1. i \in 1 .. m + n /\ i <= m
    OBVIOUS
  <2> QED  BY <1>7, <2>1
<1>9. ASSUME NEW i \in 1 .. n PROVE (s \o t)[m + i] = t[i]
  <2>1. PICK j \in 1 .. m + n : j = m + i /\ ~(j <= m) /\ j - m = i
    <3>1. m + i \in 1 .. m + n /\ ~(m + i <= m) /\ (m + i) - m = i
      OBVIOUS
    <3> QED  BY <3>1
  <2> QED  BY <1>7, <2>1
<1> QED  BY <1>5, <1>6, <1>7, <1>8, <1>9

LEMMA OneBlockMore ==
  ASSUME NEW len, NEW n \in Nat, NEW off, NEW frame, LaidOut(len, off, n, frame),
         NEW q, \E S : q \in Seq(S), SizeOf(len, n) \in Nat,
         ShardsOf(len, n) <= SizeOf(len, n), Len(q) = SizeOf(len, n),
         \A k \in 1 .. SizeOf(len, n) : IsPacket(len, n, k, q[k])
  PROVE  \E next : LaidOut(len, next, n + 1, frame \o q)
<1>0. PICK m \in Nat : m = n + 1
  OBVIOUS
<1>1. PICK size \in Nat : size = SizeOf(len, n)
  OBVIOUS
<1>2. off \in [0 .. n -> Nat] /\ off[0] = 0
  BY DEF LaidOut, BlocksPlaced
<1>3. PICK e \in Nat : e = off[n]
  BY <1>2
<1>4. PICK next : next = [b \in 0 .. m |-> IF b = m THEN e + size ELSE off[b]]
  OBVIOUS
<1>5. /\ next \in [0 .. m -> Nat]
      /\ next[m] = e + size
      /\ \A b \in 0 .. n : next[b] = off[b]
  BY <1>0, <1>2, <1>4
<1>6. next[0] = 0
  BY <1>2, <1>5
<1>7. ASSUME NEW b \in 0 .. m - 1
      PROVE  /\ SizeOf(len, b) \in Nat /\ ShardsOf(len, b) <= SizeOf(len, b)
             /\ next[b + 1] = next[b] + SizeOf(len, b)
  <2>1. CASE b = n
    BY <1>0, <1>1, <1>3, <1>5, <2>1
  <2>2. CASE b # n
    <3>1. b \in 0 .. n - 1 /\ b \in 0 .. n /\ b + 1 \in 0 .. n
      BY <1>0, <2>2
    <3>2. /\ SizeOf(len, b) \in Nat /\ ShardsOf(len, b) <= SizeOf(len, b)
          /\ off[b + 1] = off[b] + SizeOf(len, b)
      BY <3>1 DEF LaidOut, BlocksPlaced
    <3> QED  BY <1>5, <3>1, <3>2
  <2> QED  BY <2>1, <2>2
<1>8. ASSUME NEW b \in 0 .. m, NEW c \in 0 .. b PROVE next[c] <= next[b]
  <2>1. \A d \in 0 .. n : \A a \in 0 .. d : off[a] <= off[d]
    BY DEF LaidOut, BlocksPlaced
  <2>2. CASE b = m /\ c = m
    BY <1>5, <2>2
  <2>3. CASE b = m /\ c # m
    <3>1. c \in 0 .. n /\ n \in 0 .. n
      BY <1>0, <2>3
    <3>2. off[c] <= e /\ off[c] \in Nat
      BY <1>2, <1>3, <2>1, <3>1
    <3> QED  BY <1>5, <2>3, <3>1, <3>2
  <2>4. CASE b # m
    <3>1. b \in 0 .. n /\ c \in 0 .. n
      BY <1>0, <2>4
    <3> QED  BY <1>5, <2>1, <3>1
  <2> QED  BY <2>2, <2>3, <2>4
<1>9. ASSUME NEW i \in 1 .. next[m]
      PROVE  \E b \in 0 .. m - 1 : \E k \in 1 .. SizeOf(len, b) : i = next[b] + k
  <2>1. CASE i <= e
    <3>1. i \in 1 .. off[n]
      BY <1>3, <1>5, <2>1
    <3>block. PICK b \in 0 .. n - 1 : \E k \in 1 .. SizeOf(len, b) : i = off[b] + k
      BY <3>1 DEF LaidOut, BlocksPlaced
    <3>2. PICK k \in 1 .. SizeOf(len, b) : i = off[b] + k
      BY <3>block
    <3>3. b \in 0 .. m - 1 /\ b \in 0 .. n
      BY <1>0
    <3>4. i = next[b] + k
      BY <1>5, <3>2, <3>3
    <3> QED  BY <3>3, <3>4
  <2>2. CASE ~(i <= e)
    <3>1. PICK k \in 1 .. size : i = e + k
      <4>1. i - e \in 1 .. size /\ i = e + (i - e)
        BY <1>5, <2>2
      <4> QED  BY <4>1
    <3>2. n \in 0 .. m - 1 /\ next[n] = e
      BY <1>0, <1>3, <1>5
    <3> QED  BY <1>1, <3>1, <3>2
  <2> QED  BY <2>1, <2>2
<1>10. BlocksPlaced(len, next, m, frame \o q)
  BY <1>5, <1>6, <1>7, <1>8, <1>9 DEF BlocksPlaced
<1>11. PICK r : r = frame \o q
  OBVIOUS
<1>12. Len(frame) = e /\ Len(q) = size
  BY <1>1, <1>3 DEF LaidOut
<1>13. /\ \E S : r \in Seq(S)
       /\ Len(r) = e + size
       /\ \A i \in 1 .. e : r[i] = frame[i]
       /\ \A i \in 1 .. size : r[e + i] = q[i]
  <2>1. \E S : frame \in Seq(S)
    BY DEF LaidOut
  <2>2. /\ \E S : frame \o q \in Seq(S)
        /\ Len(frame \o q) = Len(frame) + Len(q)
        /\ \A i \in 1 .. Len(frame) : (frame \o q)[i] = frame[i]
        /\ \A i \in 1 .. Len(q) : (frame \o q)[Len(frame) + i] = q[i]
    BY <2>1, Joined
  <2> QED  BY <1>11, <1>12, <2>2
<1>14. ASSUME NEW b \in 0 .. m - 1, NEW k \in 1 .. SizeOf(len, b)
       PROVE  IsPacket(len, b, k, r[next[b] + k])
  <2>1. CASE b = n
    <3>1. next[b] = e /\ k \in 1 .. size
      BY <1>1, <1>3, <1>5, <2>1
    <3>2. r[e + k] = q[k]
      BY <1>13, <3>1
    <3>3. IsPacket(len, n, k, q[k])
      BY <1>1, <3>1
    <3> QED  BY <2>1, <3>1, <3>2, <3>3
  <2>2. CASE b # n
    <3>1. b \in 0 .. n - 1 /\ b \in 0 .. n /\ b + 1 \in 0 .. n /\ n \in 0 .. n
      BY <1>0, <2>2
    <3>2. PICK o \in Nat : o = off[b] /\ o = next[b]
      BY <1>2, <1>5, <3>1
    <3>3. IsPacket(len, b, k, frame[o + k])
      BY <3>1, <3>2 DEF LaidOut
    <3>4. PICK z \in Nat : z = SizeOf(len, b)
      <4>1. SizeOf(len, b) \in Nat
        BY <3>1 DEF LaidOut, BlocksPlaced
      <4> QED  BY <4>1
    <3>5. o + z <= e
      <4>1. off[b + 1] = o + SizeOf(len, b)
        BY <3>1, <3>2 DEF LaidOut, BlocksPlaced
      <4>2. off[b + 1] <= off[n]
        BY <3>1 DEF LaidOut, BlocksPlaced
      <4> QED  BY <1>3, <3>4, <4>1, <4>2
    <3>6. o + k \in 1 .. e
      BY <3>4, <3>5
    <3>7. r[o + k] = frame[o + k]
      BY <1>13, <3>6
    <3> QED  BY <3>2, <3>3, <3>7
  <2> QED  BY <2>1, <2>2
<1> QED  BY <1>0, <1>5, <1>10, <1>11, <1>13, <1>14 DEF LaidOut

LEMMA FrameLaidOut ==
  ASSUME PayloaderAssumption, PercentagesFit, ConfigTyped, NEW len \in Nat, FrameFits(len)
  PROVE  \E off : LaidOut(len, off, Blocks(len), FramePackets(len))
<1>1. PICK n \in Nat : n = Blocks(len) /\ n # 0
  BY FrameShards
<1>2. PICK f : /\ FramePackets(len) = f[n]
               /\ f[0] = << >>
               /\ \A b \in 0 .. n - 1 : f[b + 1] = f[b] \o BlockAfter(len, b, f[b])
  BY <1>1, FramePacketsUnfold
<1>3. PICK T : T = { m \in 0 .. n : ~ \E off : LaidOut(len, off, m, f[m]) }
  OBVIOUS
<1>numbers. T \in SUBSET Nat
  <2>1. \A m \in T : m \in 0 .. n
    BY <1>3
  <2> QED  BY <2>1
<1>4. CASE T = {}
  <2>1. n \in 0 .. n
    OBVIOUS
  <2>2. \E off : LaidOut(len, off, n, f[n])
    BY <1>3, <1>4, <2>1
  <2> QED  BY <1>1, <1>2, <2>2
<1>5. CASE T # {}
  <2>1. PICK m \in T : \A y \in T : m <= y
    BY <1>5, <1>numbers, LeastNumber
  <2>2. m \in 0 .. n /\ ~ \E off : LaidOut(len, off, m, f[m])
    BY <1>3
  <2>3. CASE m = 0
    <3>1. PICK off : off = [b \in 0 .. 0 |-> 0]
      OBVIOUS
    <3>2. off \in [0 .. 0 -> Nat] /\ off[0] = 0
      BY <3>1
    <3>3. 0 .. 0 - 1 = {} /\ (\A b \in 0 .. 0 : \A c \in 0 .. b : c = 0 /\ b = 0)
      OBVIOUS
    <3>4. 1 .. 0 = {}
      OBVIOUS
    <3>5. BlocksPlaced(len, off, 0, << >>)
      BY <3>2, <3>3, <3>4 DEF BlocksPlaced
    <3>6. (\E S : << >> \in Seq(S)) /\ Len(<< >>) = 0
      <4>1. << >> \in Seq(Nat) /\ Len(<< >>) = 0
        BY EmptySeq
      <4> QED  BY <4>1
    <3>7. LaidOut(len, off, 0, << >>)
      BY <3>2, <3>3, <3>5, <3>6 DEF LaidOut
    <3> QED  BY <1>2, <2>2, <2>3, <3>7
  <2>4. CASE m # 0
    <3>1. PICK l \in 0 .. n - 1 : m = l + 1
      <4>1. m - 1 \in 0 .. n - 1 /\ m = (m - 1) + 1
        BY <2>2, <2>4
      <4> QED  BY <4>1
    <3>2. l \notin T /\ l \in 0 .. n
      BY <2>1, <3>1
    <3>3. PICK off : LaidOut(len, off, l, f[l])
      BY <1>3, <3>2
    <3>4. PICK q : q = BlockAfter(len, l, f[l])
      OBVIOUS
    <3>5. /\ \E S : q \in Seq(S)
          /\ SizeOf(len, l) \in Nat /\ ShardsOf(len, l) <= SizeOf(len, l)
          /\ Len(q) = SizeOf(len, l)
          /\ \A k \in 1 .. SizeOf(len, l) : IsPacket(len, l, k, q[k])
      <4>1. l \in 0 .. Blocks(len) - 1
        BY <1>1
      <4> QED  BY <3>4, <4>1, PacketsOfBlock
    <3>6. l \in Nat
      OBVIOUS
    <3>7. \E next : LaidOut(len, next, l + 1, f[l] \o q)
      BY <3>3, <3>5, <3>6, OneBlockMore
    <3>8. f[m] = f[l] \o q
      BY <1>2, <3>1, <3>4
    <3> QED  BY <2>2, <3>1, <3>7, <3>8
  <2> QED  BY <2>3, <2>4
<1> QED  BY <1>4, <1>5

LEMMA LaidOutParityAgreed ==
  ASSUME NEW len, NEW n \in Nat, NEW off, NEW frame, LaidOut(len, off, n, frame),
         \A b \in 0 .. n - 1 : ShardsOf(len, b) \in Nat \ {0} /\ ParityCount(ShardsOf(len, b)) \in Nat
  PROVE  ShardsAgreed(frame)
<1>1. off \in [0 .. n -> Nat] /\ Len(frame) = off[n]
  BY DEF LaidOut, BlocksPlaced
<1>2. PICK size \in Nat : size = Len(frame)
  BY <1>1
<1>3. \A i \in 1 .. size : \E b \in 0 .. n - 1 : \E k \in 1 .. SizeOf(len, b) : i = off[b] + k
  BY <1>1, <1>2 DEF LaidOut, BlocksPlaced
<1>4. \A b \in 0 .. n - 1 : \A k \in 1 .. SizeOf(len, b) : IsPacket(len, b, k, frame[off[b] + k])
  BY DEF LaidOut
<1>5. ASSUME NEW b \in 0 .. n - 1
      PROVE  off[b] \in Nat /\ off[b] + SizeOf(len, b) <= size
  <2>1. b \in 0 .. n /\ b + 1 \in 0 .. n /\ n \in 0 .. n
    OBVIOUS
  <2>2. off[b + 1] = off[b] + SizeOf(len, b)
    BY DEF LaidOut, BlocksPlaced
  <2>3. off[b + 1] <= off[n]
    BY <2>1 DEF LaidOut, BlocksPlaced
  <2> QED  BY <1>1, <1>2, <2>1, <2>2, <2>3
<1>6. ASSUME NEW b \in 0 .. n - 1, NEW k \in 1 .. SizeOf(len, b)
      PROVE  IsParity(frame[off[b] + k]) <=> ShardsOf(len, b) < k
  <2>1. PICK t \in Nat \ {0} : t = ShardsOf(len, b)
    OBVIOUS
  <2>2. 0 \in 0 .. t - 1
    OBVIOUS
  <2>3. frame[off[b] + k].covers = IF k <= t THEN {} ELSE 0 .. t - 1
    BY <1>4, <2>1 DEF IsPacket
  <2> QED  BY <2>1, <2>2, <2>3 DEF IsParity
<1>7. ASSUME NEW i \in 1 .. size
      PROVE  /\ IsParity(frame[i]) => frame[i].shard >= frame[i].total /\ frame[i].covers = 0 .. frame[i].total - 1
             /\ Cardinality({ j \in 1 .. size : frame[j].block = frame[i].block /\ IsParity(frame[j]) })
                  = ParityOf(frame[i].total, frame[i].percent)
  <2>1. PICK b \in 0 .. n - 1 : \E k \in 1 .. SizeOf(len, b) : i = off[b] + k
    BY <1>3
  <2>2. PICK k \in 1 .. SizeOf(len, b) : i = off[b] + k
    BY <2>1
  <2>3. PICK t \in Nat \ {0} : t = ShardsOf(len, b)
    OBVIOUS
  <2>4. PICK c \in Nat : c = ParityCount(t)
    BY <2>3
  <2>5. PICK o \in Nat : o = off[b]
    BY <1>5
  <2>6. SizeOf(len, b) = t + c /\ o + t + c <= size
    BY <1>5, <2>3, <2>4, <2>5 DEF SizeOf
  <2>7. PICK p : p = frame[i]
    OBVIOUS
  <2>8. /\ p.block = b /\ p.shard = k - 1 /\ p.total = t
        /\ ParityOf(p.total, p.percent) = c
        /\ p.covers = IF k <= t THEN {} ELSE 0 .. t - 1
    BY <1>4, <2>2, <2>3, <2>4, <2>7 DEF IsPacket
  <2>9. IsParity(p) => p.shard >= p.total /\ p.covers = 0 .. p.total - 1
    <3>1. IsParity(p) => ~(k <= t)
      BY <2>8 DEF IsParity
    <3>2. ~(k <= t) => k - 1 >= t
      BY <2>6
    <3> QED  BY <2>8, <3>1, <3>2
  <2>10. PICK parity : parity = { j \in 1 .. size : frame[j].block = b /\ IsParity(frame[j]) }
    OBVIOUS
  <2>11. parity = (o + t + 1) .. (o + t + c)
    <3>1. ASSUME NEW j \in parity PROVE j \in (o + t + 1) .. (o + t + c)
      <4>1. j \in 1 .. size /\ frame[j].block = b /\ IsParity(frame[j])
        BY <2>10
      <4>2. PICK d \in 0 .. n - 1 : \E l \in 1 .. SizeOf(len, d) : j = off[d] + l
        BY <1>3, <4>1
      <4>3. PICK l \in 1 .. SizeOf(len, d) : j = off[d] + l
        BY <4>2
      <4>4. frame[j].block = d
        BY <1>4, <4>3 DEF IsPacket
      <4>5. d = b /\ l \in 1 .. t + c
        BY <2>6, <4>1, <4>3, <4>4
      <4>6. t < l
        BY <1>6, <2>3, <4>1, <4>3, <4>5
      <4> QED  BY <2>5, <4>3, <4>5, <4>6
    <3>2. ASSUME NEW j \in (o + t + 1) .. (o + t + c) PROVE j \in parity
      <4>1. PICK l \in 1 .. t + c : j = o + l /\ t < l
        <5>1. j - o \in 1 .. t + c /\ j = o + (j - o) /\ t < j - o
          OBVIOUS
        <5> QED  BY <5>1
      <4>2. j \in 1 .. size
        BY <2>6, <4>1
      <4>3. l \in 1 .. SizeOf(len, b)
        BY <2>6, <4>1
      <4>4. frame[j].block = b
        BY <1>4, <2>5, <4>1, <4>3 DEF IsPacket
      <4>5. IsParity(frame[j])
        BY <1>6, <2>3, <2>5, <4>1, <4>3
      <4> QED  BY <2>10, <4>2, <4>4, <4>5
    <3> QED  BY <3>1, <3>2
  <2>12. Cardinality(parity) = c
    <3>1. PICK x \in Int : x = o + t + 1
      OBVIOUS
    <3>2. PICK y \in Int : y = o + t + c
      OBVIOUS
    <3>3. Cardinality(x .. y) = IF x > y THEN 0 ELSE y - x + 1
      BY FS_Interval
    <3>4. (IF x > y THEN 0 ELSE y - x + 1) = c
      BY <3>1, <3>2
    <3> QED  BY <2>11, <3>1, <3>2, <3>3, <3>4
  <2> QED  BY <2>7, <2>8, <2>9, <2>10, <2>12
<1> QED  BY <1>2, <1>7 DEF ShardsAgreed

-----------------------------------------------------------------------------
(* What the depayloader makes of them.                                     *)

LEMMA Ranked ==
  ASSUME NEW data \in SUBSET Nat, NEW d \in Nat, NEW g \in [data -> 0 .. d - 1],
         \A i \in data : \A j \in data : i < j => g[i] < g[j],
         \A r \in 0 .. d - 1 : \E i \in data : g[i] = r
  PROVE  /\ Cardinality(data) = d
         /\ \A k \in data : Cardinality({ j \in data : j < k }) = g[k]
<1>1. ASSUME NEW r \in 0 .. d PROVE Cardinality({ j \in data : g[j] < r }) = r
  <2>1. PICK S : S = { j \in data : g[j] < r }
    OBVIOUS
  <2>2. PICK T : T = 0 .. r - 1
    OBVIOUS
  <2>3. IsFiniteSet(T) /\ Cardinality(T) = r
    <3>1. PICK z \in Int : z = r - 1
      OBVIOUS
    <3>2. IsFiniteSet(0 .. z) /\ Cardinality(0 .. z) = IF 0 > z THEN 0 ELSE z - 0 + 1
      BY FS_Interval
    <3>3. (IF 0 > z THEN 0 ELSE z - 0 + 1) = r
      BY <3>1
    <3> QED  BY <2>2, <3>1, <3>2, <3>3
  <2>4. PICK f : f = [j \in S |-> g[j]]
    OBVIOUS
  <2>5. f \in [S -> T]
    <3>1. ASSUME NEW j \in S PROVE g[j] \in T
      <4>1. j \in data /\ g[j] < r
        BY <2>1
      <4>2. g[j] \in 0 .. d - 1
        BY <4>1
      <4> QED  BY <2>2, <4>1, <4>2
    <3> QED  BY <2>4, <3>1
  <2>6. ASSUME NEW i \in S, NEW j \in S, i # j PROVE f[i] # f[j]
    <3>1. i \in data /\ j \in data /\ i \in Nat /\ j \in Nat
      BY <2>1
    <3>2. g[i] \in 0 .. d - 1 /\ g[j] \in 0 .. d - 1
      BY <3>1
    <3>3. i < j \/ j < i
      BY <2>6, <3>1
    <3>4. g[i] < g[j] \/ g[j] < g[i]
      BY <3>1, <3>3
    <3> QED  BY <2>4, <3>2, <3>4
  <2>7. ASSUME NEW t \in T PROVE \E j \in S : f[j] = t
    <3>1. t \in 0 .. d - 1 /\ t < r
      BY <2>2
    <3>2. PICK j \in data : g[j] = t
      BY <3>1
    <3> QED  BY <2>1, <2>4, <3>1, <3>2
  <2>8. f \in Injection(S, T)
    BY <2>5, <2>6 DEF Injection, IsInjective
  <2>9. f \in Surjection(S, T)
    BY <2>5, <2>7 DEF Surjection
  <2>10. Cardinality(S) = Cardinality(T)
    BY <2>3, <2>8, <2>9, FS_Injection
  <2> QED  BY <2>1, <2>3, <2>10
<1>2. Cardinality(data) = d
  <2>1. data = { j \in data : g[j] < d }
    <3>1. ASSUME NEW j \in data PROVE g[j] < d
      <4>1. g[j] \in 0 .. d - 1
        OBVIOUS
      <4> QED  BY <4>1
    <3> QED  BY <3>1
  <2>2. d \in 0 .. d
    OBVIOUS
  <2> QED  BY <1>1, <2>1, <2>2
<1>3. ASSUME NEW k \in data PROVE Cardinality({ j \in data : j < k }) = g[k]
  <2>1. g[k] \in 0 .. d - 1 /\ g[k] \in 0 .. d
    OBVIOUS
  <2>2. ASSUME NEW j \in data PROVE j < k <=> g[j] < g[k]
    <3>1. j \in Nat /\ k \in Nat /\ g[j] \in 0 .. d - 1
      OBVIOUS
    <3>2. j < k => g[j] < g[k]
      OBVIOUS
    <3>3. k < j => g[k] < g[j]
      OBVIOUS
    <3>4. j = k => g[j] = g[k]
      OBVIOUS
    <3>5. PICK a \in Nat : a = g[j]
      BY <3>1
    <3>6. PICK b \in Nat : b = g[k]
      BY <2>1
    <3> QED  BY <3>1, <3>2, <3>3, <3>4, <3>5, <3>6
  <2>3. { j \in data : j < k } = { j \in data : g[j] < g[k] }
    BY <2>2
  <2> QED  BY <1>1, <2>1, <2>3
<1> QED  BY <1>2, <1>3

LEMMA ShardsOfBlocks ==
  ASSUME PayloaderAssumption, NEW len \in Nat, NEW b \in 0 .. Blocks(len) - 1
  PROVE  /\ ShardsOf(len, b) \in 1 .. MaxShards
         /\ b * MaxShards + ShardsOf(len, b) <= Shards(len)
         /\ \A s \in 0 .. MaxShards - 1 : b * MaxShards + s < Shards(len) => s < ShardsOf(len, b)
<1>1. ShardsOf(len, b) \in 1 .. MaxShards
  BY BytesOfBlock
<1>2. PICK d \in Nat : d = Shards(len)
  BY FrameShards
<1>3. PICK m \in Nat : m = MaxShards
  BY Constants
<1>4. PICK x \in Nat : x = b * m
  <2>1. b \in Nat
    <3> Blocks(len) \in Nat
      BY FrameShards
    <3> QED  OBVIOUS
  <2> QED  BY <2>1
<1>5. ShardsOf(len, b) = IF m <= d - x THEN m ELSE d - x
  BY <1>2, <1>3, <1>4 DEF ShardsOf, Least
<1>6. x + ShardsOf(len, b) <= d
  BY <1>5
<1>7. ASSUME NEW s \in 0 .. m - 1, x + s < d PROVE s < ShardsOf(len, b)
  BY <1>5, <1>7
<1> QED  BY <1>1, <1>2, <1>3, <1>4, <1>6, <1>7

\* The number of a data packet in its frame.
NumberOf(p) == p.block * MaxShards + p.shard

\* Data packets are numbered in the order they come in.
LEMMA Numbered ==
  ASSUME PayloaderAssumption, NEW len \in Nat, NEW off, NEW frame,
         LaidOut(len, off, Blocks(len), frame)
  PROVE  /\ DataPackets(frame) \in SUBSET Nat
         /\ \A i \in DataPackets(frame) :
              \E b \in 0 .. Blocks(len) - 1 : \E s \in 0 .. MaxShards - 1 :
                /\ s < ShardsOf(len, b) /\ i = off[b] + s + 1
                /\ IsPacket(len, b, s + 1, frame[i]) /\ NumberOf(frame[i]) = b * MaxShards + s
         /\ \A i \in DataPackets(frame) : NumberOf(frame[i]) \in 0 .. Shards(len) - 1
         /\ \A i \in DataPackets(frame) : \A j \in DataPackets(frame) :
              i < j => NumberOf(frame[i]) < NumberOf(frame[j])
         /\ \A r \in 0 .. Shards(len) - 1 : \E i \in DataPackets(frame) : NumberOf(frame[i]) = r
<1>1. PICK n \in Nat \ {0} : n = Blocks(len)
  BY FrameShards
<1>2. PICK d \in Nat : d = Shards(len)
  BY FrameShards
<1>3. PICK m \in Nat \ {0} : m = MaxShards
  BY Constants
<1>4. d <= n * m
  BY <1>1, <1>2, <1>3, FrameShards
<1>5. off \in [0 .. n -> Nat]
  BY <1>1 DEF LaidOut, BlocksPlaced
<1>6. PICK size \in Nat : size = Len(frame) /\ size = off[n]
  BY <1>1, <1>5 DEF LaidOut
<1>7. ASSUME NEW b \in 0 .. n - 1
      PROVE  /\ SizeOf(len, b) \in Nat
             /\ off[b] \in Nat
             /\ off[b + 1] = off[b] + SizeOf(len, b)
             /\ off[b] + SizeOf(len, b) <= size
  <2>1. b \in 0 .. n /\ b + 1 \in 0 .. n /\ n \in 0 .. n
    OBVIOUS
  <2>2. SizeOf(len, b) \in Nat /\ off[b + 1] = off[b] + SizeOf(len, b)
    BY <1>1 DEF LaidOut, BlocksPlaced
  <2>3. off[b + 1] <= off[n]
    BY <1>1, <2>1 DEF LaidOut, BlocksPlaced
  <2> QED  BY <1>5, <1>6, <2>1, <2>2, <2>3
<1>8. \A b \in 0 .. n - 1 : \A k \in 1 .. SizeOf(len, b) : IsPacket(len, b, k, frame[off[b] + k])
  BY <1>1 DEF LaidOut
<1>9. \A b \in 0 .. n - 1 : /\ ShardsOf(len, b) \in 1 .. m
                           /\ b * m + ShardsOf(len, b) <= d
                           /\ \A s \in 0 .. m - 1 : b * m + s < d => s < ShardsOf(len, b)
  BY <1>1, <1>2, <1>3, ShardsOfBlocks
<1>10. PICK data : data = DataPackets(frame) /\ data = { k \in 1 .. size : frame[k].shard < frame[k].total }
  BY <1>6 DEF DataPackets
<1>11. ASSUME NEW i \in data
       PROVE  \E b \in 0 .. n - 1 : \E s \in 0 .. m - 1 :
                /\ s < ShardsOf(len, b) /\ s + 1 \in 1 .. SizeOf(len, b) /\ i = off[b] + s + 1
                /\ IsPacket(len, b, s + 1, frame[i]) /\ NumberOf(frame[i]) = b * m + s
  <2>1. i \in 1 .. size /\ frame[i].shard < frame[i].total
    BY <1>10
  <2>2. PICK b \in 0 .. n - 1 : \E k \in 1 .. SizeOf(len, b) : i = off[b] + k
    BY <1>1, <1>6, <2>1 DEF LaidOut, BlocksPlaced
  <2>3. PICK k \in 1 .. SizeOf(len, b) : i = off[b] + k
    BY <2>2
  <2>4. IsPacket(len, b, k, frame[i])
    BY <1>8, <2>3
  <2>5. PICK t \in 1 .. m : t = ShardsOf(len, b)
    BY <1>9
  <2>6. frame[i].shard = k - 1 /\ frame[i].total = t /\ frame[i].block = b
    BY <2>4, <2>5 DEF IsPacket
  <2>7. PICK s \in 0 .. m - 1 : s = k - 1 /\ s < t /\ k = s + 1
    <3>1. k - 1 < t
      BY <2>1, <2>6
    <3>2. k - 1 \in 0 .. m - 1 /\ k = (k - 1) + 1
      BY <1>7, <3>1
    <3> QED  BY <3>1, <3>2
  <2>8. NumberOf(frame[i]) = b * m + s
    BY <1>3, <2>6, <2>7 DEF NumberOf
  <2>9. i = off[b] + s + 1
    BY <1>7, <2>3, <2>7
  <2> QED  BY <2>3, <2>4, <2>5, <2>7, <2>8, <2>9
<1>12. ASSUME NEW i \in data PROVE NumberOf(frame[i]) \in 0 .. d - 1
  <2>1. PICK b \in 0 .. n - 1 : \E s \in 0 .. m - 1 :
                  s < ShardsOf(len, b) /\ NumberOf(frame[i]) = b * m + s
    BY <1>11
  <2>2. PICK s \in 0 .. m - 1 : s < ShardsOf(len, b) /\ NumberOf(frame[i]) = b * m + s
    BY <2>1
  <2>3. PICK x \in Nat : x = b * m
    <3>1. b \in Nat
      OBVIOUS
    <3> QED  BY <3>1
  <2>4. x + ShardsOf(len, b) <= d /\ ShardsOf(len, b) \in 1 .. m
    BY <1>9, <2>3
  <2> QED  BY <2>2, <2>3, <2>4
<1>13. ASSUME NEW i \in data, NEW j \in data, i < j PROVE NumberOf(frame[i]) < NumberOf(frame[j])
  <2>1. PICK b \in 0 .. n - 1 : \E s \in 0 .. m - 1 :
             s + 1 \in 1 .. SizeOf(len, b) /\ i = off[b] + s + 1 /\ NumberOf(frame[i]) = b * m + s
    BY <1>11
  <2>2. PICK s \in 0 .. m - 1 :
             s + 1 \in 1 .. SizeOf(len, b) /\ i = off[b] + s + 1 /\ NumberOf(frame[i]) = b * m + s
    BY <2>1
  <2>3. PICK c \in 0 .. n - 1 : \E t \in 0 .. m - 1 :
             t + 1 \in 1 .. SizeOf(len, c) /\ j = off[c] + t + 1 /\ NumberOf(frame[j]) = c * m + t
    BY <1>11
  <2>4. PICK t \in 0 .. m - 1 :
             t + 1 \in 1 .. SizeOf(len, c) /\ j = off[c] + t + 1 /\ NumberOf(frame[j]) = c * m + t
    BY <2>3
  <2>5. ~(c < b)
    <3> SUFFICES ASSUME c < b PROVE FALSE
      OBVIOUS
    <3>1. b \in 0 .. n /\ c + 1 \in 0 .. b
      OBVIOUS
    <3>2. off[c + 1] <= off[b]
      BY <1>1, <3>1 DEF LaidOut, BlocksPlaced
    <3>3. off[c] + SizeOf(len, c) <= off[b] /\ SizeOf(len, c) \in Nat /\ off[c] \in Nat /\ off[b] \in Nat
      BY <1>7, <3>2
    <3>4. PICK x \in Nat : x = off[b]
      BY <3>3
    <3>5. PICK y \in Nat : y = off[c]
      BY <3>3
    <3>6. PICK z \in Nat : z = SizeOf(len, c) /\ y + z <= x
      BY <3>3, <3>4, <3>5
    <3>7. i = x + s + 1 /\ j = y + t + 1 /\ t + 1 <= z
      BY <2>2, <2>4, <3>4, <3>5, <3>6
    <3> QED  BY <1>13, <3>6, <3>7
  <2>6. CASE b = c
    <3>1. PICK o \in Nat : o = off[b] /\ o = off[c]
      BY <1>7, <2>6
    <3>2. i = o + s + 1 /\ j = o + t + 1
      BY <2>2, <2>4, <3>1
    <3>3. s < t
      BY <1>13, <3>2
    <3>4. PICK x \in Nat : x = b * m /\ x = c * m
      <4>1. b * m \in Nat
        <5>1. b \in Nat
          OBVIOUS
        <5> QED  BY <5>1
      <4> QED  BY <2>6, <4>1
    <3>5. NumberOf(frame[i]) = x + s /\ NumberOf(frame[j]) = x + t
      BY <2>2, <2>4, <3>4
    <3> QED  BY <3>3, <3>5
  <2>7. CASE b # c
    <3>1. b \in Nat /\ c \in Nat /\ b < c
      BY <2>5, <2>7
    <3>2. (b + 1) * m <= c * m /\ (b + 1) * m = b * m + m /\ b * m \in Nat /\ c * m \in Nat
      BY <3>1, Grows
    <3> QED  BY <2>2, <2>4, <3>2
  <2> QED  BY <2>6, <2>7
<1>14. ASSUME NEW r \in 0 .. d - 1 PROVE \E i \in data : NumberOf(frame[i]) = r
  <2>1. r \in Nat /\ m \in Nat \ {0}
    OBVIOUS
  <2>2. PICK b \in Nat : b = r \div m
    BY <2>1, DivBounds
  <2>3. b * m <= r /\ r < b * m + m
    BY <2>1, <2>2, DivBounds
  <2>before. PICK x \in Nat : x = b * m
    OBVIOUS
  <2>all. PICK y \in Nat : y = n * m
    OBVIOUS
  <2>4. b \in 0 .. n - 1
    <3>1. ~(n <= b)
      <4> SUFFICES ASSUME n <= b PROVE FALSE
        OBVIOUS
      <4>1. y <= x
        BY <2>before, <2>all, TimesAtMost
      <4>2. d <= y
        BY <1>4, <2>all
      <4>3. x <= r /\ r < d
        BY <2>3, <2>before
      <4> QED  BY <4>1, <4>2, <4>3
    <3> QED  BY <3>1
  <2>6. PICK s \in 0 .. m - 1 : s = r - x /\ r = x + s
    <3>1. r - x \in 0 .. m - 1 /\ r = x + (r - x)
      BY <2>3, <2>before
    <3> QED  BY <3>1
  <2>7. PICK t \in 1 .. m : t = ShardsOf(len, b) /\ s < t
    <3>1. b * m + s < d
      BY <2>before, <2>6
    <3> QED  BY <1>9, <2>4, <3>1
  <2>8. s + 1 \in 1 .. SizeOf(len, b)
    <3>1. SizeOf(len, b) \in Nat /\ t <= SizeOf(len, b)
      BY <1>1, <2>4, <2>7 DEF LaidOut, BlocksPlaced
    <3> QED  BY <2>7, <3>1
  <2>9. PICK i \in 1 .. size : i = off[b] + (s + 1)
    <3>1. off[b] + (s + 1) \in 1 .. size
      BY <1>7, <2>4, <2>8
    <3> QED  BY <3>1
  <2>10. IsPacket(len, b, s + 1, frame[i])
    BY <1>8, <2>4, <2>8, <2>9
  <2>11. frame[i].shard = s /\ frame[i].total = t /\ frame[i].block = b
    <3>1. s + 1 - 1 = s
      OBVIOUS
    <3> QED  BY <2>7, <2>10, <3>1 DEF IsPacket
  <2>12. i \in data
    BY <1>10, <2>7, <2>9, <2>11
  <2>13. NumberOf(frame[i]) = r
    BY <1>3, <2>before, <2>6, <2>11 DEF NumberOf
  <2> QED  BY <2>12, <2>13
<1>15. data \in SUBSET Nat
  BY <1>10
<1>16. \A i \in data :
         \E b \in 0 .. Blocks(len) - 1 : \E s \in 0 .. MaxShards - 1 :
           /\ s < ShardsOf(len, b) /\ i = off[b] + s + 1
           /\ IsPacket(len, b, s + 1, frame[i]) /\ NumberOf(frame[i]) = b * MaxShards + s
  BY <1>1, <1>3, <1>11
<1>17. \A i \in data : NumberOf(frame[i]) \in 0 .. Shards(len) - 1
  BY <1>2, <1>12
<1>18. \A i \in data : \A j \in data : i < j => NumberOf(frame[i]) < NumberOf(frame[j])
  BY <1>13
<1>19. \A r \in 0 .. Shards(len) - 1 : \E i \in data : NumberOf(frame[i]) = r
  BY <1>2, <1>14
<1>20. data = DataPackets(frame)
  BY <1>10
<1> QED  BY ONLY <1>15, <1>16, <1>17, <1>18, <1>19, <1>20

\* The byte of the frame, or of the padding after it, that is byte j of the payload of
\* data packet s of block b.
LEMMA ByteInPlace ==
  ASSUME PayloaderAssumption, NEW len \in Nat, FrameFits(len),
         NEW b \in 0 .. Blocks(len) - 1, NEW s \in 0 .. MaxShards - 1, s < ShardsOf(len, b),
         NEW i \in Nat \ {0}, NEW j \in 0 .. PayloadLen - 1,
         HeaderSize + i - 1 = (b * MaxShards + s) * PayloadLen + j
  PROVE  PayloadsOf(b, BlockBytes(len, b))[s + 1][j + 1] = IF i <= len THEN i ELSE PadByte
<1>1. PICK p \in Nat \ {0} : p = PayloadLen
  BY Constants
<1>2. PICK m \in Nat \ {0} : m = MaxShards
  BY Constants
<1>3. PICK h \in Nat : h = HeaderOf(b)
  BY Constants DEF HeaderOf
<1>4. PICK hs \in Nat \ {0} : hs = HeaderSize /\ (b = 0 => h = hs) /\ (b # 0 => h = 0)
  BY <1>3, Constants DEF HeaderOf
<1>5. b \in Nat
  <2> Blocks(len) \in Nat
    BY FrameShards
  <2> QED  OBVIOUS
<1>6. PICK o \in Nat : o = b * m * p
  BY <1>5
<1>7. PICK bytes \in Seq(Int) : bytes = BlockBytes(len, b)
  BY BytesOfBlock
<1>8. PICK a \in Nat : a = BlockStart(b) /\ a = o - hs + h
  <2>1. BlockStart(b) \in Nat /\ BlockStart(b) = b * MaxShards * PayloadLen - HeaderSize + HeaderOf(b)
    BY BytesOfBlock
  <2> QED  BY <1>1, <1>2, <1>3, <1>4, <1>6, <2>1
<1>9. PICK w \in Nat : w = m * p
  OBVIOUS
<1>10. BlockStart(b + 1) = o + w - hs
  <2>1. BlockStart(b + 1) = (b + 1) * MaxShards * PayloadLen - HeaderSize
    BY BytesOfBlock
  <2>2. PICK x \in Nat : x = (b + 1) * m * p /\ x = o + w
    <3>1. (b + 1) * m * p = o + w
      BY <1>5, <1>6, <1>9
    <3>2. o + w \in Nat
      OBVIOUS
    <3> QED  BY <3>1, <3>2
  <2>3. BlockStart(b + 1) = x - hs
    BY <1>1, <1>2, <1>4, <2>1, <2>2
  <2> QED  BY <2>2, <2>3
<1>11. PICK l \in Nat : l = Len(bytes)
  OBVIOUS
<1>12. l = (IF o + w - hs <= len THEN o + w - hs ELSE len) - a
  <2>1. Len(BlockBytes(len, b)) = Least(BlockStart(b + 1), len) - BlockStart(b)
    BY BytesOfBlock
  <2> QED  BY <1>7, <1>8, <1>10, <1>11, <2>1 DEF Least
<1>13. PICK v \in Nat : v = s * p
  <2>1. s \in Nat
    BY <1>2
  <2> QED  BY <2>1
<1>14. v + p <= w
  <2>1. s + 1 <= m /\ s \in Nat
    BY <1>2
  <2>2. (s + 1) * p <= m * p /\ (s + 1) * p = s * p + p
    BY <2>1, TimesAtMost
  <2> QED  BY <1>9, <1>13, <2>2
<1>15. PICK n \in Nat : n = v + j + 1 /\ n = hs + i - o
  <2>1. (b * m + s) * p = o + v
    <3>1. s \in Nat
      BY <1>2
    <3>2. (b * m + s) * p = b * m * p + s * p
      BY <1>5, <3>1
    <3> QED  BY <1>6, <1>13, <3>2
  <2>2. hs + i - 1 = o + v + j
    BY <1>1, <1>2, <1>4, <2>1
  <2>3. v + j + 1 \in Nat /\ v + j + 1 = hs + i - o
    BY <1>1, <2>2
  <2> QED  BY <2>3
<1>16. h < n /\ (n <= h + l <=> i <= len)
  <2>1. h < n
    <3>1. CASE b = 0
      <4>1. o = 0
        BY <1>6, <3>1
      <4> QED  BY <1>4, <1>15, <3>1, <4>1
    <3>2. CASE b # 0
      BY <1>1, <1>4, <1>15, <3>2
    <3> QED  BY <3>1, <3>2
  <2>2. n <= w
    BY <1>1, <1>14, <1>15
  <2>3. n <= h + l <=> i <= len
    <3>1. CASE o + w - hs <= len
      <4>1. l = o + w - hs - a /\ h + l = w
        BY <1>8, <1>12, <3>1
      <4>2. i <= len
        BY <1>15, <2>2, <3>1
      <4> QED  BY <2>2, <4>1, <4>2
    <3>2. CASE ~(o + w - hs <= len)
      BY <1>8, <1>12, <1>15, <3>2
    <3> QED  BY <3>1, <3>2
  <2> QED  BY <2>1, <2>3
<1>17. PICK k \in Nat : k = s + 1 /\ k - 1 = s
  BY <1>2
<1>18. PICK z \in 1 .. p : z = j + 1
  BY <1>1
<1>19. (k - 1) * p + z = n /\ k \in 1 .. ShardsOf(len, b)
  <2>1. k \in 1 .. ShardsOf(len, b)
    <3>1. PICK t \in 1 .. m : t = ShardsOf(len, b)
      BY <1>2, BytesOfBlock
    <3> QED  BY <1>2, <1>17, <3>1
  <2> QED  BY <1>13, <1>15, <1>17, <1>18, <2>1
<1>20. PICK payloads : payloads = PayloadsOf(b, bytes)
  OBVIOUS
<1>21. /\ Len(payloads) = ShardsOf(len, b)
       /\ \A y \in 1 .. Len(payloads) : \A x \in 1 .. p :
             h < (y - 1) * p + x
             => payloads[y][x] = IF (y - 1) * p + x <= h + l
                                 THEN bytes[(y - 1) * p + x - h] ELSE PadByte
  <2>1. b = 0 => Len(bytes) >= PayloadLen
    BY <1>7 DEF FrameFits
  <2>2. DivCeil(Len(bytes) + HeaderOf(b), PayloadLen) = ShardsOf(len, b)
    BY <1>7, BytesOfBlock
  <2>3. /\ Len(PayloadsOf(b, bytes)) = DivCeil(Len(bytes) + HeaderOf(b), PayloadLen)
        /\ \A y \in 1 .. Len(PayloadsOf(b, bytes)) : \A x \in 1 .. PayloadLen :
             HeaderOf(b) < (y - 1) * PayloadLen + x
             => PayloadsOf(b, bytes)[y][x] =
                  IF (y - 1) * PayloadLen + x <= HeaderOf(b) + Len(bytes)
                  THEN bytes[(y - 1) * PayloadLen + x - HeaderOf(b)] ELSE PadByte
    BY <1>5, <2>1, PayloadsFit
  <2> QED  BY <1>1, <1>3, <1>11, <1>20, <2>2, <2>3
<1>22. payloads[k][z] = IF n <= h + l THEN bytes[n - h] ELSE PadByte
  <2>1. h < (k - 1) * p + z /\ (k - 1) * p + z = n
    BY <1>16, <1>19
  <2>2. payloads[k][z] = IF (k - 1) * p + z <= h + l THEN bytes[(k - 1) * p + z - h] ELSE PadByte
    BY <1>19, <1>21, <2>1
  <2> QED  BY <2>1, <2>2
<1>23. n <= h + l => bytes[n - h] = i
  <2> SUFFICES ASSUME n <= h + l PROVE bytes[n - h] = i
    OBVIOUS
  <2>1. PICK x \in 1 .. l : x = n - h
    <3>1. n - h \in 1 .. l
      BY <1>16
    <3> QED  BY <3>1
  <2>2. bytes[x] = a + x
    <3>1. \A y \in 1 .. Len(BlockBytes(len, b)) : BlockBytes(len, b)[y] = BlockStart(b) + y
      BY BytesOfBlock
    <3>2. \A y \in 1 .. l : bytes[y] = a + y
      BY <1>7, <1>8, <1>11, <3>1
    <3> QED  BY <3>2
  <2>3. a + x = i
    BY <1>8, <1>15, <2>1
  <2> QED  BY <2>1, <2>2, <2>3
<1> QED  BY <1>7, <1>16, <1>17, <1>18, <1>20, <1>22, <1>23

\* The last payload is as long as it is announced to be.
LEMMA LastPayload ==
  ASSUME PayloaderAssumption, NEW len \in Nat
  PROVE  (Shards(len) - 1) * PayloadLen + LastPayloadLen(len) - HeaderSize = len
<1>1. PICK p \in Nat \ {0} : p = PayloadLen
  BY Constants
<1>2. PICK h \in Nat \ {0} : h = HeaderSize
  BY Constants
<1>3. PICK full \in Nat : full = h + len
  OBVIOUS
<1>4. PICK d \in Nat \ {0} : d = Shards(len) /\ full <= d * p /\ d * p < full + p
  <2>1. /\ Shards(len) \in Nat \ {0}
        /\ HeaderSize + len <= Shards(len) * PayloadLen
        /\ Shards(len) * PayloadLen < HeaderSize + len + PayloadLen
    BY FrameShards
  <2> QED  BY <1>1, <1>2, <1>3, <2>1
<1>5. PICK q \in Nat : q = full \div p /\ q * p <= full /\ full < q * p + p /\ (full % p) = full - q * p
  BY DivBounds
<1>6. LastPayloadLen(len) = IF (full % p) = 0 THEN p ELSE full % p
  BY <1>1, <1>2, <1>3 DEF LastPayloadLen
<1>7. (d - 1) * p = d * p - p
  OBVIOUS
<1>8. PICK x \in Nat : x = q * p
  OBVIOUS
<1>9. PICK y \in Nat : y = d * p
  OBVIOUS
<1>10. CASE full = x
  <2>1. y = x
    <3>1. d = q
      <4>1. ~(q < d)
        <5> SUFFICES ASSUME q < d PROVE FALSE
          OBVIOUS
        <5>1. (q + 1) * p <= d * p /\ (q + 1) * p = q * p + p
          BY Grows
        <5> QED  BY <1>4, <1>8, <1>9, <1>10, <5>1
      <4>2. ~(d < q)
        <5> SUFFICES ASSUME d < q PROVE FALSE
          OBVIOUS
        <5>1. (d + 1) * p <= q * p /\ (d + 1) * p = d * p + p
          BY Grows
        <5> QED  BY <1>4, <1>8, <1>9, <1>10, <5>1
      <4> QED  BY <4>1, <4>2
    <3> QED  BY <1>8, <1>9, <3>1
  <2>2. LastPayloadLen(len) = p
    BY <1>5, <1>6, <1>8, <1>10
  <2>3. (d - 1) * p + LastPayloadLen(len) - h = len
    BY <1>3, <1>7, <1>9, <1>10, <2>1, <2>2
  <2> QED  BY <1>1, <1>2, <1>4, <2>3
<1>11. CASE full # x
  <2>1. y = x + p
    <3>1. d = q + 1
      <4>1. ~(q + 1 < d)
        <5> SUFFICES ASSUME q + 1 < d PROVE FALSE
          OBVIOUS
        <5>1. (q + 1 + 1) * p <= d * p /\ (q + 1 + 1) * p = q * p + p + p
          BY Grows
        <5> QED  BY <1>4, <1>5, <1>8, <1>9, <5>1
      <4>2. ~(d < q + 1)
        <5> SUFFICES ASSUME d < q + 1 PROVE FALSE
          OBVIOUS
        <5>1. d * p <= q * p
          BY TimesAtMost
        <5> QED  BY <1>4, <1>5, <1>8, <1>9, <1>11, <5>1
      <4> QED  BY <4>1, <4>2
    <3>2. (q + 1) * p = q * p + p
      OBVIOUS
    <3> QED  BY <1>8, <1>9, <3>1, <3>2
  <2>2. LastPayloadLen(len) = full - x
    BY <1>5, <1>6, <1>8, <1>11
  <2>3. (d - 1) * p + LastPayloadLen(len) - h = len
    BY <1>3, <1>7, <1>9, <2>1, <2>2
  <2> QED  BY <1>1, <1>2, <1>4, <2>3
<1> QED  BY <1>10, <1>11

LEMMA LaidOutRoundTrip ==
  ASSUME PayloaderAssumption, NEW len \in Nat, FrameFits(len), NEW off, NEW frame,
         LaidOut(len, off, Blocks(len), frame)
  PROVE  RoundTrips(frame, len)
<1>1. PICK p \in Nat \ {0} : p = PayloadLen
  BY Constants
<1>2. PICK h \in Nat \ {0} : h = HeaderSize
  BY Constants
<1>3. PICK m \in Nat \ {0} : m = MaxShards
  BY Constants
<1>4. PICK d \in Nat \ {0} : d = Shards(len) /\ h + len <= d * p
  <2>1. Shards(len) \in Nat \ {0} /\ HeaderSize + len <= Shards(len) * PayloadLen
    BY FrameShards
  <2> QED  BY <1>1, <1>2, <2>1
<1>5. PICK data : data = DataPackets(frame)
  OBVIOUS
<1>6. PICK g : g = [i \in data |-> NumberOf(frame[i])]
  OBVIOUS
<1>7. /\ data \in SUBSET Nat
      /\ g \in [data -> 0 .. d - 1]
      /\ \A i \in data : \A j \in data : i < j => g[i] < g[j]
      /\ \A r \in 0 .. d - 1 : \E i \in data : g[i] = r
  BY <1>4, <1>5, <1>6, Numbered
<1>8. /\ Cardinality(data) = d
      /\ \A k \in data : Cardinality({ j \in data : j < k }) = g[k]
  <2>1. PICK e \in Nat : e = d
    OBVIOUS
  <2>2. /\ g \in [data -> 0 .. e - 1]
        /\ \A r \in 0 .. e - 1 : \E i \in data : g[i] = r
    BY <1>7, <2>1
  <2>3. /\ Cardinality(data) = e
        /\ \A k \in data : Cardinality({ j \in data : j < k }) = g[k]
    <3>1. data \in SUBSET Nat /\ \A i \in data : \A j \in data : i < j => g[i] < g[j]
      BY <1>7
    <3> QED  BY ONLY <2>2, <3>1, e \in Nat, Ranked
  <2> QED  BY <2>1, <2>3
<1>9. PICK z \in Nat : z = PayloadLen - LastPayloadLen(len) /\ d * p - h = len + z /\ LastPayloadLen(len) = p - z
  <2>1. (d - 1) * p + LastPayloadLen(len) - h = len
    BY <1>1, <1>2, <1>4, LastPayload
  <2>2. PICK last \in Nat : last = LastPayloadLen(len)
    <3>1. \A x \in Nat : (x % p) \in Nat
      BY DivBounds
    <3>2. HeaderSize + len \in Nat
      BY <1>2
    <3> QED  BY <1>1, <3>1, <3>2 DEF LastPayloadLen
  <2>3. (d - 1) * p = d * p - p
    OBVIOUS
  <2>4. PICK y \in Nat : y = d * p
    OBVIOUS
  <2>5. y - p + last - h = len /\ h + len <= y
    BY <1>4, <2>1, <2>2, <2>3, <2>4
  <2>6. last <= p
    BY <2>5
  <2>7. PICK w \in Nat : w = p - last
    BY <2>6
  <2>8. y - h = len + w /\ last = p - w
    BY <2>5, <2>7
  <2>9. w = PayloadLen - LastPayloadLen(len) /\ LastPayloadLen(len) = p - w
    BY <1>1, <2>2, <2>7, <2>8
  <2> QED  BY <2>4, <2>8, <2>9
<1>10. ASSUME NEW i \in 1 .. len + z
       PROVE  JoinedByte(frame, HeaderSize + i - 1) = IF i <= len THEN i ELSE PadByte
  <2>1. PICK x \in Nat : x = h + i - 1
    OBVIOUS
  <2>2. PICK r \in Nat : r = x \div p
    BY DivBounds
  <2>3. PICK j \in 0 .. p - 1 : j = x % p /\ x = r * p + j
    <3>1. r * p <= x /\ x < r * p + p /\ (x % p) = x - r * p
      BY <2>2, DivBounds
    <3>2. PICK y \in Nat : y = r * p
      OBVIOUS
    <3>3. x - y \in 0 .. p - 1 /\ x = y + (x - y)
      BY <3>1, <3>2
    <3> QED  BY <3>1, <3>2, <3>3
  <2>4. r \in 0 .. d - 1
    <3>1. ~(d <= r)
      <4> SUFFICES ASSUME d <= r PROVE FALSE
        OBVIOUS
      <4>1. d * p <= r * p
        BY TimesAtMost
      <4>2. PICK y \in Nat : y = d * p
        OBVIOUS
      <4>3. PICK u \in Nat : u = r * p
        OBVIOUS
      <4>4. x < y /\ u <= x
        BY <1>9, <2>1, <2>3, <4>2, <4>3
      <4> QED  BY <4>1, <4>2, <4>3, <4>4
    <3> QED  BY <3>1
  <2>5. PICK k \in data : k = CHOOSE n \in data : Cardinality({ c \in data : c < n }) = r
    <3>1. PICK n \in data : g[n] = r
      BY <1>7, <2>4
    <3>2. Cardinality({ c \in data : c < n }) = r
      BY <1>8, <3>1
    <3> QED  BY <3>2
  <2>6. g[k] = r
    <3>1. PICK n \in data : g[n] = r
      BY <1>7, <2>4
    <3>2. Cardinality({ c \in data : c < n }) = r
      BY <1>8, <3>1
    <3>3. Cardinality({ c \in data : c < k }) = r
      BY <2>5, <3>2
    <3> QED  BY <1>8, <3>3
  <2>7. Payload(frame, r) = frame[k].data
    BY <1>5, <2>5 DEF Payload
  <2>8. PICK b \in 0 .. Blocks(len) - 1 : \E s \in 0 .. MaxShards - 1 :
          /\ s < ShardsOf(len, b)
          /\ IsPacket(len, b, s + 1, frame[k]) /\ NumberOf(frame[k]) = b * MaxShards + s
    BY <1>5, Numbered
  <2>9. PICK s \in 0 .. MaxShards - 1 :
          /\ s < ShardsOf(len, b)
          /\ IsPacket(len, b, s + 1, frame[k]) /\ NumberOf(frame[k]) = b * MaxShards + s
    BY <2>8
  <2>10. r = b * MaxShards + s
    BY <1>6, <2>6, <2>9
  <2>11. frame[k].data = PayloadsOf(b, BlockBytes(len, b))[s + 1]
    <3>1. s + 1 <= ShardsOf(len, b)
      <4>1. PICK t \in 1 .. m : t = ShardsOf(len, b)
        BY <1>3, BytesOfBlock
      <4>2. s \in Nat
        BY <1>3
      <4> QED  BY <2>9, <4>1, <4>2
    <3> QED  BY <2>9, <3>1 DEF IsPacket
  <2>12. HeaderSize + i - 1 = (b * MaxShards + s) * PayloadLen + j /\ j \in 0 .. PayloadLen - 1
    BY <1>1, <1>2, <2>1, <2>3, <2>10
  <2>13. PayloadsOf(b, BlockBytes(len, b))[s + 1][j + 1] = IF i <= len THEN i ELSE PadByte
    <3>1. PICK y \in Nat \ {0} : y = i
      OBVIOUS
    <3>2. HeaderSize + y - 1 = (b * MaxShards + s) * PayloadLen + j
      BY <2>12, <3>1
    <3>3. PayloadsOf(b, BlockBytes(len, b))[s + 1][j + 1] = IF y <= len THEN y ELSE PadByte
      <4>1. s < ShardsOf(len, b) /\ j \in 0 .. PayloadLen - 1
        BY <2>9, <2>12
      <4> QED  BY <3>2, <4>1, ByteInPlace
    <3> QED  BY <3>1, <3>3
  <2>14. Payload(frame, r)[j + 1] = IF i <= len THEN i ELSE PadByte
    BY <2>7, <2>11, <2>13
  <2>15. (HeaderSize + i - 1) \div PayloadLen = r /\ (HeaderSize + i - 1) % PayloadLen = j
    BY <1>1, <1>2, <2>1, <2>2, <2>3
  <2> QED  BY <2>14, <2>15 DEF JoinedByte
<1>11. ASSUME NEW format \in Formats, NEW version \in Versions, FrameHeaderLen(version) = HeaderSize
       PROVE  Depayloaded(frame, len, format, version) = Expected(len, format)
  <2>1. PICK n \in Nat : n = IF format \in PaddedFormats THEN z ELSE 0
    OBVIOUS
  <2>2. Depayloaded(frame, len, format, version)
          = [i \in 1 .. len + n |-> JoinedByte(frame, HeaderSize + i - 1)]
    <3>1. PICK y \in Nat : y = d * p /\ y = Cardinality(data) * PayloadLen
      BY <1>1, <1>8
    <3>2. PICK end \in Int : end = (IF format \in PaddedFormats THEN y ELSE y - PayloadLen + LastPayloadLen(len))
                              /\ end - h = len + n
      <4>1. y - h = len + z
        BY <1>9, <3>1
      <4>2. CASE format \in PaddedFormats
        BY <2>1, <4>1, <4>2
      <4>3. CASE format \notin PaddedFormats
        <5>1. y - PayloadLen + LastPayloadLen(len) = y - z
          BY <1>1, <1>9
        <5> QED  BY <2>1, <4>1, <4>3, <5>1
      <4> QED  BY <4>2, <4>3
    <3>3. Depayloaded(frame, len, format, version)
            = [i \in 1 .. end - HeaderSize |-> JoinedByte(frame, HeaderSize + i - 1)]
      BY <1>5, <1>11, <3>1, <3>2 DEF Depayloaded
    <3> QED  BY <1>2, <3>2, <3>3
  <2>3. Expected(len, format) = [i \in 1 .. len + n |-> IF i <= len THEN i ELSE PadByte]
    <3>1. PICK bytes \in Seq(Int) : bytes = FrameBytes(len) /\ Len(bytes) = len
                                     /\ \A i \in 1 .. len : bytes[i] = i
      <4>1. FrameBytes(len) \in Seq(Int) /\ Len(FrameBytes(len)) = len
            /\ \A i \in 1 .. len : FrameBytes(len)[i] = i
        BY DEF FrameBytes
      <4> QED  BY <4>1
    <3>2. PICK pad \in Seq(Int) : pad = Repeated(PadByte, n) /\ Len(pad) = n
                                   /\ \A i \in 1 .. n : pad[i] = PadByte
      <4>1. Repeated(PadByte, n) \in Seq(Int) /\ Len(Repeated(PadByte, n)) = n
            /\ \A i \in 1 .. n : Repeated(PadByte, n)[i] = PadByte
        BY DEF Repeated, PadByte
      <4> QED  BY <4>1
    <3>3. Expected(len, format) = bytes \o pad
      <4>1. n = IF format \in PaddedFormats THEN PayloadLen - LastPayloadLen(len) ELSE 0
        BY <1>9, <2>1
      <4> QED  BY <3>1, <3>2, <4>1 DEF Expected
    <3>4. /\ bytes \o pad \in Seq(Int)
          /\ Len(bytes \o pad) = len + n
          /\ \A i \in 1 .. len + n :
               (bytes \o pad)[i] = IF i <= len THEN bytes[i] ELSE pad[i - len]
      <4>1. /\ bytes \o pad \in Seq(Int)
            /\ Len(bytes \o pad) = Len(bytes) + Len(pad)
            /\ \A i \in 1 .. Len(bytes) + Len(pad) :
                 (bytes \o pad)[i] = IF i <= Len(bytes) THEN bytes[i] ELSE pad[i - Len(bytes)]
        BY ConcatProperties
      <4> QED  BY <3>1, <3>2, <4>1
    <3>5. ASSUME NEW i \in 1 .. len + n PROVE (bytes \o pad)[i] = IF i <= len THEN i ELSE PadByte
      <4>1. CASE i <= len
        BY <3>1, <3>4, <4>1
      <4>2. CASE ~(i <= len)
        <5>1. i - len \in 1 .. n
          BY <4>2
        <5> QED  BY <3>2, <3>4, <4>2, <5>1
      <4> QED  BY <4>1, <4>2
    <3>6. PICK joined \in Seq(Int) : joined = bytes \o pad /\ Len(joined) = len + n
      BY <3>4
    <3>7. joined = [i \in 1 .. len + n |-> joined[i]]
      <4>1. joined \in [1 .. Len(joined) -> Int]
        BY LenProperties
      <4>2. joined \in [1 .. len + n -> Int]
        BY <3>6, <4>1
      <4> QED  BY <4>2
    <3> QED  BY <3>3, <3>5, <3>6, <3>7
  <2>4. \A i \in 1 .. len + n : i \in 1 .. len + z
    BY <1>9, <2>1
  <2> QED  BY <1>10, <2>2, <2>3, <2>4
<1> QED  BY <1>11 DEF RoundTrips


-----------------------------------------------------------------------------
(* The queue.                                                              *)

\* The payloads of a block are a sequence, whatever the block holds.
LEMMA PayloadsListed ==
  ASSUME PayloaderAssumption, NEW b, NEW bytes \in Seq(Int)
  PROVE  Len(PayloadsOf(b, bytes)) \in Nat
<1>1. PayloadLen \in Nat \ {0} /\ HeaderSize \in Nat \ {0}
  BY Constants
<1>2. ASSUME NEW s \in Seq(Int) PROVE \E S : Chunks(s) \in Seq(S)
  BY <1>1, Chunked
<1>3. CASE b # 0
  <2>1. PICK c : c = Chunks(bytes)
    OBVIOUS
  <2>2. PICK S : c \in Seq(S)
    BY <1>2, <2>1
  <2>3. Len(c) \in Nat
    BY <2>2, LenProperties
  <2> QED  BY <1>3, <2>1, <2>3 DEF PayloadsOf
<1>4. CASE b = 0
  <2>1. PICK l \in Nat : l = Len(bytes)
    OBVIOUS
  <2>2. PICK n \in Nat : n = AtLeastZero(Least(PayloadLen, Len(bytes)) - HeaderSize)
    <3>1. PICK h \in Nat : h = HeaderSize
      BY <1>1
    <3>2. PICK k \in Nat : k = Least(PayloadLen, Len(bytes))
      BY <1>1, <2>1 DEF Least
    <3>3. AtLeastZero(k - h) \in Nat
      BY DEF AtLeastZero
    <3> QED  BY <3>1, <3>2, <3>3
  <2>3. PICK m \in Nat \ {0} : m = n + 1
    OBVIOUS
  <2>4. \A i \in m .. l : bytes[i] \in Int
    BY <2>1
  <2>5. PICK rest \in Seq(Int) : rest = SubSeq(bytes, m, l)
    <3>1. m \in Int /\ l \in Int
      OBVIOUS
    <3>2. SubSeq(bytes, m, l) \in Seq(Int)
      BY <2>4, <3>1, SubSeqProperties
    <3> QED  BY <3>2
  <2>6. PICK x : x = PadTo(Repeated(HeaderByte, HeaderSize) \o SubSeq(bytes, 1, n), PayloadLen)
    OBVIOUS
  <2>7. PICK c : c = Chunks(rest)
    OBVIOUS
  <2>8. PayloadsOf(b, bytes) = <<x>> \o c
    BY <1>4, <2>1, <2>2, <2>3, <2>5, <2>6, <2>7 DEF PayloadsOf, HeaderFirst
  <2>9. \E S : <<x>> \in Seq(S)
    <3>1. <<x>> \in Seq({x})
      OBVIOUS
    <3> QED  BY <3>1
  <2>10. \E S : c \in Seq(S)
    BY <1>2, <2>7
  <2>11. /\ \E S : <<x>> \o c \in Seq(S)
         /\ Len(<<x>>) \in Nat /\ Len(c) \in Nat
         /\ Len(<<x>> \o c) = Len(<<x>>) + Len(c)
    BY <2>9, <2>10, Joined
  <2> QED  BY <2>8, <2>11
<1> QED  BY <1>3, <1>4

LEMMA BlockListed ==
  ASSUME PayloaderAssumption, ConfigTyped, NEW len \in Nat,
         NEW b \in 0 .. Blocks(len) - 1, NEW before
  PROVE  \E S : BlockAfter(len, b, before) \in Seq(S)
<1>1. PICK bytes \in Seq(Int) :
        /\ bytes = BlockBytes(len, b)
        /\ ShardsOf(len, b) \in 1 .. MaxShards
        /\ DivCeil(Len(bytes) + HeaderOf(b), PayloadLen) = ShardsOf(len, b)
  <2>1. /\ BlockBytes(len, b) \in Seq(Int)
        /\ ShardsOf(len, b) \in 1 .. MaxShards
        /\ DivCeil(Len(BlockBytes(len, b)) + HeaderOf(b), PayloadLen) = ShardsOf(len, b)
    BY BytesOfBlock
  <2> QED  BY <2>1
<1>2. PICK t \in 1 .. 100 : t = ShardsOf(len, b)
  <2>1. PICK m \in 1 .. 100 : m = MaxShards
    BY DEF PayloaderAssumption, MAX_DATA_SHARDS_PER_BLOCK
  <2>2. PICK t \in 1 .. m : t = ShardsOf(len, b)
    BY <1>1, <2>1
  <2>3. t \in 1 .. 100
    OBVIOUS
  <2> QED  BY <2>2, <2>3
<1>3. PICK c \in Nat : c = ParityCount(t)
  BY ParityAnnounced DEF ConfigTyped
<1>4. PICK payloads : payloads = PayloadsOf(b, bytes)
  OBVIOUS
<1>5. PICK count \in Nat : count = Len(payloads)
  BY <1>4, PayloadsListed
<1>6. PICK n \in Nat : n = count + c
  OBVIOUS
<1>7. PICK q : q = BlockAfter(len, b, before)
  OBVIOUS
<1>8. DOMAIN q = 1 .. n /\ q = [k \in DOMAIN q |-> q[k]]
  <2>1. DivCeil(Len(bytes) + (IF b = 0 THEN HeaderSize ELSE 0), PayloadLen) = t
    BY <1>1, <1>2 DEF HeaderOf
  <2>2. (IF b = 0 THEN HeaderFirst(bytes) ELSE Chunks(bytes)) = payloads
    BY <1>4 DEF PayloadsOf
  <2> QED  BY <1>1, <1>3, <1>5, <1>6, <1>7, <2>1, <2>2 DEF BlockAfter, FecBlock, DataShards
<1>9. q = [k \in 1 .. n |-> q[k]]
  BY <1>8
<1>10. q \in Seq({ q[k] : k \in 1 .. n })
  <2>1. DOMAIN q = 1 .. n
    BY <1>8
  <2>2. n \in Nat
    OBVIOUS
  <2> QED  BY ONLY <1>9, <2>1, <2>2, Listed
<1> QED  BY <1>7, <1>10

\* So are the packets of a frame, also of one whose blocks the header cannot
\* number.
LEMMA FrameListed ==
  ASSUME PayloaderAssumption, ConfigTyped, NEW len \in Nat
  PROVE  \E S : FramePackets(len) \in Seq(S)
<1>1. PICK n \in Nat : n = Blocks(len) /\ n # 0
  BY FrameShards
<1>2. PICK f : /\ FramePackets(len) = f[n]
               /\ f[0] = << >>
               /\ \A b \in 0 .. n - 1 : f[b + 1] = f[b] \o BlockAfter(len, b, f[b])
  BY <1>1, FramePacketsUnfold
<1>3. PICK T : T = { m \in 0 .. n : ~ \E S : f[m] \in Seq(S) }
  OBVIOUS
<1>4. T \in SUBSET Nat
  <2>1. \A m \in T : m \in 0 .. n
    BY <1>3
  <2> QED  BY <2>1
<1>5. CASE T = {}
  <2>1. n \in 0 .. n
    OBVIOUS
  <2>2. \E S : f[n] \in Seq(S)
    BY <1>3, <1>5, <2>1
  <2> QED  BY <1>2, <2>2
<1>6. CASE T # {}
  <2>1. PICK m \in T : \A y \in T : m <= y
    BY <1>4, <1>6, LeastNumber
  <2>2. m \in 0 .. n /\ ~ \E S : f[m] \in Seq(S)
    BY <1>3
  <2>3. m # 0
    <3>1. << >> \in Seq(Nat)
      BY EmptySeq
    <3> QED  BY <1>2, <2>2, <3>1
  <2>4. PICK l \in 0 .. n - 1 : m = l + 1
    <3>1. m - 1 \in 0 .. n - 1 /\ m = (m - 1) + 1
      BY <2>2, <2>3
    <3> QED  BY <3>1
  <2>5. l \notin T /\ l \in 0 .. n
    BY <2>1, <2>4
  <2>6. \E S : f[l] \in Seq(S)
    BY <1>3, <2>5
  <2>7. PICK q : q = BlockAfter(len, l, f[l])
    OBVIOUS
  <2>8. \E S : q \in Seq(S)
    <3>1. l \in 0 .. Blocks(len) - 1
      BY <1>1
    <3> QED  BY <2>7, <3>1, BlockListed
  <2>9. \E S : f[l] \o q \in Seq(S)
    BY <2>6, <2>8, Joined
  <2>10. f[m] = f[l] \o q
    BY <1>2, <2>4, <2>7
  <2> QED  BY <2>2, <2>9, <2>10
<1> QED  BY <1>5, <1>6

\* The last n packets of a queue.
LastOf(queue, n) == SubSeq(queue, Len(queue) - n + 1, Len(queue))

\* What was pushed last is at the end, and stays there while packets are taken
\* from the front.
LEMMA LastOfJoined ==
  ASSUME NEW s, NEW t, \E S : s \in Seq(S), \E S : t \in Seq(S), Len(t) > 0
  PROVE  LastOf(s \o t, Len(t)) = t
<1>1. /\ \E S : s \o t \in Seq(S)
      /\ Len(s) \in Nat /\ Len(t) \in Nat
      /\ Len(s \o t) = Len(s) + Len(t)
      /\ \A i \in 1 .. Len(t) : (s \o t)[Len(s) + i] = t[i]
  BY Joined
<1>2. PICK u : u = s \o t
  OBVIOUS
<1>3. PICK m \in Nat : m = Len(s)
  BY <1>1
<1>4. PICK n \in Nat : n = Len(t)
  BY <1>1
<1>5. PICK S : u \in Seq(S)
  BY <1>1, <1>2
<1>6. Len(u) = m + n /\ (\A i \in 1 .. n : u[m + i] = t[i])
  BY <1>1, <1>2, <1>3, <1>4
<1>7. LastOf(u, n) = SubSeq(u, m + 1, m + n)
  <2>1. m + n - n + 1 = m + 1
    OBVIOUS
  <2> QED  BY <1>6, <2>1 DEF LastOf
<1>8. PICK a \in Nat : a = m + 1
  OBVIOUS
<1>9. PICK z \in Nat : z = m + n
  OBVIOUS
<1>10. \A i \in a .. z : u[i] \in S
  <2>1. \A i \in 1 .. Len(u) : u[i] \in S
    BY <1>5, ElementOfSeq
  <2>2. \A i \in a .. z : i \in 1 .. m + n
    BY <1>8, <1>9
  <2> QED  BY <1>6, <2>1, <2>2
<1>11. /\ SubSeq(u, a, z) \in Seq(S)
       /\ Len(SubSeq(u, a, z)) = (IF a <= z THEN z - a + 1 ELSE 0)
       /\ \A i \in 1 .. z - a + 1 : SubSeq(u, a, z)[i] = u[a + i - 1]
  BY <1>10, SubSeqProperties
<1>12. a <= z /\ z - a + 1 = n /\ (\A i \in 1 .. n : a + i - 1 = m + i)
  BY <1>4, <1>8, <1>9
<1>13. PICK w \in Seq(S) : w = SubSeq(u, a, z)
  BY <1>11
<1>14. Len(w) = n /\ (\A i \in 1 .. n : w[i] = t[i])
  BY <1>6, <1>11, <1>12, <1>13
<1>15. w = t
  <2>1. PICK R : t \in Seq(R)
    OBVIOUS
  <2>2. w \in Seq(S \cup R) /\ t \in Seq(S \cup R)
    <3>1. S \subseteq S \cup R /\ R \subseteq S \cup R
      OBVIOUS
    <3> QED  BY <2>1, <3>1, SeqMonotonic
  <2> QED  BY <1>4, <1>14, <2>2, SeqEqual
<1> QED  BY <1>2, <1>4, <1>7, <1>8, <1>9, <1>13, <1>15

LEMMA LastOfTail ==
  ASSUME NEW s, \E S : s \in Seq(S), s # << >>, NEW n \in Nat \ {0}, Len(Tail(s)) >= n
  PROVE  LastOf(Tail(s), n) = LastOf(s, n)
<1>1. PICK S : s \in Seq(S)
  OBVIOUS
<1>2. PICK l \in Nat : l = Len(s)
  BY <1>1, LenProperties
<1>3. PICK r \in Seq(S) :
        r = Tail(s) /\ Len(r) = l - 1 /\ (\A i \in 1 .. l - 1 : r[i] = s[i + 1])
  <2>1. /\ Tail(s) \in Seq(S)
        /\ Len(Tail(s)) = Len(s) - 1
        /\ \A i \in 1 .. Len(Tail(s)) : Tail(s)[i] = s[i + 1]
    BY <1>1, HeadTailProperties
  <2>2. PICK r \in Seq(S) : r = Tail(s)
    BY <2>1
  <2>3. Len(r) = l - 1 /\ (\A i \in 1 .. Len(r) : r[i] = s[i + 1])
    BY <1>2, <2>1, <2>2
  <2> QED  BY <2>2, <2>3
<1>4. l - 1 >= n
  BY <1>3
<1>5. PICK o \in Nat : o = l - 1 - n /\ l = o + n + 1
  <2>1. l - 1 - n \in Nat /\ l = (l - 1 - n) + n + 1
    BY <1>4
  <2> QED  BY <2>1
<1>6. PICK a \in Nat : a = o + 1
  OBVIOUS
<1>7. PICK z \in Nat : z = o + n
  OBVIOUS
<1>8. PICK b \in Nat : b = o + 2
  OBVIOUS
<1>9. LastOf(r, n) = SubSeq(r, a, z) /\ LastOf(s, n) = SubSeq(s, b, l)
  <2>1. /\ Len(r) = z /\ Len(r) - n + 1 = a
        /\ Len(s) = l /\ Len(s) - n + 1 = b
    BY <1>2, <1>3, <1>5, <1>6, <1>7, <1>8
  <2> QED  BY <2>1 DEF LastOf
<1>10. /\ SubSeq(r, a, z) \in Seq(S)
       /\ Len(SubSeq(r, a, z)) = n
       /\ \A i \in 1 .. n : SubSeq(r, a, z)[i] = r[o + i]
  <2>1. \A i \in a .. z : r[i] \in S
    <3>1. \A i \in 1 .. Len(r) : r[i] \in S
      BY <1>3, ElementOfSeq
    <3>2. \A i \in a .. z : i \in 1 .. l - 1
      BY <1>5, <1>6, <1>7
    <3> QED  BY <1>3, <3>1, <3>2
  <2>2. /\ SubSeq(r, a, z) \in Seq(S)
        /\ Len(SubSeq(r, a, z)) = (IF a <= z THEN z - a + 1 ELSE 0)
        /\ \A i \in 1 .. z - a + 1 : SubSeq(r, a, z)[i] = r[a + i - 1]
    BY <2>1, SubSeqProperties
  <2>3. a <= z /\ z - a + 1 = n /\ (\A i \in 1 .. n : a + i - 1 = o + i)
    BY <1>6, <1>7
  <2> QED  BY <2>2, <2>3
<1>11. /\ SubSeq(s, b, l) \in Seq(S)
       /\ Len(SubSeq(s, b, l)) = n
       /\ \A i \in 1 .. n : SubSeq(s, b, l)[i] = s[o + i + 1]
  <2>1. \A i \in b .. l : s[i] \in S
    <3>1. \A i \in 1 .. l : s[i] \in S
      BY <1>1, <1>2, ElementOfSeq
    <3>2. \A i \in b .. l : i \in 1 .. l
      BY <1>8
    <3> QED  BY <3>1, <3>2
  <2>2. /\ SubSeq(s, b, l) \in Seq(S)
        /\ Len(SubSeq(s, b, l)) = (IF b <= l THEN l - b + 1 ELSE 0)
        /\ \A i \in 1 .. l - b + 1 : SubSeq(s, b, l)[i] = s[b + i - 1]
    BY <2>1, SubSeqProperties
  <2>3. b <= l /\ l - b + 1 = n /\ (\A i \in 1 .. n : b + i - 1 = o + i + 1)
    BY <1>5, <1>8
  <2> QED  BY <2>2, <2>3
<1>12. \A i \in 1 .. n : r[o + i] = s[o + i + 1]
  <2>1. \A i \in 1 .. n : o + i \in 1 .. l - 1
    BY <1>5
  <2> QED  BY <1>3, <2>1
<1>13. SubSeq(r, a, z) = SubSeq(s, b, l)
  BY <1>10, <1>11, <1>12, SeqEqual
<1> QED  BY <1>3, <1>9, <1>13


-----------------------------------------------------------------------------
(* The queue while frames are pushed, packets taken and the config changed. *)

QueueListed == \E S : packet_queue \in Seq(S)

\* The packets of the frame pushed last agree on their shards, and give the
\* frame back, as long as all of them are queued.
LastFrameIntact ==
  WholeFrameQueued /\ FirstPacketFull
    => /\ RoundTrips(LastFramePackets, pushed)
       /\ ShardsAgreed(LastFramePackets)

QueueInvariant ==
  /\ ConfigTyped
  /\ pushed \in Nat /\ packets \in Nat
  /\ QueueListed
  /\ LastFrameIntact

\* The packets of a frame that fits.
LEMMA FrameIntact ==
  ASSUME PayloaderAssumption, PercentagesFit, ConfigTyped, NEW len \in Nat, FrameFits(len)
  PROVE  /\ RoundTrips(FramePackets(len), len)
         /\ ShardsAgreed(FramePackets(len))
<1>1. PICK off : LaidOut(len, off, Blocks(len), FramePackets(len))
  BY FrameLaidOut
<1>2. PICK n \in Nat : n = Blocks(len)
  BY FrameShards
<1>3. ASSUME NEW b \in 0 .. n - 1
      PROVE  ShardsOf(len, b) \in Nat \ {0} /\ ParityCount(ShardsOf(len, b)) \in Nat
  <2>1. PICK m \in 1 .. 100 : m = MaxShards
    BY DEF PayloaderAssumption, MAX_DATA_SHARDS_PER_BLOCK
  <2>2. ShardsOf(len, b) \in 1 .. m
    BY <1>2, <2>1, BytesOfBlock
  <2>3. PICK t \in 1 .. 100 : t = ShardsOf(len, b)
    BY <2>2
  <2>4. ParityCount(t) \in Nat
    BY ParityAnnounced DEF ConfigTyped
  <2> QED  BY <2>3, <2>4
<1>4. PICK frame : frame = FramePackets(len)
  OBVIOUS
<1>5. LaidOut(len, off, n, frame)
  BY <1>1, <1>2, <1>4
<1>6. ShardsAgreed(frame)
  BY <1>3, <1>5, LaidOutParityAgreed
<1>7. RoundTrips(frame, len)
  BY <1>2, <1>5, LaidOutRoundTrip
<1> QED  BY <1>4, <1>6, <1>7

LEMMA QueueInvariantInit ==
  ASSUME PayloaderAssumption, Init PROVE QueueInvariant
<1>1. ConfigTyped
  BY DEF Init, PayloaderAssumption, ConfigTyped
<1>2. QueueListed
  <2>1. << >> \in Seq(Nat)
    BY EmptySeq
  <2> QED  BY <2>1 DEF Init, QueueListed
<1>3. LastFrameIntact
  BY DEF Init, LastFrameIntact, WholeFrameQueued
<1> QED  BY <1>1, <1>2, <1>3 DEF Init, QueueInvariant

\* A frame that fits is at the end of the queue as it was cut.
LEMMA PushFrameKeepsInvariant ==
  ASSUME PayloaderAssumption, PercentagesFit, QueueInvariant,
         NEW len \in FrameLens, Blocks(len) <= BlockModulus, PushFrame(len)
  PROVE  QueueInvariant'
<1>1. len \in Nat /\ ConfigTyped
  BY DEF PayloaderAssumption, QueueInvariant
<1>2. PICK frame : frame = FramePackets(len)
  OBVIOUS
<1>3. \E S : frame \in Seq(S)
  BY <1>1, <1>2, FrameListed
<1>4. /\ packet_queue' = packet_queue \o frame
      /\ pushed' = len /\ packets' = Len(frame) /\ fec_config' = fec_config
  BY <1>2 DEF PushFrame
<1>5. \E S : packet_queue \in Seq(S)
  BY DEF QueueInvariant, QueueListed
<1>6. ConfigTyped'
  BY <1>1, <1>4 DEF ConfigTyped
<1>7. QueueListed' /\ packets' \in Nat
  <2>1. (\E S : packet_queue \o frame \in Seq(S)) /\ Len(frame) \in Nat
    BY <1>3, <1>5, Joined
  <2> QED  BY <1>4, <2>1 DEF QueueListed
<1>8. LastFrameIntact'
  <2> SUFFICES ASSUME WholeFrameQueued', FirstPacketFull'
               PROVE  /\ RoundTrips(LastFramePackets', len)
                      /\ ShardsAgreed(LastFramePackets')
    BY <1>4 DEF LastFrameIntact
  <2>1. FrameFits(len)
    BY <1>4 DEF FirstPacketFull, FrameFits, BlockBytes, BlockStart, FrameBytes, Least
  <2>2. /\ RoundTrips(frame, len)
        /\ ShardsAgreed(frame)
    BY <1>1, <1>2, <2>1, FrameIntact
  <2>3. LastFramePackets' = frame
    <3>1. Len(frame) > 0
      BY <1>4 DEF WholeFrameQueued
    <3>2. LastOf(packet_queue \o frame, Len(frame)) = frame
      BY <1>3, <1>5, <3>1, LastOfJoined
    <3> QED  BY <1>4, <3>2 DEF LastFramePackets, LastOf
  <2> QED  BY <2>2, <2>3
<1> QED  BY <1>1, <1>4, <1>6, <1>7, <1>8 DEF QueueInvariant

\* Intact packets are intact when nothing but the queue before them has changed.
LEMMA SameFrameIntact ==
  ASSUME LastFrameIntact, WholeFrameQueued' => WholeFrameQueued, pushed' = pushed,
         WholeFrameQueued' => LastFramePackets' = LastFramePackets
  PROVE  LastFrameIntact'
<1>1. PICK frame : frame = LastFramePackets
  OBVIOUS
<1>2. PICK len : len = pushed
  OBVIOUS
<1>3. pushed' = len
  BY <1>2
<1>4. SUFFICES ASSUME WholeFrameQueued', FirstPacketFull'
               PROVE  /\ RoundTrips(LastFramePackets', len)
                      /\ ShardsAgreed(LastFramePackets')
  BY <1>3
  DEF LastFrameIntact
<1>5. FirstPacketFull
  BY <1>4 DEF FirstPacketFull, BlockBytes, BlockStart, FrameBytes, Least
<1>6. RoundTrips(frame, len) /\ ShardsAgreed(frame)
  BY <1>1, <1>2, <1>4, <1>5 DEF LastFrameIntact
<1>7. LastFramePackets' = frame
  BY <1>1, <1>4
<1> QED  BY <1>6, <1>7

LEMMA PollPacketKeepsInvariant ==
  ASSUME QueueInvariant, PollPacket
  PROVE  QueueInvariant'
<1>1. /\ packet_queue # << >> /\ packet_queue' = Tail(packet_queue)
      /\ pushed' = pushed /\ packets' = packets /\ fec_config' = fec_config
  BY DEF PollPacket
<1>2. PICK S : packet_queue \in Seq(S)
  BY DEF QueueInvariant, QueueListed
<1>3. ConfigTyped'
  BY <1>1 DEF QueueInvariant, ConfigTyped
<1>4. QueueListed' /\ Len(packet_queue') \in Nat /\ Len(packet_queue) \in Nat
      /\ Len(packet_queue') <= Len(packet_queue)
  <2>1. packet_queue' \in Seq(S) /\ Len(packet_queue') = Len(packet_queue) - 1
    BY <1>1, <1>2, HeadTailProperties
  <2>2. Len(packet_queue') \in Nat /\ Len(packet_queue) \in Nat
    BY <1>2, <2>1, LenProperties
  <2> QED  BY <2>1, <2>2 DEF QueueListed
<1>5. packets \in Nat /\ pushed \in Nat
  BY DEF QueueInvariant
<1>6. LastFrameIntact'
  <2>1. CASE ~WholeFrameQueued'
    BY <2>1 DEF LastFrameIntact
  <2>2. CASE WholeFrameQueued'
    <3>1. packets \in Nat \ {0} /\ Len(packet_queue') >= packets
      BY <1>1, <1>5, <2>2 DEF WholeFrameQueued
    <3>2. WholeFrameQueued
      BY <1>4, <3>1 DEF WholeFrameQueued
    <3>3. LastOf(packet_queue', packets) = LastOf(packet_queue, packets)
      BY <1>1, <1>2, <3>1, LastOfTail
    <3>4. LastFramePackets' = LastFramePackets
      BY <1>1, <3>3 DEF LastFramePackets, LastOf
    <3>5. LastFrameIntact
      BY DEF QueueInvariant
    <3> QED  BY <1>1, <3>2, <3>4, <3>5, SameFrameIntact
  <2> QED  BY <2>1, <2>2
<1> QED  BY <1>1, <1>3, <1>4, <1>5, <1>6 DEF QueueInvariant

\* What is queued does not depend on the config.
LEMMA SameQueueKeepsInvariant ==
  ASSUME QueueInvariant, ConfigTyped',
         UNCHANGED <<packet_queue, pushed, packets>>
  PROVE  QueueInvariant'
<1>1. LastFrameIntact'
  <2>1. LastFramePackets' = LastFramePackets /\ (WholeFrameQueued' => WholeFrameQueued)
    BY DEF LastFramePackets, WholeFrameQueued
  <2>2. LastFrameIntact
    BY DEF QueueInvariant
  <2> QED  BY <2>1, <2>2, SameFrameIntact
<1>2. QueueListed'
  BY DEF QueueInvariant, QueueListed
<1> QED  BY <1>1, <1>2 DEF QueueInvariant

\* The host pushes no frame of more blocks than the header can number.
BlocksNumbered == \A len \in FrameLens : Blocks(len) <= BlockModulus

LEMMA QueueInvariantStep ==
  ASSUME PayloaderAssumption, BlocksNumbered, PercentagesFit, QueueInvariant, [Next]_vars
  PROVE  QueueInvariant'
<1>1. ASSUME NEW len \in FrameLens, PushFrame(len) PROVE QueueInvariant'
  BY <1>1, PushFrameKeepsInvariant DEF BlocksNumbered
<1>2. CASE PollPacket
  BY <1>2, PollPacketKeepsInvariant
<1>3. ASSUME NEW config \in FecConfigs, SetFecConfig(config) PROVE QueueInvariant'
  <2>1. ConfigTyped'
    BY <1>3 DEF SetFecConfig, ConfigTyped, PayloaderAssumption
  <2>2. UNCHANGED <<packet_queue, pushed, packets>>
    BY <1>3 DEF SetFecConfig
  <2> QED  BY <2>1, <2>2, SameQueueKeepsInvariant
<1>4. CASE UNCHANGED vars
  <2>1. ConfigTyped'
    BY <1>4 DEF vars, QueueInvariant, ConfigTyped
  <2>2. UNCHANGED <<packet_queue, pushed, packets>>
    BY <1>4 DEF vars
  <2> QED  BY <2>1, <2>2, SameQueueKeepsInvariant
<1> QED  BY <1>1, <1>2, <1>3, <1>4 DEF Next

\* A frame whose first block holds a payload of it at least comes out of the
\* depayloader as it went in, for any sizes of header and payload, any limit on the
\* shards of a block and any fec config, changed at any time, and any version whose
\* frame header is the payloader's: exactly, of a format whose last payload is cut, and
\* with the zeroes that fill its last payload, of H264 and H265.  The block index has two
\* bits in the header, the percentage eight, and nothing keeps a frame from having more
\* blocks, or a config from asking for more parity, than they can tell: that they
\* can is assumed.
THEOREM LongFramesComeBack ==
  ASSUME BlocksNumbered, PercentagesFit
  PROVE  Spec => []LongFramesRoundTrip
<1>1. Init => QueueInvariant
  BY PayloaderAssumption, QueueInvariantInit
<1>2. QueueInvariant /\ [Next]_vars => QueueInvariant'
  BY PayloaderAssumption, QueueInvariantStep
<1>3. QueueInvariant => LongFramesRoundTrip
  BY DEF QueueInvariant, LastFrameIntact, LongFramesRoundTrip
<1> QED  BY <1>1, <1>2, <1>3, PTL DEF Spec

\* On such frames both sides agree on the shards of every block: the
\* percentage announced, rounded as it is when the least number of parity packets
\* is enforced, makes for exactly the parity packets generated.
THEOREM ParityIsAgreed ==
  ASSUME BlocksNumbered, PercentagesFit
  PROVE  Spec => []ParityAgreed
<1>1. Init => QueueInvariant
  BY PayloaderAssumption, QueueInvariantInit
<1>2. QueueInvariant /\ [Next]_vars => QueueInvariant'
  BY PayloaderAssumption, QueueInvariantStep
<1>3. QueueInvariant => ParityAgreed
  BY DEF QueueInvariant, LastFrameIntact, ParityAgreed
<1> QED  BY <1>1, <1>2, <1>3, PTL DEF Spec

-----------------------------------------------------------------------------
(* Both, as they are run: a behaviour is about one of them.                *)

FormatInvariant ==
  \/ subject = "video" /\ QueueInvariant /\ got = << >>
  \/ subject = "control" /\ InChannels /\ packets = 0

LEMMA FormatInvariantInit ==
  ASSUME PayloaderAssumption, FormatInit PROVE FormatInvariant
<1>1. CASE subject = "video" /\ Init /\ IdleWire
  BY <1>1, QueueInvariantInit DEF FormatInvariant, IdleWire
<1>2. CASE subject = "control" /\ WireInit /\ IdlePayloader
  BY <1>2, InChannelsInit DEF FormatInvariant, IdlePayloader
<1> QED  BY <1>1, <1>2 DEF FormatInit

LEMMA FormatInvariantStep ==
  ASSUME PayloaderAssumption, BlocksNumbered, PercentagesFit, FormatInvariant, [FormatNext]_FormatVars
  PROVE  FormatInvariant'
<1>1. ASSUME subject = "video", QueueInvariant, got = << >>, [Next]_vars,
             UNCHANGED <<got, subject>>
      PROVE  FormatInvariant'
  BY <1>1, QueueInvariantStep DEF FormatInvariant
<1>2. ASSUME subject = "control", InChannels, packets = 0, [WireNext]_WireVars,
             UNCHANGED <<packets, subject>>
      PROVE  FormatInvariant'
  BY <1>2, InChannelsStep DEF FormatInvariant
<1>3. CASE subject = "video" /\ Next /\ UNCHANGED <<WireVars, subject>>
  BY <1>1, <1>3 DEF FormatInvariant, WireVars
<1>4. CASE subject = "control" /\ WireNext /\ UNCHANGED <<vars, subject>>
  BY <1>2, <1>4 DEF FormatInvariant, vars
<1>5. CASE UNCHANGED FormatVars
  BY <1>1, <1>2, <1>5 DEF FormatInvariant, FormatVars, vars, WireVars
<1> QED  BY <1>3, <1>4, <1>5 DEF FormatNext

FormatReadable ==
  FormatInvariant /\ (subject = "control" => AllReadable)

LEMMA FormatReadableStep ==
  ASSUME PayloaderAssumption, BlocksNumbered, PercentagesFit, FormatReadable, [FormatNext]_FormatVars
  PROVE  FormatReadable'
<1>1. FormatInvariant'
  BY FormatInvariantStep DEF FormatReadable
<1>2. ASSUME subject' = "control" PROVE AllReadable'
  <2>1. [WireNext]_WireVars /\ subject = "control"
    BY <1>2 DEF FormatNext, FormatVars
  <2>2. Places'
    BY <1>1, <1>2 DEF FormatInvariant, InChannels
  <2> QED  BY <2>1, <2>2, AllReadableStep DEF FormatReadable
<1> QED  BY <1>1, <1>2 DEF FormatReadable

\* The specification the runs check: frames come back, but for the padding of H264 and
\* H265, both sides agree on the
\* parity of a frame, the updates of a controller arrive in order, and with tables
\* that agree what arrives is what was sent.
THEOREM WrittenAsRead ==
  ASSUME BlocksNumbered, PercentagesFit
  PROVE  FormatSpec =>
           /\ [](LongFramesRoundTrip /\ ParityAgreed /\ ControllerUpdatesInOrder)
           /\ (subject = "control" => TablesAgree) => []ArrivesAsSent
<1>1. FormatInit => FormatInvariant
  BY PayloaderAssumption, FormatInvariantInit
<1>2. FormatInvariant /\ [FormatNext]_FormatVars => FormatInvariant'
  BY PayloaderAssumption, FormatInvariantStep
<1>3. FormatInvariant => LongFramesRoundTrip /\ ParityAgreed /\ ControllerUpdatesInOrder
  <2>1. QueueInvariant => LongFramesRoundTrip /\ ParityAgreed
    BY DEF QueueInvariant, LastFrameIntact, LongFramesRoundTrip, ParityAgreed
  <2>2. packets = 0 => LongFramesRoundTrip /\ ParityAgreed
    BY DEF LongFramesRoundTrip, ParityAgreed, WholeFrameQueued
  <2>3. got = << >> => ControllerUpdatesInOrder
    BY DEF ControllerUpdatesInOrder
  <2> QED  BY <2>1, <2>2, <2>3, ChannelsKeepUpdatesInOrder DEF FormatInvariant
<1>4. FormatInit /\ (subject = "control" => TablesAgree) => FormatReadable
  BY <1>1, AllReadableInit DEF FormatInit, FormatReadable
<1>5. FormatReadable /\ [FormatNext]_FormatVars => FormatReadable'
  BY PayloaderAssumption, FormatReadableStep
<1>6. FormatReadable => ArrivesAsSent
  BY AllReadableArrives DEF FormatReadable, FormatInvariant, ArrivesAsSent
<1> QED  BY <1>1, <1>2, <1>3, <1>4, <1>5, <1>6, PTL DEF FormatSpec
=============================================================================
