--------------------------- MODULE VideoPayloader ---------------------------
(***************************************************************************)
(* The VideoPayloader of video/payloader.rs: a frame becomes a queue of    *)
(* fixed-size packets.  Payloads are kept byte by byte, because what can   *)
(* go wrong here is where a byte of the frame ends up.                     *)
(***************************************************************************)
EXTENDS Integers, Sequences, SequencesExt, FiniteSetsExt

CONSTANTS
  HeaderSize,   \* VideoFrameHeader::SIZE
  PayloadLen,   \* payload bytes of a packet
  MaxShards,    \* max_data_shards_per_block, as new() clamps it
  FecConfigs,   \* the fec configs, [percent, min] (percent 0, min 0: none)
  SeqModulus,   \* sequence numbers wrap here (2^16)
  BlockModulus, \* the header has room for this many block indices (2^2)
  PercentModulus, \* and for percentages below this (2^8)
  FrameLens,    \* the frame sizes the host may push
  Versions,     \* the server versions a receiver may have been told
  MaxFrame      \* bound: frames pushed

MAX_DATA_SHARDS_PER_BLOCK == 100

\* The Reed-Solomon code is over GF(2^8): it takes this many shards.
MAX_SHARDS == 256

ASSUME PayloaderAssumption ==
  /\ HeaderSize \in Nat \ {0}
  /\ PayloadLen \in Nat /\ PayloadLen >= HeaderSize
  /\ MaxShards \in 1 .. MAX_DATA_SHARDS_PER_BLOCK
  /\ FecConfigs \subseteq [percent : Nat, min : Nat]
  /\ SeqModulus \in Nat \ {0}
  /\ BlockModulus \in Nat \ {0}
  /\ PercentModulus \in Nat \ {0}
  /\ FrameLens \subseteq Nat
  /\ Versions \subseteq Nat
  /\ MaxFrame \in Nat

VARIABLES
  sequence_number,
  frame_index,
  fec_config,
  packet_queue,
  pushed,         \* history: the length of the frame pushed last
  packets         \* history: the number of its packets

vars == <<sequence_number, frame_index, fec_config, packet_queue, pushed, packets>>

\* The bytes of a payload: of the frame header, of the frame, of the padding.
HeaderByte == -1
PadByte == 0
FrameBytes(len) == [i \in 1 .. len |-> i]

DivCeil(a, b) == (a + b - 1) \div b

Least(a, b) == IF a <= b THEN a ELSE b

AtLeastZero(n) == IF n < 0 THEN 0 ELSE n

Repeated(byte, n) == [i \in 1 .. n |-> byte]

PadTo(bytes, n) == bytes \o Repeated(PadByte, n - Len(bytes))

\* bytes cut into chunks of PayloadLen, the last one padded.
Chunks(bytes) ==
  [k \in 1 .. DivCeil(Len(bytes), PayloadLen) |->
     PadTo(SubSeq(bytes, (k - 1) * PayloadLen + 1, Least(k * PayloadLen, Len(bytes))),
           PayloadLen)]

\* The payloads of a block that begins with the frame header.
HeaderFirst(bytes) ==
  LET first == AtLeastZero(Least(PayloadLen, Len(bytes)) - HeaderSize) IN
  <<PadTo(Repeated(HeaderByte, HeaderSize) \o SubSeq(bytes, 1, first), PayloadLen)>>
    \o Chunks(SubSeq(bytes, first + 1, Len(bytes)))

\* The parity packets a receiver expects of a block, from the percentage its
\* packets announce.
ParityOf(total, percent) == DivCeil(total * percent, 100)

\* Variant: the percentage of the config is announced whatever is sent.
AnnouncedOfConfig(total) == fec_config.percent

\* The percentage announced under a config: its own, unless that makes for
\* fewer parity packets than it asks for at least.
Percentage(config, total) ==
  IF ParityOf(total, config.percent) < config.min
  THEN (100 * config.min) \div total ELSE config.percent

Announced(total) == Percentage(fec_config, total)

\* The parity packets generated for a block.
ParityCount(total) ==
  IF ParityOf(total, fec_config.percent) < fec_config.min
  THEN fec_config.min ELSE ParityOf(total, fec_config.percent)

\* The data packets of a block.
DataShards(block, bytes) ==
  DivCeil(Len(bytes) + (IF block = 0 THEN HeaderSize ELSE 0), PayloadLen)

\* generate_fec_block: the packets of one block, numbered from seq.  Of a
\* parity packet only the data shards it was computed from are kept: the
\* last `total' packets of the queue.
FecBlock(seq, block, last, bytes) ==
  LET payloads == IF block = 0 THEN HeaderFirst(bytes) ELSE Chunks(bytes)
      total    == DataShards(block, bytes)
      count    == Len(payloads)
  IN  [k \in 1 .. count + ParityCount(total) |->
         [seq   |-> (seq + k - 1) % SeqModulus,
          frame |-> frame_index,
          block |-> block % BlockModulus,
          last  |-> last % BlockModulus,
          shard |-> k - 1,
          total |-> total,
          percent |-> Announced(total) % PercentModulus,
          data  |-> IF k <= count THEN payloads[k] ELSE <<>>,
          covers |-> IF k <= count THEN {} ELSE (count - total) .. (count - 1)]]

Blocks(len) == DivCeil(DivCeil(HeaderSize + len, PayloadLen), MaxShards)

\* Variant: room is made for the frame header in every block.
BlockStartHeaderEach(b) == b * (PayloadLen * MaxShards - HeaderSize)

\* The bytes of a frame that go into each block.
BlockStart(b) == IF b = 0 THEN 0 ELSE b * PayloadLen * MaxShards - HeaderSize

BlockBytes(len, b) ==
  SubSeq(FrameBytes(len), BlockStart(b) + 1, Least(BlockStart(b + 1), len))

\* Packets of the blocks before block b: the sequence numbers they take.
FramePackets(len) ==
  LET upTo[b \in 0 .. Blocks(len)] ==
        IF b = 0 THEN <<>>
        ELSE upTo[b - 1] \o FecBlock((sequence_number + Len(upTo[b - 1])) % SeqModulus,
                                     b - 1, Blocks(len) - 1, BlockBytes(len, b - 1))
  IN  upTo[Blocks(len)]

LastPayloadLen(len) ==
  IF (HeaderSize + len) % PayloadLen = 0 THEN PayloadLen ELSE (HeaderSize + len) % PayloadLen

-----------------------------------------------------------------------------

Init ==
  /\ sequence_number = 0
  /\ frame_index = 1
  /\ fec_config \in FecConfigs
  /\ packet_queue = <<>>
  /\ pushed = 0
  /\ packets = 0

\* create_video_reed_solomon() takes the shards of every block.  It panics over more,
\* in the middle of a frame, and the payloader with it.
Encodable(len) ==
  \A b \in 0 .. Blocks(len) - 1 :
    LET total == DataShards(b, BlockBytes(len, b)) IN total + ParityCount(total) <= MAX_SHARDS

PushFrame(len) ==
  /\ frame_index <= MaxFrame
  /\ Encodable(len)
  /\ packet_queue' = packet_queue \o FramePackets(len)
  /\ sequence_number' = (sequence_number + Len(FramePackets(len))) % SeqModulus
  /\ frame_index' = frame_index + 1
  /\ pushed' = len
  /\ packets' = Len(FramePackets(len))
  /\ UNCHANGED fec_config

PollPacket ==
  /\ packet_queue # <<>>
  /\ packet_queue' = Tail(packet_queue)
  /\ UNCHANGED <<sequence_number, frame_index, fec_config, pushed, packets>>

\* It takes effect with the next frame.
SetFecConfig(config) ==
  /\ fec_config' = config
  /\ UNCHANGED <<sequence_number, frame_index, packet_queue, pushed, packets>>

Next ==
  \/ \E len \in FrameLens : PushFrame(len)
  \/ PollPacket
  \/ \E config \in FecConfigs : SetFecConfig(config)

Spec == Init /\ [][Next]_vars

-----------------------------------------------------------------------------
(* The packets against what the depayloader makes of them.                 *)

\* The packets of the frame pushed last: they end the queue.
LastFramePackets ==
  SubSeq(packet_queue, Len(packet_queue) - packets + 1, Len(packet_queue))

\* All of them are still queued.
WholeFrameQueued == packets > 0 /\ Len(packet_queue) >= packets

IsParity(p) == p.covers # {}

\* The depayloader's view of the packets of a frame: data packets are those below
\* the total of their block.
DataPackets(frame) == { k \in 1 .. Len(frame) : frame[k].shard < frame[k].total }

\* The payload of the data packet that follows n others.
Payload(frame, n) ==
  frame[CHOOSE k \in DataPackets(frame) :
          Cardinality({ j \in DataPackets(frame) : j < k }) = n].data

\* Byte n, from zero, of the payloads joined in order.
JoinedByte(frame, n) == Payload(frame, n \div PayloadLen)[(n % PayloadLen) + 1]

\* A server version as a number, in the order of ServerVersion.
Version(major, minor, patch) == (major * 1000 + minor) * 1000 + patch

\* The length of the frame header a receiver takes off, where the header begins with
\* 0x01, as the payloader writes it: none before version 5, 12 bytes from 7.1.320 to
\* 7.1.350, and the 8 of VideoFrameHeader otherwise.
FrameHeaderLen(version) ==
  IF version < Version(5, 0, 0) THEN 0
  ELSE IF version \in Version(7, 1, 320) .. Version(7, 1, 350) - 1 THEN HeaderSize + 4
  ELSE HeaderSize

Formats == {"H264", "H265", "AV1"}

\* The formats whose last payload is taken with its padding.
PaddedFormats == {"H264", "H265"}

\* The payloads are joined in order; the last one is shortened to its announced
\* length, but for H264 and H265; and the header is taken off.
Depayloaded(frame, len, format, version) ==
  LET joined == Cardinality(DataPackets(frame)) * PayloadLen
      end    == IF format \in PaddedFormats THEN joined
                ELSE joined - PayloadLen + LastPayloadLen(len)
      skip   == FrameHeaderLen(version)
  IN  [i \in 1 .. end - skip |-> JoinedByte(frame, skip + i - 1)]

\* A receiver that goes by the total and the percentage announced counts as many
\* parity packets as a block has; parity comes last in its block and covers all
\* its data packets.
ShardsAgreed(frame) ==
  \A k \in 1 .. Len(frame) :
    LET p == frame[k] IN
    /\ IsParity(p) => p.shard >= p.total /\ p.covers = 0 .. p.total - 1
    /\ Cardinality({ j \in 1 .. Len(frame) : frame[j].block = p.block /\ IsParity(frame[j]) })
         = ParityOf(p.total, p.percent)

\* The first block holds a payload of the frame at least, so that header and
\* frame fill its first packet.
FirstPacketFull == Len(BlockBytes(pushed, 0)) >= PayloadLen

\* What a receiver should make of a frame: the frame, and of a padded format the
\* padding of the last payload.
Expected(len, format) ==
  FrameBytes(len) \o Repeated(PadByte, IF format \in PaddedFormats
                                       THEN PayloadLen - LastPayloadLen(len) ELSE 0)

\* A receiver makes of the packets of a frame what it should, for every format, of a
\* server version whose frame header is the one the payloader writes.
RoundTrips(frame, len) ==
  \A format \in Formats : \A version \in Versions :
    FrameHeaderLen(version) = HeaderSize
      => Depayloaded(frame, len, format, version) = Expected(len, format)

\* A frame that fills its first packet comes out of the depayloader as it went in:
\* header, block limits and last_payload_len fit together, and the only bytes added
\* are the zeroes at the end of a frame of H264 or H265.
LongFramesRoundTrip ==
  WholeFrameQueued /\ FirstPacketFull => RoundTrips(LastFramePackets, pushed)

\* Both sides agree on the shards of a block, also when the least number of parity
\* packets was enforced and the config has changed since.
ParityAgreed ==
  WholeFrameQueued /\ FirstPacketFull => ShardsAgreed(LastFramePackets)
=============================================================================
