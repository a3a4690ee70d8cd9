----------------------------- MODULE AudioQueue ------------------------------
(***************************************************************************)
(* The AudioDepayloader (audio/depayloader.rs) and the packets an          *)
(* AudioPayloader (audio/payloader.rs) makes of frames 0, 1, 2, ...        *)
(*                                                                         *)
(* A payload is the number of the frame it carries: encryption keeps apart *)
(* what is different, and Reed-Solomon gives a missing shard back exactly  *)
(* if the shards it works with are in their places.                        *)
(***************************************************************************)
EXTENDS Integers, FiniteSets, SequencesExt

CONSTANTS
  SeqSpace,      \* 2^16: the sequence numbers there are
  DataShards,  \* RTP_AUDIO_DATA_SHARDS
  MaxFrame,    \* bound: frames 0 .. MaxFrame are sent
  FirstSeq,    \* the sequence number of frame 0 (a block begins with frame 0)
  Duration,    \* the time between two frames
  Fec,         \* the configuration's fec
  Undecryptable  \* the frames whose payload does not decrypt

FecShards == 2
TotalShards == DataShards + FecShards

ASSUME AudioAssumption ==
  /\ DataShards \in Nat /\ DataShards >= FecShards + 2
  /\ SeqSpace \in Nat /\ SeqSpace % DataShards = 0 /\ SeqSpace > TotalShards
  /\ MaxFrame \in Nat
  /\ FirstSeq \in 0 .. SeqSpace - 1
  /\ Duration \in Nat
  /\ Fec \in BOOLEAN
  /\ Undecryptable \subseteq Nat

Frame == 0 .. MaxFrame
Garbage == -1

-----------------------------------------------------------------------------
(* The payloader.                                                          *)

NumberOf(f) == (FirstSeq + f) % SeqSpace

DataPacket(f) == [fec |-> FALSE, sequence |-> NumberOf(f), timestamp |-> f * Duration, payload |-> f]

\* The FEC packet number k of the block that begins with frame f.
FecPacket(f, k) ==
  [fec |-> TRUE, base |-> NumberOf(f), base_timestamp |-> f * Duration, shard |-> k, block |-> f]

\* push_frame: the last frame of a block brings the block's FEC packets.
PacketsOf(f) ==
  {DataPacket(f)} \cup
    IF f % DataShards = DataShards - 1
    THEN { FecPacket(f - DataShards + 1, k) : k \in 0 .. FecShards - 1 } ELSE {}

Packet == UNION { PacketsOf(f) : f \in Frame }

-----------------------------------------------------------------------------
(* The depayloader: [current, data, fec, enabled], with data the set of    *)
(* the data packets at hand, one for a sequence number, and fec a sequence.*)

NewDepayloader == [current |-> 0, data |-> {}, fec |-> <<>>, enabled |-> Fec]

SaturatingAdd(a, b) == IF a + b < SeqSpace THEN a + b ELSE SeqSpace - 1
SaturatingSub(a, b) == IF a >= b THEN a - b ELSE 0

Have(d) == { e.sequence : e \in d.data }

At(d, s) == CHOOSE e \in d.data : e.sequence = s

\* Where the data packets of a block at hand belong in it.
DataAt(d, base) == { j \in 0 .. DataShards - 1 : base + j \in Have(d) }

\* The FEC packets of a block, as places in the queue.
OfBlock(d, base) == { i \in 1 .. Len(d.fec) : d.fec[i].base = base }

\* The first two of the block, by the slots they go to.
FirstTwo(d, base) ==
  LET before(i) == Cardinality({ j \in OfBlock(d, base) : j < i })
  IN  { <<before(i), d.fec[i]>> : i \in { j \in OfBlock(d, base) : before(j) < FecShards } }

\* Variant: a lone FEC packet goes to the first slot whatever its number.
FecSlotsUnswapped(d, base) == FirstTwo(d, base)

\* The FEC packets that are looked at, by the slots they go to: the first two
\* of the block, or the first alone in the second slot.
FecSlots(d, base) ==
  LET first == d.fec[Min(OfBlock(d, base))]
  IN  IF OfBlock(d, base) # {} /\ first.shard > 0 THEN {<<1, first>>} ELSE FirstTwo(d, base)

\* Reed-Solomon works with the first DataShards shards it is given.
Used(present) ==
  { j \in present : Cardinality({ i \in present : i < j }) < DataShards }

\* Whether those are where they belong in the block that begins with frame f.
InPlace(d, base, slots, f) ==
  LET used == Used(DataAt(d, base) \cup { DataShards + slot[1] : slot \in slots })
  IN  /\ \A j \in DataAt(d, base) : j \in used => At(d, base + j).payload = f + j
      /\ \A slot \in slots : DataShards + slot[1] \in used =>
           slot[2].block = f /\ slot[2].shard = slot[1]

\* reconstruct_data and the timestamps made up for what it recovers.
Recovered(d, base, slots) ==
  LET some == Min(DataAt(d, base) \ {0})
      base_timestamp == (CHOOSE slot \in slots : \A other \in slots : slot[1] <= other[1])[2].base_timestamp
      increment == SaturatingSub(At(d, base + some).timestamp, base_timestamp) \div some
      right == { f \in Frame : InPlace(d, base, slots, f) }
  IN  { [sequence  |-> base + j,
         timestamp |-> base_timestamp + increment * j,
         payload   |-> IF right = {} THEN Garbage ELSE Min(right) + j] :
          j \in (0 .. DataShards - 1) \ DataAt(d, base) }

\* try_reconstruct_fec_block
Reconstruct(d, base) ==
  LET slots == FecSlots(d, base)
      count == Cardinality(DataAt(d, base))
  IN  IF /\ d.enabled
         /\ slots # {}
         /\ count < DataShards
         /\ count + Cardinality(slots) >= DataShards
      THEN [d EXCEPT !.data = @ \cup Recovered(d, base, slots)]
      ELSE d

\* Variant: a late data packet is queued and nothing more.
HandledDataQueued(d, p) ==
  LET entry == [sequence |-> p.sequence, timestamp |-> p.timestamp, payload |-> p.payload]
  IN  IF p.sequence < d.current THEN d
      ELSE [d EXCEPT !.data = { e \in @ : e.sequence # p.sequence } \cup {entry}]

\* handle_packet of a data packet.  (tried is a function to have TLC evaluate
\* what it is applied to once.)
HandledData(d, p) ==
  LET entry == [sequence |-> p.sequence, timestamp |-> p.timestamp, payload |-> p.payload]
      d1    == [d EXCEPT !.data = { e \in @ : e.sequence # p.sequence } \cup {entry}]
      around == { i \in 1 .. Len(d.fec) :
                    p.sequence \in d.fec[i].base .. SaturatingAdd(d.fec[i].base, DataShards) - 1 }
      tried == [queued \in {d1} |-> [base \in { d.fec[i].base : i \in around } |-> Reconstruct(queued, base)]]
  IN  IF p.sequence < d.current THEN d
      ELSE IF around # {} THEN tried[d1][d.fec[Min(around)].base]
      ELSE d1

\* Where a FEC packet may be inserted: next to any packet of its block the
\* binary search finds, or between its neighbours.
Positions(fec, p) ==
  LET same == { i \in 1 .. Len(fec) : fec[i].base = p.base }
  IN  IF same = {}
      THEN { Cardinality({ i \in 1 .. Len(fec) : fec[i].base < p.base }) + 1 }
      ELSE { IF p.shard > fec[i].shard THEN i + 1 ELSE i : i \in same }

\* handle_packet of a FEC packet: the results there may be.  A block that
\* does not begin at a multiple of DataShards disables FEC.
HandledFec(d, p) ==
  LET d1 == [d EXCEPT !.enabled = p.base % DataShards = 0]
  IN  IF ~d.enabled THEN {d}
      ELSE IF d.current > SaturatingAdd(p.base, TotalShards) THEN {d1}
      ELSE { Reconstruct([d1 EXCEPT !.fec = InsertAt(d.fec, i, p)], p.base) :
               i \in Positions(d.fec, p) }

Handled(d, p) == IF p.fec THEN HandledFec(d, p) ELSE {HandledData(d, p)}

\* The clean-up runs with every sequence number that has become the current one.
Minimum(d, k) == SaturatingSub((d.current + k) % SeqSpace, DataShards)

\* Whether the i-th packet from the current one is there when its turn comes, the
\* clean-up after each of those before it included.
AtHand(d, i) ==
  LET s == (d.current + i) % SeqSpace
  IN  s \in Have(d) /\ \A k \in 1 .. i : s >= Minimum(d, k)

\* poll_frame until it returns None: how many packets are passed, ...
Passed(d) ==
  CHOOSE k \in 0 .. SeqSpace : ~AtHand(d, k) /\ \A i \in 0 .. k - 1 : AtHand(d, i)

\* ... what they come to, a packet that does not decrypt to nothing, ...
Polled(d) ==
  LET upTo[k \in 0 .. Passed(d)] ==
        IF k = 0 THEN <<>>
        ELSE LET e == At(d, (d.current + k - 1) % SeqSpace)
             IN  IF e.payload \in Undecryptable THEN upTo[k - 1] ELSE Append(upTo[k - 1], e)
  IN  upTo[Passed(d)]

\* The queue without the FEC packets of blocks before number s at its front.
PoppedBefore(fec, s) ==
  LET left == { i \in 1 .. Len(fec) : fec[i].base >= s }
  IN  IF left = {} THEN <<>> ELSE SubSeq(fec, Min(left), Len(fec))

\* ... and what is left after them.
Drained(d) ==
  LET n == Passed(d)
      least == Max({ Minimum(d, k) : k \in IF n = 0 THEN {0} ELSE 1 .. n })
  IN  [d EXCEPT !.current = (@ + n) % SeqSpace,
                !.data = { e \in @ : e.sequence >= least },
                !.fec = PoppedBefore(@, least)]

\* try_skip_samples
Skipped(d) ==
  LET ahead == { s \in Have(d) : s >= d.current }
  IN  IF ahead = {} THEN d ELSE [d EXCEPT !.current = Min(ahead)]
=============================================================================
