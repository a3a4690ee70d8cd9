------------------------------ MODULE VideoFec ------------------------------
(***************************************************************************)
(* How one video frame is cut into FEC blocks of data and parity packets   *)
(* (video/payloader.rs) and put together again (video/depayloader.rs).     *)
(*                                                                         *)
(* A frame is cut into blocks 0 .. LastBlock of MaxShards data packets,    *)
(* the last block of TailShards, and every block has Parity packets more;  *)
(* any DataShards(b) packets of block b recover it (Reed-Solomon).         *)
(*                                                                         *)
(* The depayloader is a value [packets, frames], as the struct is: the     *)
(* operators below return the value each method leaves behind.  `packets'  *)
(* is keyed by the 16-bit sequence number in the code; here a packet is    *)
(* its own key, so no two packets kept at once are 65536 apart.            *)
(***************************************************************************)
EXTENDS Integers, FiniteSets

CONSTANTS
  MaxFrame,    \* frames are numbered 1 .. MaxFrame (the host starts at 1)
  LastBlock,   \* last_block_index of every frame
  MaxShards,   \* data packets of a block: max_data_shards_per_block
  TailShards,  \* data packets of the last block
  Parity       \* parity packets of every block

ASSUME FecAssumption ==
  /\ MaxFrame \in Nat \ {0}
  /\ LastBlock \in Nat
  /\ MaxShards \in Nat \ {0}
  /\ TailShards \in 1 .. MaxShards
  /\ Parity \in Nat

\* The VideoDepayloader, of its own (VideoDepayloader) or of a VideoStream.
VARIABLE depayloader

Frame == 1 .. MaxFrame

\* A unit of the frame buffer nothing was copied to (the code fills in zeros).
Hole == -1

-----------------------------------------------------------------------------
(* The packets of a frame.                                                 *)

Block == 0 .. LastBlock

DataShards(b) == IF b < LastBlock THEN MaxShards ELSE TailShards

\* The payload units of a frame, and the one data packet s of block b carries.
Units == LastBlock * MaxShards + TailShards

UnitOf(b, s) == b * MaxShards + s

\* The payloader stamps data packets with the frame's timestamp (here the
\* frame index, all that matters is that frames differ) and parity with 0.
PacketTimestamp(f, b, s) == IF s < DataShards(b) THEN f ELSE 0

PacketsOf(f) ==
  UNION { { [frame |-> f, block |-> b, shard |-> s,
             timestamp |-> PacketTimestamp(f, b, s)]
            : s \in 0 .. DataShards(b) + Parity - 1 } : b \in Block }

Packet == UNION { PacketsOf(f) : f \in Frame }

IsData(p) == p.shard < DataShards(p.block)

\* The order of the sequence numbers within a frame.
Before(p, q) ==
  p.block < q.block \/ (p.block = q.block /\ p.shard <= q.shard)

-----------------------------------------------------------------------------
(* The depayloader.                                                        *)

FrameState ==
  [current_block : 0 .. LastBlock + 1,
   shards        : SUBSET (0 .. MaxShards + Parity - 1),
   offset        : 0 .. Units,
   timestamp     : Nat,
   buffer        : [0 .. Units - 1 -> {Hole} \cup (0 .. Units - 1)]]

EmptyDepayloader == [packets |-> {}, frames |-> [f \in {} |-> 0]]

Known(d) == DOMAIN d.frames

IsComplete(fr) == fr.current_block > LastBlock

Complete(d) == { f \in Known(d) : IsComplete(d.frames[f]) }

NewFrame(timestamp) ==
  [current_block |-> 0, shards |-> {}, offset |-> 0,
   timestamp |-> timestamp, buffer |-> [i \in 0 .. Units - 1 |-> Hole]]

\* The first packet of frame f in sequence number order (a set of one).
FirstPacket(ps, f) ==
  { p \in ps : p.frame = f /\ \A q \in ps : q.frame = f => Before(p, q) }

\* The packet is kept, and its frame is known from now on.
Inserted(d, p) ==
  LET kept == d.packets \cup {p} IN
  IF p.frame \in Known(d)
  THEN { [packets |-> kept, frames |-> d.frames] }
  ELSE { [packets |-> kept,
          frames  |-> [f \in Known(d) \cup {p.frame} |->
                         IF f \in Known(d) THEN d.frames[f] ELSE NewFrame(q.timestamp)]]
         : q \in FirstPacket(kept, p.frame) }

InBlock(d, f, b) == { p \in d.packets : p.frame = f /\ p.block = b }

Shards(ps) == { p.shard : p \in ps }

\* The shards of block b the depayloader counts as received.
Available(d, f, b) ==
  LET fr == d.frames[f] IN
  Shards(InBlock(d, f, b)) \cup (IF b = fr.current_block THEN fr.shards ELSE {})

Constructable(d, f, b) == Cardinality(Available(d, f, b)) >= DataShards(b)

\* Where the loop over the blocks of frame f stops: every block before n is
\* constructed, block n is not (or there is no block n).
StopBlocks(d, f) ==
  { n \in d.frames[f].current_block .. LastBlock + 1 :
      /\ \A b \in d.frames[f].current_block .. n - 1 : Constructable(d, f, b)
      /\ n \in Block => ~Constructable(d, f, n) }

\* The units of blocks current_block .. n - 1, all but the last of MaxShards.
UnitsUpTo(fr, n) ==
  IF n = fr.current_block THEN 0
  ELSE (n - 1 - fr.current_block) * MaxShards + DataShards(n - 1)

\* Reed-Solomon has what it needs: the data shards copied to the buffer and
\* the packets at hand are enough for the block.
Recoverable(d, f, b) ==
  LET fr     == d.frames[f]
      copied == IF b = fr.current_block
                THEN { s \in fr.shards : s < DataShards(b) } ELSE {}
  IN  Cardinality(copied \cup Shards(InBlock(d, f, b))) >= DataShards(b)

\* Data packet c = <<block, shard>> is written to the buffer while blocks
\* current_block .. n are looked at: it is at hand, or its block is before n
\* and is recovered.
Written(d, f, n, c) ==
  c[1] \in Block /\ c[2] < DataShards(c[1])
  /\ (c[2] \in Shards(InBlock(d, f, c[1])) \/ (c[1] < n /\ Recoverable(d, f, c[1])))

\* Variant: the blocks constructed by this very call are not counted.
PlaceAtOffset(fr, c) == fr.offset + c[2]

\* Its place in the buffer: the offset is that of the current block.
Place(fr, c) == fr.offset + (c[1] - fr.current_block) * MaxShards + c[2]

\* What ends up at place i of the buffer.
Sources(d, f, n, i) ==
  { c \in (d.frames[f].current_block .. n) \X (0 .. MaxShards - 1) :
      Written(d, f, n, c) /\ Place(d.frames[f], c) = i }

Filled(d, f, n) ==
  [i \in 0 .. Units - 1 |->
     IF Sources(d, f, n, i) = {} THEN d.frames[f].buffer[i]
     ELSE LET c == CHOOSE c \in Sources(d, f, n, i) : TRUE IN UnitOf(c[1], c[2])]

\* Frame f after its blocks up to n have been constructed.
Advanced(d, f, n) ==
  LET fr == d.frames[f] IN
  [current_block |-> n,
   shards        |-> IF n \in Block THEN Available(d, f, n) ELSE {},
   offset        |-> fr.offset + UnitsUpTo(fr, n),
   timestamp     |-> fr.timestamp,
   buffer        |-> Filled(d, f, n)]

\* Variant: only parity packets wait for their block.
RetainedParityOnly(d, f, n) ==
  { p \in d.packets : p.frame # f \/ (n \in Block /\ ~IsData(p)) }

\* Variant: the packets looked at go, whether they were copied or not.
RetainedLaterBlocks(d, f, n) ==
  { p \in d.packets : p.frame # f \/ (n \in Block /\ p.block > n) }

\* Parity is kept until its frame is complete, data is dropped once copied.
Retained(d, f, n) ==
  { p \in d.packets : \/ p.frame # f
                      \/ n \in Block /\ (~IsData(p) \/ p.block > n
                                         \/ p.block < d.frames[f].current_block) }

Construct(d, f, n) ==
  [packets |-> Retained(d, f, n),
   frames  |-> [d.frames EXCEPT ![f] = Advanced(d, f, n)]]

\* Construction starts at the block of the packet, or at the current block of
\* a known frame if that is lower; it goes ahead only from the current block.
StartsAt(d, p) ==
  IF p.frame \in Known(d) THEN p.block >= d.frames[p.frame].current_block
                          ELSE p.block = 0

\* handle_packet: the values it may leave (there is always exactly one).
Handled(d, p) ==
  UNION { IF StartsAt(d, p)
          THEN { Construct(e, p.frame, n) : n \in StopBlocks(e, p.frame) }
          ELSE {e} : e \in Inserted(d, p) }

\* take_frame: only a complete frame is taken, and only its entry goes.
Take(d, f) ==
  [packets |-> d.packets, frames |-> [g \in Known(d) \ {f} |-> d.frames[g]]]

\* discard_frame, for every frame of fs.
Discard(d, fs) ==
  [packets |-> { p \in d.packets : p.frame \notin fs },
   frames  |-> [g \in Known(d) \ fs |-> d.frames[g]]]
=============================================================================
