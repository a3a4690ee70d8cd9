---------------------------- MODULE VideoProofs -----------------------------
(***************************************************************************)
(* Video.  The depayloader: whatever packets arrive, in whatever order and *)
(* number, every frame it completes carries the payload the host sent, for *)
(* every number of frames, block layout and amount of parity.  The stream: *)
(* it implements the decodable stream, for every timeout and discard limit *)
(* as well.                                                                *)
(***************************************************************************)
EXTENDS VideoDepayloader, VideoStream, FiniteSetTheorems, SequenceTheorems, TLAPS

-----------------------------------------------------------------------------
(* The depayloader.                                                        *)

\* What is known of a frame under construction: it has the type of a frame,
\* its buffer offset is that of its current block, the shards counted belong
\* to that block, and
\*  - every unit of a block before the current one, and every data shard
\*    counted of the current one, is in its place;
\*  - every parity shard counted is still at hand.
FrameInv(d, f) ==
  LET fr == d.frames[f]
      cb == fr.current_block
  IN  /\ fr \in FrameState
      /\ fr.offset = IF cb \in Block THEN cb * MaxShards ELSE Units
      /\ fr.shards \subseteq IF cb \in Block THEN 0 .. DataShards(cb) + Parity - 1 ELSE {}
      /\ \A b \in Block : \A s \in 0 .. DataShards(b) - 1 :
           b < cb \/ (b = cb /\ s \in fr.shards) => fr.buffer[UnitOf(b, s)] = UnitOf(b, s)
      /\ \A s \in fr.shards : s < DataShards(cb) \/ s \in Shards(InBlock(d, f, cb))

DepayloaderInv(d) ==
  /\ d.packets \subseteq Packet
  /\ Known(d) \subseteq Frame
  /\ d.frames \in [Known(d) -> FrameState]
  /\ \A f \in Known(d) : FrameInv(d, f)

-----------------------------------------------------------------------------
(* Packets, blocks and units.                                              *)

LEMMA PacketType ==
  ASSUME NEW p \in Packet
  PROVE  /\ p.frame \in Frame /\ p.block \in Block /\ p.timestamp \in Nat
         /\ p.shard \in 0 .. DataShards(p.block) + Parity - 1
  BY FecAssumption DEF Packet, PacketsOf, PacketTimestamp, Frame, Block

LEMMA DataShardsType ==
  ASSUME NEW b \in Block PROVE DataShards(b) \in 1 .. MaxShards
  BY FecAssumption DEF DataShards, Block

LEMMA QuotientRemainder ==
  ASSUME NEW i \in Nat, NEW m \in Nat \ {0}
  PROVE  /\ i = (i \div m) * m + (i % m)
         /\ i % m \in 0 .. m - 1
         /\ i \div m \in Nat
  OBVIOUS

\* Every place of the buffer belongs to one data packet of one block.
LEMMA UnitOfPlace ==
  ASSUME NEW i \in 0 .. Units - 1
  PROVE  \E b \in Block : \E s \in 0 .. DataShards(b) - 1 : UnitOf(b, s) = i
<1> DEFINE b == i \div MaxShards
           s == i % MaxShards
<1>1. i \in Nat /\ MaxShards \in Nat \ {0}
  BY FecAssumption DEF Units
<1>2. i = b * MaxShards + s /\ s \in 0 .. MaxShards - 1 /\ b \in Nat
  BY <1>1, QuotientRemainder
<1>3. i < LastBlock * MaxShards + TailShards
  BY FecAssumption DEF Units
<1> HIDE DEF b, s
<1>4. b <= LastBlock
  <2>1. SUFFICES ASSUME b >= LastBlock + 1 PROVE FALSE
    BY <1>2, FecAssumption
  <2>2. b * MaxShards >= (LastBlock + 1) * MaxShards
    BY <1>2, <2>1, FecAssumption
  <2> QED  BY <1>2, <1>3, <2>2, FecAssumption
<1>5. s < DataShards(b)
  BY <1>2, <1>3, <1>4, FecAssumption DEF DataShards
<1>6. b \in Block /\ s \in 0 .. DataShards(b) - 1 /\ UnitOf(b, s) = i
  BY <1>2, <1>4, <1>5, FecAssumption DEF Block, UnitOf, DataShards
<1> QED  BY <1>6

LEMMA UnitOfType ==
  ASSUME NEW b \in Block, NEW s \in 0 .. DataShards(b) - 1
  PROVE  UnitOf(b, s) \in 0 .. Units - 1
<1>1. CASE b = LastBlock
  BY <1>1, FecAssumption DEF UnitOf, Units, DataShards, Block
<1>2. CASE b < LastBlock
  <2>1. (b + 1) * MaxShards <= LastBlock * MaxShards
    BY <1>2, FecAssumption DEF Block
  <2>2. s \in 0 .. MaxShards - 1
    BY <1>2 DEF DataShards
  <2> QED  BY <2>1, <2>2, FecAssumption DEF UnitOf, Units, Block
<1> QED  BY <1>1, <1>2, FecAssumption DEF Block

LEMMA ShardsInBlock ==
  ASSUME NEW d, d.packets \subseteq Packet, NEW f, NEW b
  PROVE  Shards(InBlock(d, f, b)) \subseteq 0 .. DataShards(b) + Parity - 1
  BY PacketType DEF Shards, InBlock

\* Keeping more packets of other frames, or of the same, disturbs no frame.
LEMMA FrameInvKeeps ==
  ASSUME NEW d, NEW e, NEW f, FrameInv(d, f), e.frames[f] = d.frames[f],
         \A p \in d.packets : p.frame = f => p \in e.packets
  PROVE  FrameInv(e, f)
  BY DEF FrameInv, Shards, InBlock

-----------------------------------------------------------------------------
(* handle_packet keeps the invariant.                                      *)

LEMMA InsertedInv ==
  ASSUME NEW d, DepayloaderInv(d), NEW p \in Packet, NEW e \in Inserted(d, p)
  PROVE  /\ DepayloaderInv(e)
         /\ p.frame \in Known(e)
         /\ p.frame \in Known(d) => e.frames = d.frames
         /\ p.frame \notin Known(d) => e.frames[p.frame].current_block = 0
<1> DEFINE kept == d.packets \cup {p}
<1>1. kept \subseteq Packet
  BY DEF DepayloaderInv
<1>2. CASE p.frame \in Known(d)
  <2>1. e = [packets |-> kept, frames |-> d.frames]
    BY <1>2 DEF Inserted
  <2>2. e.packets = kept /\ e.frames = d.frames /\ Known(e) = Known(d)
    BY <2>1 DEF Known
  <2>3. \A f \in Known(e) : FrameInv(e, f)
    BY <2>2, FrameInvKeeps DEF DepayloaderInv
  <2> QED  BY <1>1, <1>2, <2>2, <2>3 DEF DepayloaderInv
<1>3. CASE p.frame \notin Known(d)
  <2>1. PICK q \in FirstPacket(kept, p.frame) :
          e = [packets |-> kept,
               frames  |-> [f \in Known(d) \cup {p.frame} |->
                              IF f \in Known(d) THEN d.frames[f]
                              ELSE NewFrame(q.timestamp)]]
    BY <1>3 DEF Inserted
  <2>2. q.timestamp \in Nat
    BY <1>1, <2>1, PacketType DEF FirstPacket
  <2>3. /\ e.packets = kept
        /\ Known(e) = Known(d) \cup {p.frame}
        /\ e.frames[p.frame] = NewFrame(q.timestamp)
        /\ \A f \in Known(d) : e.frames[f] = d.frames[f]
        /\ e.frames = [f \in Known(e) |-> e.frames[f]]
    BY <1>3, <2>1 DEF Known
  <2>4. NewFrame(q.timestamp) \in FrameState
    BY <2>2, FecAssumption DEF NewFrame, FrameState, Units, Block
  <2>5. FrameInv(e, p.frame)
    <3>1. 0 \in Block
      BY FecAssumption DEF Block
    <3> QED  BY <2>3, <2>4, <3>1, FecAssumption DEF FrameInv, NewFrame, Block
  <2>6. \A f \in Known(e) : FrameInv(e, f)
    BY <2>3, <2>5, FrameInvKeeps DEF DepayloaderInv
  <2>7. p.frame \in Frame
    BY PacketType
  <2>8. e.frames \in [Known(e) -> FrameState]
    BY <2>3, <2>4 DEF DepayloaderInv
  <2> QED  BY <1>1, <1>3, <2>3, <2>6, <2>7, <2>8 DEF DepayloaderInv, NewFrame
<1> QED  BY <1>2, <1>3

\* A block with enough shards counted can be recovered.
LEMMA ConstructableRecoverable ==
  ASSUME NEW d, DepayloaderInv(d), NEW f \in Known(d), NEW b \in Block,
         Constructable(d, f, b)
  PROVE  Recoverable(d, f, b)
<1> DEFINE fr     == d.frames[f]
           copied == IF b = fr.current_block
                     THEN { s \in fr.shards : s < DataShards(b) } ELSE {}
           hand   == copied \cup Shards(InBlock(d, f, b))
<1>1. DataShards(b) \in Nat
  BY DataShardsType
<1>2. Shards(InBlock(d, f, b)) \subseteq 0 .. DataShards(b) + Parity - 1
  BY ShardsInBlock DEF DepayloaderInv
<1>3. hand \subseteq 0 .. DataShards(b) + Parity - 1
  BY <1>2 DEF DepayloaderInv, FrameInv
<1>4. IsFiniteSet(0 .. DataShards(b) + Parity - 1)
  BY <1>1, FS_Interval, FecAssumption
<1>5. IsFiniteSet(hand)
  BY <1>3, <1>4, FS_Subset
<1>6. Available(d, f, b) \subseteq hand
  BY DEF DepayloaderInv, FrameInv, Available
<1>7. Cardinality(Available(d, f, b)) <= Cardinality(hand)
  BY <1>5, <1>6, FS_Subset
<1>8. IsFiniteSet(Available(d, f, b))
  BY <1>5, <1>6, FS_Subset
<1>9. Cardinality(Available(d, f, b)) \in Nat /\ Cardinality(hand) \in Nat
  BY <1>5, <1>8, FS_CardinalityType
<1>10. Cardinality(Available(d, f, b)) >= DataShards(b)
  BY DEF Constructable
<1>11. Cardinality(hand) >= DataShards(b)
  BY <1>1, <1>7, <1>9, <1>10
<1> QED  BY <1>11 DEF Recoverable

\* What is written to the buffer is written to its place.
LEMMA FilledRight ==
  ASSUME NEW d, DepayloaderInv(d), NEW f \in Known(d),
         d.frames[f].current_block \in Block, NEW n \in 0 .. LastBlock + 1,
         NEW i \in 0 .. Units - 1
  PROVE  Filled(d, f, n)[i] = IF Sources(d, f, n, i) = {} THEN d.frames[f].buffer[i] ELSE i
<1> DEFINE fr == d.frames[f]
<1>1. CASE Sources(d, f, n, i) = {}
  BY <1>1 DEF Filled
<1>2. CASE Sources(d, f, n, i) # {}
  <2>1. PICK c \in Sources(d, f, n, i) : Filled(d, f, n)[i] = UnitOf(c[1], c[2])
    BY <1>2 DEF Filled
  <2>2. /\ c[1] \in fr.current_block .. n /\ c[2] \in 0 .. MaxShards - 1
        /\ Place(fr, c) = i
    BY <2>1 DEF Sources
  <2>3. fr.offset = fr.current_block * MaxShards
    BY DEF DepayloaderInv, FrameInv
  <2>4. UnitOf(c[1], c[2]) = Place(fr, c)
    BY <2>2, <2>3, FecAssumption DEF UnitOf, Place, Block
  <2> QED  BY <1>2, <2>1, <2>2, <2>4
<1> QED  BY <1>1, <1>2

LEMMA FilledWritten ==
  ASSUME NEW d, DepayloaderInv(d), NEW f \in Known(d),
         d.frames[f].current_block \in Block, NEW n \in 0 .. LastBlock + 1,
         NEW b \in Block, b >= d.frames[f].current_block, b <= n,
         NEW s \in 0 .. DataShards(b) - 1,
         s \in Shards(InBlock(d, f, b)) \/ (b < n /\ Recoverable(d, f, b))
  PROVE  Filled(d, f, n)[UnitOf(b, s)] = UnitOf(b, s)
<1> DEFINE fr == d.frames[f]
           c  == <<b, s>>
<1>1. UnitOf(b, s) \in 0 .. Units - 1
  BY UnitOfType
<1>2. s \in 0 .. MaxShards - 1 /\ s < DataShards(b)
  BY DataShardsType, FecAssumption
<1>3. fr.offset = fr.current_block * MaxShards
  BY DEF DepayloaderInv, FrameInv
<1>4. Place(fr, c) = UnitOf(b, s)
  BY <1>2, <1>3, FecAssumption DEF Place, UnitOf, Block
<1>5. Written(d, f, n, c)
  BY <1>2 DEF Written
<1>6. c \in (fr.current_block .. n) \X (0 .. MaxShards - 1)
  BY <1>2, FecAssumption DEF Block
<1>7. c \in Sources(d, f, n, UnitOf(b, s))
  BY <1>4, <1>5, <1>6 DEF Sources
<1> QED  BY <1>1, <1>7, FilledRight

LEMMA AdvancedInv ==
  ASSUME NEW d, DepayloaderInv(d), NEW f \in Known(d),
         d.frames[f].current_block \in Block, NEW n \in StopBlocks(d, f)
  PROVE  FrameInv(Construct(d, f, n), f)
<1> DEFINE fr == d.frames[f]
           cb == fr.current_block
           e  == Construct(d, f, n)
           ad == Advanced(d, f, n)
<1>1. /\ fr \in FrameState /\ cb \in Block /\ cb \in Int /\ LastBlock \in Nat
      /\ n \in cb .. LastBlock + 1 /\ n \in 0 .. LastBlock + 1
      /\ \A b \in cb .. n - 1 : Constructable(d, f, b)
  BY FecAssumption DEF DepayloaderInv, FrameInv, StopBlocks, Block
<1>2. e.frames[f] = ad
  BY DEF Construct, Known
<1>3. /\ ad.current_block = n
      /\ ad.shards = IF n \in Block THEN Available(d, f, n) ELSE {}
      /\ ad.offset = fr.offset + UnitsUpTo(fr, n)
      /\ ad.buffer = Filled(d, f, n)
      /\ ad.timestamp = fr.timestamp
      /\ ad = [current_block |-> ad.current_block, shards |-> ad.shards,
               offset |-> ad.offset, timestamp |-> ad.timestamp, buffer |-> ad.buffer]
  BY <1>1 DEF Advanced, FrameState
<1> HIDE DEF e, ad
<1>4. ad.offset = IF n \in Block THEN n * MaxShards ELSE Units
  <2>1. fr.offset = cb * MaxShards
    BY <1>1 DEF DepayloaderInv, FrameInv
  <2>2. CASE n = cb
    BY <1>1, <1>3, <2>1, <2>2, FecAssumption DEF UnitsUpTo, Block
  <2>3. CASE n # cb /\ n \in Block
    <3>1. DataShards(n - 1) = MaxShards
      BY <1>1, <2>3 DEF DataShards, Block
    <3>2. ad.offset = cb * MaxShards + ((n - 1 - cb) * MaxShards + MaxShards)
      BY <1>3, <2>1, <2>3, <3>1 DEF UnitsUpTo
    <3> QED  BY <1>1, <2>3, <3>2, FecAssumption
  <2>4. CASE n # cb /\ n \notin Block
    <3>1. n = LastBlock + 1 /\ DataShards(n - 1) = TailShards
      BY <1>1, <2>4, FecAssumption DEF DataShards, Block
    <3>2. ad.offset = cb * MaxShards + ((LastBlock - cb) * MaxShards + TailShards)
      BY <1>1, <1>3, <2>1, <2>4, <3>1 DEF UnitsUpTo
    <3> QED  BY <1>1, <2>4, <3>2, FecAssumption DEF Units
  <2> QED  BY <2>2, <2>3, <2>4
<1>5. ad.shards \subseteq IF n \in Block THEN 0 .. DataShards(n) + Parity - 1 ELSE {}
  <2>1. ASSUME n \in Block PROVE Available(d, f, n) \subseteq 0 .. DataShards(n) + Parity - 1
    BY <1>1, <2>1, ShardsInBlock DEF Available, DepayloaderInv, FrameInv
  <2> QED  BY <1>3, <2>1
<1>6. ad \in FrameState
  <2>1. ad.shards \subseteq 0 .. MaxShards + Parity - 1
    BY <1>5, DataShardsType, FecAssumption
  <2>2. ad.offset \in 0 .. Units
    <3>1. CASE n \in Block
      <4>1. n * MaxShards <= LastBlock * MaxShards
        BY <3>1, FecAssumption DEF Block
      <4>2. n * MaxShards \in Nat /\ LastBlock * MaxShards \in Nat
        BY <3>1, FecAssumption DEF Block
      <4> QED  BY <1>4, <3>1, <4>1, <4>2, FecAssumption DEF Units
    <3>2. CASE n \notin Block
      BY <1>4, <3>2, FecAssumption DEF Units
    <3> QED  BY <3>1, <3>2
  <2>3. ad.buffer \in [0 .. Units - 1 -> {Hole} \cup (0 .. Units - 1)]
    <3>1. ad.buffer = [i \in 0 .. Units - 1 |-> ad.buffer[i]]
      BY <1>3 DEF Filled
    <3>2. fr.buffer \in [0 .. Units - 1 -> {Hole} \cup (0 .. Units - 1)]
      BY <1>1 DEF FrameState
    <3>3. ASSUME NEW i \in 0 .. Units - 1
          PROVE  ad.buffer[i] \in {Hole} \cup (0 .. Units - 1)
      <4>1. ad.buffer[i] = IF Sources(d, f, n, i) = {} THEN fr.buffer[i] ELSE i
        BY <1>1, <1>3, FilledRight
      <4> QED  BY <3>2, <4>1
    <3> QED  BY <3>1, <3>3
  <2> QED  BY <1>1, <1>3, <2>1, <2>2, <2>3 DEF FrameState
<1>7. ASSUME NEW b \in Block, NEW s \in 0 .. DataShards(b) - 1,
             b < n \/ (b = n /\ s \in ad.shards)
      PROVE  ad.buffer[UnitOf(b, s)] = UnitOf(b, s)
  <2>1. UnitOf(b, s) \in 0 .. Units - 1
    BY UnitOfType
  <2>2. CASE b < cb \/ (b = cb /\ s \in fr.shards)
    <3>1. fr.buffer[UnitOf(b, s)] = UnitOf(b, s)
      BY <2>2 DEF DepayloaderInv, FrameInv
    <3> QED  BY <1>1, <1>3, <2>1, <3>1, FilledRight
  <2>3. CASE b >= cb /\ b < n
    <3>1. Recoverable(d, f, b)
      BY <1>1, <2>3, ConstructableRecoverable DEF Block
    <3>2. b >= d.frames[f].current_block /\ b <= n /\ b < n
      BY <1>1, <2>3 DEF Block
    <3>3. Filled(d, f, n)[UnitOf(b, s)] = UnitOf(b, s)
      BY <1>1, <3>1, <3>2, FilledWritten
    <3> QED  BY <1>3, <3>3
  <2>4. CASE b = n /\ s \in ad.shards /\ ~(b = cb /\ s \in fr.shards)
    <3>1. s \in Shards(InBlock(d, f, b))
      BY <1>3, <2>4 DEF Available
    <3> QED  BY <1>1, <1>3, <2>4, <3>1, FilledWritten
  <2> QED  BY <1>1, <1>7, <2>2, <2>3, <2>4 DEF Block
<1>8. ASSUME NEW s \in ad.shards
      PROVE  s < DataShards(n) \/ s \in Shards(InBlock(e, f, n))
  <2>1. n \in Block /\ s \in Available(d, f, n)
    BY <1>3, <1>8
  <2>2. s < DataShards(n) \/ s \in Shards(InBlock(d, f, n))
    BY <2>1 DEF Available, DepayloaderInv, FrameInv
  <2>3. e.packets = Retained(d, f, n)
    BY DEF e, Construct
  <2>4. SUFFICES ASSUME s >= DataShards(n) PROVE s \in Shards(InBlock(e, f, n))
    BY <2>1, <1>5, DataShardsType
  <2>5. PICK p \in d.packets : p.frame = f /\ p.block = n /\ p.shard = s
    BY <2>1, <1>5, <2>2, <2>4, DataShardsType DEF Shards, InBlock
  <2>6. ~IsData(p)
    BY <2>1, <1>5, <2>4, <2>5, DataShardsType DEF IsData
  <2> QED  BY <2>1, <2>3, <2>5, <2>6 DEF Retained, Shards, InBlock
<1> QED  BY <1>2, <1>3, <1>4, <1>5, <1>6, <1>7, <1>8 DEF FrameInv, e

\* Construction starts only in a frame that is not complete.
LEMMA StartsInBlock ==
  ASSUME NEW d, DepayloaderInv(d), NEW p \in Packet, NEW e \in Inserted(d, p), StartsAt(d, p)
  PROVE  e.frames[p.frame].current_block \in Block
<1>1. p.block \in Block
  BY PacketType
<1>2. DepayloaderInv(e) /\ p.frame \in Known(e)
  BY InsertedInv
<1>3. e.frames[p.frame].current_block \in 0 .. LastBlock + 1
  BY <1>2 DEF DepayloaderInv, FrameState
<1>4. e.frames[p.frame].current_block <= p.block
  BY <1>1, InsertedInv, FecAssumption DEF StartsAt, Block
<1> QED  BY <1>1, <1>3, <1>4, FecAssumption DEF Block

LEMMA HandledInv ==
  ASSUME NEW d, DepayloaderInv(d), NEW p \in Packet, NEW r \in Handled(d, p)
  PROVE  DepayloaderInv(r)
<1>1. PICK e \in Inserted(d, p) :
        r \in IF StartsAt(d, p)
              THEN { Construct(e, p.frame, n) : n \in StopBlocks(e, p.frame) } ELSE {e}
  BY DEF Handled
<1>2. DepayloaderInv(e) /\ p.frame \in Known(e)
  BY <1>1, InsertedInv
<1>3. CASE ~StartsAt(d, p)
  BY <1>1, <1>2, <1>3
<1>4. CASE StartsAt(d, p)
  <2>1. PICK n \in StopBlocks(e, p.frame) : r = Construct(e, p.frame, n)
    BY <1>1, <1>4
  <2>2. e.frames[p.frame].current_block \in Block
    BY <1>1, <1>4, StartsInBlock
  <2>3. FrameInv(r, p.frame)
    BY <1>2, <2>1, <2>2, AdvancedInv
  <2>4. /\ r.packets \subseteq e.packets
        /\ Known(r) = Known(e)
        /\ \A g \in Known(e) : g # p.frame => r.frames[g] = e.frames[g]
        /\ r.frames = [g \in Known(e) |-> r.frames[g]]
    BY <2>1, <1>2 DEF Construct, Retained, Known, DepayloaderInv
  <2>5. \A q \in e.packets : q.frame # p.frame => q \in r.packets
    BY <2>1 DEF Construct, Retained
  <2>6. \A g \in Known(r) : FrameInv(r, g)
    BY <1>2, <2>3, <2>4, <2>5, FrameInvKeeps DEF DepayloaderInv
  <2>7. r.frames \in [Known(r) -> FrameState]
    BY <2>4, <2>6 DEF FrameInv
  <2> QED  BY <1>2, <2>4, <2>6, <2>7 DEF DepayloaderInv
<1> QED  BY <1>3, <1>4

-----------------------------------------------------------------------------
(* The other operations.                                                   *)

LEMMA TakeInv ==
  ASSUME NEW d, DepayloaderInv(d), NEW f PROVE DepayloaderInv(Take(d, f))
<1> DEFINE e == Take(d, f)
<1>1. /\ e.packets = d.packets /\ Known(e) = Known(d) \ {f}
      /\ \A g \in Known(e) : e.frames[g] = d.frames[g]
      /\ e.frames = [g \in Known(e) |-> e.frames[g]]
  BY DEF Take, Known
<1> HIDE DEF e
<1>2. \A g \in Known(e) : FrameInv(e, g)
  BY <1>1, FrameInvKeeps DEF DepayloaderInv
<1>3. DepayloaderInv(e)
  BY <1>1, <1>2 DEF DepayloaderInv
<1> QED  BY <1>3 DEF e

LEMMA DiscardInv ==
  ASSUME NEW d, DepayloaderInv(d), NEW fs PROVE DepayloaderInv(Discard(d, fs))
<1> DEFINE e == Discard(d, fs)
<1>1. /\ e.packets \subseteq d.packets /\ Known(e) = Known(d) \ fs
      /\ \A g \in Known(e) : e.frames[g] = d.frames[g]
      /\ \A p \in d.packets : p.frame \notin fs => p \in e.packets
      /\ e.frames = [g \in Known(e) |-> e.frames[g]]
  BY DEF Discard, Known
<1> HIDE DEF e
<1>2. \A g \in Known(e) : FrameInv(e, g)
  BY <1>1, FrameInvKeeps DEF DepayloaderInv
<1>3. DepayloaderInv(e)
  BY <1>1, <1>2 DEF DepayloaderInv
<1> QED  BY <1>3 DEF e

-----------------------------------------------------------------------------

Inv == DepayloaderInv(depayloader) /\ given \in [Frame -> SUBSET Packet]

LEMMA InvHolds == DepayloaderSpec => []Inv
<1>1. DepayloaderInit => Inv
  BY DEF DepayloaderInit, Inv, DepayloaderInv, EmptyDepayloader, Known
<1>2. Inv /\ [DepayloaderNext]_DepayloaderVars => Inv'
  <2> SUFFICES ASSUME Inv, [DepayloaderNext]_DepayloaderVars PROVE Inv'
    OBVIOUS
  <2>1. ASSUME NEW p \in Packet, HandlePacket(p) PROVE Inv'
    <3>1. DepayloaderInv(depayloader')
      BY <2>1, HandledInv DEF HandlePacket, Inv
    <3>2. p.frame \in Frame
      BY PacketType
    <3> QED  BY <2>1, <3>1, <3>2 DEF HandlePacket, Inv
  <2>2. ASSUME NEW f \in Frame, TakeFrame(f) PROVE Inv'
    BY <2>2, TakeInv DEF TakeFrame, Inv
  <2>3. ASSUME NEW f \in Frame, DiscardFrame(f) PROVE Inv'
    BY <2>3, DiscardInv DEF DiscardFrame, Inv
  <2>4. CASE UNCHANGED DepayloaderVars
    BY <2>4 DEF DepayloaderVars, Inv
  <2> QED  BY <2>1, <2>2, <2>3, <2>4 DEF DepayloaderNext
<1> QED  BY <1>1, <1>2, PTL DEF DepayloaderSpec

\* The depayloader's state keeps its type.
THEOREM DepayloaderTypeCorrect == DepayloaderSpec => []TypeOK
<1>1. Inv => TypeOK
  BY DEF Inv, DepayloaderInv, TypeOK
<1> QED  BY <1>1, InvHolds, PTL

\* A frame the depayloader calls complete carries the host's payload, every
\* unit in its place.
THEOREM CompleteFramesCorrect == DepayloaderSpec => []CompleteFramesIntact
<1>1. Inv => CompleteFramesIntact
  <2> SUFFICES ASSUME Inv, NEW f \in Complete(depayloader)
               PROVE  depayloader.frames[f].buffer = [i \in 0 .. Units - 1 |-> i]
    BY DEF CompleteFramesIntact
  <2> DEFINE fr == depayloader.frames[f]
  <2>1. FrameInv(depayloader, f) /\ fr.current_block > LastBlock
    BY DEF Complete, IsComplete, Inv, DepayloaderInv
  <2>2. fr.buffer = [i \in 0 .. Units - 1 |-> fr.buffer[i]]
    BY <2>1 DEF FrameInv, FrameState
  <2>3. ASSUME NEW i \in 0 .. Units - 1 PROVE fr.buffer[i] = i
    <3>1. PICK b \in Block : \E s \in 0 .. DataShards(b) - 1 : UnitOf(b, s) = i
      BY UnitOfPlace
    <3>2. PICK s \in 0 .. DataShards(b) - 1 : UnitOf(b, s) = i
      BY <3>1
    <3>3. b < fr.current_block
      BY <2>1, FecAssumption DEF Block, FrameInv, FrameState
    <3> QED  BY <2>1, <3>2, <3>3 DEF FrameInv
  <2> QED  BY <2>2, <2>3
<1> QED  BY <1>1, InvHolds, PTL

\* The parity counted as available is at hand whenever the depayloader turns
\* to Reed-Solomon.
THEOREM CountedParityKept == DepayloaderSpec => []CountedParityAtHand
<1>1. Inv => CountedParityAtHand
  BY DEF Inv, DepayloaderInv, FrameInv, CountedParityAtHand
<1> QED  BY <1>1, InvHolds, PTL

-----------------------------------------------------------------------------
(* Enough packets complete a frame.                                        *)

\* The packets `got' of frame f that the depayloader still needs are at hand
\* or counted.
Kept(d, got, f) ==
  LET cb == d.frames[f].current_block IN
  cb \in Block => \A p \in got :
    /\ p.block > cb => p \in d.packets
    /\ p.block = cb => p.shard \in Available(d, f, cb)

\* The current block lacks packets.  (A frame that becomes known by a packet of
\* a later block may find old packets of block 0 at hand: it goes ahead when
\* the first of them comes again.)
Lacking(d, got, f) ==
  LET cb == d.frames[f].current_block IN
  cb \in Block /\ Constructable(d, f, cb) => cb = 0 /\ \A p \in got : p.block # 0

PacketOf(f) == { p \in Packet : p.frame = f }

GivenInv(d, got, f) ==
  /\ got \subseteq PacketOf(f)
  /\ f \notin Known(d) => got = {}
  /\ f \in Known(d) => Kept(d, got, f) /\ Lacking(d, got, f)

CountInv == \A f \in Frame : GivenInv(depayloader, given[f], f)

\* What leaves a frame and its packets alone keeps its invariant.
LEMMA GivenKeeps ==
  ASSUME NEW d, NEW e, NEW f, NEW got, GivenInv(d, got, f),
         f \in Known(e) <=> f \in Known(d),
         f \in Known(d) => e.frames[f] = d.frames[f],
         \A p : p.frame = f => (p \in d.packets <=> p \in e.packets)
  PROVE  GivenInv(e, got, f)
<1>1. \A b : InBlock(e, f, b) = InBlock(d, f, b)
  BY DEF InBlock
<1>2. \A p \in got : p \in d.packets <=> p \in e.packets
  BY DEF GivenInv, PacketOf
<1>3. CASE f \notin Known(d)
  BY <1>3 DEF GivenInv
<1>4. CASE f \in Known(d)
  BY <1>1, <1>2, <1>4 DEF GivenInv, Kept, Lacking, Constructable, Available
<1> QED  BY <1>3, <1>4

LEMMA InsertedKept ==
  ASSUME NEW d, DepayloaderInv(d), NEW p \in Packet, NEW e \in Inserted(d, p),
         NEW got, GivenInv(d, got, p.frame)
  PROVE  /\ Kept(e, got \cup {p}, p.frame)
         /\ ~StartsAt(d, p) => Lacking(e, got \cup {p}, p.frame)
<1> DEFINE f == p.frame
           cb == e.frames[f].current_block
<1>1. e.packets = d.packets \cup {p}
  BY DEF Inserted
<1>2. p \in InBlock(e, f, p.block) /\ p.shard \in Shards(InBlock(e, f, p.block))
  BY <1>1 DEF InBlock, Shards
<1>3. CASE f \in Known(d)
  <2>1. e.frames = d.frames /\ Kept(d, got, f) /\ Lacking(d, got, f)
    BY <1>3, InsertedInv DEF GivenInv
  <2>2. \A b : Shards(InBlock(d, f, b)) \subseteq Shards(InBlock(e, f, b))
    BY <1>1 DEF InBlock, Shards
  <2>3. Kept(e, got \cup {p}, f)
    BY <1>1, <1>2, <2>1, <2>2 DEF Kept, Available
  <2>4. ASSUME ~StartsAt(d, p), cb \in Block PROVE ~Constructable(e, f, cb)
    <3>1. p.block < cb /\ p.block \in Nat
      BY <1>3, <2>1, <2>4, PacketType, FecAssumption DEF StartsAt, Block
    <3>2. InBlock(e, f, cb) = InBlock(d, f, cb)
      BY <1>1, <3>1 DEF InBlock
    <3>3. ~Constructable(d, f, cb)
      BY <2>1, <2>4, <3>1 DEF Lacking
    <3> QED  BY <2>1, <3>2, <3>3 DEF Constructable, Available
  <2> QED  BY <2>3, <2>4 DEF Lacking
<1>4. CASE f \notin Known(d)
  <2>1. cb = 0 /\ got = {}
    BY <1>4, InsertedInv DEF GivenInv
  <2>2. p.block \in Nat
    BY PacketType DEF Block
  <2>3. Kept(e, got \cup {p}, f)
    BY <1>1, <1>2, <2>1 DEF Kept, Available
  <2>4. ~StartsAt(d, p) => Lacking(e, got \cup {p}, f)
    BY <1>4, <2>1 DEF StartsAt, Lacking
  <2> QED  BY <2>3, <2>4
<1> QED  BY <1>3, <1>4

\* The loop stops where packets are lacking, and keeps those of later blocks.
LEMMA ConstructedGiven ==
  ASSUME NEW e, DepayloaderInv(e), NEW f \in Known(e), NEW got, Kept(e, got, f),
         e.frames[f].current_block \in Block, NEW n \in StopBlocks(e, f),
         got \subseteq PacketOf(f)
  PROVE  Kept(Construct(e, f, n), got, f) /\ Lacking(Construct(e, f, n), got, f)
<1> DEFINE r == Construct(e, f, n)
           cb == e.frames[f].current_block
<1>1. /\ r.frames[f].current_block = n
      /\ n \in Block => r.frames[f].shards = Available(e, f, n)
      /\ r.packets = Retained(e, f, n)
  BY DEF Construct, Advanced, Known
<1>2. n \in cb .. LastBlock + 1 /\ cb \in Nat /\ (n \in Block => ~Constructable(e, f, n))
  BY DEF StopBlocks, Block
<1> HIDE DEF r
<1>3. n \in Block => Available(r, f, n) = Available(e, f, n)
  <2>1. InBlock(r, f, n) \subseteq InBlock(e, f, n)
    BY <1>1 DEF Retained, InBlock
  <2>2. Shards(InBlock(r, f, n)) \subseteq Shards(InBlock(e, f, n))
    BY <2>1 DEF Shards
  <2> QED  BY <1>1, <2>2 DEF Available
<1>4. Lacking(r, got, f)
  BY <1>1, <1>2, <1>3 DEF Lacking, Constructable
<1>5. ASSUME NEW p \in got, n \in Block
      PROVE  /\ p.block > n => p \in r.packets
             /\ p.block = n => p.shard \in Available(r, f, n)
  <2>1. p.frame = f /\ p.block \in Nat /\ n \in Nat
    BY <1>5, PacketType DEF PacketOf, Block
  <2>2. p.block > n => p \in e.packets
    BY <1>2, <2>1 DEF Kept
  <2>3. p.block > n => p \in r.packets
    BY <1>1, <1>5, <2>2 DEF Retained
  <2>4. p.block = n => p.shard \in Available(e, f, n)
    <3>1. CASE n = cb
      BY <3>1 DEF Kept
    <3>2. CASE n # cb
      <4>1. p.block = n => p \in InBlock(e, f, n)
        BY <1>2, <2>1, <3>2 DEF Kept, InBlock
      <4> QED  BY <4>1 DEF Available, Shards
    <3> QED  BY <3>1, <3>2
  <2> QED  BY <1>3, <1>5, <2>3, <2>4
<1>6. Kept(r, got, f)
  BY <1>1, <1>5 DEF Kept
<1> QED  BY <1>4, <1>6 DEF r

LEMMA HandledGiven ==
  ASSUME NEW d, DepayloaderInv(d), NEW p \in Packet, NEW r \in Handled(d, p),
         NEW got, GivenInv(d, got, p.frame)
  PROVE  GivenInv(r, got \cup {p}, p.frame)
<1> DEFINE f   == p.frame
           all == got \cup {p}
<1>1. PICK e \in Inserted(d, p) :
        r \in IF StartsAt(d, p) THEN { Construct(e, f, n) : n \in StopBlocks(e, f) } ELSE {e}
  BY DEF Handled
<1>2. DepayloaderInv(e) /\ f \in Known(e)
  BY <1>1, InsertedInv
<1>3. /\ Kept(e, all, f)
      /\ ~StartsAt(d, p) => Lacking(e, all, f)
  BY <1>1, InsertedKept
<1>4. all \subseteq PacketOf(f)
  BY DEF GivenInv, PacketOf
<1> HIDE DEF all
<1>5. CASE ~StartsAt(d, p)
  BY <1>1, <1>2, <1>3, <1>4, <1>5 DEF GivenInv, all
<1>6. CASE StartsAt(d, p)
  <2>1. PICK n \in StopBlocks(e, f) : r = Construct(e, f, n)
    BY <1>1, <1>6
  <2>2. e.frames[f].current_block \in Block
    BY <1>1, <1>6, StartsInBlock
  <2>3. Kept(r, all, f) /\ Lacking(r, all, f)
    BY <1>2, <1>3, <1>4, <2>1, <2>2, ConstructedGiven
  <2>4. f \in Known(r)
    BY <1>2, <2>1 DEF Construct, Known
  <2> QED  BY <1>4, <2>3, <2>4 DEF GivenInv, all
<1> QED  BY <1>5, <1>6

\* A packet handled leaves the other frames alone.
LEMMA HandledOthers ==
  ASSUME NEW d, DepayloaderInv(d), NEW p \in Packet, NEW r \in Handled(d, p), NEW f, f # p.frame
  PROVE  /\ f \in Known(r) <=> f \in Known(d)
         /\ f \in Known(d) => r.frames[f] = d.frames[f]
         /\ \A q : q.frame = f => (q \in d.packets <=> q \in r.packets)
<1>1. PICK e \in Inserted(d, p) :
        r \in IF StartsAt(d, p)
              THEN { Construct(e, p.frame, n) : n \in StopBlocks(e, p.frame) } ELSE {e}
  BY DEF Handled
<1>2. /\ f \in Known(e) <=> f \in Known(d)
      /\ f \in Known(d) => e.frames[f] = d.frames[f]
      /\ e.packets = d.packets \cup {p}
  BY <1>1 DEF Inserted, Known
<1>3. /\ f \in Known(r) <=> f \in Known(e)
      /\ f \in Known(e) => r.frames[f] = e.frames[f]
      /\ \A q : q.frame = f => (q \in e.packets <=> q \in r.packets)
  BY <1>1 DEF Construct, Retained, Known
<1> QED  BY <1>2, <1>3

LEMMA CountStep ==
  ASSUME Inv, CountInv, [DepayloaderNext]_DepayloaderVars PROVE CountInv'
<1>1. ASSUME NEW p \in Packet, HandlePacket(p) PROVE CountInv'
  <2>1. depayloader' \in Handled(depayloader, p) /\ p.frame \in Frame
    BY <1>1, PacketType DEF HandlePacket
  <2>2. \A f \in Frame :
          given'[f] = IF f = p.frame THEN given[f] \cup {p} ELSE given[f]
    BY <1>1 DEF HandlePacket, Inv
  <2>3. ASSUME NEW f \in Frame, f # p.frame PROVE GivenInv(depayloader', given[f], f)
    BY <2>1, <2>3, HandledOthers, GivenKeeps DEF Inv, CountInv
  <2>4. GivenInv(depayloader', given[p.frame] \cup {p}, p.frame)
    BY <2>1, HandledGiven DEF Inv, CountInv
  <2> QED  BY <2>2, <2>3, <2>4 DEF CountInv
<1>2. ASSUME NEW g \in Frame,
             given' = [given EXCEPT ![g] = {}], g \notin Known(depayloader'),
             \A f \in Frame \ {g} :
               /\ f \in Known(depayloader') <=> f \in Known(depayloader)
               /\ f \in Known(depayloader) => depayloader'.frames[f] = depayloader.frames[f]
               /\ \A q : q.frame = f => (q \in depayloader.packets <=> q \in depayloader'.packets)
      PROVE  CountInv'
  <2>1. \A f \in Frame : given'[f] = IF f = g THEN {} ELSE given[f]
    BY <1>2 DEF Inv
  <2>2. ASSUME NEW f \in Frame, f # g PROVE GivenInv(depayloader', given[f], f)
    BY <1>2, <2>2, GivenKeeps DEF CountInv
  <2>3. GivenInv(depayloader', {}, g)
    BY <1>2 DEF GivenInv
  <2> QED  BY <2>1, <2>2, <2>3 DEF CountInv
<1>3. ASSUME NEW g \in Frame, TakeFrame(g) PROVE CountInv'
  BY <1>2, <1>3 DEF TakeFrame, Take, Known
<1>4. ASSUME NEW g \in Frame, DiscardFrame(g) PROVE CountInv'
  BY <1>2, <1>4 DEF DiscardFrame, Discard, Known
<1>5. CASE UNCHANGED DepayloaderVars
  BY <1>5 DEF DepayloaderVars, CountInv
<1> QED  BY <1>1, <1>3, <1>4, <1>5 DEF DepayloaderNext

\* Shards tell the packets of a block apart.
LEMMA PacketsOfBlock ==
  ASSUME NEW f, NEW b, NEW ps, \A p \in ps : p \in PacketOf(f) /\ p.block = b,
         NEW shards, IsFiniteSet(shards), \A p \in ps : p.shard \in shards
  PROVE  IsFiniteSet(ps) /\ Cardinality(ps) <= Cardinality(shards)
<1> DEFINE ShardOf == [p \in ps |-> p.shard]
<1>1. ASSUME NEW p \in Packet
      PROVE  p = [frame |-> p.frame, block |-> p.block, shard |-> p.shard,
                  timestamp |-> PacketTimestamp(p.frame, p.block, p.shard)]
  BY DEF Packet, PacketsOf
<1>2. \A p, q \in ps : p.shard = q.shard => p = q
  BY <1>1 DEF PacketOf
<1>3. ShardOf \in Injection(ps, shards)
  BY <1>2 DEF Injection, IsInjective
<1> QED  BY <1>3, FS_Injection

\* A frame of which enough packets of every block were handled since it became
\* known is complete, in whatever order they came.
THEOREM EnoughPacketsSuffice == DepayloaderSpec => []EnoughPacketsComplete
<1>1. DepayloaderInit => CountInv
  BY DEF DepayloaderInit, CountInv, GivenInv, EmptyDepayloader, Known
<1>2. Inv /\ CountInv => EnoughPacketsComplete
  <2> SUFFICES ASSUME Inv, CountInv, NEW f \in Known(depayloader), f \notin Complete(depayloader),
                      \A b \in Block :
                        Cardinality({ p \in given[f] : p.block = b }) >= DataShards(b)
               PROVE  FALSE
    BY DEF EnoughPacketsComplete
  <2> DEFINE d  == depayloader
             cb == d.frames[f].current_block
             ps == { p \in given[f] : p.block = cb }
  <2>1. f \in Frame /\ FrameInv(d, f) /\ GivenInv(d, given[f], f)
    BY DEF Inv, DepayloaderInv, CountInv
  <2>2. cb \in Block
    BY <2>1, FecAssumption DEF Complete, IsComplete, FrameInv, FrameState, Block
  <2>3. DataShards(cb) \in 1 .. MaxShards
    BY <2>2, DataShardsType
  <2>4. IsFiniteSet(Available(d, f, cb))
    <3>1. Available(d, f, cb) \subseteq 0 .. DataShards(cb) + Parity - 1
      BY <2>1, <2>2, ShardsInBlock DEF Available, FrameInv, Inv, DepayloaderInv
    <3>2. IsFiniteSet(0 .. DataShards(cb) + Parity - 1)
      BY <2>3, FS_Interval, FecAssumption
    <3> QED  BY <3>1, <3>2, FS_Subset
  <2>5. \A p \in ps : p \in PacketOf(f) /\ p.block = cb /\ p.shard \in Available(d, f, cb)
    BY <2>1, <2>2 DEF GivenInv, Kept
  <2>6. IsFiniteSet(ps) /\ Cardinality(ps) <= Cardinality(Available(d, f, cb))
    BY <2>4, <2>5, PacketsOfBlock
  <2>7. Cardinality(ps) \in Nat /\ Cardinality(Available(d, f, cb)) \in Nat
    BY <2>4, <2>6, FS_CardinalityType
  <2>8. Constructable(d, f, cb)
    BY <2>2, <2>3, <2>6, <2>7 DEF Constructable
  <2>9. ps = {}
    BY <2>1, <2>2, <2>8 DEF GivenInv, Lacking
  <2> QED  BY <2>2, <2>3, <2>9, FS_EmptySet
<1>3. CountInv /\ Inv /\ [DepayloaderNext]_DepayloaderVars => CountInv'
  BY CountStep
<1> QED  BY <1>1, <1>2, <1>3, InvHolds, PTL DEF DepayloaderSpec

-----------------------------------------------------------------------------
(* The stream.                                                             *)

\* The depayloader knows frames of the host only.
KnownFrames == Known(depayloader) \subseteq Frame

\* The played frames are a sequence of frames and the frame awaited is the
\* successor of the last of them: what makes playing the current frame
\* decodable.
Awaits ==
  /\ played \in Seq([frame : Int, idr : BOOLEAN])
  /\ current_frame \in Int
  /\ current_frame # None =>
       played # <<>> /\ current_frame = played[Len(played)].frame + 1

StreamInv == KnownFrames /\ Awaits

\* A packet belongs to a frame of the host.
LEMMA PacketFrame == ASSUME NEW p \in Packet PROVE p.frame \in Frame
  BY DEF Packet, PacketsOf

\* Handling a packet makes no frame known but the packet's own.
LEMMA HandledKnown ==
  ASSUME NEW d, NEW p, NEW e \in Handled(d, p)
  PROVE  Known(e) \subseteq Known(d) \cup {p.frame}
<1>1. PICK i \in Inserted(d, p) :
        e \in IF StartsAt(d, p)
              THEN { Construct(i, p.frame, n) : n \in StopBlocks(i, p.frame) } ELSE {i}
  BY DEF Handled
<1>2. Known(i) \subseteq Known(d) \cup {p.frame}
  BY DEF Inserted, Known
<1>3. Known(e) = Known(i)
  BY <1>1 DEF Construct, Known
<1> QED  BY <1>2, <1>3

\* Discarding and taking make no frame known.
LEMMA DiscardKnown ==
  ASSUME NEW d, NEW fs PROVE Known(Discard(d, fs)) \subseteq Known(d)
  BY DEF Discard, Known

LEMMA TakeKnown ==
  ASSUME NEW d, NEW f PROVE Known(Take(d, f)) \subseteq Known(d)
  BY DEF Take, Known

\* update() plays nothing, or a frame the decoder can use, and keeps the
\* invariant.
LEMMA UpdateStep ==
  ASSUME StreamInv, NEW d, Known(d) \subseteq Frame, Update(d), idr \in SUBSET Int
  PROVE  /\ StreamInv'
         /\ \/ UNCHANGED played
            \/ \E f \in Frame, i \in BOOLEAN : Abstract!Play(f, i)
<1> DEFINE k == Discard(d, Outdated(d))
<1>1. Known(k) \subseteq Frame
  BY DiscardKnown
<1>2. Complete(k) \subseteq Known(k)
  BY DEF Complete
<1> HIDE DEF k
<1>3. ASSUME NEW f \in Complete(k), PlayFrame(k, f),
             f \in idr \/ f = current_frame
      PROVE  /\ StreamInv'
             /\ \E g \in Frame, b \in BOOLEAN : Abstract!Play(g, b)
  <2>1. f \in Frame /\ f \in Int /\ f # None
    BY <1>1, <1>2, <1>3 DEF Frame, None
  <2>2. played' = Append(played, [frame |-> f, idr |-> f \in idr])
    BY <1>3 DEF PlayFrame
  <2>3. played \in Seq([frame : Int, idr : BOOLEAN])
    BY DEF StreamInv, Awaits
  <2>4. /\ [frame |-> f, idr |-> f \in idr] \in [frame : Int, idr : BOOLEAN]
        /\ (f \in idr) \in BOOLEAN
    BY <2>1
  <2>5. /\ played' \in Seq([frame : Int, idr : BOOLEAN])
        /\ played' # <<>>
        /\ played'[Len(played')] = [frame |-> f, idr |-> f \in idr]
    BY <2>2, <2>3, <2>4, AppendProperties
  <2>6. current_frame' = f + 1
    BY <1>3 DEF PlayFrame
  <2>7. KnownFrames'
    BY <1>1, <1>3, TakeKnown DEF PlayFrame, KnownFrames
  <2>8. Abstract!Decodable(f, f \in idr)
    BY <1>3, <2>1 DEF StreamInv, Awaits, Abstract!Decodable
  <2>9. Abstract!Play(f, f \in idr)
    BY <2>2, <2>8 DEF Abstract!Play
  <2>10. Awaits'
    BY <2>1, <2>5, <2>6 DEF Awaits
  <2> QED  BY <2>1, <2>4, <2>7, <2>9, <2>10 DEF StreamInv
<1>4. CASE \E f \in ResyncFrames(k) : PlayFrame(k, f)
  BY <1>3, <1>4 DEF ResyncFrames
<1>5. CASE current_frame \in Complete(k) /\ PlayFrame(k, current_frame)
  BY <1>3, <1>5
<1>6. CASE DoIdrRequest(k, Seen(d))
  BY <1>1, <1>6 DEF DoIdrRequest, StreamInv, KnownFrames, Awaits
<1> QED  BY <1>4, <1>5, <1>6 DEF Update, k

LEMMA StreamInit == Init => StreamInv /\ Abstract!Init
  BY DEF Init, StreamInv, KnownFrames, Awaits, Known, EmptyDepayloader, None, Abstract!Init

LEMMA StreamStep ==
  ASSUME StreamInv, idr \in SUBSET Int, [Next]_vars
  PROVE  StreamInv' /\ [Abstract!Next]_played
<1>1. ASSUME NEW p \in Packet, ReceivePacket(p)
      PROVE  StreamInv' /\ [Abstract!Next]_played
  <2>1. PICK d \in Handled(depayloader, p) : Update(d)
    BY <1>1 DEF ReceivePacket
  <2>2. Known(d) \subseteq Frame
    BY <2>1, PacketFrame, HandledKnown DEF StreamInv, KnownFrames
  <2> QED  BY <2>1, <2>2, UpdateStep DEF Abstract!Next
<1>2. ASSUME Update(depayloader)
      PROVE  StreamInv' /\ [Abstract!Next]_played
  BY <1>2, UpdateStep DEF StreamInv, KnownFrames, Abstract!Next
<1>3. CASE RequestIdr \/ Tick \/ HostSend \/ UNCHANGED vars
  BY <1>3 DEF RequestIdr, Tick, HostSend, vars, stream, host, StreamInv, KnownFrames, Awaits
<1> QED  BY <1>1, <1>2, <1>3 DEF Next, ReceiveForeign, HandleTimeout

\* The host's IDR frames are among the frames it has sent.
LEMMA HostFrames == Spec => [](sent \in Nat /\ idr \in SUBSET Int)
<1> DEFINE HostInv == sent \in Nat /\ idr \in SUBSET Int
<1>1. Init => HostInv
  BY DEF Init
<1>2. HostInv /\ [Next]_vars => HostInv'
  BY DEF Next, ReceivePacket, ReceiveForeign, HandleTimeout, RequestIdr, Tick, HostSend,
         vars, stream, host
<1> QED  BY <1>1, <1>2, PTL DEF Spec

\* Every frame the stream hands over is an IDR frame or the successor of the
\* one handed over before it: the stream of video/mod.rs implements the
\* decodable stream, whatever the network does to the packets.
THEOREM StreamDecodable == Spec => ImplementsDecodableStream
<1>1. Init => StreamInv /\ Abstract!Init
  BY StreamInit
<1>2. StreamInv /\ (sent \in Nat /\ idr \in SUBSET Int) /\ [Next]_vars
        => StreamInv' /\ [Abstract!Next]_played
  BY StreamStep
<1> QED  BY <1>1, <1>2, HostFrames, PTL DEF Spec, ImplementsDecodableStream, Abstract!Spec

-----------------------------------------------------------------------------
(* The order of the frames.                                                *)

\* The frames update() has still to discard.
Behind == { f \in Known(depayloader) : f < current_frame }

\* update() gets to all of them, also to the one a packet may add.
FewBehind == Cardinality(Behind) < DiscardLimit

\* The frame before the one awaited has been played, and is known no more.
GoneOn == current_frame - 1 \in Frame \ Known(depayloader)

\* The frames played were played in order, and none before the first.
Ordered == PlayedInOrder /\ (current_frame = None => played = <<>>)

LEMMA DiscardIs ==
  ASSUME NEW d, NEW fs PROVE Known(Discard(d, fs)) = Known(d) \ fs
  BY DEF Discard, Known

LEMMA FramesFinite == IsFiniteSet(Frame)
  BY FS_Interval, FecAssumption DEF Frame

\* As long as few frames are behind, update() has none left that is, when it
\* looks for a frame to play.
LEMMA NoneBehind ==
  ASSUME StreamInv, FewBehind, NEW x \in Frame,
         NEW d, Known(d) \subseteq Known(depayloader) \cup {x},
         NEW f \in Known(d) \ Outdated(d)
  PROVE  f \in Frame /\ f >= current_frame
<1>1. f \in Frame /\ f \in Int /\ Known(d) \subseteq Frame /\ current_frame \in Int
  BY DEF StreamInv, KnownFrames, Awaits, Frame
<1>2. ASSUME f < current_frame PROVE FALSE
  <2> DEFINE EarlierOnes == { g \in Known(d) : g < f }
  <2>1. IsFiniteSet(Behind) /\ Cardinality(Behind) \in Nat
    <3>1. Behind \in SUBSET Frame
      BY DEF Behind, StreamInv, KnownFrames
    <3> QED  BY <3>1, FramesFinite, FS_Subset, FS_CardinalityType
  <2>2. EarlierOnes \cup {f} \subseteq Behind \cup {x}
    BY <1>1, <1>2 DEF Behind, Frame
  <2>3. IsFiniteSet(EarlierOnes) /\ Cardinality(EarlierOnes) \in Nat
    <3>1. EarlierOnes \in SUBSET Frame
      BY <1>1
    <3> QED  BY <3>1, FramesFinite, FS_Subset, FS_CardinalityType
  <2>4. Cardinality(EarlierOnes \cup {f}) = Cardinality(EarlierOnes) + 1
    <3>1. f \notin EarlierOnes
      BY <1>1
    <3> HIDE DEF EarlierOnes
    <3> QED  BY <2>3, <3>1, FS_AddElement
  <2>5. /\ IsFiniteSet(Behind \cup {x})
        /\ Cardinality(Behind \cup {x}) <= Cardinality(Behind) + 1
    <3>1. Cardinality(Behind \cup {x})
            = IF x \in Behind THEN Cardinality(Behind) ELSE Cardinality(Behind) + 1
      BY <2>1, FS_AddElement
    <3> QED  BY <2>1, <3>1, FS_AddElement
  <2>6. Cardinality(EarlierOnes \cup {f}) <= Cardinality(Behind \cup {x})
    <3> HIDE DEF EarlierOnes
    <3> QED  BY <2>2, <2>5, FS_Subset
  <2>7. Cardinality(EarlierOnes) < DiscardLimit
    <3>1. DiscardLimit \in Nat
      BY TimeAssumption
    <3> HIDE DEF EarlierOnes
    <3> QED  BY <2>1, <2>3, <2>4, <2>5, <2>6, <3>1, FS_CardinalityType DEF FewBehind
  <2> QED  BY <1>2, <2>7 DEF Outdated
<1> QED  BY <1>1, <1>2

\* A frame no smaller than the one awaited can follow those that were played.
LEMMA PlayOrdered ==
  ASSUME StreamInv, Ordered, NEW f \in Frame, f >= current_frame, NEW i \in BOOLEAN,
         played' = Append(played, [frame |-> f, idr |-> i]), current_frame' = f + 1
  PROVE  Ordered'
<1>1. /\ played \in Seq([frame : Int, idr : BOOLEAN]) /\ Len(played) \in Nat
      /\ f \in Int /\ [frame |-> f, idr |-> i] \in [frame : Int, idr : BOOLEAN]
  BY DEF StreamInv, Awaits, Frame
<1>2. /\ Len(played') = Len(played) + 1
      /\ \A j \in 1 .. Len(played) : played'[j] = played[j]
      /\ played'[Len(played) + 1] = [frame |-> f, idr |-> i]
  BY <1>1, AppendProperties
<1>3. ASSUME NEW j \in 1 .. Len(played') - 1
      PROVE  played'[j].frame < played'[j + 1].frame
  <2>1. CASE j = Len(played)
    <3>1. played # <<>>
      BY <1>1, <1>3, <2>1, EmptySeq
    <3>2. current_frame = played[Len(played)].frame + 1 /\ played[Len(played)].frame \in Int
      <4>1. current_frame # None
        BY <3>1 DEF Ordered
      <4>2. played[Len(played)] \in [frame : Int, idr : BOOLEAN]
        <5>1. Len(played) \in 1 .. Len(played)
          BY <1>1, <1>3, <2>1
        <5> QED  BY <1>1, <5>1, ElementOfSeq
      <4> QED  BY <4>1, <4>2 DEF StreamInv, Awaits
    <3>3. played'[j] = played[j] /\ played'[j + 1].frame = f
      BY <1>2, <1>3, <2>1
    <3> QED  BY <1>1, <2>1, <3>2, <3>3
  <2>2. CASE j # Len(played)
    <3>1. j \in 1 .. Len(played) - 1 /\ j + 1 \in 1 .. Len(played)
      BY <1>1, <1>2, <1>3, <2>2
    <3>2. played'[j] = played[j] /\ played'[j + 1] = played[j + 1]
      BY <1>1, <1>2, <3>1
    <3> QED  BY <3>1, <3>2 DEF Ordered, PlayedInOrder
  <2> QED  BY <2>1, <2>2
<1>4. current_frame' # None
  BY DEF Frame, None
<1> QED  BY <1>3, <1>4 DEF Ordered, PlayedInOrder

\* update() plays in order, and leaves nothing behind but what it jumps over.
LEMMA UpdateOrdered ==
  ASSUME StreamInv, Ordered, FewBehind, NEW x \in Frame,
         NEW d, Known(d) \subseteq Known(depayloader) \cup {x}, Update(d)
  PROVE  /\ Ordered'
         /\ Behind' = {} \/ GoneOn'
<1> DEFINE k == Discard(d, Outdated(d))
<1>1. \A f \in Known(k) : f \in Frame /\ f >= current_frame
  BY NoneBehind, DiscardIs
<1>2. Complete(k) \subseteq Known(k)
  BY DEF Complete
<1> HIDE DEF k
<1>3. ASSUME NEW f \in Complete(k), PlayFrame(k, f)
      PROVE  Ordered' /\ GoneOn'
  <2>1. f \in Frame /\ f >= current_frame /\ f \in Int
    BY <1>1, <1>2 DEF Frame
  <2>2. /\ played' = Append(played, [frame |-> f, idr |-> f \in idr])
        /\ current_frame' = f + 1
        /\ depayloader' = Take(k, f)
    BY <1>3 DEF PlayFrame
  <2>3. (f \in idr) \in BOOLEAN
    OBVIOUS
  <2>4. Ordered'
    BY <2>1, <2>2, <2>3, PlayOrdered
  <2>5. current_frame' - 1 = f /\ Known(depayloader') = Known(k) \ {f}
    BY <2>1, <2>2 DEF Take, Known
  <2> QED  BY <2>1, <2>4, <2>5 DEF GoneOn
<1>4. CASE DoIdrRequest(k, Seen(d))
  <2>1. depayloader' = k /\ UNCHANGED <<current_frame, played>>
    BY <1>4 DEF DoIdrRequest
  <2>2. Behind' = {}
    <3>1. \A f \in Known(k) : f \in Int /\ ~(f < current_frame)
      BY <1>1 DEF Frame, StreamInv, Awaits
    <3> QED  BY <2>1, <3>1 DEF Behind
  <2> QED  BY <2>1, <2>2 DEF Ordered, PlayedInOrder
<1> QED
  BY <1>3, <1>4 DEF Update, ResyncFrames, k

LEMMA StepOrdered ==
  ASSUME StreamInv, Ordered, FewBehind, [Next]_vars
  PROVE  /\ Ordered'
         /\ \/ Behind' = {} \/ GoneOn'
            \/ Behind' = Behind
<1>1. ASSUME NEW p \in Packet, ReceivePacket(p)
      PROVE  Ordered' /\ (Behind' = {} \/ GoneOn')
  <2>1. PICK d \in Handled(depayloader, p) : Update(d)
    BY <1>1 DEF ReceivePacket
  <2>2. Known(d) \subseteq Known(depayloader) \cup {p.frame} /\ p.frame \in Frame
    BY PacketFrame, HandledKnown
  <2> QED  BY <2>1, <2>2, UpdateOrdered
<1>2. ASSUME Update(depayloader)
      PROVE  Ordered' /\ (Behind' = {} \/ GoneOn')
  <2>1. 1 \in Frame
    BY FecAssumption DEF Frame
  <2> QED  BY <1>2, <2>1, UpdateOrdered
<1>3. CASE RequestIdr \/ Tick \/ HostSend \/ UNCHANGED vars
  BY <1>3 DEF RequestIdr, Tick, HostSend, vars, stream, host, Ordered, PlayedInOrder, Behind
<1> QED  BY <1>1, <1>2, <1>3 DEF Next, ReceiveForeign, HandleTimeout

LEMMA InitOrdered == Init => Ordered /\ Behind = {}
  BY DEF Init, Ordered, PlayedInOrder, Behind, Known, EmptyDepayloader, None

LEMMA StreamInvHolds == Spec => []StreamInv
<1>1. Init => StreamInv
  BY StreamInit
<1>2. StreamInv /\ (sent \in Nat /\ idr \in SUBSET Int) /\ [Next]_vars => StreamInv'
  BY StreamStep
<1> QED  BY <1>1, <1>2, HostFrames, PTL DEF Spec

\* Frames are handed over in increasing order, so none twice and none that the
\* stream has gone past, in every run in which fewer frames than update() looks at
\* are ever behind the one awaited.  (With more, an old IDR frame outlives the
\* discarding and may be played at the next resynchronisation.)
THEOREM PlaysInOrder ==
  Spec /\ []FewBehind => []PlayedInOrder
<1>1. Init => Ordered
  BY InitOrdered
<1>2. StreamInv /\ FewBehind /\ Ordered /\ [Next]_vars => Ordered'
  BY StepOrdered
<1>3. Ordered => PlayedInOrder
  BY DEF Ordered
<1> QED  BY <1>1, <1>2, <1>3, StreamInvHolds, PTL DEF Spec

\* A session of no more frames than update() looks at never has too many behind:
\* a frame is not known once it is played, and it is the first to be gone past.
LEMMA FewFramesFewBehind ==
  ASSUME MaxFrame <= DiscardLimit, NEW known \in SUBSET Frame, NEW current \in Int, NEW behind,
         behind = { f \in known : f < current },
         behind = {} \/ current - 1 \in Frame \ known
  PROVE  Cardinality(behind) < DiscardLimit
<1>1. DiscardLimit \in Nat \ {0} /\ MaxFrame \in Nat \ {0}
  BY TimeAssumption, FecAssumption
<1>2. CASE behind = {}
  BY <1>1, <1>2, FS_EmptySet
<1>3. CASE current - 1 \in Frame \ known
  <2>1. behind \in SUBSET (1 .. MaxFrame - 1)
    <3>1. ASSUME NEW f \in behind PROVE f \in 1 .. MaxFrame - 1
      <4>1. f \in known /\ f \in 1 .. MaxFrame /\ f < current
        BY DEF Frame
      <4>2. current - 1 \in 1 .. MaxFrame /\ f # current - 1
        BY <1>3, <4>1 DEF Frame
      <4> QED  BY <1>1, <4>1, <4>2
    <3> QED  BY <3>1
  <2>2. IsFiniteSet(1 .. MaxFrame - 1) /\ Cardinality(1 .. MaxFrame - 1) = MaxFrame - 1
    BY <1>1, FS_Interval
  <2>3. Cardinality(behind) <= MaxFrame - 1 /\ Cardinality(behind) \in Nat
    BY <2>1, <2>2, FS_Subset, FS_CardinalityType
  <2> QED  BY <1>1, <2>3
<1> QED  BY <1>2, <1>3

LEMMA FewBehindStep ==
  ASSUME MaxFrame <= DiscardLimit
  PROVE  StreamInv /\ Ordered /\ FewBehind /\ [Next]_vars /\ StreamInv' => Ordered' /\ FewBehind'
<1> SUFFICES ASSUME StreamInv, Ordered, FewBehind, [Next]_vars, StreamInv'
             PROVE  Ordered' /\ FewBehind'
  OBVIOUS
<1>1. Ordered' /\ (Behind' = {} \/ GoneOn' \/ Behind' = Behind)
  BY StepOrdered
<1>2. CASE Behind' = Behind
  BY <1>1, <1>2 DEF FewBehind
<1>3. CASE Behind' = {} \/ GoneOn'
  <2>1. /\ Known(depayloader') \in SUBSET Frame /\ current_frame' \in Int
        /\ Behind' = { f \in Known(depayloader') : f < current_frame' }
    BY DEF StreamInv, KnownFrames, Awaits, Behind
  <2>2. Behind' = {} \/ current_frame' - 1 \in Frame \ Known(depayloader')
    BY <1>3 DEF GoneOn
  <2>3. Cardinality(Behind') < DiscardLimit
    BY <2>1, <2>2, FewFramesFewBehind
  <2> QED  BY <1>1, <2>3 DEF FewBehind
<1> QED  BY <1>1, <1>2, <1>3

\* In a session of no more frames than update() looks at, whatever the network
\* loses, repeats and reorders, every frame is handed over after those before it.
THEOREM ShortSessionsPlayInOrder ==
  ASSUME MaxFrame <= DiscardLimit
  PROVE  Spec => []PlayedInOrder
<1>1. Init => StreamInv /\ Ordered /\ FewBehind
  BY InitOrdered, StreamInit, FS_EmptySet, TimeAssumption DEF FewBehind
<1>2. StreamInv /\ Ordered /\ FewBehind /\ [Next]_vars /\ StreamInv' => Ordered' /\ FewBehind'
  BY FewBehindStep
<1>3. Ordered => PlayedInOrder
  BY DEF Ordered
<1> QED  BY <1>1, <1>2, <1>3, StreamInvHolds, PTL DEF Spec

=============================================================================
