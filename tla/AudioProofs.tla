---------------------------- MODULE AudioProofs -----------------------------
(***************************************************************************)
(* Audio: whatever is lost and however the rest is reordered, frames come  *)
(* out as they were sent, in order, and FEC recovers whatever it can; for  *)
(* every number of frames, size of a block, time to wait and set of frames *)
(* that do not decrypt.  The two conditions of the theorems, InOneRound    *)
(* and that the network does not repeat FEC packets, are needed: the code  *)
(* does not keep its promises without them.                                *)
(***************************************************************************)
EXTENDS AudioStream, SequenceTheorems, FiniteSetTheorems, WellFoundedInduction, TLAPS

\* The sequence numbers of the frames, and those that SaturatingAdd looks at
\* after them, are used once: they do not wrap.
InOneRound == FirstSeq + MaxFrame + TotalShards < SeqSpace

\* The data packet of a frame, as it is sent and as it is to be recovered.
Entry(f) == [sequence |-> FirstSeq + f, timestamp |-> f * Duration, payload |-> f]

Entries == { Entry(f) : f \in Frame }

\* The frames blocks begin with, of the blocks that are sent to their end.
BlockStart ==
  { b \in Frame : b + DataShards - 1 \in Frame /\ \E q \in Nat : b = DataShards * q }

\* The FEC packet number k of such a block; their order in the queue.
Parity(b, k) ==
  [fec |-> TRUE, base |-> FirstSeq + b, base_timestamp |-> b * Duration, shard |-> k, block |-> b]

ParityPackets == UNION { { Parity(b, k) : k \in 0 .. 1 } : b \in BlockStart }

Key(p) == 2 * p.base + p.shard

Sorted(fec) == \A i, j \in 1 .. Len(fec) : i < j => Key(fec[i]) < Key(fec[j])

\* The shards of a block the queue has.
ShardsAt(d, base) ==
  { k \in 0 .. FecShards - 1 : \E n \in 1 .. Len(d.fec) : d.fec[n].base = base /\ d.fec[n].shard = k }

\* What is known of a depayloader: it has the data packets of frames, as they
\* were sent, and FEC packets in order, ...
Sound(d) ==
  /\ d = [current |-> d.current, data |-> d.data, fec |-> d.fec, enabled |-> d.enabled]
  /\ d.current \in 0 .. SeqSpace - 1
  /\ d.data \subseteq Entries
  /\ d.fec \in Seq(ParityPackets)
  /\ Sorted(d.fec)
  /\ d.enabled \in BOOLEAN

\* ... and what FEC can recover of a block has been recovered.
BlockRecovered(d, base) ==
  Cardinality(DataAt(d, base)) + Cardinality(ShardsAt(d, base)) >= DataShards
    => Cardinality(DataAt(d, base)) = DataShards

Recovering(d) ==
  d.enabled => \A i \in 1 .. Len(d.fec) : BlockRecovered(d, d.fec[i].base)

\* What is played are frames in order, all before the current one.
PlayedBefore(q, s) ==
  /\ q \in Seq(Entries)
  /\ \A i \in 1 .. Len(q) : q[i].sequence < s
  /\ \A i, j \in 1 .. Len(q) : i < j => q[i].payload < q[j].payload

Inv ==
  /\ Sound(depayloader)
  /\ Recovering(depayloader)
  /\ PlayedBefore(played, depayloader.current)
  /\ \A i \in 1 .. Len(depayloader.fec) : depayloader.fec[i] \in once
  /\ sent \in 0 .. MaxFrame + 1


-----------------------------------------------------------------------------
(* Numbers.                                                                *)

\* The constants are natural numbers.
LEMMA Constants ==
  /\ SeqSpace \in Nat /\ DataShards \in Nat /\ DataShards >= 4
  /\ MaxFrame \in Nat /\ FirstSeq \in Nat /\ FirstSeq < SeqSpace /\ Duration \in Nat
  /\ FecShards = 2 /\ TotalShards = DataShards + 2
BY AudioAssumption DEF FecShards, TotalShards

\* A number below the size of the sequence space is its own remainder.
LEMMA SmallRemainder ==
  ASSUME NEW a \in Nat, a < SeqSpace
  PROVE  a % SeqSpace = a
BY Constants

\* Different frames have different numbers.
LEMMA SameFrame ==
  ASSUME NEW f \in Nat, NEW g \in Nat, FirstSeq + f = FirstSeq + g
  PROVE  f = g
<1>1. FirstSeq \in Nat
  BY Constants
<1> QED  BY <1>1

\* Before the wrap the number of frame f is f after the first.
LEMMA NumberIs ==
  ASSUME InOneRound, NEW f \in Frame
  PROVE  NumberOf(f) = FirstSeq + f /\ FirstSeq + f + TotalShards < SeqSpace
<1>1. f \in Nat /\ f <= MaxFrame
  BY Constants DEF Frame
<1>2. FirstSeq + f \in Nat /\ FirstSeq + f < SeqSpace
  BY <1>1, Constants DEF InOneRound
<1>3. (FirstSeq + f) % SeqSpace = FirstSeq + f
  BY <1>2, SmallRemainder
<1> QED  BY <1>1, <1>2, <1>3, Constants DEF InOneRound, NumberOf

\* Multiples of the size of a block are that size apart.
LEMMA Multiples ==
  ASSUME NEW m \in Nat, NEW n \in Nat, m < n
  PROVE  DataShards * m + DataShards <= DataShards * n
<1>1. PICK r \in Nat : n = m + 1 + r
  <2>1. n - m - 1 \in Nat /\ n = m + 1 + (n - m - 1)
    OBVIOUS
  <2> QED  BY <2>1
<1>2. DataShards * r \in Nat
  BY Constants
<1>3. DataShards * n = DataShards * m + DataShards + DataShards * r
  BY <1>1, Constants
<1>4. DataShards * m \in Nat
  BY Constants
<1> QED  BY <1>2, <1>3, <1>4, Constants

\* Two blocks are the same or do not overlap.
LEMMA BlocksApart ==
  ASSUME NEW b \in BlockStart, NEW c \in BlockStart
  PROVE  b = c \/ b + DataShards <= c \/ c + DataShards <= b
<1>1. PICK m \in Nat : b = DataShards * m
  BY DEF BlockStart
<1>2. PICK n \in Nat : c = DataShards * n
  BY DEF BlockStart
<1>3. CASE m = n
  BY <1>1, <1>2, <1>3
<1>4. CASE m < n
  BY <1>1, <1>2, <1>4, Multiples
<1>5. CASE n < m
  BY <1>1, <1>2, <1>5, Multiples
<1> QED  BY <1>3, <1>4, <1>5

\* A block and its frames.
LEMMA BlockFrames ==
  ASSUME NEW b \in BlockStart
  PROVE  /\ b \in Nat /\ b \in Frame
         /\ \A j \in 0 .. DataShards - 1 : b + j \in Frame
<1>1. b \in Nat /\ b + DataShards - 1 <= MaxFrame
  BY Constants DEF BlockStart, Frame
<1> QED  BY <1>1, Constants DEF Frame, BlockStart

\* The last frame of a block brings the FEC packets of a block that begins at
\* a multiple of its size.
LEMMA LastOfBlock ==
  ASSUME NEW f \in Frame, f % DataShards = DataShards - 1
  PROVE  f - DataShards + 1 \in BlockStart
<1>1. f \in Nat /\ f <= MaxFrame
  BY Constants DEF Frame
<1>2. PICK q \in Int : q = f \div DataShards
  BY <1>1, Constants
<1>3. f = DataShards * q + (f % DataShards)
  BY <1>1, <1>2, Constants
<1>4. q \in Nat
  BY <1>1, <1>2, Constants
<1>5. PICK m \in Nat : m = DataShards * q
  BY <1>4, Constants
<1>6. f = m + DataShards - 1
  BY <1>3, <1>5, Constants
<1>7. f - DataShards + 1 = m /\ m + DataShards - 1 = f
  BY <1>6, Constants
<1>8. m \in Frame
  BY <1>1, <1>6, Constants DEF Frame
<1> QED  BY <1>4, <1>5, <1>7, <1>8 DEF BlockStart


-----------------------------------------------------------------------------
(* Packets.                                                                *)

LEMMA ParityType ==
  ASSUME NEW p \in ParityPackets
  PROVE  /\ p.block \in BlockStart /\ p.block \in Nat /\ p.shard \in 0 .. 1
         /\ p.base = FirstSeq + p.block /\ p.base \in Nat
         /\ p.base_timestamp = p.block * Duration
         /\ p = Parity(p.block, p.shard)
         /\ Key(p) = 2 * p.base + p.shard /\ Key(p) \in Nat
<1>1. PICK b \in BlockStart : p \in { Parity(b, k) : k \in 0 .. 1 }
  BY DEF ParityPackets
<1>2. PICK k \in 0 .. 1 : p = Parity(b, k)
  BY <1>1
<1>3. b \in Nat
  BY BlockFrames
<1>4. /\ p.block = b /\ p.shard = k /\ p.base = FirstSeq + b
      /\ p.base_timestamp = b * Duration
  BY <1>2 DEF Parity
<1>5. p.base \in Nat
  BY <1>3, <1>4, Constants
<1>6. p.shard \in Nat
  BY <1>4
<1>7. Key(p) \in Nat /\ Key(p) = 2 * p.base + p.shard
  BY <1>5, <1>6 DEF Key
<1> QED  BY <1>2, <1>3, <1>4, <1>5, <1>7

\* Base and shard number tell FEC packets apart.
LEMMA ParityByKey ==
  ASSUME NEW p \in ParityPackets, NEW q \in ParityPackets, Key(p) = Key(q)
  PROVE  p = q
<1>1. p.base = q.base /\ p.shard = q.shard
  BY ParityType
<1>2. /\ p.block \in Nat /\ q.block \in Nat
      /\ FirstSeq + p.block = FirstSeq + q.block
  BY <1>1, ParityType
<1>3. p.block = q.block
  BY <1>2, SameFrame
<1> QED  BY <1>1, <1>3, ParityType

\* The order of FEC packets is that of their blocks, and in a block of their
\* numbers.
LEMMA KeyOrder ==
  ASSUME NEW p \in ParityPackets, NEW q \in ParityPackets
  PROVE  /\ p.base < q.base => Key(p) < Key(q)
         /\ Key(p) < Key(q) => p.base <= q.base
         /\ p.base = q.base /\ p.shard > q.shard => Key(p) = Key(q) + 1
         /\ p.base = q.base /\ p.shard # q.shard => p.shard > q.shard \/ q.shard > p.shard
<1>1. PICK x \in Nat : x = p.base
  BY ParityType
<1>2. PICK y \in Nat : y = q.base
  BY ParityType
<1>3. PICK s \in 0 .. 1 : s = p.shard
  BY ParityType
<1>4. PICK u \in 0 .. 1 : u = q.shard
  BY ParityType
<1>5. Key(p) = 2 * x + s /\ Key(q) = 2 * y + u
  BY <1>1, <1>2, <1>3, <1>4, ParityType
<1>6. /\ x < y => 2 * x + s < 2 * y + u
      /\ 2 * x + s < 2 * y + u => x <= y
      /\ x = y /\ s > u => 2 * x + s = (2 * y + u) + 1
      /\ s # u => s > u \/ u > s
  OBVIOUS
<1> QED  BY <1>1, <1>2, <1>3, <1>4, <1>5, <1>6

\* The packets the payloader makes, before the wrap.
LEMMA PacketIs ==
  ASSUME InOneRound, NEW f \in Frame, NEW p \in PacketsOf(f)
  PROVE  \/ /\ p = [fec |-> FALSE, sequence |-> FirstSeq + f,
                    timestamp |-> f * Duration, payload |-> f]
            /\ ~p.fec
         \/ p \in ParityPackets /\ p.fec = TRUE
<1>1. CASE p = DataPacket(f)
  <2>1. p = [fec |-> FALSE, sequence |-> FirstSeq + f, timestamp |-> f * Duration, payload |-> f]
    BY <1>1, NumberIs DEF DataPacket
  <2> QED  BY <2>1
<1>2. CASE p # DataPacket(f)
  <2>1. /\ f % DataShards = DataShards - 1
        /\ p \in { FecPacket(f - DataShards + 1, k) : k \in 0 .. FecShards - 1 }
    BY <1>2 DEF PacketsOf
  <2>2. PICK k \in 0 .. FecShards - 1 : p = FecPacket(f - DataShards + 1, k)
    BY <2>1
  <2>3. PICK b \in BlockStart : b = f - DataShards + 1
    BY <2>1, LastOfBlock
  <2>4. NumberOf(b) = FirstSeq + b
    BY BlockFrames, NumberIs
  <2>5. p = Parity(b, k)
    BY <2>2, <2>3, <2>4 DEF FecPacket, Parity
  <2>6. k \in 0 .. 1
    BY Constants
  <2>7. p \in ParityPackets
    BY <2>5, <2>6 DEF ParityPackets
  <2>8. p.fec = TRUE
    BY <2>5 DEF Parity
  <2> QED  BY <2>7, <2>8
<1> QED  BY <1>1, <1>2

LEMMA EntryType ==
  ASSUME NEW f \in Frame
  PROVE  /\ f \in Nat /\ Entry(f) \in Entries
         /\ Entry(f).sequence = FirstSeq + f /\ Entry(f).sequence \in Nat
         /\ Entry(f).payload = f
         /\ Entry(f).timestamp = f * Duration /\ f * Duration \in Nat
BY Constants DEF Entry, Entries, Frame

LEMMA EntryOf ==
  ASSUME NEW e \in Entries
  PROVE  \E f \in Frame : e = Entry(f)
BY DEF Entries

\* The data packets at hand are found by their number.
LEMMA HaveIs ==
  ASSUME NEW d, d.data \subseteq Entries
  PROVE  /\ \A s \in Have(d) : \E f \in Frame : s = FirstSeq + f /\ Entry(f) \in d.data
         /\ \A f \in Frame : FirstSeq + f \in Have(d) <=> Entry(f) \in d.data
         /\ \A f \in Frame : Entry(f) \in d.data => At(d, FirstSeq + f) = Entry(f)
<1>1. ASSUME NEW s \in Have(d) PROVE \E f \in Frame : s = FirstSeq + f /\ Entry(f) \in d.data
  <2>1. PICK e \in d.data : s = e.sequence
    BY DEF Have
  <2>2. PICK f \in Frame : e = Entry(f)
    BY EntryOf
  <2> QED  BY <2>1, <2>2, EntryType
<1>2. ASSUME NEW f \in Frame, Entry(f) \in d.data PROVE FirstSeq + f \in Have(d)
  BY <1>2, EntryType DEF Have
<1>3. ASSUME NEW f \in Frame, NEW g \in Frame, FirstSeq + f = FirstSeq + g PROVE f = g
  <2>1. f \in Nat /\ g \in Nat
    BY EntryType
  <2> QED  BY <1>3, <2>1, SameFrame
<1>4. ASSUME NEW f \in Frame, FirstSeq + f \in Have(d) PROVE Entry(f) \in d.data
  BY <1>1, <1>3, <1>4
<1>5. ASSUME NEW f \in Frame, Entry(f) \in d.data PROVE At(d, FirstSeq + f) = Entry(f)
  <2>1. ASSUME NEW e \in d.data, e.sequence = FirstSeq + f PROVE e = Entry(f)
    <3>1. PICK g \in Frame : e = Entry(g)
      BY EntryOf
    <3>2. e.sequence = FirstSeq + g
      BY <3>1, EntryType
    <3> QED  BY <2>1, <3>1, <3>2, <1>3
  <2>2. Entry(f) \in d.data /\ Entry(f).sequence = FirstSeq + f
    BY <1>5, EntryType
  <2> QED  BY <2>1, <2>2 DEF At
<1> QED  BY <1>1, <1>2, <1>4, <1>5


-----------------------------------------------------------------------------
(* Least elements.                                                         *)

LEMMA LeastNumber ==
  ASSUME NEW T \in SUBSET Nat, T # {}
  PROVE  \E x \in T : \A y \in T : x <= y
<1>1. IsWellFoundedOn(OpToRel(<, Nat), Nat)
  BY NatLessThanWellFounded
<1>2. PICK x \in T : \A y \in T : ~(<<y, x>> \in OpToRel(<, Nat))
  BY <1>1, WFMin
<1>3. ASSUME NEW y \in T PROVE x <= y
  <2>1. x \in Nat /\ y \in Nat
    OBVIOUS
  <2>2. ~(<<y, x>> \in OpToRel(<, Nat))
    BY <1>2
  <2>3. ~(y < x)
    BY <2>1, <2>2 DEF OpToRel
  <2> QED  BY <2>1, <2>3
<1> QED  BY <1>3

LEMMA MinIs ==
  ASSUME NEW T \in SUBSET Nat, T # {}
  PROVE  Min(T) \in T /\ \A y \in T : Min(T) <= y
<1>1. \E x \in T : \A y \in T : x <= y
  BY LeastNumber
<1> QED  BY <1>1 DEF Min

LEMMA MaxIs ==
  ASSUME NEW T \in SUBSET Nat, NEW x \in T, \A y \in T : y <= x
  PROVE  Max(T) = x
<1>1. Max(T) \in T /\ \A y \in T : Max(T) >= y
  BY DEF Max
<1>2. Max(T) \in Nat /\ x \in Nat /\ Max(T) >= x /\ Max(T) <= x
  BY <1>1
<1> QED  BY <1>2

-----------------------------------------------------------------------------
(* The queue of FEC packets.                                               *)

\* Two FEC packets of a block in the queue are its shards 0 and 1.
LEMMA OfBlockShards ==
  ASSUME NEW d, d.fec \in Seq(ParityPackets), Sorted(d.fec), NEW b \in BlockStart
  PROVE  LET S == OfBlock(d, FirstSeq + b) IN
         /\ S \subseteq 1 .. Len(d.fec) /\ S \in SUBSET Nat
         /\ \A i \in S : d.fec[i].shard \in 0 .. 1 /\ d.fec[i] = Parity(b, d.fec[i].shard)
         /\ \A i, j \in S : i < j => d.fec[i].shard = 0 /\ d.fec[j].shard = 1
<1> DEFINE S == OfBlock(d, FirstSeq + b)
<1>1. Len(d.fec) \in Nat /\ \A i \in 1 .. Len(d.fec) : d.fec[i] \in ParityPackets
  OBVIOUS
<1>2. S \subseteq 1 .. Len(d.fec) /\ \A i \in S : d.fec[i].base = FirstSeq + b
  BY DEF OfBlock
<1>3. S \in SUBSET Nat
  BY <1>1, <1>2
<1>4. ASSUME NEW i \in S
      PROVE  /\ d.fec[i].shard \in 0 .. 1 /\ d.fec[i] = Parity(b, d.fec[i].shard)
             /\ d.fec[i].base = FirstSeq + b /\ d.fec[i].base \in Nat
             /\ Key(d.fec[i]) = 2 * d.fec[i].base + d.fec[i].shard
  <2>1. PICK p \in ParityPackets : p = d.fec[i]
    BY <1>1, <1>2
  <2>2. /\ p.shard \in 0 .. 1 /\ p = Parity(p.block, p.shard) /\ p.block \in Nat
        /\ p.base = FirstSeq + p.block /\ p.base \in Nat /\ Key(p) = 2 * p.base + p.shard
    BY ParityType
  <2>3. p.base = FirstSeq + b
    BY <1>2, <2>1
  <2>4. p.block = b
    BY <2>2, <2>3, BlockFrames, SameFrame
  <2> QED  BY <2>1, <2>2, <2>3, <2>4
<1>5. ASSUME NEW i \in S, NEW j \in S, i < j
      PROVE  d.fec[i].shard = 0 /\ d.fec[j].shard = 1
  <2>1. Key(d.fec[i]) < Key(d.fec[j])
    BY <1>2, <1>5 DEF Sorted
  <2>2. PICK x \in 0 .. 1 : x = d.fec[i].shard
    BY <1>4
  <2>3. PICK y \in 0 .. 1 : y = d.fec[j].shard
    BY <1>4
  <2>4. PICK m \in Nat : m = d.fec[i].base /\ m = d.fec[j].base
    BY <1>4
  <2>5. 2 * m + x < 2 * m + y
    BY <2>1, <2>2, <2>3, <2>4, <1>4
  <2>6. x = 0 /\ y = 1
    BY <2>5
  <2> QED  BY <2>2, <2>3, <2>6
<1> QED  BY <1>2, <1>3, <1>4, <1>5

\* The FEC packets looked at are those of the block there are, each in the
\* slot of its number.
LEMMA SlotsRight ==
  ASSUME NEW d, d.fec \in Seq(ParityPackets), Sorted(d.fec), NEW b \in BlockStart
  PROVE  FecSlots(d, FirstSeq + b) = { <<k, Parity(b, k)>> : k \in ShardsAt(d, FirstSeq + b) }
<1> DEFINE S == OfBlock(d, FirstSeq + b)
           before(i) == Cardinality({ j \in S : j < i })
<1>1. /\ S \subseteq 1 .. Len(d.fec) /\ S \in SUBSET Nat
      /\ \A i \in S : d.fec[i].shard \in 0 .. 1 /\ d.fec[i] = Parity(b, d.fec[i].shard)
      /\ \A i, j \in S : i < j => d.fec[i].shard = 0 /\ d.fec[j].shard = 1
  BY OfBlockShards
<1>2. ShardsAt(d, FirstSeq + b) = { d.fec[i].shard : i \in S }
  <2>1. FecShards - 1 = 1
    BY Constants
  <2>2. ASSUME NEW k \in ShardsAt(d, FirstSeq + b) PROVE k \in { d.fec[i].shard : i \in S }
    BY DEF ShardsAt, OfBlock
  <2>3. ASSUME NEW i \in S PROVE d.fec[i].shard \in ShardsAt(d, FirstSeq + b)
    BY <2>1, <1>1 DEF ShardsAt, OfBlock
  <2> QED  BY <2>2, <2>3
<1>3. { <<k, Parity(b, k)>> : k \in ShardsAt(d, FirstSeq + b) } = { <<d.fec[i].shard, d.fec[i]>> : i \in S }
  BY <1>1, <1>2
<1>4. FirstTwo(d, FirstSeq + b) = { <<before(i), d.fec[i]>> : i \in { j \in S : before(j) < 2 } }
  BY Constants DEF FirstTwo
<1>5. CASE S = {}
  <2>1. FirstTwo(d, FirstSeq + b) = {}
    BY <1>4, <1>5
  <2> QED  BY <1>3, <1>5, <2>1 DEF FecSlots
<1>6. CASE S # {}
  <2>1. Min(S) \in S /\ \A y \in S : Min(S) <= y
    BY <1>1, <1>6, MinIs
  <2>2. PICK m \in S : m = Min(S)
    BY <2>1
  <2>3. m \in Nat /\ \A i \in S : i \in Nat /\ (i = m \/ m < i)
    BY <1>1, <2>1, <2>2
  <2>4. CASE d.fec[m].shard = 1
    <3>1. S = {m}
      BY <1>1, <2>3, <2>4
    <3>2. FecSlots(d, FirstSeq + b) = {<<1, d.fec[m]>>}
      BY <1>6, <2>2, <2>4 DEF FecSlots
    <3>3. { <<d.fec[i].shard, d.fec[i]>> : i \in S } = {<<d.fec[m].shard, d.fec[m]>>}
      BY <3>1
    <3> QED  BY <1>3, <2>4, <3>2, <3>3
  <2>5. CASE d.fec[m].shard = 0
    <3>1. before(m) = 0
      <4>0. ASSUME NEW j \in S PROVE ~(j < m)
        <5>1. j \in Nat /\ m \in Nat /\ (j = m \/ m < j)
          BY <2>3
        <5> QED  BY <5>1
      <4>1. { j \in S : j < m } = {}
        BY <4>0
      <4> QED  BY <4>1, FS_EmptySet
    <3>2. ASSUME NEW i \in S, i # m PROVE before(i) = 1 /\ d.fec[i].shard = 1
      <4>1. m < i
        BY <2>3, <3>2
      <4>2. d.fec[i].shard = 1
        BY <1>1, <4>1
      <4>3. ASSUME NEW j \in S, j < i PROVE j = m
        <5>1. d.fec[j].shard = 0
          BY <1>1, <4>3
        <5>2. CASE m < j
          BY <1>1, <5>1, <5>2
        <5> QED  BY <2>3, <5>2
      <4>4. { j \in S : j < i } = {m}
        BY <4>1, <4>3
      <4> QED  BY <4>2, <4>4, FS_Singleton
    <3>3. \A i \in S : before(i) = d.fec[i].shard
      BY <2>5, <3>1, <3>2
    <3> HIDE DEF before
    <3>4. \A i \in S : before(i) < 2
      BY <1>1, <3>3
    <3>5. { j \in S : before(j) < 2 } = S
      BY <3>4
    <3>6. FirstTwo(d, FirstSeq + b) = { <<d.fec[i].shard, d.fec[i]>> : i \in S }
      BY <1>4, <3>3, <3>5
    <3>7. FecSlots(d, FirstSeq + b) = FirstTwo(d, FirstSeq + b)
      BY <2>2, <2>5 DEF FecSlots
    <3> QED  BY <1>3, <3>6, <3>7
  <2>6. d.fec[m].shard = 0 \/ d.fec[m].shard = 1
    BY <1>1
  <2> QED  BY <2>4, <2>5, <2>6
<1> QED  BY <1>5, <1>6


LEMMA SlotsCount ==
  ASSUME NEW d, d.fec \in Seq(ParityPackets), Sorted(d.fec), NEW b \in BlockStart
  PROVE  LET base == FirstSeq + b IN
         /\ Cardinality(FecSlots(d, base)) = Cardinality(ShardsAt(d, base))
         /\ Cardinality(ShardsAt(d, base)) \in 0 .. 2
         /\ ShardsAt(d, base) \subseteq 0 .. 1
         /\ FecSlots(d, base) = {} <=> ShardsAt(d, base) = {}
<1> DEFINE base == FirstSeq + b
           K == ShardsAt(d, base)
           slots == FecSlots(d, base)
<1>1. K \subseteq 0 .. 1
  BY Constants DEF ShardsAt
<1>2. slots = { <<k, Parity(b, k)>> : k \in K }
  BY SlotsRight
<1> HIDE DEF K, slots
<1> DEFINE Goal == /\ Cardinality(slots) = Cardinality(K) /\ Cardinality(K) \in 0 .. 2
                   /\ slots = {} <=> K = {}
<1>3. K = {} \/ K = {0} \/ K = {1} \/ K = {0, 1}
  <2>1. \A k \in K : k = 0 \/ k = 1
    BY <1>1
  <2> QED  BY <2>1
<1>4. ASSUME K = {} PROVE Goal
  <2>1. slots = {}
    BY <1>2, <1>4
  <2>2. Cardinality(slots) = 0 /\ Cardinality(K) = 0
    BY <1>4, <2>1, FS_EmptySet
  <2> QED  BY <1>4, <2>1, <2>2
<1>5. ASSUME NEW k, K = {k} PROVE Goal
  <2>1. slots = {<<k, Parity(b, k)>>}
    BY <1>2, <1>5
  <2>2. Cardinality(slots) = 1 /\ Cardinality(K) = 1
    BY <1>5, <2>1, FS_Singleton
  <2>3. slots # {} /\ K # {}
    BY <1>5, <2>1
  <2> QED  BY <2>2, <2>3
<1>6. ASSUME K = {0, 1} PROVE Goal
  <2>1. slots = {<<0, Parity(b, 0)>>} \cup {<<1, Parity(b, 1)>>}
    BY <1>2, <1>6
  <2>2. <<1, Parity(b, 1)>> \notin {<<0, Parity(b, 0)>>}
    OBVIOUS
  <2>3. /\ IsFiniteSet({<<0, Parity(b, 0)>>}) /\ Cardinality({<<0, Parity(b, 0)>>}) = 1
        /\ IsFiniteSet({0}) /\ Cardinality({0}) = 1
    BY FS_Singleton
  <2>4. Cardinality(slots) = 1 + 1
    BY <2>1, <2>2, <2>3, FS_AddElement
  <2>5. K = {0} \cup {1} /\ 1 \notin {0}
    BY <1>6
  <2>6. Cardinality(K) = 1 + 1
    BY <2>3, <2>5, FS_AddElement
  <2>7. slots # {} /\ K # {}
    BY <1>6, <2>1
  <2> QED  BY <2>4, <2>6, <2>7
<1>7. Goal
  BY <1>3, <1>4, <1>5, <1>6
<1> QED  BY <1>1, <1>7 DEF K, slots

-----------------------------------------------------------------------------
(* Recovery.                                                               *)

\* The data packets of a block at hand are those of its frames.
LEMMA DataAtIs ==
  ASSUME NEW d, d.data \subseteq Entries, NEW b \in BlockStart
  PROVE  LET base == FirstSeq + b IN
         /\ DataAt(d, base) = { j \in 0 .. DataShards - 1 : Entry(b + j) \in d.data }
         /\ DataAt(d, base) \subseteq 0 .. DataShards - 1
         /\ IsFiniteSet(DataAt(d, base))
         /\ Cardinality(DataAt(d, base)) \in 0 .. DataShards
         /\ Cardinality(DataAt(d, base)) = DataShards <=> DataAt(d, base) = 0 .. DataShards - 1
         /\ \A j \in DataAt(d, base) : At(d, base + j) = Entry(b + j)
<1> DEFINE base == FirstSeq + b
           A == DataAt(d, base)
<1>1. ASSUME NEW j \in 0 .. DataShards - 1 PROVE b + j \in Frame /\ base + j = FirstSeq + (b + j)
  <2>1. b \in Nat /\ b + j \in Frame /\ FirstSeq \in Nat /\ j \in Nat
    BY BlockFrames, Constants
  <2> QED  BY <2>1
<1>2. \A j \in 0 .. DataShards - 1 : base + j \in Have(d) <=> Entry(b + j) \in d.data
  BY <1>1, HaveIs
<1>3. A = { j \in 0 .. DataShards - 1 : Entry(b + j) \in d.data }
  BY <1>2 DEF DataAt
<1>4. A \subseteq 0 .. DataShards - 1
  BY <1>3
<1>5. IsFiniteSet(0 .. DataShards - 1) /\ Cardinality(0 .. DataShards - 1) = DataShards
  <2>1. DataShards \in Nat /\ DataShards >= 4
    BY Constants
  <2>2. 0 \in Int /\ DataShards - 1 \in Int /\ ~(0 > DataShards - 1) /\ DataShards - 1 - 0 + 1 = DataShards
    BY <2>1
  <2> QED  BY <2>2, FS_Interval
<1> HIDE DEF A
<1>6. IsFiniteSet(A) /\ Cardinality(A) <= DataShards
      /\ (Cardinality(A) = DataShards => A = 0 .. DataShards - 1)
  BY <1>4, <1>5, FS_Subset
<1>7. Cardinality(A) \in Nat
  BY <1>6, FS_CardinalityType
<1>8. Cardinality(A) \in 0 .. DataShards
  BY <1>6, <1>7, Constants
<1>9. \A j \in A : At(d, base + j) = Entry(b + j)
  BY <1>1, <1>3, HaveIs
<1> QED  BY <1>3, <1>4, <1>5, <1>6, <1>8, <1>9 DEF A

\* Timestamps are multiples of the time between two frames.
LEMMA TimeStep ==
  ASSUME NEW b \in Nat, NEW s \in Nat, s > 0
  PROVE  /\ SaturatingSub((b + s) * Duration, b * Duration) \div s = Duration
         /\ \A j \in Nat : b * Duration + Duration * j = (b + j) * Duration
<1>1. Duration \in Nat
  BY Constants
<1>2. PICK x \in Nat : x = b * Duration
  BY <1>1
<1>3. PICK y \in Nat : y = s * Duration
  BY <1>1
<1>4. (b + s) * Duration = x + y
  BY <1>1, <1>2, <1>3
<1>5. SaturatingSub((b + s) * Duration, b * Duration) = y
  BY <1>2, <1>3, <1>4 DEF SaturatingSub
<1>6. (s * Duration) \div s = Duration
  BY <1>1
<1>7. \A j \in Nat : b * Duration + Duration * j = (b + j) * Duration
  BY <1>1
<1> QED  BY <1>3, <1>5, <1>6, <1>7


\* Only the block itself fits the shards Reed-Solomon works with.
LEMMA PlaceRight ==
  ASSUME NEW d, d.data \subseteq Entries, d.fec \in Seq(ParityPackets), Sorted(d.fec),
         NEW b \in BlockStart, FecSlots(d, FirstSeq + b) # {}
  PROVE  { f \in Frame : InPlace(d, FirstSeq + b, FecSlots(d, FirstSeq + b), f) } = {b}
<1> DEFINE base == FirstSeq + b
           A == DataAt(d, base)
           K == ShardsAt(d, base)
           slots == FecSlots(d, base)
           present == A \cup { DataShards + slot[1] : slot \in slots }
<1>1. /\ A \subseteq 0 .. DataShards - 1
      /\ \A j \in A : At(d, base + j) = Entry(b + j)
  BY DataAtIs
<1>2. K \subseteq 0 .. 1 /\ slots # {}
  BY SlotsCount
<1>3. slots = { <<k, Parity(b, k)>> : k \in K }
  BY SlotsRight
<1>4. b \in Frame /\ b \in Nat /\ \A j \in 0 .. DataShards - 1 : b + j \in Frame
  BY BlockFrames
<1> HIDE DEF A, K, slots
<1>5. \A slot \in slots : slot[1] \in 0 .. 1 /\ slot[2].block = b /\ slot[2].shard = slot[1]
  BY <1>2, <1>3 DEF Parity
<1>6. \A j \in A : At(d, base + j).payload = b + j
  BY <1>1, <1>4, EntryType
<1>7. InPlace(d, base, slots, b)
  BY <1>5, <1>6 DEF InPlace, A
<1>8. ASSUME NEW f \in Frame, InPlace(d, base, slots, f) PROVE f = b
  <2>1. present \in SUBSET Nat /\ present # {}
    <3>1. \A slot \in slots : DataShards + slot[1] \in Nat
      BY <1>5, Constants
    <3>2. A \subseteq Nat
      BY <1>1
    <3> QED  BY <1>2, <3>1, <3>2
  <2>2. PICK m \in present : \A y \in present : m <= y
    BY <2>1, LeastNumber
  <2>3. { i \in present : i < m } = {}
    <3> SUFFICES ASSUME NEW i \in present, i < m PROVE FALSE
      OBVIOUS
    <3>1. i \in Nat /\ m \in Nat /\ m <= i
      BY <2>1, <2>2
    <3> QED  BY <3>1
  <2>4. m \in Used(present)
    <3>0. Cardinality({}) = 0 /\ 0 < DataShards
      BY FS_EmptySet, Constants
    <3>1. Cardinality({ i \in present : i < m }) < DataShards
      BY <2>3, <3>0
    <3> QED  BY <3>1 DEF Used
  <2>5. /\ \A j \in A : j \in Used(present) => At(d, base + j).payload = f + j
        /\ \A slot \in slots : DataShards + slot[1] \in Used(present) => slot[2].block = f
    BY <1>8 DEF InPlace, A
  <2>6. CASE m \in A
    <3>1. f + m = b + m
      BY <1>6, <2>4, <2>5, <2>6
    <3>2. f \in Nat /\ m \in Nat
      BY <2>1, EntryType
    <3> QED  BY <1>4, <3>1, <3>2
  <2>7. CASE m \notin A
    <3>1. PICK slot \in slots : m = DataShards + slot[1]
      BY <2>7
    <3> QED  BY <1>5, <2>4, <2>5, <3>1
  <2> QED  BY <2>6, <2>7
<1> QED  BY <1>4, <1>7, <1>8 DEF slots

\* The time made up for a block is that of its frames.
LEMMA SlotsTime ==
  ASSUME NEW d, d.fec \in Seq(ParityPackets), Sorted(d.fec),
         NEW b \in BlockStart, FecSlots(d, FirstSeq + b) # {}
  PROVE  LET slots == FecSlots(d, FirstSeq + b) IN
         (CHOOSE slot \in slots : \A other \in slots : slot[1] <= other[1])[2].base_timestamp
           = b * Duration
<1> DEFINE slots == FecSlots(d, FirstSeq + b)
           K == ShardsAt(d, FirstSeq + b)
<1>1. slots = { <<k, Parity(b, k)>> : k \in K } /\ K \subseteq 0 .. 1 /\ slots # {}
  BY SlotsRight, SlotsCount
<1> HIDE DEF slots, K
<1>2. K # {} /\ K \in SUBSET Nat
  BY <1>1
<1>3. PICK m \in K : \A y \in K : m <= y
  BY <1>2, LeastNumber
<1>4. \E slot \in slots : \A other \in slots : slot[1] <= other[1]
  <2>1. <<m, Parity(b, m)>> \in slots
    BY <1>1
  <2>2. \A other \in slots : m <= other[1]
    BY <1>1, <1>3
  <2>3. <<m, Parity(b, m)>>[1] = m
    OBVIOUS
  <2> QED  BY <2>1, <2>2, <2>3
<1>5. \A slot \in slots : slot[2].base_timestamp = b * Duration
  BY <1>1 DEF Parity
<1>6. PICK slot \in slots :
        slot = CHOOSE s \in slots : \A other \in slots : s[1] <= other[1]
  BY <1>4
<1> QED  BY <1>5, <1>6 DEF slots

\* What is recovered of a block is its data packets, exactly as they were sent.
LEMMA RecoveredRight ==
  ASSUME NEW d, d.data \subseteq Entries, d.fec \in Seq(ParityPackets), Sorted(d.fec),
         NEW b \in BlockStart, FecSlots(d, FirstSeq + b) # {},
         Cardinality(DataAt(d, FirstSeq + b)) + Cardinality(FecSlots(d, FirstSeq + b)) >= DataShards
  PROVE  Recovered(d, FirstSeq + b, FecSlots(d, FirstSeq + b))
           = { Entry(b + j) : j \in (0 .. DataShards - 1) \ DataAt(d, FirstSeq + b) }
<1> DEFINE base == FirstSeq + b
           A == DataAt(d, base)
           slots == FecSlots(d, base)
           some == Min(A \ {0})
<1>1. /\ A \subseteq 0 .. DataShards - 1 /\ IsFiniteSet(A) /\ Cardinality(A) \in 0 .. DataShards
      /\ \A j \in A : At(d, base + j) = Entry(b + j)
  BY DataAtIs
<1>2. Cardinality(slots) \in 0 .. 2
  BY SlotsCount
<1>3. b \in Nat /\ \A j \in 0 .. DataShards - 1 : b + j \in Frame
  BY BlockFrames
<1>4. { f \in Frame : InPlace(d, base, slots, f) } = {b}
  BY PlaceRight
<1>5. (CHOOSE slot \in slots : \A other \in slots : slot[1] <= other[1])[2].base_timestamp = b * Duration
  BY SlotsTime
<1>6. A \ {0} # {}
  <2> SUFFICES ASSUME A \subseteq {0} PROVE FALSE
    OBVIOUS
  <2>1. IsFiniteSet({0}) /\ Cardinality({0}) = 1
    BY FS_Singleton
  <2>2. Cardinality(A) <= 1
    BY <2>1, FS_Subset
  <2> HIDE DEF A, slots
  <2>3. Cardinality(A) + Cardinality(slots) >= DataShards
    BY DEF A, slots
  <2> QED  BY <1>1, <1>2, <2>2, <2>3, Constants
<1> HIDE DEF A, slots
<1>7. A \ {0} \in SUBSET Nat
  BY <1>1
<1>8. some \in A /\ some \in Nat /\ some > 0
  <2>1. some \in A \ {0}
    BY ONLY <1>6, <1>7, MinIs
  <2>2. some \in A /\ some # 0 /\ some \in Nat
    BY <1>7, <2>1
  <2> HIDE DEF some
  <2> QED  BY <2>2
<1> HIDE DEF some
<1>9. At(d, base + some).timestamp = (b + some) * Duration
  BY <1>1, <1>3, <1>8, EntryType
<1>10. SaturatingSub((b + some) * Duration, b * Duration) \div some = Duration
  BY <1>3, <1>8, TimeStep
<1>11. Min({b}) = b
  <2>1. {b} \in SUBSET Nat /\ {b} # {}
    BY <1>3
  <2>2. Min({b}) \in {b}
    BY ONLY <2>1, MinIs
  <2> QED  BY <2>2
<1>12. Recovered(d, base, slots) =
         { [sequence |-> base + j, timestamp |-> b * Duration + Duration * j, payload |-> b + j] :
             j \in (0 .. DataShards - 1) \ A }
  BY <1>4, <1>5, <1>9, <1>10, <1>11 DEF Recovered, A, some
<1>13. ASSUME NEW j \in (0 .. DataShards - 1) \ A
       PROVE  [sequence |-> base + j, timestamp |-> b * Duration + Duration * j, payload |-> b + j]
                = Entry(b + j)
  <2>1. j \in Nat /\ FirstSeq \in Nat
    BY Constants
  <2>2. base + j = FirstSeq + (b + j)
    BY <1>3, <2>1
  <2>3. b * Duration + Duration * j = (b + j) * Duration
    BY <1>3, <1>8, <2>1, TimeStep
  <2> QED  BY <2>2, <2>3 DEF Entry
<1> QED  BY <1>12, <1>13 DEF A, slots


\* Replacing the data packets of a sound depayloader, its FEC packets or its
\* current number by others of their kind.
LEMMA SoundData ==
  ASSUME NEW d, Sound(d), NEW data \in SUBSET Entries
  PROVE  LET r == [d EXCEPT !.data = data] IN
         /\ Sound(r) /\ r.current = d.current /\ r.data = data
         /\ r.fec = d.fec /\ r.enabled = d.enabled
<1>1. d = [current |-> d.current, data |-> d.data, fec |-> d.fec, enabled |-> d.enabled]
  BY DEF Sound
<1>2. [d EXCEPT !.data = data]
        = [current |-> d.current, data |-> data, fec |-> d.fec, enabled |-> d.enabled]
  BY <1>1
<1> QED  BY <1>2 DEF Sound

\* What of a block is at hand.
LEMMA SameBlock ==
  ASSUME NEW d, NEW r, d.data \subseteq Entries, r.data \subseteq Entries, NEW b \in BlockStart,
         \A j \in 0 .. DataShards - 1 : Entry(b + j) \in r.data <=> Entry(b + j) \in d.data,
         ShardsAt(r, FirstSeq + b) = ShardsAt(d, FirstSeq + b),
         BlockRecovered(d, FirstSeq + b)
  PROVE  BlockRecovered(r, FirstSeq + b)
<1>1. DataAt(d, FirstSeq + b) = { j \in 0 .. DataShards - 1 : Entry(b + j) \in d.data }
  BY DataAtIs
<1>2. DataAt(r, FirstSeq + b) = { j \in 0 .. DataShards - 1 : Entry(b + j) \in r.data }
  BY DataAtIs
<1>3. DataAt(r, FirstSeq + b) = DataAt(d, FirstSeq + b)
  BY <1>1, <1>2
<1> QED  BY <1>3 DEF BlockRecovered

\* try_reconstruct_fec_block adds data packets of its block, as they were
\* sent, and nothing else; afterwards the block has what can be recovered.
LEMMA ReconstructRight ==
  ASSUME NEW d, Sound(d), NEW b \in BlockStart
  PROVE  LET r == Reconstruct(d, FirstSeq + b) IN
         /\ Sound(r)
         /\ r.current = d.current /\ r.fec = d.fec /\ r.enabled = d.enabled
         /\ d.data \subseteq r.data
         /\ \A e \in r.data \ d.data : \E j \in 0 .. DataShards - 1 : e = Entry(b + j)
         /\ r.enabled => BlockRecovered(r, FirstSeq + b)
<1> DEFINE base == FirstSeq + b
           A == DataAt(d, base)
           slots == FecSlots(d, base)
           r == Reconstruct(d, base)
           new == { Entry(b + j) : j \in (0 .. DataShards - 1) \ A }
<1>1. d.data \subseteq Entries /\ d.fec \in Seq(ParityPackets) /\ Sorted(d.fec)
  BY DEF Sound
<1>2. /\ A \subseteq 0 .. DataShards - 1 /\ Cardinality(A) \in 0 .. DataShards
      /\ A = { j \in 0 .. DataShards - 1 : Entry(b + j) \in d.data }
  BY <1>1, DataAtIs
<1>3. /\ Cardinality(slots) = Cardinality(ShardsAt(d, base)) /\ Cardinality(slots) \in 0 .. 2
      /\ slots = {} <=> ShardsAt(d, base) = {}
  BY <1>1, SlotsCount
<1> DEFINE works == /\ d.enabled /\ slots # {} /\ Cardinality(A) < DataShards
                    /\ Cardinality(A) + Cardinality(slots) >= DataShards
<1>4. CASE works
  <2>1. Recovered(d, base, slots) = new
    BY <1>1, <1>4, RecoveredRight
  <2>2. r = [d EXCEPT !.data = @ \cup Recovered(d, base, slots)]
    BY <1>4 DEF Reconstruct
  <2>3. r = [d EXCEPT !.data = d.data \cup new]
    BY <2>1, <2>2
  <2>4. \A j \in 0 .. DataShards - 1 : Entry(b + j) \in Entries
    BY BlockFrames, EntryType
  <2>5. d.data \cup new \in SUBSET Entries
    BY <1>1, <2>4
  <2> HIDE DEF r, new, A
  <2>6. /\ Sound(r) /\ r.current = d.current /\ r.data = d.data \cup new
        /\ r.fec = d.fec /\ r.enabled = d.enabled
    BY <2>3, <2>5, SoundData
  <2>7. \A e \in r.data \ d.data : \E j \in 0 .. DataShards - 1 : e = Entry(b + j)
    BY <2>6 DEF new
  <2>8. r.data \subseteq Entries
    BY <2>5, <2>6
  <2>9. DataAt(r, base) = { j \in 0 .. DataShards - 1 : Entry(b + j) \in r.data }
    BY <2>8, DataAtIs
  <2>10. ASSUME NEW j \in 0 .. DataShards - 1 PROVE Entry(b + j) \in r.data
    <3>1. CASE j \in A
      BY <1>2, <2>6, <3>1
    <3>2. CASE j \notin A
      BY <2>6, <3>2 DEF new
    <3> QED  BY <3>1, <3>2
  <2>11. DataAt(r, base) = 0 .. DataShards - 1
    BY <2>9, <2>10
  <2>12. Cardinality(DataAt(r, base)) = DataShards
    BY <2>8, <2>11, DataAtIs
  <2> QED  BY <2>6, <2>7, <2>12 DEF BlockRecovered, r
<1>5. CASE ~works
  <2>1. r = d
    BY <1>5 DEF Reconstruct
  <2>2. ASSUME d.enabled PROVE BlockRecovered(d, base)
    <3> SUFFICES ASSUME Cardinality(A) + Cardinality(ShardsAt(d, base)) >= DataShards
                 PROVE  Cardinality(A) = DataShards
      BY DEF BlockRecovered
    <3> HIDE DEF A, slots, base
    <3>1. CASE slots = {}
      <4>1. Cardinality(ShardsAt(d, base)) = 0
        BY <1>3, <3>1, FS_EmptySet
      <4> QED  BY <1>2, <4>1, Constants
    <3>2. CASE Cardinality(A) >= DataShards
      BY <1>2, <3>2, Constants
    <3>3. slots = {} \/ ~(Cardinality(A) < DataShards)
      BY <1>3, <1>5, <2>2
    <3> QED  BY <1>2, <3>1, <3>2, <3>3, Constants
  <2> HIDE DEF r
  <2> QED  BY <2>1, <2>2 DEF r
<1> QED  BY <1>4, <1>5


\* Data packets of one block are no data packets of another.
LEMMA OtherBlock ==
  ASSUME NEW b \in BlockStart, NEW c \in BlockStart, b # c,
         NEW i \in 0 .. DataShards - 1, NEW j \in 0 .. DataShards - 1
  PROVE  Entry(b + i) # Entry(c + j)
<1>1. b + i \in Frame /\ c + j \in Frame /\ b \in Nat /\ c \in Nat
  BY BlockFrames
<1>2. b + DataShards <= c \/ c + DataShards <= b
  BY BlocksApart
<1>3. b + i # c + j
  BY <1>1, <1>2, Constants
<1> QED  BY <1>1, <1>3, EntryType

\* What is added to one block leaves the others as they are.
LEMMA OthersKept ==
  ASSUME NEW d, NEW r, d.data \subseteq Entries, r.data \subseteq Entries, d.data \subseteq r.data,
         NEW b \in BlockStart, NEW c \in BlockStart, b # c,
         \A e \in r.data \ d.data : \E j \in 0 .. DataShards - 1 : e = Entry(b + j),
         ShardsAt(r, FirstSeq + c) = ShardsAt(d, FirstSeq + c),
         BlockRecovered(d, FirstSeq + c)
  PROVE  BlockRecovered(r, FirstSeq + c)
<1>1. ASSUME NEW j \in 0 .. DataShards - 1, Entry(c + j) \in r.data PROVE Entry(c + j) \in d.data
  <2> SUFFICES ASSUME Entry(c + j) \notin d.data PROVE FALSE
    OBVIOUS
  <2>1. PICK i \in 0 .. DataShards - 1 : Entry(c + j) = Entry(b + i)
    BY <1>1
  <2> QED  BY <2>1, OtherBlock
<1> QED  BY <1>1, SameBlock

\* The block of a FEC packet in the queue.
LEMMA QueuedBlock ==
  ASSUME NEW d, Sound(d), NEW i \in 1 .. Len(d.fec)
  PROVE  \E b \in BlockStart : d.fec[i].base = FirstSeq + b
<1>1. d.fec[i] \in ParityPackets
  BY DEF Sound
<1> QED  BY <1>1, ParityType

\* The function tried is there for its one argument.
LEMMA HandledDataIs ==
  ASSUME NEW d, NEW p, Len(d.fec) \in Nat
  PROVE  LET entry  == [sequence |-> p.sequence, timestamp |-> p.timestamp, payload |-> p.payload]
             d1     == [d EXCEPT !.data = { e \in @ : e.sequence # p.sequence } \cup {entry}]
             around == { i \in 1 .. Len(d.fec) :
                           p.sequence \in d.fec[i].base .. SaturatingAdd(d.fec[i].base, DataShards) - 1 }
         IN  HandledData(d, p) =
               IF p.sequence < d.current THEN d
               ELSE IF around # {} THEN Reconstruct(d1, d.fec[Min(around)].base)
               ELSE d1
<1> DEFINE entry  == [sequence |-> p.sequence, timestamp |-> p.timestamp, payload |-> p.payload]
           d1     == [d EXCEPT !.data = { e \in @ : e.sequence # p.sequence } \cup {entry}]
           around == { i \in 1 .. Len(d.fec) :
                         p.sequence \in d.fec[i].base .. SaturatingAdd(d.fec[i].base, DataShards) - 1 }
           bases  == { d.fec[i].base : i \in around }
           tried  == [queued \in {d1} |-> [base \in bases |-> Reconstruct(queued, base)]]
           least  == Min(around)
<1>1. ASSUME around # {} PROVE tried[d1][d.fec[least].base] = Reconstruct(d1, d.fec[least].base)
  <2>1. least \in around
    <3>1. around \in SUBSET Nat
      OBVIOUS
    <3> HIDE DEF around
    <3> QED  BY <1>1, <3>1, MinIs
  <2>2. d.fec[least].base \in bases
    BY <2>1
  <2> HIDE DEF d1, bases, least
  <2> QED  BY <2>2
<1> HIDE DEF tried, d1, least, around
<1>2. HandledData(d, p) =
        IF p.sequence < d.current THEN d
        ELSE IF around # {} THEN tried[d1][d.fec[least].base] ELSE d1
  BY DEF HandledData, tried, d1, least, around, bases
<1> QED  BY <1>1, <1>2 DEF tried, d1, least, around, bases

LEMMA HandledDataRight ==
  ASSUME InOneRound, NEW d, Sound(d), Recovering(d), NEW f \in Frame,
         NEW p, p = [fec |-> FALSE, sequence |-> FirstSeq + f, timestamp |-> f * Duration, payload |-> f]
  PROVE  LET r == HandledData(d, p) IN
         Sound(r) /\ Recovering(r) /\ r.current = d.current /\ r.fec = d.fec
<1> DEFINE r == HandledData(d, p)
           d1 == [d EXCEPT !.data = d.data \cup {Entry(f)}]
           around == { i \in 1 .. Len(d.fec) :
                         p.sequence \in d.fec[i].base .. SaturatingAdd(d.fec[i].base, DataShards) - 1 }
<1>1. p.sequence = FirstSeq + f /\ [sequence |-> p.sequence, timestamp |-> p.timestamp, payload |-> p.payload] = Entry(f)
  BY DEF Entry
<1>2. CASE p.sequence < d.current
  <2>1. r = d
    BY <1>2 DEF HandledData
  <2> QED  BY <2>1
<1>3. CASE ~(p.sequence < d.current)
  <2>1. d.data \subseteq Entries
    BY DEF Sound
  <2>2. { e \in d.data : e.sequence # p.sequence } \cup {Entry(f)} = d.data \cup {Entry(f)}
    <3>1. ASSUME NEW e \in d.data, e.sequence = p.sequence PROVE e = Entry(f)
      <4>1. PICK g \in Frame : e = Entry(g)
        BY <2>1, EntryOf
      <4>2. FirstSeq + g = FirstSeq + f /\ g \in Nat /\ f \in Nat
        BY <1>1, <3>1, <4>1, EntryType
      <4>3. g = f
        BY <4>2, SameFrame
      <4> QED  BY <4>1, <4>3
    <3> QED  BY <3>1
  <2>3. [d EXCEPT !.data = { e \in @ : e.sequence # p.sequence } \cup {Entry(f)}] = d1
    BY <2>2
  <2>4. d.data \cup {Entry(f)} \in SUBSET Entries
    BY <2>1, EntryType
  <2>5. /\ Sound(d1) /\ d1.current = d.current /\ d1.data = d.data \cup {Entry(f)}
        /\ d1.fec = d.fec /\ d1.enabled = d.enabled
    BY <2>4, SoundData
  <2> HIDE DEF d1
  <2>6. r = IF around # {} THEN Reconstruct(d1, d.fec[Min(around)].base) ELSE d1
    <3>1. Len(d.fec) \in Nat
      BY LenProperties DEF Sound
    <3> DEFINE entry == [sequence |-> p.sequence, timestamp |-> p.timestamp, payload |-> p.payload]
               c     == [d EXCEPT !.data = { e \in @ : e.sequence # p.sequence } \cup {entry}]
    <3>2. r = IF p.sequence < d.current THEN d
              ELSE IF around # {} THEN Reconstruct(c, d.fec[Min(around)].base) ELSE c
      BY ONLY <3>1, HandledDataIs
    <3>3. c = d1
      BY <1>1, <2>3
    <3> HIDE DEF c, around, r
    <3> QED  BY <1>3, <3>2, <3>3
  <2>7. ASSUME NEW i \in 1 .. Len(d.fec), NEW b \in BlockStart, d.fec[i].base = FirstSeq + b
        PROVE  i \in around <=> \E j \in 0 .. DataShards - 1 : f = b + j
    <3>1. b \in Frame /\ b \in Nat /\ f \in Nat
      BY BlockFrames, EntryType
    <3>2. FirstSeq + b + TotalShards < SeqSpace
      BY <3>1, NumberIs
    <3>3. SaturatingAdd(d.fec[i].base, DataShards) = FirstSeq + b + DataShards
      <4>1. FirstSeq + b + DataShards < SeqSpace
        BY <3>1, <3>2, Constants
      <4> QED  BY <2>7, <4>1 DEF SaturatingAdd
    <3>4. i \in around <=> FirstSeq + f \in (FirstSeq + b) .. (FirstSeq + b + DataShards - 1)
      <4>1. i \in around <=> p.sequence \in d.fec[i].base .. SaturatingAdd(d.fec[i].base, DataShards) - 1
        OBVIOUS
      <4>2. p.sequence = FirstSeq + f
        BY <1>1
      <4>3. d.fec[i].base .. SaturatingAdd(d.fec[i].base, DataShards) - 1
              = (FirstSeq + b) .. (FirstSeq + b + DataShards - 1)
        BY <2>7, <3>1, <3>3, Constants
      <4> HIDE DEF around
      <4> QED  BY <4>1, <4>2, <4>3
    <3>5. FirstSeq + f \in (FirstSeq + b) .. (FirstSeq + b + DataShards - 1) <=> f \in b .. (b + DataShards - 1)
      BY <3>1, Constants
    <3>6. ASSUME f \in b .. (b + DataShards - 1) PROVE \E j \in 0 .. DataShards - 1 : f = b + j
      <4>1. f - b \in 0 .. DataShards - 1 /\ f = b + (f - b)
        BY <3>1, <3>6, Constants
      <4> QED  BY <4>1
    <3>7. ASSUME NEW j \in 0 .. DataShards - 1, f = b + j PROVE f \in b .. (b + DataShards - 1)
      BY <3>1, <3>7, Constants
    <3> QED  BY <3>4, <3>5, <3>6, <3>7
  <2>8. CASE around # {}
    <3>1. around \in SUBSET Nat
      OBVIOUS
    <3>2. PICK m \in around : m = Min(around)
      BY <2>8, <3>1, MinIs
    <3>3. PICK b \in BlockStart : d.fec[m].base = FirstSeq + b
      BY QueuedBlock
    <3>4. PICK k \in 0 .. DataShards - 1 : f = b + k
      BY <2>7, <3>3
    <3>5. r = Reconstruct(d1, FirstSeq + b)
      <4> HIDE DEF r, around
      <4>1. r = Reconstruct(d1, d.fec[Min(around)].base)
        BY <2>6, <2>8
      <4>2. d.fec[Min(around)].base = FirstSeq + b
        BY <3>2, <3>3
      <4> QED  BY <4>1, <4>2
    <3>6. /\ Sound(r)
          /\ r.current = d1.current /\ r.fec = d1.fec /\ r.enabled = d1.enabled
          /\ d1.data \subseteq r.data
          /\ \A e \in r.data \ d1.data : \E j \in 0 .. DataShards - 1 : e = Entry(b + j)
          /\ r.enabled => BlockRecovered(r, FirstSeq + b)
      <4> HIDE DEF r, around
      <4>1. Sound(d1)
        BY <2>5
      <4>2. LET q == Reconstruct(d1, FirstSeq + b) IN
            /\ Sound(q)
            /\ q.current = d1.current /\ q.fec = d1.fec /\ q.enabled = d1.enabled
            /\ d1.data \subseteq q.data
            /\ \A e \in q.data \ d1.data : \E j \in 0 .. DataShards - 1 : e = Entry(b + j)
            /\ q.enabled => BlockRecovered(q, FirstSeq + b)
        BY ONLY <4>1, b \in BlockStart, ReconstructRight
      <4> QED  BY <3>5, <4>2
    <3>7. r.data \subseteq Entries
      BY <3>6 DEF Sound
    <3> HIDE DEF r, around
    <3>8. \A e \in r.data \ d.data : \E j \in 0 .. DataShards - 1 : e = Entry(b + j)
      BY <2>5, <3>4, <3>6
    <3>9. ASSUME r.enabled, NEW i \in 1 .. Len(r.fec) PROVE BlockRecovered(r, r.fec[i].base)
      <4>1. r.fec = d.fec /\ d.enabled /\ d.data \subseteq r.data
        BY <2>5, <3>6, <3>9
      <4>2. PICK c \in BlockStart : d.fec[i].base = FirstSeq + c
        BY <3>9, <4>1, QueuedBlock
      <4>3. BlockRecovered(d, FirstSeq + c)
        BY <3>9, <4>1, <4>2 DEF Recovering
      <4>4. ShardsAt(r, FirstSeq + c) = ShardsAt(d, FirstSeq + c)
        BY <4>1 DEF ShardsAt
      <4>5. CASE c = b
        BY <3>6, <3>9, <4>1, <4>2, <4>5
      <4>6. CASE c # b
        <5>1. BlockRecovered(r, FirstSeq + c)
          BY <2>1, <3>7, <3>8, <4>1, <4>3, <4>4, <4>6, OthersKept
        <5> QED  BY <4>1, <4>2, <5>1
      <4> QED  BY <4>5, <4>6
    <3> QED  BY <2>5, <3>6, <3>9 DEF Recovering, r
  <2>9. CASE around = {}
    <3>1. r = d1
      BY <2>6, <2>9
    <3>2. ASSUME d1.enabled, NEW i \in 1 .. Len(d1.fec) PROVE BlockRecovered(d1, d1.fec[i].base)
      <4>1. PICK c \in BlockStart : d.fec[i].base = FirstSeq + c
        BY <2>5, <3>2, QueuedBlock
      <4>2. BlockRecovered(d, FirstSeq + c)
        BY <2>5, <3>2, <4>1 DEF Recovering
      <4>3. \A j \in 0 .. DataShards - 1 : f # c + j
        BY <2>5, <2>7, <2>9, <3>2, <4>1
      <4>4. \A j \in 0 .. DataShards - 1 : Entry(c + j) # Entry(f)
        BY <4>3, BlockFrames, EntryType
      <4>5. ShardsAt(d1, FirstSeq + c) = ShardsAt(d, FirstSeq + c)
        BY <2>5 DEF ShardsAt
      <4>6. BlockRecovered(d1, FirstSeq + c)
        BY <2>1, <2>4, <2>5, <4>2, <4>4, <4>5, SameBlock
      <4> QED  BY <2>5, <4>1, <4>6
    <3> HIDE DEF r, around
    <3>3. Recovering(d1)
      BY <3>2 DEF Recovering
    <3> QED  BY <2>5, <3>1, <3>3 DEF r
  <2> QED  BY <2>8, <2>9
<1> QED  BY <1>2, <1>3


-----------------------------------------------------------------------------
(* FEC packets.                                                            *)

LEMMA InsertAtIs ==
  ASSUME NEW T, NEW s \in Seq(T), NEW e \in T, NEW pos \in 1 .. Len(s) + 1
  PROVE  LET q == InsertAt(s, pos, e) IN
         /\ q \in Seq(T) /\ Len(q) = Len(s) + 1
         /\ \A i \in 1 .. Len(s) + 1 :
              q[i] = IF i < pos THEN s[i] ELSE IF i = pos THEN e ELSE s[i - 1]
<1> DEFINE a == SubSeq(s, 1, pos - 1)
           c == SubSeq(s, pos, Len(s))
<1>1. PICK n \in Nat : n = Len(s)
  BY LenProperties
<1>2. pos \in Nat /\ pos >= 1 /\ pos <= n + 1
  BY <1>1
<1>3. 1 \in 1 .. Len(s) + 1 /\ pos - 1 \in 1 - 1 .. Len(s)
  BY <1>1, <1>2
<1>4. /\ a \in Seq(T)
      /\ Len(a) = pos - 1
      /\ \A i \in 1 .. pos - 1 : a[i] = s[i]
  <2>1. /\ a \in Seq(T)
        /\ Len(a) = IF 1 <= pos - 1 THEN pos - 1 - 1 + 1 ELSE 0
        /\ \A i \in 1 .. pos - 1 - 1 + 1 : a[i] = s[1 + i - 1]
    BY <1>3, SubSeqProperties
  <2>2. pos - 1 - 1 + 1 = pos - 1 /\ (1 <= pos - 1 \/ pos - 1 = 0)
    BY <1>2
  <2> HIDE DEF a
  <2>3. \A i \in 1 .. pos - 1 : i \in Nat /\ 1 + i - 1 = i
    BY <1>2
  <2> QED  BY <2>1, <2>2, <2>3
<1>5. /\ c \in Seq(T)
      /\ Len(c) = n + 1 - pos
      /\ \A i \in 1 .. n + 1 - pos : c[i] = s[pos + i - 1]
  <2>1. Len(s) \in pos - 1 .. Len(s)
    BY <1>1, <1>2
  <2>2. /\ c \in Seq(T)
        /\ Len(c) = IF pos <= Len(s) THEN Len(s) - pos + 1 ELSE 0
        /\ \A i \in 1 .. Len(s) - pos + 1 : c[i] = s[pos + i - 1]
    BY <2>1, SubSeqProperties
  <2> HIDE DEF c
  <2>3. Len(s) - pos + 1 = n + 1 - pos /\ (pos <= Len(s) \/ n + 1 - pos = 0)
    BY <1>1, <1>2
  <2> QED  BY <2>2, <2>3
<1> HIDE DEF a, c
<1>6. <<e>> \in Seq(T) /\ Len(<<e>>) = 1 /\ <<e>>[1] = e
  OBVIOUS
<1> DEFINE h == a \o <<e>>
<1>7. h \in Seq(T) /\ Len(h) = pos - 1 + 1
      /\ \A i \in 1 .. Len(a) + 1 : h[i] = IF i <= Len(a) THEN a[i] ELSE <<e>>[i - Len(a)]
  BY <1>4, <1>6, ConcatProperties
<1> HIDE DEF h
<1>8. Len(h) = pos /\ \A i \in 1 .. pos : h[i] = IF i < pos THEN s[i] ELSE e
  <2>1. Len(h) = pos /\ Len(a) + 1 = pos
    BY <1>2, <1>4, <1>7
  <2>2. ASSUME NEW i \in 1 .. pos, i < pos PROVE h[i] = s[i]
    <3>1. i <= Len(a) /\ i \in 1 .. pos - 1 /\ i \in 1 .. Len(a) + 1
      BY <1>2, <1>4, <2>1, <2>2
    <3> QED  BY <1>4, <1>7, <3>1
  <2>3. h[pos] = e
    <3>1. pos \in 1 .. Len(a) + 1 /\ ~(pos <= Len(a)) /\ pos - Len(a) = 1
      BY <1>2, <1>4
    <3> QED  BY <1>6, <1>7, <3>1
  <2>4. \A i \in 1 .. pos : i < pos \/ i = pos
    BY <1>2
  <2> QED  BY <1>2, <2>1, <2>2, <2>3, <2>4
<1> DEFINE q == h \o c
<1>9. q \in Seq(T) /\ Len(q) = Len(h) + Len(c)
      /\ \A i \in 1 .. Len(h) + Len(c) : q[i] = IF i <= Len(h) THEN h[i] ELSE c[i - Len(h)]
  BY <1>5, <1>7, ConcatProperties
<1>10. q = InsertAt(s, pos, e)
  BY DEF InsertAt, h, a, c
<1> HIDE DEF q
<1>11. Len(q) = n + 1
  BY <1>2, <1>5, <1>8, <1>9
<1>12. ASSUME NEW i \in 1 .. n + 1
       PROVE  q[i] = IF i < pos THEN s[i] ELSE IF i = pos THEN e ELSE s[i - 1]
  <2>0. i \in Nat /\ i \in 1 .. Len(h) + Len(c)
    BY <1>2, <1>5, <1>8, <1>12
  <2>1. CASE i <= pos
    <3>1. i \in 1 .. pos /\ i <= Len(h)
      BY <1>2, <1>8, <2>0, <2>1, <1>12
    <3> QED  BY <1>2, <1>8, <1>9, <2>0, <3>1
  <2>2. CASE i > pos
    <3>1. ~(i <= Len(h)) /\ i - Len(h) = i - pos /\ i - pos \in 1 .. n + 1 - pos
          /\ pos + (i - pos) - 1 = i - 1 /\ ~(i < pos) /\ i # pos
      BY <1>2, <1>8, <2>0, <2>2, <1>12
    <3>2. q[i] = c[i - pos]
      BY <1>9, <2>0, <3>1
    <3>3. c[i - pos] = s[pos + (i - pos) - 1]
      BY <1>5, <3>1
    <3> QED  BY <3>1, <3>2, <3>3
  <2> QED  BY <1>2, <2>0, <2>1, <2>2
<1> QED  BY <1>1, <1>9, <1>10, <1>11, <1>12

\* A set of places closed towards the front is a prefix of as many.
LEMMA PrefixCount ==
  ASSUME NEW n \in Nat, NEW L \in SUBSET (1 .. n),
         \A i, j \in 1 .. n : i < j /\ j \in L => i \in L
  PROVE  \E m \in 1 .. n + 1 : Cardinality(L) + 1 = m /\ L = 1 .. m - 1
<1>1. (1 .. n + 1) \ L \in SUBSET Nat /\ n + 1 \in (1 .. n + 1) \ L
  OBVIOUS
<1>2. PICK m \in (1 .. n + 1) \ L : \A y \in (1 .. n + 1) \ L : m <= y
  BY <1>1, LeastNumber
<1>3. ASSUME NEW i \in 1 .. n PROVE i \in L <=> i < m
  <2>1. CASE i < m
    BY <1>2, <2>1
  <2>2. CASE i = m
    BY <1>2, <2>2
  <2>3. CASE m < i
    BY <1>2, <2>3
  <2> QED  BY <2>1, <2>2, <2>3
<1>4. L = 1 .. m - 1
  <2>1. ASSUME NEW i \in L PROVE i \in 1 .. m - 1
    <3>1. i \in 1 .. n /\ i < m
      BY <1>3
    <3> QED  BY <1>2, <3>1
  <2>2. ASSUME NEW i \in 1 .. m - 1 PROVE i \in L
    <3>1. i \in 1 .. n /\ i < m
      BY <1>2, <2>2
    <3> QED  BY <1>3, <3>1
  <2> QED  BY <2>1, <2>2
<1>5. Cardinality(1 .. m - 1) = m - 1
  <2>1. 1 \in Int /\ m - 1 \in Int /\ (1 > m - 1 => m - 1 = 0) /\ m - 1 - 1 + 1 = m - 1
    OBVIOUS
  <2> QED  BY <2>1, FS_Interval
<1> QED  BY <1>2, <1>4, <1>5


\* Where a packet that is not in the queue may be inserted is between those
\* before it and those after it.
LEMMA PositionRight ==
  ASSUME NEW fec \in Seq(ParityPackets), Sorted(fec), NEW p \in ParityPackets,
         \A i \in 1 .. Len(fec) : fec[i] # p, NEW pos \in Positions(fec, p)
  PROVE  /\ pos \in 1 .. Len(fec) + 1
         /\ \A i \in 1 .. Len(fec) : i < pos => Key(fec[i]) < Key(p)
         /\ \A i \in 1 .. Len(fec) : i >= pos => Key(p) < Key(fec[i])
<1> DEFINE same == { i \in 1 .. Len(fec) : fec[i].base = p.base }
           L == { i \in 1 .. Len(fec) : fec[i].base < p.base }
<1>1. PICK n \in Nat : n = Len(fec)
  BY LenProperties
<1>2. ASSUME NEW i \in 1 .. n
      PROVE  /\ fec[i] \in ParityPackets /\ fec[i].base \in Nat /\ fec[i].shard \in 0 .. 1
             /\ Key(fec[i]) = 2 * fec[i].base + fec[i].shard /\ Key(fec[i]) \in Nat
             /\ Key(fec[i]) # Key(p)
  <2>1. fec[i] \in ParityPackets /\ fec[i] # p
    BY <1>1
  <2> QED  BY <2>1, ParityType, ParityByKey
<1>3. p.base \in Nat /\ p.shard \in 0 .. 1 /\ Key(p) = 2 * p.base + p.shard /\ Key(p) \in Nat
  BY ParityType
<1>4. \A i, j \in 1 .. n : i < j => Key(fec[i]) < Key(fec[j])
  BY <1>1 DEF Sorted
<1>5. CASE same = {}
  <2>1. pos = Cardinality(L) + 1
    BY <1>5 DEF Positions
  <2>2. \A i, j \in 1 .. n : i < j /\ j \in L => i \in L
    <3> SUFFICES ASSUME NEW i \in 1 .. n, NEW j \in 1 .. n, i < j, fec[j].base < p.base
                 PROVE  fec[i].base < p.base
      BY <1>1
    <3>1. Key(fec[i]) < Key(fec[j])
      BY <1>4
    <3>2. fec[i].base <= fec[j].base
      BY <1>2, <3>1, KeyOrder
    <3> QED  BY <1>2, <1>3, <3>2
  <2>3. PICK m \in 1 .. n + 1 : Cardinality(L) + 1 = m /\ L = 1 .. m - 1
    <3>1. L \in SUBSET (1 .. n)
      BY <1>1
    <3> HIDE DEF L
    <3> QED  BY <2>2, <3>1, PrefixCount
  <2>4. \A i \in 1 .. n : i < m <=> fec[i].base < p.base
    <3>1. \A i \in 1 .. n : i \in L <=> fec[i].base < p.base
      BY <1>1
    <3>2. \A i \in 1 .. n : i \in 1 .. m - 1 <=> i < m
      OBVIOUS
    <3> QED  BY <2>3, <3>1, <3>2
  <2>5. \A i \in 1 .. n : fec[i].base # p.base
    BY <1>1, <1>5
  <2>6. ASSUME NEW i \in 1 .. n, i < m PROVE Key(fec[i]) < Key(p)
    <3>1. fec[i].base < p.base
      BY <2>4, <2>6
    <3> QED  BY <1>2, <3>1, KeyOrder
  <2>7. ASSUME NEW i \in 1 .. n, i >= m PROVE Key(p) < Key(fec[i])
    <3>1. ~(fec[i].base < p.base) /\ fec[i].base # p.base
      BY <2>4, <2>5, <2>7
    <3>2. p.base < fec[i].base
      BY <1>2, <1>3, <3>1
    <3> QED  BY <1>2, <3>2, KeyOrder
  <2> QED  BY <1>1, <2>1, <2>3, <2>6, <2>7
<1>6. CASE same # {}
  <2>1. PICK i \in same : pos = IF p.shard > fec[i].shard THEN i + 1 ELSE i
    BY <1>6 DEF Positions
  <2>2. i \in 1 .. n /\ fec[i].base = p.base
    BY <1>1
  <2>3. fec[i].shard # p.shard
    BY <1>2, <1>3, <2>2
  <2>4. CASE p.shard > fec[i].shard
    <3>1. pos = i + 1 /\ Key(p) = Key(fec[i]) + 1
      <4>1. Key(p) = Key(fec[i]) + 1
        BY <1>2, <2>2, <2>4, KeyOrder
      <4> QED  BY <2>1, <2>4, <4>1
    <3>2. ASSUME NEW j \in 1 .. n, j < pos PROVE Key(fec[j]) < Key(p)
      <4>1. j = i \/ j < i
        BY <2>2, <3>1, <3>2
      <4>2. Key(fec[j]) <= Key(fec[i])
        BY <1>2, <1>4, <2>2, <4>1
      <4> QED  BY <1>2, <1>3, <2>2, <3>1, <4>2
    <3>3. ASSUME NEW j \in 1 .. n, j >= pos PROVE Key(p) < Key(fec[j])
      <4>1. i < j
        BY <2>2, <3>1, <3>3
      <4>2. Key(fec[i]) < Key(fec[j])
        BY <1>4, <2>2, <4>1
      <4> QED  BY <1>2, <1>3, <2>2, <3>1, <4>2
    <3> QED  BY <1>1, <2>2, <3>1, <3>2, <3>3
  <2>5. CASE ~(p.shard > fec[i].shard)
    <3>1. pos = i /\ Key(p) + 1 = Key(fec[i])
      <4>1. Key(fec[i]) = Key(p) + 1
        BY <1>2, <2>2, <2>3, <2>5, KeyOrder
      <4> QED  BY <2>1, <2>5, <4>1
    <3>2. ASSUME NEW j \in 1 .. n, j < pos PROVE Key(fec[j]) < Key(p)
      <4>1. Key(fec[j]) < Key(fec[i])
        BY <1>4, <2>2, <3>1, <3>2
      <4>2. Key(fec[j]) # Key(p) /\ Key(fec[j]) \in Nat /\ Key(p) \in Nat
        BY <1>2, <1>3
      <4>3. Key(fec[j]) < Key(p) + 1
        BY <3>1, <4>1
      <4> QED  BY ONLY <4>2, <4>3
    <3>3. ASSUME NEW j \in 1 .. n, j >= pos PROVE Key(p) < Key(fec[j])
      <4>1. j = i \/ i < j
        BY <2>2, <3>1, <3>3
      <4>2. Key(fec[i]) <= Key(fec[j])
        BY <1>2, <1>4, <2>2, <4>1
      <4> QED  BY <1>2, <1>3, <2>2, <3>1, <4>2
    <3> QED  BY <1>1, <2>2, <3>1, <3>2, <3>3
  <2> QED  BY <2>4, <2>5
<1> QED  BY <1>5, <1>6

\* The queue stays sorted, and has one packet more.
LEMMA InsertRight ==
  ASSUME NEW fec \in Seq(ParityPackets), Sorted(fec), NEW p \in ParityPackets,
         \A i \in 1 .. Len(fec) : fec[i] # p, NEW pos \in Positions(fec, p)
  PROVE  LET q == InsertAt(fec, pos, p) IN
         /\ q \in Seq(ParityPackets) /\ Sorted(q)
         /\ \A i \in 1 .. Len(q) : q[i] = p \/ \E j \in 1 .. Len(fec) : q[i] = fec[j]
         /\ \A j \in 1 .. Len(fec) : \E i \in 1 .. Len(q) : q[i] = fec[j]
<1> DEFINE q == InsertAt(fec, pos, p)
<1>1. /\ pos \in 1 .. Len(fec) + 1
      /\ \A i \in 1 .. Len(fec) : i < pos => Key(fec[i]) < Key(p)
      /\ \A i \in 1 .. Len(fec) : i >= pos => Key(p) < Key(fec[i])
  BY PositionRight
<1>2. PICK n \in Nat : n = Len(fec)
  BY LenProperties
<1>3. /\ q \in Seq(ParityPackets) /\ Len(q) = n + 1
      /\ \A i \in 1 .. n + 1 : q[i] = IF i < pos THEN fec[i] ELSE IF i = pos THEN p ELSE fec[i - 1]
  <2>1. pos \in 1 .. Len(fec) + 1
    BY <1>1
  <2>2. /\ q \in Seq(ParityPackets) /\ Len(q) = Len(fec) + 1
        /\ \A i \in 1 .. Len(fec) + 1 :
             q[i] = IF i < pos THEN fec[i] ELSE IF i = pos THEN p ELSE fec[i - 1]
    BY ONLY <2>1, fec \in Seq(ParityPackets), p \in ParityPackets, InsertAtIs
  <2> HIDE DEF q
  <2> QED  BY <1>2, <2>2
<1> HIDE DEF q
<1>4. pos \in Nat /\ 1 <= pos /\ pos <= n + 1
  BY <1>1, <1>2
<1>5. ASSUME NEW i \in 1 .. n + 1
      PROVE  \/ i < pos /\ i \in 1 .. n /\ q[i] = fec[i]
             \/ i = pos /\ q[i] = p
             \/ i > pos /\ i - 1 \in 1 .. n /\ i - 1 >= pos /\ q[i] = fec[i - 1]
  <2>1. i \in Nat /\ (i < pos \/ i = pos \/ i > pos)
    BY <1>4
  <2>2. CASE i < pos
    BY <1>3, <1>4, <2>1, <2>2
  <2>3. CASE i = pos
    BY <1>3, <1>4, <2>1, <2>3
  <2>4. CASE i > pos
    <3>1. i - 1 \in 1 .. n /\ i - 1 >= pos /\ ~(i < pos) /\ i # pos
      BY <1>4, <2>1, <2>4
    <3> QED  BY <1>3, <2>4, <3>1
  <2> QED  BY <2>1, <2>2, <2>3, <2>4
<1>6. ASSUME NEW j \in 1 .. n PROVE \E i \in 1 .. n + 1 : q[i] = fec[j]
  <2>1. j \in 1 .. n + 1 /\ j + 1 \in 1 .. n + 1 /\ j + 1 - 1 = j
    OBVIOUS
  <2>2. CASE j < pos
    BY <1>3, <2>1, <2>2
  <2>3. CASE ~(j < pos)
    <3>1. ~(j + 1 < pos) /\ j + 1 # pos
      BY <1>4, <2>3
    <3> QED  BY <1>3, <2>1, <3>1
  <2> QED  BY <2>2, <2>3
<1>7. \A i, j \in 1 .. n : i < j => Key(fec[i]) < Key(fec[j])
  BY <1>2 DEF Sorted
<1>8. /\ \A i \in 1 .. n : i < pos => Key(fec[i]) < Key(p)
      /\ \A i \in 1 .. n : i >= pos => Key(p) < Key(fec[i])
  BY <1>1, <1>2
<1>9. ASSUME NEW i \in 1 .. n + 1, NEW j \in 1 .. n + 1, i < j PROVE Key(q[i]) < Key(q[j])
  <2>1. CASE i < pos
    <3>1. i \in 1 .. n /\ q[i] = fec[i]
      BY <1>4, <1>5, <2>1
    <3>2. CASE j < pos
      BY <1>4, <1>5, <1>7, <1>9, <3>1, <3>2
    <3>3. CASE j = pos
      BY <1>4, <1>5, <1>8, <2>1, <3>1, <3>3
    <3>4. CASE j > pos
      <4>1. j - 1 \in 1 .. n /\ q[j] = fec[j - 1]
        BY <1>4, <1>5, <3>4
      <4>2. i < j - 1
        BY <1>4, <2>1, <3>4
      <4> QED  BY <1>7, <3>1, <4>1, <4>2
    <3> QED  BY <1>4, <3>2, <3>3, <3>4
  <2>2. CASE i = pos
    <3>1. q[i] = p /\ j > pos
      BY <1>4, <1>5, <1>9, <2>2
    <3>2. j - 1 \in 1 .. n /\ j - 1 >= pos /\ q[j] = fec[j - 1]
      BY <1>4, <1>5, <3>1
    <3> QED  BY <1>8, <3>1, <3>2
  <2>3. CASE i > pos
    <3>1. i - 1 \in 1 .. n /\ q[i] = fec[i - 1]
      BY <1>4, <1>5, <2>3
    <3>2. j > pos /\ i - 1 < j - 1
      BY <1>4, <1>9, <2>3
    <3>3. j - 1 \in 1 .. n /\ q[j] = fec[j - 1]
      BY <1>4, <1>5, <3>2
    <3> QED  BY <1>7, <3>1, <3>2, <3>3
  <2> QED  BY <1>4, <2>1, <2>2, <2>3
<1>10. Sorted(q)
  BY <1>3, <1>9 DEF Sorted
<1>11. ASSUME NEW i \in 1 .. n + 1 PROVE q[i] = p \/ \E j \in 1 .. n : q[i] = fec[j]
  BY <1>5
<1> QED  BY <1>2, <1>3, <1>6, <1>10, <1>11 DEF q


LEMMA SoundEnabled ==
  ASSUME NEW d, Sound(d), NEW x \in BOOLEAN
  PROVE  LET r == [d EXCEPT !.enabled = x] IN
         /\ Sound(r) /\ r.current = d.current /\ r.data = d.data
         /\ r.fec = d.fec /\ r.enabled = x
<1>1. d = [current |-> d.current, data |-> d.data, fec |-> d.fec, enabled |-> d.enabled]
  BY DEF Sound
<1>2. [d EXCEPT !.enabled = x]
        = [current |-> d.current, data |-> d.data, fec |-> d.fec, enabled |-> x]
  BY <1>1
<1> QED  BY <1>2 DEF Sound

LEMMA SoundFec ==
  ASSUME NEW d, Sound(d), NEW fec \in Seq(ParityPackets), Sorted(fec)
  PROVE  LET r == [d EXCEPT !.fec = fec] IN
         /\ Sound(r) /\ r.current = d.current /\ r.data = d.data
         /\ r.fec = fec /\ r.enabled = d.enabled
<1>1. d = [current |-> d.current, data |-> d.data, fec |-> d.fec, enabled |-> d.enabled]
  BY DEF Sound
<1>2. [d EXCEPT !.fec = fec]
        = [current |-> d.current, data |-> d.data, fec |-> fec, enabled |-> d.enabled]
  BY <1>1
<1> QED  BY <1>2 DEF Sound

\* A FEC packet that is not in the queue is dropped or inserted and used.
LEMMA HandledFecRight ==
  ASSUME NEW d, Sound(d), Recovering(d), NEW p \in ParityPackets,
         \A i \in 1 .. Len(d.fec) : d.fec[i] # p, NEW r \in HandledFec(d, p)
  PROVE  /\ Sound(r) /\ Recovering(r) /\ r.current = d.current
         /\ \A i \in 1 .. Len(r.fec) : r.fec[i] = p \/ \E j \in 1 .. Len(d.fec) : r.fec[i] = d.fec[j]
<1> DEFINE x == p.base % DataShards = 0
           d1 == [d EXCEPT !.enabled = x]
<1>1. d.data \subseteq Entries /\ d.fec \in Seq(ParityPackets) /\ Sorted(d.fec)
  BY DEF Sound
<1>2. x \in BOOLEAN
  OBVIOUS
<1> HIDE DEF x
<1>3. /\ Sound(d1) /\ d1.current = d.current /\ d1.data = d.data
      /\ d1.fec = d.fec /\ d1.enabled = x
  BY <1>2, SoundEnabled
<1> HIDE DEF d1
<1>4. r \in IF ~d.enabled THEN {d}
            ELSE IF d.current > SaturatingAdd(p.base, TotalShards) THEN {d1}
            ELSE { Reconstruct([d1 EXCEPT !.fec = InsertAt(d.fec, i, p)], p.base) :
                     i \in Positions(d.fec, p) }
  BY DEF HandledFec, d1, x
<1>5. CASE r = d
  BY <1>5
<1>6. CASE d.enabled /\ r = d1
  <2>1. ASSUME NEW i \in 1 .. Len(d1.fec) PROVE BlockRecovered(d1, d1.fec[i].base)
    <3>1. PICK c \in BlockStart : d.fec[i].base = FirstSeq + c
      BY <1>3, <2>1, QueuedBlock
    <3>2. BlockRecovered(d, FirstSeq + c)
      BY <1>3, <1>6, <2>1, <3>1 DEF Recovering
    <3>3. ShardsAt(d1, FirstSeq + c) = ShardsAt(d, FirstSeq + c)
      BY <1>3 DEF ShardsAt
    <3>4. BlockRecovered(d1, FirstSeq + c)
      BY <1>1, <1>3, <3>2, <3>3, SameBlock
    <3> QED  BY <1>3, <3>1, <3>4
  <2> QED  BY <1>3, <1>6, <2>1 DEF Recovering
<1>7. CASE /\ d.enabled
           /\ r \in { Reconstruct([d1 EXCEPT !.fec = InsertAt(d.fec, i, p)], p.base) :
                        i \in Positions(d.fec, p) }
  <2>1. PICK pos \in Positions(d.fec, p) :
          r = Reconstruct([d1 EXCEPT !.fec = InsertAt(d.fec, pos, p)], p.base)
    BY <1>7
  <2> DEFINE q == InsertAt(d.fec, pos, p)
             d2 == [d1 EXCEPT !.fec = q]
  <2>2. /\ q \in Seq(ParityPackets) /\ Sorted(q)
        /\ \A i \in 1 .. Len(q) : q[i] = p \/ \E j \in 1 .. Len(d.fec) : q[i] = d.fec[j]
        /\ \A j \in 1 .. Len(d.fec) : \E i \in 1 .. Len(q) : q[i] = d.fec[j]
    BY <1>1, InsertRight
  <2> HIDE DEF q
  <2>3. /\ Sound(d2) /\ d2.current = d1.current /\ d2.data = d1.data
        /\ d2.fec = q /\ d2.enabled = d1.enabled
    BY <1>3, <2>2, SoundFec
  <2> HIDE DEF d2
  <2>4. PICK b \in BlockStart : p.base = FirstSeq + b
    BY ParityType
  <2>5. r = Reconstruct(d2, FirstSeq + b)
    BY <2>1, <2>4 DEF d2, q
  <2>6. /\ Sound(r)
        /\ r.current = d2.current /\ r.fec = d2.fec /\ r.enabled = d2.enabled
        /\ d2.data \subseteq r.data
        /\ \A e \in r.data \ d2.data : \E j \in 0 .. DataShards - 1 : e = Entry(b + j)
        /\ r.enabled => BlockRecovered(r, FirstSeq + b)
    BY <2>3, <2>5, ReconstructRight
  <2>7. r.data \subseteq Entries /\ r.fec = q /\ r.current = d.current /\ d.data \subseteq r.data
    BY <1>3, <2>3, <2>6 DEF Sound
  <2>8. ASSUME r.enabled, NEW i \in 1 .. Len(r.fec) PROVE BlockRecovered(r, r.fec[i].base)
    <3>1. CASE r.fec[i] = p
      BY <2>4, <2>6, <2>8, <3>1
    <3>2. CASE r.fec[i] # p
      <4>1. PICK j \in 1 .. Len(d.fec) : r.fec[i] = d.fec[j]
        BY <2>2, <2>7, <2>8, <3>2
      <4>2. PICK c \in BlockStart : d.fec[j].base = FirstSeq + c
        BY QueuedBlock
      <4>3. BlockRecovered(d, FirstSeq + c)
        BY <1>7, <4>2 DEF Recovering
      <4>4. CASE c = b
        BY <2>6, <2>8, <4>1, <4>2, <4>4
      <4>5. CASE c # b
        <5>1. FirstSeq + c # p.base
          BY <2>4, <4>5, BlockFrames, SameFrame
        <5>2. ShardsAt(r, FirstSeq + c) = ShardsAt(d, FirstSeq + c)
          <6>1. ASSUME NEW k \in 0 .. FecShards - 1, NEW n \in 1 .. Len(q),
                       q[n].base = FirstSeq + c, q[n].shard = k
                PROVE  \E l \in 1 .. Len(d.fec) : d.fec[l].base = FirstSeq + c /\ d.fec[l].shard = k
            BY <2>2, <5>1, <6>1
          <6>2. ASSUME NEW k \in 0 .. FecShards - 1, NEW n \in 1 .. Len(d.fec),
                       d.fec[n].base = FirstSeq + c, d.fec[n].shard = k
                PROVE  \E l \in 1 .. Len(q) : q[l].base = FirstSeq + c /\ q[l].shard = k
            BY <2>2, <6>2
          <6> QED  BY <2>7, <6>1, <6>2 DEF ShardsAt
        <5>3. \A e \in r.data \ d.data : \E l \in 0 .. DataShards - 1 : e = Entry(b + l)
          BY <1>3, <2>3, <2>6
        <5>4. BlockRecovered(r, FirstSeq + c)
          BY <1>1, <2>7, <4>3, <4>5, <5>2, <5>3, OthersKept
        <5> QED  BY <4>1, <4>2, <5>4
      <4> QED  BY <4>4, <4>5
    <3> QED  BY <3>1, <3>2
  <2> QED  BY <2>2, <2>6, <2>7, <2>8 DEF Recovering
<1> QED  BY <1>4, <1>5, <1>6, <1>7


-----------------------------------------------------------------------------
(* Skipping and playing.                                                   *)

LEMMA SoundCurrent ==
  ASSUME NEW d, Sound(d), NEW c \in 0 .. SeqSpace - 1
  PROVE  LET r == [d EXCEPT !.current = c] IN
         /\ Sound(r) /\ r.current = c /\ r.data = d.data
         /\ r.fec = d.fec /\ r.enabled = d.enabled
<1>1. d = [current |-> d.current, data |-> d.data, fec |-> d.fec, enabled |-> d.enabled]
  BY DEF Sound
<1>2. [d EXCEPT !.current = c]
        = [current |-> c, data |-> d.data, fec |-> d.fec, enabled |-> d.enabled]
  BY <1>1
<1> QED  BY <1>2 DEF Sound

\* The numbers of the data packets at hand are numbers before the wrap.
LEMMA HaveBounds ==
  ASSUME InOneRound, NEW d, Sound(d)
  PROVE  /\ Have(d) \in SUBSET Nat
         /\ \A s \in Have(d) : s <= FirstSeq + MaxFrame
<1>1. d.data \subseteq Entries
  BY DEF Sound
<1>2. ASSUME NEW s \in Have(d) PROVE s \in Nat /\ s <= FirstSeq + MaxFrame
  <2>1. PICK f \in Frame : s = FirstSeq + f
    BY <1>1, HaveIs
  <2>2. f \in Nat /\ f <= MaxFrame
    BY Constants DEF Frame
  <2> QED  BY <2>1, <2>2, Constants
<1> QED  BY <1>2

\* Whether blocks are recovered depends on the packets only.
LEMMA SameRecovering ==
  ASSUME NEW d, NEW r, Recovering(d), r.data = d.data, r.fec = d.fec, r.enabled => d.enabled
  PROVE  Recovering(r)
<1>1. ASSUME NEW base PROVE BlockRecovered(d, base) <=> BlockRecovered(r, base)
  <2>1. DataAt(r, base) = DataAt(d, base)
    BY DEF DataAt, Have
  <2>2. ShardsAt(r, base) = ShardsAt(d, base)
    BY DEF ShardsAt
  <2> QED  BY <2>1, <2>2 DEF BlockRecovered
<1> QED  BY <1>1 DEF Recovering

LEMMA SkippedRight ==
  ASSUME InOneRound, NEW d, Sound(d), Recovering(d)
  PROVE  LET r == Skipped(d) IN
         /\ Sound(r) /\ Recovering(r) /\ r.current >= d.current /\ r.fec = d.fec /\ r.data = d.data
         /\ \A q \in Have(d) : q >= d.current => q >= r.current
<1> DEFINE ahead == { s \in Have(d) : s >= d.current }
           r == Skipped(d)
<1>0. d.current \in Nat
  BY Constants DEF Sound
<1>1. CASE ahead = {}
  <2>1. r = d
    BY <1>1 DEF Skipped
  <2> QED  BY <1>0, <2>1
<1>2. CASE ahead # {}
  <2>1. r = [d EXCEPT !.current = Min(ahead)]
    BY <1>2 DEF Skipped
  <2>2. ahead \in SUBSET Nat
    BY HaveBounds
  <2> DEFINE c == Min(ahead)
  <2>3. c \in ahead /\ \A q \in ahead : c <= q
    <3> HIDE DEF ahead
    <3> QED  BY <1>2, <2>2, MinIs
  <2> HIDE DEF c
  <2>4. c \in Have(d) /\ c >= d.current
    BY <2>3
  <2>5. c \in Nat /\ c <= FirstSeq + MaxFrame
    BY <2>4, HaveBounds
  <2>6. c \in 0 .. SeqSpace - 1
    BY <2>5, Constants DEF InOneRound
  <2>7. r = [d EXCEPT !.current = c]
    BY <2>1 DEF c
  <2> HIDE DEF r
  <2>8. /\ Sound(r) /\ r.current = c /\ r.data = d.data
        /\ r.fec = d.fec /\ r.enabled = d.enabled
    BY <2>6, <2>7, SoundCurrent
  <2>9. \A q \in Have(d) : q >= d.current => q >= c
    <3> SUFFICES ASSUME NEW q \in Have(d), q >= d.current PROVE q >= c
      OBVIOUS
    <3>1. q \in ahead
      OBVIOUS
    <3>2. c <= q /\ c \in Nat /\ q \in Nat
      BY <2>2, <2>3, <3>1
    <3> QED  BY ONLY <3>2
  <2> QED  BY <2>4, <2>8, <2>9, SameRecovering DEF r
<1> QED  BY <1>1, <1>2

\* Passed: packet after packet at hand, up to the first that is not.
LEMMA PassedRight ==
  ASSUME InOneRound, NEW d, Sound(d)
  PROVE  /\ Passed(d) \in Nat /\ d.current + Passed(d) < SeqSpace
         /\ \A i \in 0 .. Passed(d) - 1 : d.current + i \in Have(d)
<1> DEFINE cur == d.current
           T == { k \in Nat : cur + k \notin Have(d) }
           last == FirstSeq + MaxFrame
<1>1. cur \in Nat /\ cur < SeqSpace /\ SeqSpace \in Nat /\ last \in Nat /\ last + 6 < SeqSpace
  BY Constants DEF Sound, InOneRound
<1> HIDE DEF cur, last
<1>2. Have(d) \in SUBSET Nat /\ \A s \in Have(d) : s <= last
  BY HaveBounds DEF last
<1>3. \E k \in T : cur + k < SeqSpace
  <2>1. CASE cur > last
    <3>1. cur + 0 \notin Have(d) /\ 0 \in Nat /\ cur + 0 < SeqSpace
      BY <1>1, <1>2, <2>1
    <3> QED  BY <3>1
  <2>2. CASE cur <= last
    <3>1. PICK k \in Nat : k = last + 1 - cur
      BY <1>1, <2>2
    <3>2. cur + k = last + 1
      BY <1>1, <3>1
    <3>3. cur + k \notin Have(d) /\ cur + k < SeqSpace
      BY <1>1, <1>2, <3>2
    <3> QED  BY <3>3
  <2> QED  BY <1>1, <2>1, <2>2
<1>4. PICK n \in T : \A y \in T : n <= y
  <2>1. T \in SUBSET Nat /\ T # {}
    BY <1>3
  <2> HIDE DEF T
  <2> QED  BY <2>1, LeastNumber
<1>5. n \in Nat /\ cur + n < SeqSpace /\ cur + n \notin Have(d)
  <2>1. PICK k \in T : cur + k < SeqSpace
    BY <1>3
  <2>2. n <= k /\ n \in Nat /\ k \in Nat
    BY <1>4, <2>1
  <2> QED  BY <1>1, <1>4, <2>1, <2>2
<1>6. ASSUME NEW i \in 0 .. n - 1 PROVE cur + i \in Have(d) /\ (cur + i) % SeqSpace = cur + i
  <2>1. i \in Nat /\ i < n
    BY <1>5
  <2>2. i \notin T
    <3> SUFFICES ASSUME i \in T PROVE FALSE
      OBVIOUS
    <3>1. n <= i
      BY <1>4
    <3> QED  BY <1>5, <2>1, <3>1
  <2>3. cur + i \in Nat /\ cur + i < SeqSpace
    BY <1>1, <1>5, <2>1
  <2> QED  BY <2>1, <2>2, <2>3, SmallRemainder
<1>7. (cur + n) % SeqSpace = cur + n
  <2>1. cur + n \in Nat
    BY <1>1, <1>5
  <2> QED  BY <1>5, <2>1, SmallRemainder
<1>12. ~AtHand(d, n)
  BY <1>5, <1>7 DEF AtHand, cur
<1>13. ASSUME NEW i \in 0 .. n - 1 PROVE AtHand(d, i)
  <2>1. i \in Nat /\ i < n /\ cur + i < SeqSpace /\ cur + i \in Nat
    BY <1>1, <1>5
  <2>2. ASSUME NEW k \in 1 .. i PROVE cur + i >= Minimum(d, k)
    <3>1. cur + k \in Nat /\ cur + k <= cur + i /\ cur + k < SeqSpace
      BY <1>1, <2>1
    <3>2. (cur + k) % SeqSpace = cur + k
      BY <3>1, SmallRemainder
    <3>3. Minimum(d, k) = SaturatingSub(cur + k, DataShards)
      BY <3>2 DEF Minimum, cur
    <3> HIDE DEF T
    <3> QED  BY <2>1, <3>1, <3>3, Constants DEF SaturatingSub
  <2>3. cur + i \in Have(d) /\ (cur + i) % SeqSpace = cur + i
    BY <1>6
  <2> HIDE DEF T
  <2> QED  BY <2>2, <2>3 DEF AtHand, cur
<1> DEFINE Stop(k) == ~AtHand(d, k) /\ \A i \in 0 .. k - 1 : AtHand(d, i)
<1>8. Stop(n) /\ n \in 0 .. SeqSpace
  <2>1. n \in 0 .. SeqSpace
    BY <1>1, <1>5
  <2>2. \A i \in 0 .. n - 1 : AtHand(d, i)
    BY <1>13
  <2> HIDE DEF T
  <2> QED  BY ONLY <1>12, <2>1, <2>2
<1>9. ASSUME NEW k \in 0 .. SeqSpace, Stop(k) PROVE k = n
  <2>1. k \in Nat
    BY <1>1
  <2>2. CASE k < n
    <3>1. k \in 0 .. n - 1
      BY <1>5, <2>1, <2>2
    <3> QED  BY <1>9, <1>13, <3>1
  <2>3. CASE n < k
    <3>1. n \in 0 .. k - 1
      BY <1>5, <2>1, <2>3
    <3> QED  BY <1>9, <1>12, <3>1
  <2> QED  BY <1>5, <2>1, <2>2, <2>3
<1>10. Passed(d) = CHOOSE k \in 0 .. SeqSpace : Stop(k)
  BY DEF Passed, cur
<1> HIDE DEF Stop
<1>11. Passed(d) = n
  BY <1>8, <1>9, <1>10
<1> QED  BY <1>5, <1>6, <1>11 DEF cur


-----------------------------------------------------------------------------
(* What poll_frame passes.                                                 *)

\* The packets that came out before packet number k, and what comes of it.
AfterPacket(d, k, before) ==
  LET e == At(d, (d.current + k - 1) % SeqSpace)
  IN  IF e.payload \in Undecryptable THEN before ELSE Append(before, e)

\* The function that Polled defines by recursion exists.
LEMMA PacketByPacket ==
  ASSUME NEW d, NEW n \in Nat
  PROVE  \E u : u = [k \in 0 .. n |-> IF k = 0 THEN << >> ELSE AfterPacket(d, k, u[k - 1])]
<1> DEFINE Following(u, k) == IF k = 0 THEN << >> ELSE AfterPacket(d, k, u[k - 1])
           T == { m \in Nat : ~ \E u : u = [k \in 0 .. m |-> Following(u, k)] }
<1>1. CASE T = {}
  BY <1>1
<1>2. CASE T # {}
  <2>1. PICK m \in T : \A y \in T : m <= y
    BY <1>2, LeastNumber
  <2>2. CASE m = 0
    <3>1. PICK u : u = [k \in 0 .. m |-> << >>]
      OBVIOUS
    <3>2. \A k \in 0 .. m : k = 0
      BY <2>2
    <3>3. \A k \in 0 .. m : Following(u, k) = << >>
      BY <3>2
    <3> HIDE DEF Following
    <3>4. u = [k \in 0 .. m |-> Following(u, k)]
      BY <3>1, <3>3
    <3> QED  BY <2>1, <3>4
  <2>3. CASE m # 0
    <3>1. PICK l \in Nat : m = l + 1
      <4>1. m - 1 \in Nat /\ m = (m - 1) + 1
        BY <2>3
      <4> QED  BY <4>1
    <3>2. l \notin T
      <4> SUFFICES ASSUME l \in T PROVE FALSE
        OBVIOUS
      <4> HIDE DEF T
      <4>1. m <= l
        BY <2>1
      <4> QED  BY <3>1, <4>1
    <3>3. PICK v : v = [k \in 0 .. l |-> Following(v, k)]
      BY <3>2
    <3> DEFINE u == [k \in 0 .. m |-> IF k = m THEN AfterPacket(d, m, v[l]) ELSE v[k]]
    <3>4. ASSUME NEW k \in 0 .. m PROVE u[k] = Following(u, k)
      <4>1. CASE k = m
        <5>1. k # 0 /\ k - 1 = l /\ l \in 0 .. m /\ l # m
          BY <3>1, <4>1
        <5>2. u[l] = v[l]
          BY <5>1
        <5>3. u[k] = AfterPacket(d, m, v[l])
          BY <4>1
        <5> QED  BY <4>1, <5>1, <5>2, <5>3
      <4>2. CASE k # m
        <5>1. k \in 0 .. l
          BY <3>1, <4>2
        <5>2. u[k] = v[k]
          BY <4>2
        <5>3. v[k] = Following(v, k)
          BY <3>3, <5>1
        <5>4. CASE k = 0
          BY <5>2, <5>3, <5>4
        <5>5. CASE k # 0
          <6>1. k - 1 \in 0 .. m /\ k - 1 # m
            BY <3>1, <5>1, <5>5
          <6>2. u[k - 1] = v[k - 1]
            BY <6>1
          <6> QED  BY <5>2, <5>3, <6>2
        <5> QED  BY <5>4, <5>5
      <4> QED  BY <4>1, <4>2
    <3>5. u = [k \in 0 .. m |-> u[k]]
      OBVIOUS
    <3> HIDE DEF u
    <3>6. u = [k \in 0 .. m |-> Following(u, k)]
      BY <3>4, <3>5
    <3>7. \E h : h = [k \in 0 .. m |-> Following(h, k)]
      BY <3>6
    <3> QED  BY <2>1, <3>7
  <2> QED  BY <2>2, <2>3
<1> QED  BY <1>1, <1>2

\* Polled, unfolded.
LEMMA PolledUnfold ==
  ASSUME NEW d, Passed(d) \in Nat
  PROVE  \E u : /\ Polled(d) = u[Passed(d)]
                /\ u[0] = << >>
                /\ \A k \in 1 .. Passed(d) : u[k] = AfterPacket(d, k, u[k - 1])
<1>1. PICK n \in Nat : n = Passed(d)
  OBVIOUS
<1>2. PICK u : u = CHOOSE v : v = [k \in 0 .. n |->
                                     IF k = 0 THEN << >> ELSE AfterPacket(d, k, v[k - 1])]
  OBVIOUS
<1>3. u = [k \in 0 .. n |-> IF k = 0 THEN << >> ELSE AfterPacket(d, k, u[k - 1])]
  BY <1>2, PacketByPacket
<1>4. Polled(d) = u[n]
  BY <1>1, <1>2 DEF Polled, AfterPacket
<1>5. u[0] = << >>
  BY <1>3
<1>6. \A k \in 1 .. n : u[k] = AfterPacket(d, k, u[k - 1])
  BY <1>3
<1> QED  BY <1>1, <1>4, <1>5, <1>6

\* Frames between two numbers, in order.
PlayedBetween(q, s, t) ==
  /\ q \in Seq(Entries)
  /\ \A i \in 1 .. Len(q) : s <= q[i].sequence /\ q[i].sequence < t
  /\ \A i, j \in 1 .. Len(q) : i < j => q[i].payload < q[j].payload

\* One more frame after them.
LEMMA AppendFrame ==
  ASSUME NEW s \in Nat, NEW t \in Nat, NEW q, PlayedBetween(q, s, t), s <= t,
         NEW f \in Frame, FirstSeq + f = t
  PROVE  PlayedBetween(Append(q, Entry(f)), s, t + 1) /\ PlayedBetween(q, s, t + 1)
<1> DEFINE e == Entry(f)
           r == Append(q, e)
<1>1. /\ e \in Entries /\ e.sequence = t /\ e.payload = f /\ f \in Nat
  BY EntryType
<1>2. q \in Seq(Entries) /\ Len(q) \in Nat
  BY DEF PlayedBetween
<1> HIDE DEF e
<1>3. /\ r \in Seq(Entries) /\ Len(r) = Len(q) + 1
      /\ \A i \in 1 .. Len(q) : r[i] = q[i]
      /\ r[Len(q) + 1] = e
  BY <1>1, <1>2
<1>4. ASSUME NEW i \in 1 .. Len(q)
      PROVE  /\ s <= q[i].sequence /\ q[i].sequence < t /\ q[i].sequence \in Nat
             /\ q[i].payload < f /\ q[i].payload \in Nat
  <2>1. s <= q[i].sequence /\ q[i].sequence < t
    BY DEF PlayedBetween
  <2>2. q[i] \in Entries
    BY <1>2
  <2>3. PICK g \in Frame : q[i] = Entry(g)
    BY <2>2, EntryOf
  <2>4. g \in Nat /\ q[i].sequence = FirstSeq + g /\ q[i].payload = g
    BY <2>3, EntryType
  <2>5. g < f
    BY <2>1, <2>4, <1>1, Constants
  <2> QED  BY <2>1, <2>4, <2>5, Constants
<1> HIDE DEF r
<1>5. ASSUME NEW i \in 1 .. Len(r) PROVE s <= r[i].sequence /\ r[i].sequence < t + 1
  <2>1. CASE i \in 1 .. Len(q)
    BY <1>3, <1>4, <2>1
  <2>2. CASE i = Len(q) + 1
    BY <1>1, <1>3, <2>2
  <2> QED  BY <1>2, <1>3, <2>1, <2>2
<1>6. ASSUME NEW i \in 1 .. Len(r), NEW j \in 1 .. Len(r), i < j
      PROVE  r[i].payload < r[j].payload
  <2>1. i \in 1 .. Len(q)
    BY <1>2, <1>3, <1>6
  <2>2. CASE j \in 1 .. Len(q)
    <3>1. q[i].payload < q[j].payload
      BY <1>6, <2>1, <2>2 DEF PlayedBetween
    <3> QED  BY <1>3, <2>1, <2>2, <3>1
  <2>3. CASE j = Len(q) + 1
    <3>1. q[i].payload < f
      BY <1>4, <2>1
    <3> QED  BY <1>1, <1>3, <2>1, <2>3, <3>1
  <2> QED  BY <1>2, <1>3, <2>2, <2>3
<1>7. PlayedBetween(r, s, t + 1)
  BY <1>3, <1>5, <1>6 DEF PlayedBetween
<1>8. PlayedBetween(q, s, t + 1)
  <2>1. \A i \in 1 .. Len(q) : s <= q[i].sequence /\ q[i].sequence < t + 1
    BY <1>4
  <2> QED  BY <1>2, <2>1 DEF PlayedBetween
<1> QED  BY <1>7, <1>8 DEF r, e

\* Polled has every packet it passes that decrypts.
LEMMA PolledHas ==
  ASSUME InOneRound, NEW d, Sound(d), NEW e \in d.data,
         e.sequence >= d.current, e.sequence < d.current + Passed(d), e.payload \notin Undecryptable
  PROVE  \E i \in 1 .. Len(Polled(d)) : Polled(d)[i] = e
<1>1. PICK n \in Nat : n = Passed(d)
  BY PassedRight
<1>2. PICK cur \in Nat : cur = d.current
  BY Constants DEF Sound
<1>3. PICK u : /\ Polled(d) = u[n]
               /\ u[0] = << >>
               /\ \A k \in 1 .. n : u[k] = AfterPacket(d, k, u[k - 1])
  BY <1>1, PolledUnfold
<1>4. d.data \subseteq Entries /\ cur + n < SeqSpace
  BY <1>1, <1>2, PassedRight DEF Sound
<1>5. PICK f \in Frame : e = Entry(f)
  BY <1>4, EntryOf
<1>6. PICK s \in Nat : e.sequence = s /\ s = FirstSeq + f
  BY <1>5, EntryType, Constants
<1>7. cur <= s /\ s < cur + n
  BY <1>1, <1>2, <1>6
<1>8. PICK l \in 1 .. n : cur + l - 1 = s
  <2>1. s - cur + 1 \in 1 .. n /\ cur + (s - cur + 1) - 1 = s
    BY <1>7
  <2> QED  BY <2>1
<1>9. At(d, (cur + l - 1) % SeqSpace) = e
  <2>1. s % SeqSpace = s
    <3>1. s < SeqSpace
      BY <1>4, <1>7, Constants
    <3> QED  BY <3>1, SmallRemainder
  <2>2. At(d, s) = e
    BY <1>4, <1>5, <1>6, HaveIs
  <2> QED  BY <1>8, <2>1, <2>2
<1>10. u[l] = Append(u[l - 1], e)
  BY <1>2, <1>3, <1>9 DEF AfterPacket
<1> DEFINE Has(q) == q \in Seq(Entries) /\ \E i \in 1 .. Len(q) : q[i] = e
           Listed(q) == q \in Seq(Entries)
           P(k) == Listed(u[k]) /\ (k >= l => Has(u[k]))
           T == { k \in 0 .. n : ~P(k) }
<1>11. ASSUME NEW k \in 1 .. n
       PROVE  \E x \in Entries : u[k] = u[k - 1] \/ u[k] = Append(u[k - 1], x)
  <2>1. cur + (k - 1) \in Have(d)
    BY <1>1, <1>2, PassedRight
  <2>2. PICK g \in Frame : cur + (k - 1) = FirstSeq + g /\ Entry(g) \in d.data
    BY <1>4, <2>1, HaveIs
  <2>3. At(d, FirstSeq + g) = Entry(g) /\ Entry(g) \in Entries
    BY <1>4, <2>2, HaveIs
  <2>4. cur + k - 1 = cur + (k - 1) /\ cur + k - 1 \in Nat /\ cur + k - 1 < SeqSpace
    BY <1>4, Constants
  <2>5. (cur + k - 1) % SeqSpace = cur + k - 1
    BY <2>4, SmallRemainder
  <2>6. At(d, (cur + k - 1) % SeqSpace) = Entry(g)
    BY <2>2, <2>3, <2>4, <2>5
  <2> QED  BY <1>2, <1>3, <2>3, <2>6 DEF AfterPacket
<1>12. P(0)
  <2>1. u[0] \in Seq(Entries)
    BY <1>3
  <2>2. ~(0 >= l)
    OBVIOUS
  <2> QED  BY <2>1, <2>2
<1>13. ASSUME NEW k \in 1 .. n, P(k - 1) PROVE P(k)
  <2> DEFINE q == u[k - 1]
             r == u[k]
  <2>1. q \in Seq(Entries) /\ (k - 1 >= l => Has(q))
    BY <1>13
  <2>2. PICK x \in Entries : r = q \/ r = Append(q, x)
    BY <1>11
  <2>3. k = l => r = Append(q, e)
    BY <1>10
  <2>4. e \in Entries
    BY <1>4
  <2> HIDE DEF q, r
  <2>5. r \in Seq(Entries)
    BY <2>1, <2>2
  <2>6. CASE k = l
    <3>1. r = Append(q, e) /\ Len(q) \in Nat
      BY <2>1, <2>3, <2>6
    <3>2. Len(r) = Len(q) + 1 /\ r[Len(q) + 1] = e
      BY <2>1, <2>4, <3>1
    <3>3. Len(q) + 1 \in 1 .. Len(r)
      BY <3>1, <3>2
    <3>4. Has(r)
      BY <2>5, <3>2, <3>3
    <3> QED  BY <2>5, <3>4 DEF r
  <2>7. CASE k > l
    <3>1. PICK i \in 1 .. Len(q) : q[i] = e
      BY <2>1, <2>7
    <3>2. i \in 1 .. Len(r) /\ r[i] = e
      BY <2>1, <2>2, <3>1
    <3>3. Has(r)
      BY <2>5, <3>2
    <3> QED  BY <2>5, <3>3 DEF r
  <2>8. CASE k < l
    <3>1. ~(k >= l)
      BY <2>8
    <3> QED  BY <2>5, <3>1 DEF r
  <2> QED  BY <2>6, <2>7, <2>8
<1> HIDE DEF P
<1>14. T = {}
  <2> SUFFICES ASSUME T # {} PROVE FALSE
    OBVIOUS
  <2>1. T \in SUBSET Nat
    OBVIOUS
  <2>2. PICK m \in T : \A y \in T : m <= y
    <3> HIDE DEF T
    <3> QED  BY <2>1, LeastNumber
  <2>3. m \in 0 .. n /\ ~P(m)
    OBVIOUS
  <2>4. m # 0
    BY <1>12, <2>3
  <2>5. m \in 1 .. n /\ m - 1 \in 0 .. n
    BY <2>3, <2>4
  <2>6. m - 1 \notin T
    <3> SUFFICES ASSUME m - 1 \in T PROVE FALSE
      OBVIOUS
    <3>1. m <= m - 1
      BY <2>2
    <3> QED  BY <2>5, <3>1
  <2>7. P(m - 1)
    BY <2>5, <2>6
  <2> QED  BY <1>13, <2>3, <2>5, <2>7
<1>15. P(n)
  BY <1>14
<1>16. Has(u[n])
  BY <1>15 DEF P
<1> QED  BY <1>3, <1>16

\* Polled: the frames from the current one to the first that is missing, those
\* that do not decrypt left out.
LEMMA PolledRight ==
  ASSUME InOneRound, NEW d, Sound(d)
  PROVE  PlayedBetween(Polled(d), d.current, d.current + Passed(d))
<1> DEFINE cur == d.current
<1>1. PICK n \in Nat : n = Passed(d)
  BY PassedRight
<1>2. cur \in Nat /\ cur + n < SeqSpace /\ \A i \in 0 .. n - 1 : cur + i \in Have(d)
  BY <1>1, PassedRight, Constants DEF Sound
<1>3. PICK u : /\ Polled(d) = u[n]
               /\ u[0] = << >>
               /\ \A k \in 1 .. n : u[k] = AfterPacket(d, k, u[k - 1])
  BY <1>1, PolledUnfold
<1>4. d.data \subseteq Entries
  BY DEF Sound
<1>5. ASSUME NEW k \in 1 .. n
      PROVE  \E f \in Frame : FirstSeq + f = cur + k - 1 /\ At(d, (cur + k - 1) % SeqSpace) = Entry(f)
  <2>1. PICK i \in 0 .. n - 1 : i = k - 1
    OBVIOUS
  <2>2. i \in Nat /\ cur + k - 1 = cur + i /\ cur + i \in Nat /\ cur + i < SeqSpace
    <3>1. cur \in Nat /\ cur + n < SeqSpace /\ SeqSpace \in Nat
      BY <1>2, Constants
    <3>2. i \in Nat /\ i < n /\ k = i + 1
      BY <2>1
    <3> HIDE DEF cur
    <3> QED  BY ONLY <3>1, <3>2, n \in Nat
  <2>3. cur + i \in Have(d)
    BY <1>2
  <2>4. PICK f \in Frame : cur + i = FirstSeq + f /\ Entry(f) \in d.data
    BY <1>4, <2>3, HaveIs
  <2>5. At(d, FirstSeq + f) = Entry(f)
    BY <1>4, <2>4, HaveIs
  <2>6. (cur + i) % SeqSpace = cur + i
    BY <2>2, SmallRemainder
  <2> QED  BY <2>2, <2>4, <2>5, <2>6
<1> DEFINE P(k) == PlayedBetween(u[k], cur, cur + k)
           T == { k \in 0 .. n : ~P(k) }
<1>6. P(0)
  <2>1. PlayedBetween(<< >>, cur, cur + 0)
    BY DEF PlayedBetween
  <2> QED  BY <1>3, <2>1
<1>7. ASSUME NEW k \in 1 .. n, P(k - 1) PROVE P(k)
  <2>1. PICK f \in Frame : /\ FirstSeq + f = cur + k - 1
                           /\ At(d, (cur + k - 1) % SeqSpace) = Entry(f)
    BY <1>5
  <2>2. PICK t \in Nat : t = cur + k - 1
    BY <1>2
  <2>3. cur + (k - 1) = t /\ cur + k = t + 1 /\ cur <= t
    BY <1>2, <2>2
  <2> DEFINE q == u[k - 1]
  <2>4. PlayedBetween(q, cur, t)
    BY <1>7, <2>3
  <2>5. u[k] = AfterPacket(d, k, q)
    BY <1>3
  <2> HIDE DEF q
  <2>6. PlayedBetween(Append(q, Entry(f)), cur, t + 1) /\ PlayedBetween(q, cur, t + 1)
    <3> HIDE DEF cur
    <3> QED  BY <1>2, <2>1, <2>2, <2>3, <2>4, AppendFrame
  <2>7. u[k] = q \/ u[k] = Append(q, Entry(f))
    BY <2>1, <2>5 DEF AfterPacket
  <2> QED  BY <2>3, <2>6, <2>7
<1> HIDE DEF P
<1>8. T = {}
  <2> SUFFICES ASSUME T # {} PROVE FALSE
    OBVIOUS
  <2>1. T \in SUBSET Nat
    OBVIOUS
  <2>2. PICK m \in T : \A y \in T : m <= y
    <3> HIDE DEF T
    <3> QED  BY <2>1, LeastNumber
  <2>3. m \in 0 .. n /\ ~P(m)
    OBVIOUS
  <2>4. m # 0
    BY <1>6, <2>3
  <2>5. m \in 1 .. n /\ m - 1 \in 0 .. n
    BY <2>3, <2>4
  <2>6. m - 1 \notin T
    <3> SUFFICES ASSUME m - 1 \in T PROVE FALSE
      OBVIOUS
    <3>1. m <= m - 1
      BY <2>2
    <3> QED  BY <2>5, <3>1
  <2>7. P(m - 1)
    BY <2>5, <2>6
  <2> QED  BY <1>7, <2>3, <2>5, <2>7
<1>9. P(n)
  BY <1>8
<1> QED  BY <1>1, <1>3, <1>9 DEF P


-----------------------------------------------------------------------------
(* What is left of the queue.                                              *)

\* The FEC packets that are left: those of the blocks from number s on.
LEMMA PoppedRight ==
  ASSUME NEW fec \in Seq(ParityPackets), Sorted(fec), NEW s \in Nat
  PROVE  LET q == PoppedBefore(fec, s) IN
         /\ q \in Seq(ParityPackets) /\ Sorted(q)
         /\ \A i \in 1 .. Len(q) : q[i].base >= s /\ \E j \in 1 .. Len(fec) : q[i] = fec[j]
         /\ \A j \in 1 .. Len(fec) : fec[j].base >= s => \E i \in 1 .. Len(q) : q[i] = fec[j]
<1> DEFINE q == PoppedBefore(fec, s)
           left == { i \in 1 .. Len(fec) : fec[i].base >= s }
           Goal == /\ q \in Seq(ParityPackets) /\ Sorted(q)
                   /\ \A i \in 1 .. Len(q) : q[i].base >= s /\ \E j \in 1 .. Len(fec) : q[i] = fec[j]
                   /\ \A j \in 1 .. Len(fec) : fec[j].base >= s => \E i \in 1 .. Len(q) : q[i] = fec[j]
<1>1. Len(fec) \in Nat /\ \A i \in 1 .. Len(fec) : fec[i] \in ParityPackets
  OBVIOUS
<1>2. ASSUME left = {} PROVE Goal
  <2>1. q = << >>
    BY <1>2 DEF PoppedBefore
  <2> HIDE DEF q
  <2>2. q \in Seq(ParityPackets) /\ Sorted(q) /\ Len(q) = 0
    BY <2>1 DEF Sorted
  <2>3. \A j \in 1 .. Len(fec) : ~(fec[j].base >= s)
    BY <1>2
  <2> HIDE DEF left
  <2> QED  BY <2>2, <2>3
<1>3. ASSUME left # {} PROVE Goal
  <2> DEFINE m == Min(left)
  <2>1. left \in SUBSET Nat
    OBVIOUS
  <2>2. m \in left /\ \A i \in left : m <= i
    <3> HIDE DEF left
    <3> QED  BY <1>3, <2>1, MinIs
  <2>3. q = SubSeq(fec, m, Len(fec))
    BY <1>3 DEF PoppedBefore
  <2> HIDE DEF m, q
  <2>4. m \in 1 .. Len(fec) /\ fec[m].base >= s
    BY <2>2
  <2>5. /\ q \in Seq(ParityPackets) /\ Len(q) = Len(fec) - m + 1
        /\ \A i \in 1 .. Len(fec) - m + 1 : q[i] = fec[m + i - 1]
    <3>1. m \in 1 .. Len(fec) + 1 /\ Len(fec) \in m - 1 .. Len(fec)
      BY <1>1, <2>4
    <3> QED  BY <2>3, <3>1, SubSeqProperties
  <2>6. ASSUME NEW i \in 1 .. Len(q)
        PROVE  m + i - 1 \in 1 .. Len(fec) /\ q[i] = fec[m + i - 1]
    <3>1. PICK l \in Nat : l = Len(fec)
      BY <1>1
    <3>2. m \in 1 .. l /\ i \in 1 .. l - m + 1
      BY <2>4, <2>5, <3>1
    <3>3. m + i - 1 \in 1 .. l
      BY ONLY <3>2, l \in Nat
    <3>4. q[i] = fec[m + i - 1]
      BY <2>5, <3>1, <3>2
    <3> QED  BY <3>1, <3>3, <3>4
  <2>7. Sorted(q)
    <3> SUFFICES ASSUME NEW i \in 1 .. Len(q), NEW j \in 1 .. Len(q), i < j
                 PROVE  Key(q[i]) < Key(q[j])
      BY DEF Sorted
    <3>1. m + i - 1 \in 1 .. Len(fec) /\ q[i] = fec[m + i - 1]
      BY <2>6
    <3>2. m + j - 1 \in 1 .. Len(fec) /\ q[j] = fec[m + j - 1]
      BY <2>6
    <3>3. m + i - 1 < m + j - 1
      BY <2>4
    <3> QED  BY <3>1, <3>2, <3>3 DEF Sorted
  <2>8. ASSUME NEW i \in 1 .. Len(q)
        PROVE  q[i].base >= s /\ \E j \in 1 .. Len(fec) : q[i] = fec[j]
    <3>1. m + i - 1 \in 1 .. Len(fec) /\ q[i] = fec[m + i - 1]
      BY <2>6
    <3>2. CASE i = 1
      <4>1. q[i] = fec[m]
        BY <2>4, <3>1, <3>2
      <4> QED  BY <2>4, <4>1
    <3>3. CASE i # 1
      <4>1. m < m + i - 1
        BY <2>4, <3>3
      <4>2. Key(fec[m]) < Key(q[i])
        BY <2>4, <3>1, <4>1 DEF Sorted
      <4>3. fec[m] \in ParityPackets /\ q[i] \in ParityPackets
        BY <1>1, <2>4, <3>1
      <4>4. fec[m].base <= q[i].base
        BY <4>2, <4>3, KeyOrder
      <4>5. fec[m].base \in Nat /\ q[i].base \in Nat
        BY <4>3, ParityType
      <4>6. q[i].base >= s
        BY <2>4, <4>4, <4>5
      <4> QED  BY <3>1, <4>6
    <3> QED  BY <3>2, <3>3
  <2>9. ASSUME NEW j \in 1 .. Len(fec), fec[j].base >= s
        PROVE  \E i \in 1 .. Len(q) : q[i] = fec[j]
    <3>1. j \in left
      BY <2>9
    <3>2. m <= j
      BY <2>2, <3>1
    <3>3. PICK i \in 1 .. Len(q) : m + i - 1 = j
      <4>1. j - m + 1 \in 1 .. Len(q) /\ m + (j - m + 1) - 1 = j
        BY <1>1, <2>4, <2>5, <3>2
      <4> QED  BY <4>1
    <3>4. q[i] = fec[j]
      BY <2>6, <3>3
    <3> QED  BY <3>4
  <2> HIDE DEF left
  <2> QED  BY <2>5, <2>7, <2>8, <2>9
<1> HIDE DEF q, left, Goal
<1>4. Goal
  BY <1>2, <1>3
<1> QED  BY <1>4 DEF q, Goal

\* What frames come out, what is kept is still sound and still recovered.
LEMMA DrainedRight ==
  ASSUME InOneRound, NEW d, Sound(d), Recovering(d)
  PROVE  LET r == Drained(d) IN
         /\ Sound(r) /\ Recovering(r)
         /\ r.current = d.current + Passed(d)
         /\ \A i \in 1 .. Len(r.fec) : \E j \in 1 .. Len(d.fec) : r.fec[i] = d.fec[j]
         /\ \A e \in d.data : e.sequence >= r.current => e \in r.data
<1> DEFINE cur == d.current
           M(k) == Minimum(d, k)
<1>1. PICK n \in Nat : n = Passed(d)
  BY PassedRight
<1>2. cur \in Nat /\ cur + n < SeqSpace /\ SeqSpace \in Nat
  <2>1. cur + n < SeqSpace
    BY <1>1, PassedRight
  <2>2. SeqSpace \in Nat /\ cur \in 0 .. SeqSpace - 1
    BY Constants DEF Sound
  <2> HIDE DEF cur
  <2> QED  BY ONLY <2>1, <2>2
<1> DEFINE I == IF n = 0 THEN {0} ELSE 1 .. n
           least == Max({ M(k) : k \in I })
           c == (cur + n) % SeqSpace
           data == { e \in d.data : e.sequence >= least }
           fec == PoppedBefore(d.fec, least)
           r == Drained(d)
<1>3. r = [d EXCEPT !.current = c, !.data = data, !.fec = fec]
  BY <1>1 DEF Drained
<1>4. c = cur + n /\ c \in 0 .. SeqSpace - 1
  <2>1. cur + n \in Nat
    BY <1>2
  <2> HIDE DEF cur
  <2>2. c = cur + n
    BY <1>2, <2>1, SmallRemainder
  <2> QED  BY <1>2, <2>2
<1>5. ASSUME NEW k \in 0 .. n PROVE M(k) \in Nat /\ M(k) <= M(n) /\ M(n) <= cur + n
  <2>1. k \in Nat /\ k <= n /\ cur + k \in Nat /\ cur + n \in Nat /\ cur + k < SeqSpace
    <3> HIDE DEF cur
    <3> QED  BY <1>2
  <2>2. (cur + k) % SeqSpace = cur + k /\ (cur + n) % SeqSpace = cur + n
    <3> HIDE DEF cur
    <3> QED  BY <1>2, <2>1, SmallRemainder
  <2>3. M(k) = SaturatingSub(cur + k, DataShards) /\ M(n) = SaturatingSub(cur + n, DataShards)
    BY <2>2 DEF Minimum
  <2> HIDE DEF M, cur
  <2> QED  BY <1>2, <2>1, <2>3, Constants DEF SaturatingSub
<1> HIDE DEF M
<1>6. least \in Nat /\ least <= cur + n
  <2> DEFINE S == { M(k) : k \in I }
  <2>1. I \subseteq 0 .. n /\ n \in I
    OBVIOUS
  <2> HIDE DEF I
  <2>2. S \in SUBSET Nat /\ M(n) \in S
    BY <1>5, <2>1
  <2>3. \A y \in S : y <= M(n)
    BY <1>5, <2>1
  <2> HIDE DEF S
  <2>4. Max(S) = M(n)
    BY <2>2, <2>3, MaxIs
  <2>5. M(n) <= cur + n /\ M(n) \in Nat
    <3>1. n \in 0 .. n
      OBVIOUS
    <3> QED  BY <1>5, <3>1
  <2>6. least = M(n)
    BY <2>4 DEF S
  <2> QED  BY <2>5, <2>6
<1> HIDE DEF least, c, r, I
<1>7. /\ fec \in Seq(ParityPackets) /\ Sorted(fec)
      /\ \A i \in 1 .. Len(fec) : fec[i].base >= least /\ \E j \in 1 .. Len(d.fec) : fec[i] = d.fec[j]
      /\ \A j \in 1 .. Len(d.fec) : d.fec[j].base >= least => \E i \in 1 .. Len(fec) : fec[i] = d.fec[j]
  <2>1. d.fec \in Seq(ParityPackets) /\ Sorted(d.fec)
    BY DEF Sound
  <2> QED  BY <1>6, <2>1, PoppedRight
<1> HIDE DEF fec
<1>8. data \in SUBSET Entries /\ d.data \in SUBSET Entries
  BY DEF Sound
<1> HIDE DEF data
<1>9. r = [current |-> c, data |-> data, fec |-> fec, enabled |-> d.enabled]
  <2>1. d = [current |-> d.current, data |-> d.data, fec |-> d.fec, enabled |-> d.enabled]
    BY DEF Sound
  <2> QED  BY <1>3, <2>1
<1>10. r.current = c /\ r.data = data /\ r.fec = fec /\ r.enabled = d.enabled
  BY <1>9
<1>11. Sound(r)
  <2>1. d.enabled \in BOOLEAN
    BY DEF Sound
  <2>2. r = [current |-> r.current, data |-> r.data, fec |-> r.fec, enabled |-> r.enabled]
    BY <1>9, <1>10
  <2> QED  BY <1>4, <1>7, <1>8, <1>10, <2>1, <2>2 DEF Sound
<1>12. ASSUME r.enabled, NEW i \in 1 .. Len(r.fec) PROVE BlockRecovered(r, r.fec[i].base)
  <2>1. fec[i] \in ParityPackets /\ fec[i].base >= least
    BY <1>7, <1>10
  <2>2. PICK j \in 1 .. Len(d.fec) : fec[i] = d.fec[j]
    BY <1>7, <1>10
  <2>3. PICK b \in BlockStart : fec[i].base = FirstSeq + b /\ b \in Nat
    BY <2>1, ParityType
  <2>4. BlockRecovered(d, FirstSeq + b)
    BY <1>10, <1>12, <2>2, <2>3 DEF Recovering
  <2>5. ASSUME NEW k \in 0 .. DataShards - 1
        PROVE  Entry(b + k) \in data <=> Entry(b + k) \in d.data
    <3>1. b + k \in Nat /\ k \in Nat
      BY <2>3
    <3>2. Entry(b + k).sequence = FirstSeq + (b + k)
      BY DEF Entry
    <3>3. Entry(b + k).sequence >= least
      BY <1>6, <2>1, <2>3, <3>1, <3>2, Constants
    <3> QED  BY <3>3 DEF data
  <2>6. ShardsAt(r, FirstSeq + b) = ShardsAt(d, FirstSeq + b)
    <3> DEFINE base == FirstSeq + b
    <3>1. base >= least
      BY <2>1, <2>3
    <3> HIDE DEF base
    <3>2. ASSUME NEW k
          PROVE  (\E m \in 1 .. Len(fec) : fec[m].base = base /\ fec[m].shard = k) <=>
                 (\E m \in 1 .. Len(d.fec) : d.fec[m].base = base /\ d.fec[m].shard = k)
      <4> DEFINE Has(q, m) == q[m].base = base /\ q[m].shard = k
      <4>1. ASSUME NEW m \in 1 .. Len(fec), Has(fec, m)
            PROVE  \E l \in 1 .. Len(d.fec) : Has(d.fec, l)
        <5>1. PICK l \in 1 .. Len(d.fec) : fec[m] = d.fec[l]
          BY <1>7
        <5> QED  BY <4>1, <5>1
      <4>2. ASSUME NEW m \in 1 .. Len(d.fec), Has(d.fec, m)
            PROVE  \E l \in 1 .. Len(fec) : Has(fec, l)
        <5>1. d.fec[m].base >= least
          BY <3>1, <4>2
        <5>2. PICK l \in 1 .. Len(fec) : fec[l] = d.fec[m]
          BY <1>7, <5>1
        <5> QED  BY <4>2, <5>2
      <4> QED  BY <4>1, <4>2
    <3>3. ShardsAt(r, base) = ShardsAt(d, base)
      BY <1>10, <3>2 DEF ShardsAt
    <3> QED  BY <3>3 DEF base
  <2>7. BlockRecovered(r, FirstSeq + b)
    BY <1>8, <1>10, <2>4, <2>5, <2>6, SameBlock
  <2> QED  BY <1>10, <2>3, <2>7
<1>13. Recovering(r)
  BY <1>12 DEF Recovering
<1>14. r.current = d.current + Passed(d)
  BY <1>1, <1>4, <1>10
<1>15. \A i \in 1 .. Len(r.fec) : \E j \in 1 .. Len(d.fec) : r.fec[i] = d.fec[j]
  BY <1>7, <1>10
<1>16. ASSUME NEW e \in d.data, e.sequence >= r.current PROVE e \in r.data
  <2>1. PICK f \in Frame : e = Entry(f)
    BY <1>8, EntryOf
  <2>2. e.sequence \in Nat
    BY <2>1, EntryType
  <2>3. e.sequence >= least
    BY <1>2, <1>4, <1>6, <1>10, <1>16, <2>2
  <2> QED  BY <1>10, <2>3 DEF data
<1> QED  BY <1>11, <1>13, <1>14, <1>15, <1>16 DEF r


-----------------------------------------------------------------------------
(* The steps of the stream.                                                *)

\* What is played stays in order when the frames that come out are added.
LEMMA PlayedRight ==
  ASSUME InOneRound, NEW d, Sound(d), NEW s \in Nat, s <= d.current, NEW q, PlayedBefore(q, s)
  PROVE  PlayedBefore(q \o Polled(d), d.current + Passed(d))
<1> DEFINE p == Polled(d)
           r == q \o p
<1>1. PICK cur \in Nat : cur = d.current
  BY Constants DEF Sound
<1>2. PICK n \in Nat : n = Passed(d)
  BY PassedRight
<1>3. PlayedBetween(p, cur, cur + n)
  BY <1>1, <1>2, PolledRight
<1> HIDE DEF p
<1>4. q \in Seq(Entries) /\ p \in Seq(Entries)
  BY <1>3 DEF PlayedBefore, PlayedBetween
<1>5. PICK a \in Nat : a = Len(q)
  BY <1>4
<1>6. PICK b \in Nat : b = Len(p)
  BY <1>4
<1>7. /\ r \in Seq(Entries) /\ Len(r) = a + b
      /\ \A i \in 1 .. a : r[i] = q[i]
      /\ \A i \in 1 .. b : r[a + i] = p[i]
  <2>1. r \in Seq(Entries)
    BY <1>4
  <2>2. Len(r) = Len(q) + Len(p)
    BY <1>4, ConcatProperties
  <2>3. \A i \in 1 .. Len(r) : r[i] = IF i <= Len(q) THEN q[i] ELSE p[i - Len(q)]
    BY <1>4, ConcatProperties
  <2> HIDE DEF r
  <2>4. ASSUME NEW i \in 1 .. a PROVE r[i] = q[i]
    BY <1>5, <1>6, <2>2, <2>3
  <2>5. ASSUME NEW i \in 1 .. b PROVE r[a + i] = p[i]
    <3>1. a + i \in 1 .. Len(r) /\ ~(a + i <= a) /\ (a + i) - a = i
      BY <1>5, <1>6, <2>2
    <3> QED  BY <1>5, <2>3, <3>1
  <2> QED  BY <1>5, <1>6, <2>1, <2>2, <2>4, <2>5
<1> HIDE DEF r
<1>8. ASSUME NEW i \in 1 .. a
      PROVE  /\ r[i] = q[i] /\ q[i] \in Entries /\ q[i].sequence < s
  BY <1>4, <1>5, <1>7 DEF PlayedBefore
<1>9. ASSUME NEW i \in 1 .. b
      PROVE  /\ r[a + i] = p[i] /\ p[i] \in Entries
             /\ cur <= p[i].sequence /\ p[i].sequence < cur + n
  BY <1>3, <1>4, <1>6, <1>7 DEF PlayedBetween
<1>10. ASSUME NEW i \in 1 .. a + b
       PROVE  i \in 1 .. a \/ \E k \in 1 .. b : i = a + k
  <2>1. CASE i <= a
    BY <2>1
  <2>2. CASE a < i
    <3>1. i - a \in 1 .. b /\ i = a + (i - a)
      BY <2>2
    <3> QED  BY <3>1
  <2> QED  BY <2>1, <2>2
<1>11. ASSUME NEW i \in 1 .. Len(r) PROVE r[i].sequence < cur + n
  <2>1. CASE i \in 1 .. a
    <3>1. PICK f \in Frame : q[i] = Entry(f)
      BY <1>8, <2>1, EntryOf
    <3>2. q[i].sequence \in Nat
      BY <3>1, EntryType
    <3>3. r[i] = q[i] /\ q[i].sequence < s
      BY <1>8, <2>1
    <3> QED  BY <1>1, <3>2, <3>3
  <2>2. CASE \E k \in 1 .. b : i = a + k
    BY <1>9, <2>2
  <2> QED  BY <1>7, <1>10, <2>1, <2>2
<1>12. ASSUME NEW i \in 1 .. Len(r), NEW j \in 1 .. Len(r), i < j
       PROVE  r[i].payload < r[j].payload
  <2>0. i \in 1 .. a + b /\ j \in 1 .. a + b
    BY <1>7
  <2>1. CASE i \in 1 .. a /\ j \in 1 .. a
    <3>1. q[i].payload < q[j].payload
      BY <1>5, <1>12, <2>1 DEF PlayedBefore
    <3> QED  BY <1>8, <2>1, <3>1
  <2>2. CASE i \in 1 .. a /\ \E k \in 1 .. b : j = a + k
    <3>1. PICK k \in 1 .. b : j = a + k
      BY <2>2
    <3>2. r[i] = q[i] /\ q[i] \in Entries /\ q[i].sequence < s
      BY <1>8, <2>2
    <3>3. r[j] = p[k] /\ p[k] \in Entries /\ cur <= p[k].sequence
      BY <1>9, <3>1
    <3>4. PICK f \in Frame : q[i] = Entry(f)
      BY <3>2, EntryOf
    <3>5. PICK g \in Frame : p[k] = Entry(g)
      BY <3>3, EntryOf
    <3>6. q[i].sequence = FirstSeq + f /\ q[i].payload = f /\ f \in Nat
      BY <3>4, EntryType
    <3>7. p[k].sequence = FirstSeq + g /\ p[k].payload = g /\ g \in Nat
      BY <3>5, EntryType
    <3>8. f < g
      <4>1. FirstSeq + f < s /\ s <= cur /\ cur <= FirstSeq + g
        BY <1>1, <3>2, <3>3, <3>6, <3>7
      <4> QED  BY <4>1, <3>6, <3>7, Constants
    <3> QED  BY <3>2, <3>3, <3>6, <3>7, <3>8
  <2>3. CASE (\E k \in 1 .. b : i = a + k) /\ j \in 1 .. a
    BY <1>12, <2>3
  <2>4. CASE (\E k \in 1 .. b : i = a + k) /\ (\E k \in 1 .. b : j = a + k)
    <3>1. PICK k \in 1 .. b : i = a + k
      BY <2>4
    <3>2. PICK l \in 1 .. b : j = a + l
      BY <2>4
    <3>3. k < l
      BY <1>12, <3>1, <3>2
    <3>4. p[k].payload < p[l].payload
      BY <1>3, <1>6, <3>3 DEF PlayedBetween
    <3> QED  BY <1>9, <3>1, <3>2, <3>4
  <2> QED  BY <1>10, <2>0, <2>1, <2>2, <2>3, <2>4
<1>13. PlayedBefore(r, cur + n)
  BY <1>7, <1>11, <1>12 DEF PlayedBefore
<1> QED  BY <1>1, <1>2, <1>13 DEF r, p

\* What frames are polled from.
PolledFrom(d) == {d, Skipped(d)}

\* What handle_timeout makes of a depayloader that is sound.
LEMMA UpdateRight ==
  ASSUME InOneRound, NEW d0, Sound(d0), Recovering(d0),
         NEW s \in Nat, s <= d0.current, NEW q, PlayedBefore(q, s),
         NEW d \in PolledFrom(d0)
  PROVE  LET r == Drained(d) IN
         /\ Sound(r) /\ Recovering(r) /\ PlayedBefore(q \o Polled(d), r.current)
         /\ \A i \in 1 .. Len(r.fec) : \E j \in 1 .. Len(d0.fec) : r.fec[i] = d0.fec[j]
<1> DEFINE r == Drained(d)
<1>1. Sound(d) /\ Recovering(d) /\ d.current >= d0.current /\ d.fec = d0.fec
  <2>1. CASE d = d0
    BY <2>1, Constants DEF Sound
  <2>2. CASE d = Skipped(d0)
    BY <2>2, SkippedRight
  <2> QED  BY <2>1, <2>2 DEF PolledFrom
<1>2. d.current \in Nat /\ d0.current \in Nat
  BY <1>1, Constants DEF Sound
<1>3. s <= d.current
  BY <1>1, <1>2
<1>4. PlayedBefore(q \o Polled(d), d.current + Passed(d))
  BY <1>1, <1>3, PlayedRight
<1>5. /\ Sound(r) /\ Recovering(r) /\ r.current = d.current + Passed(d)
      /\ \A i \in 1 .. Len(r.fec) : \E j \in 1 .. Len(d.fec) : r.fec[i] = d.fec[j]
  BY <1>1, DrainedRight
<1> HIDE DEF r
<1>6. PlayedBefore(q \o Polled(d), r.current)
  BY <1>4, <1>5
<1>7. \A i \in 1 .. Len(r.fec) : \E j \in 1 .. Len(d0.fec) : r.fec[i] = d0.fec[j]
  BY <1>1, <1>5
<1> QED  BY <1>5, <1>6, <1>7 DEF r

\* What handle_packet makes of a packet of a frame, if it is new.
LEMMA HandledRight ==
  ASSUME InOneRound, NEW d, Sound(d), Recovering(d),
         NEW f \in Frame, NEW p \in PacketsOf(f),
         p.fec => \A i \in 1 .. Len(d.fec) : d.fec[i] # p,
         NEW r \in Handled(d, p)
  PROVE  /\ Sound(r) /\ Recovering(r) /\ r.current = d.current
         /\ \A i \in 1 .. Len(r.fec) : (p.fec /\ r.fec[i] = p) \/ \E j \in 1 .. Len(d.fec) : r.fec[i] = d.fec[j]
<1>1. CASE p.fec
  <2>1. p \in ParityPackets
    BY <1>1, PacketIs
  <2>2. r \in HandledFec(d, p)
    BY <1>1 DEF Handled
  <2>3. \A i \in 1 .. Len(d.fec) : d.fec[i] # p
    BY <1>1
  <2>4. /\ Sound(r) /\ Recovering(r) /\ r.current = d.current
        /\ \A i \in 1 .. Len(r.fec) : r.fec[i] = p \/ \E j \in 1 .. Len(d.fec) : r.fec[i] = d.fec[j]
    BY <2>1, <2>2, <2>3, HandledFecRight
  <2> QED  BY <1>1, <2>4
<1>2. CASE ~p.fec
  <2>1. p = [fec |-> FALSE, sequence |-> FirstSeq + f, timestamp |-> f * Duration, payload |-> f]
    BY <1>2, PacketIs
  <2>2. r = HandledData(d, p)
    BY <1>2 DEF Handled
  <2>3. Sound(r) /\ Recovering(r) /\ r.current = d.current /\ r.fec = d.fec
    BY <2>1, <2>2, HandledDataRight
  <2> QED  BY <2>3
<1> QED  BY <1>1, <1>2

\* The frames that have been sent are those of the bound.
LEMMA SentFrame ==
  ASSUME sent \in 0 .. MaxFrame + 1, NEW f \in 0 .. sent - 1
  PROVE  f \in Frame
BY Constants DEF Frame

-----------------------------------------------------------------------------
(* The invariant.                                                          *)

\* The new depayloader has no FEC packets, and nothing is played yet.
LEMMA InitInv == Init => Inv
<1> SUFFICES ASSUME Init PROVE Inv
  OBVIOUS
<1> DEFINE d == NewDepayloader
<1>1. d = [current |-> 0, data |-> {}, fec |-> << >>, enabled |-> Fec]
  BY DEF NewDepayloader
<1> HIDE DEF d
<1>2. d.current = 0 /\ d.data = {} /\ d.fec = << >> /\ d.enabled = Fec
  BY <1>1
<1>3. d.fec \in Seq(ParityPackets) /\ Len(d.fec) = 0
  BY <1>2
<1>4. Sorted(d.fec)
  BY <1>3 DEF Sorted
<1>5. Sound(d)
  BY <1>1, <1>2, <1>3, <1>4, Constants, AudioAssumption DEF Sound
<1>6. Recovering(d)
  BY <1>3 DEF Recovering
<1>7. PlayedBefore(<< >>, d.current)
  BY DEF PlayedBefore
<1>8. sent \in 0 .. MaxFrame + 1
  BY Constants DEF Init
<1> QED  BY <1>3, <1>5, <1>6, <1>7, <1>8 DEF Init, Inv, d

\* Every call keeps the invariant.
LEMMA UpdateInv ==
  ASSUME InOneRound, Inv, NEW d0, Sound(d0), Recovering(d0), depayloader.current <= d0.current,
         \A i \in 1 .. Len(d0.fec) : d0.fec[i] \in once', Update(d0), UNCHANGED sent
  PROVE  Inv'
<1>1. PICK d \in PolledFrom(d0) : depayloader' = Drained(d) /\ played' = played \o Polled(d)
  BY DEF Update, PolledFrom
<1>2. PICK s \in Nat : s = depayloader.current
  BY Constants DEF Inv, Sound
<1>3. PlayedBefore(played, s) /\ s <= d0.current
  BY <1>2 DEF Inv
<1> DEFINE r == Drained(d)
<1>4. /\ Sound(r) /\ Recovering(r) /\ PlayedBefore(played \o Polled(d), r.current)
      /\ \A i \in 1 .. Len(r.fec) : \E j \in 1 .. Len(d0.fec) : r.fec[i] = d0.fec[j]
  BY <1>3, UpdateRight
<1> HIDE DEF r
<1>5. depayloader' = r /\ played' = played \o Polled(d) /\ sent' = sent
  BY <1>1 DEF r
<1>6. \A i \in 1 .. Len(r.fec) : r.fec[i] \in once'
  BY <1>4
<1>7. sent \in 0 .. MaxFrame + 1
  BY DEF Inv
<1>8. /\ Sound(depayloader') /\ Recovering(depayloader') /\ PlayedBefore(played', depayloader'.current)
      /\ \A i \in 1 .. Len(depayloader'.fec) : depayloader'.fec[i] \in once'
      /\ sent' \in 0 .. MaxFrame + 1
  BY <1>4, <1>5, <1>6, <1>7
<1> QED  BY <1>8 DEF Inv


LEMMA StepInv ==
  ASSUME InOneRound, ~FecRepeated
  PROVE  Inv /\ [Next]_vars => Inv'
<1> SUFFICES ASSUME Inv, [Next]_vars PROVE Inv'
  OBVIOUS
<1>1. Sound(depayloader) /\ Recovering(depayloader) /\ depayloader.current \in Nat
  BY Constants DEF Inv, Sound
<1>2. ASSUME NEW p \in Packet, Receive(p) PROVE Inv'
  <2>1. PICK f \in 0 .. sent - 1 : p \in PacketsOf(f)
    BY <1>2 DEF Receive
  <2>2. f \in Frame
    <3>1. sent \in 0 .. MaxFrame + 1
      BY DEF Inv
    <3> QED  BY <3>1, SentFrame
  <2>3. p.fec => \A i \in 1 .. Len(depayloader.fec) : depayloader.fec[i] # p
    <3>1. p.fec => p \notin once
      BY <1>2 DEF Receive
    <3>2. \A i \in 1 .. Len(depayloader.fec) : depayloader.fec[i] \in once
      BY DEF Inv
    <3> QED  BY <3>1, <3>2
  <2>4. PICK d \in Handled(depayloader, p) : Update(d)
    BY <1>2 DEF Receive
  <2>5. /\ Sound(d) /\ Recovering(d) /\ d.current = depayloader.current
        /\ \A i \in 1 .. Len(d.fec) :
             (p.fec /\ d.fec[i] = p) \/ \E j \in 1 .. Len(depayloader.fec) : d.fec[i] = depayloader.fec[j]
    BY <1>1, <2>1, <2>2, <2>3, HandledRight
  <2>6. once' = IF p.fec THEN once \cup {p} ELSE once
    BY <1>2 DEF Receive
  <2>7. \A i \in 1 .. Len(d.fec) : d.fec[i] \in once'
    <3>1. \A i \in 1 .. Len(depayloader.fec) : depayloader.fec[i] \in once
      BY DEF Inv
    <3> QED  BY <2>5, <2>6, <3>1
  <2>8. depayloader.current <= d.current
    BY <1>1, <2>5
  <2>9. UNCHANGED sent
    BY <1>2 DEF Receive
  <2> QED  BY <2>4, <2>5, <2>7, <2>8, <2>9, UpdateInv
<1>3. CASE HandleTimeout
  <2>1. Update(depayloader) /\ once' = once /\ UNCHANGED sent
    BY <1>3 DEF HandleTimeout
  <2>2. depayloader.current <= depayloader.current
    BY <1>1
  <2>3. \A i \in 1 .. Len(depayloader.fec) : depayloader.fec[i] \in once'
    BY <2>1 DEF Inv
  <2> QED  BY <1>1, <2>1, <2>2, <2>3, UpdateInv
<1>4. ASSUME UNCHANGED <<depayloader, played, once>>, sent' \in 0 .. MaxFrame + 1 PROVE Inv'
  <2>1. /\ Sound(depayloader') /\ Recovering(depayloader') /\ PlayedBefore(played', depayloader'.current)
        /\ \A i \in 1 .. Len(depayloader'.fec) : depayloader'.fec[i] \in once'
        /\ sent' \in 0 .. MaxFrame + 1
    BY <1>4 DEF Inv
  <2> QED  BY <2>1 DEF Inv
<1>5. sent \in 0 .. MaxFrame + 1
  BY DEF Inv
<1>6. CASE Tick
  BY <1>4, <1>5, <1>6 DEF Tick
<1>7. CASE HostSend
  <2>1. sent' \in 0 .. MaxFrame + 1
    BY <1>5, <1>7, Constants DEF HostSend
  <2> QED  BY <1>4, <1>7, <2>1 DEF HostSend
<1>8. CASE UNCHANGED vars
  BY <1>4, <1>5, <1>8 DEF vars
<1> QED  BY <1>2, <1>3, <1>6, <1>7, <1>8 DEF Next

\* What is known of the depayloader and of what is played stays known.
THEOREM AudioSafety ==
  ASSUME InOneRound, ~FecRepeated
  PROVE  Spec => []Inv
<1>1. Init => Inv
  BY InitInv
<1>2. Inv /\ [Next]_vars => Inv'
  BY StepInv
<1> QED  BY <1>1, <1>2, PTL DEF Spec

\* Frames come out as they were sent, recovered ones included, in order and
\* none twice, however packets are lost and reordered (AudioStream::poll_event
\* over the depayloader's queues).
THEOREM PlaysIntactInOrder ==
  ASSUME InOneRound, ~FecRepeated
  PROVE  Spec => []PlayedIntactInOrder
<1>1. Inv => PlayedIntactInOrder
  <2> SUFFICES ASSUME Inv PROVE PlayedIntactInOrder
    OBVIOUS
  <2>1. PlayedBefore(played, depayloader.current)
    BY DEF Inv
  <2>2. ASSUME NEW i \in 1 .. Len(played)
        PROVE  played[i].payload \in Frame /\ played[i].timestamp = played[i].payload * Duration
    <3>1. played[i] \in Entries
      BY <2>1 DEF PlayedBefore
    <3>2. PICK f \in Frame : played[i] = Entry(f)
      BY <3>1, EntryOf
    <3> QED  BY <3>2, EntryType
  <2>3. ASSUME NEW i \in 1 .. Len(played) - 1
        PROVE  played[i].payload < played[i + 1].payload
    <3>1. Len(played) \in Nat
      BY <2>1 DEF PlayedBefore
    <3>2. i \in 1 .. Len(played) /\ i + 1 \in 1 .. Len(played) /\ i < i + 1
      BY <3>1
    <3> QED  BY <2>1, <3>2 DEF PlayedBefore
  <2> QED  BY <2>2, <2>3 DEF PlayedIntactInOrder
<1> QED  BY <1>1, AudioSafety, PTL

\* FEC keeps its promise: as soon as as many packets of a block are at hand as
\* it has data packets, all of these are (try_reconstruct_fec_block, called
\* for each data and each FEC packet that is queued).
THEOREM EnoughShardsSuffice ==
  ASSUME InOneRound, ~FecRepeated
  PROVE  Spec => []EnoughShardsRecover
<1>1. Inv => EnoughShardsRecover
  BY DEF Inv, Recovering, BlockRecovered, ShardsAt, EnoughShardsRecover
<1> QED  BY <1>1, AudioSafety, PTL


-----------------------------------------------------------------------------
(* Nothing that is at hand is passed over.                                 *)

\* A data packet that the queue has and that is still to come is not lost by
\* any step: it stays or comes out, also when frames before it are skipped
\* (try_skip_samples), when the queue is cleaned up behind the current frame
\* (poll_frame), and when another packet with its number comes.
QueuedIsPlayed ==
  [][\A e \in depayloader.data :
       e.sequence >= depayloader.current /\ e.payload \notin Undecryptable =>
         \/ e \in depayloader'.data /\ e.sequence >= depayloader'.current
         \/ \E i \in 1 .. Len(played') : played'[i] = e]_vars

\* A packet that is handled displaces none from the queue.
LEMMA HandledKeeps ==
  ASSUME InOneRound, NEW d, Sound(d), NEW f \in Frame, NEW p \in PacketsOf(f), NEW r \in Handled(d, p)
  PROVE  d.data \subseteq r.data
<1>0. d.data \subseteq Entries
  BY DEF Sound
<1>1. ASSUME NEW c, NEW x, c = [current |-> c.current, data |-> c.data, fec |-> c.fec, enabled |-> c.enabled]
      PROVE  c.data \subseteq Reconstruct(c, x).data
  BY <1>1 DEF Reconstruct
<1>2. CASE p.fec
  <2> DEFINE d1 == [d EXCEPT !.enabled = p.base % DataShards = 0]
             Inserted(i) == [d1 EXCEPT !.fec = InsertAt(d.fec, i, p)]
  <2>1. d = [current |-> d.current, data |-> d.data, fec |-> d.fec, enabled |-> d.enabled]
    BY DEF Sound
  <2>2. d1 = [current |-> d.current, data |-> d.data, fec |-> d.fec, enabled |-> p.base % DataShards = 0]
    BY <2>1
  <2>3. r \in HandledFec(d, p)
    BY <1>2 DEF Handled
  <2>4. r = d \/ r = d1 \/ \E i \in Positions(d.fec, p) : r = Reconstruct(Inserted(i), p.base)
    BY <2>3 DEF HandledFec
  <2> HIDE DEF d1
  <2>5. ASSUME NEW i, r = Reconstruct(Inserted(i), p.base) PROVE d.data \subseteq r.data
    <3> DEFINE c == Inserted(i)
    <3>1. c = [current |-> d.current, data |-> d.data, fec |-> InsertAt(d.fec, i, p), enabled |-> d1.enabled]
      BY <2>2
    <3> HIDE DEF c
    <3>2. c = [current |-> c.current, data |-> c.data, fec |-> c.fec, enabled |-> c.enabled] /\ c.data = d.data
      BY <3>1
    <3>3. c.data \subseteq Reconstruct(c, p.base).data
      BY <1>1, <3>2
    <3> QED  BY <2>5, <3>2, <3>3 DEF c
  <2>6. d1.data = d.data
    BY <2>2
  <2> QED  BY <2>4, <2>5, <2>6
<1>3. CASE ~p.fec
  <2>1. p = [fec |-> FALSE, sequence |-> FirstSeq + f, timestamp |-> f * Duration, payload |-> f]
    BY <1>3, PacketIs
  <2> DEFINE entry == [sequence |-> p.sequence, timestamp |-> p.timestamp, payload |-> p.payload]
             data  == { e \in d.data : e.sequence # p.sequence } \cup {entry}
             c     == [d EXCEPT !.data = data]
  <2>2. entry = Entry(f) /\ p.sequence = FirstSeq + f
    BY <2>1 DEF Entry
  <2>3. d.data \subseteq data
    <3> SUFFICES ASSUME NEW e \in d.data, e.sequence = p.sequence PROVE e = entry
      OBVIOUS
    <3>1. PICK g \in Frame : e = Entry(g)
      BY <1>0, EntryOf
    <3>2. f = g
      <4>1. e.sequence = FirstSeq + g /\ g \in Nat /\ f \in Nat
        BY <3>1, EntryType
      <4>2. FirstSeq + f = FirstSeq + g
        BY <2>2, <4>1
      <4> QED  BY <4>1, <4>2, SameFrame
    <3> QED  BY <2>2, <3>1, <3>2
  <2>4. r = HandledData(d, p)
    BY <1>3 DEF Handled
  <2>5. r = d \/ r = c \/ \E x : r = Reconstruct(c, x)
    <3>1. Len(d.fec) \in Nat
      BY LenProperties DEF Sound
    <3> QED  BY <2>4, <3>1, HandledDataIs
  <2> HIDE DEF data
  <2>6. c = [current |-> d.current, data |-> data, fec |-> d.fec, enabled |-> d.enabled]
    <3>1. d = [current |-> d.current, data |-> d.data, fec |-> d.fec, enabled |-> d.enabled]
      BY DEF Sound
    <3> QED  BY <3>1
  <2> HIDE DEF c
  <2>7. c.data = data /\ c = [current |-> c.current, data |-> c.data, fec |-> c.fec, enabled |-> c.enabled]
    BY <2>6
  <2>8. \A x : c.data \subseteq Reconstruct(c, x).data
    BY <1>1, <2>7
  <2> QED  BY <2>3, <2>5, <2>7, <2>8
<1> QED  BY <1>2, <1>3

\* What handle_timeout skips and passes: all that is at hand from the current
\* packet on is still there, or comes out if it decrypts.
LEMMA UpdateKeeps ==
  ASSUME InOneRound, NEW d0, Sound(d0), Recovering(d0), NEW d \in {d0, Skipped(d0)},
         NEW e \in d0.data, e.sequence >= d0.current, e.payload \notin Undecryptable
  PROVE  \/ e \in Drained(d).data /\ e.sequence >= Drained(d).current
         \/ \E i \in 1 .. Len(Polled(d)) : Polled(d)[i] = e
<1>1. Sound(d) /\ Recovering(d) /\ d.data = d0.data /\ e.sequence >= d.current
  <2>1. CASE d = d0
    BY <2>1
  <2>2. CASE d = Skipped(d0)
    <3>1. /\ Sound(d) /\ Recovering(d) /\ d.data = d0.data
          /\ \A q \in Have(d0) : q >= d0.current => q >= d.current
      BY <2>2, SkippedRight
    <3>2. e.sequence \in Have(d0)
      BY DEF Have
    <3> QED  BY <3>1, <3>2
  <2> QED  BY <2>1, <2>2
<1>2. d.current \in Nat /\ Passed(d) \in Nat /\ e.sequence \in Nat
  <2>1. e \in Entries
    BY <1>1 DEF Sound
  <2>2. PICK f \in Frame : e = Entry(f)
    BY <2>1, EntryOf
  <2>3. e.sequence \in Nat
    BY <2>2, EntryType
  <2> QED  BY <1>1, <2>3, PassedRight, Constants DEF Sound
<1>3. CASE e.sequence < d.current + Passed(d)
  BY <1>1, <1>3, PolledHas
<1>4. CASE e.sequence >= d.current + Passed(d)
  <2> DEFINE r == Drained(d)
  <2>1. r.current = d.current + Passed(d) /\ \A x \in d.data : x.sequence >= r.current => x \in r.data
    BY <1>1, DrainedRight
  <2> HIDE DEF r
  <2>2. e \in r.data /\ e.sequence >= r.current
    BY <1>1, <1>4, <2>1
  <2> QED  BY <2>2 DEF r
<1> QED  BY <1>2, <1>3, <1>4

LEMMA UpdatePlaysQueued ==
  ASSUME InOneRound, Inv, NEW d0, Sound(d0), Recovering(d0), d0.current = depayloader.current,
         depayloader.data \subseteq d0.data, Update(d0),
         NEW e \in depayloader.data, e.sequence >= depayloader.current, e.payload \notin Undecryptable
  PROVE  \/ e \in depayloader'.data /\ e.sequence >= depayloader'.current
         \/ \E i \in 1 .. Len(played') : played'[i] = e
<1>1. PICK d \in {d0, Skipped(d0)} : depayloader' = Drained(d) /\ played' = played \o Polled(d)
  BY DEF Update
<1>2. \/ e \in Drained(d).data /\ e.sequence >= Drained(d).current
      \/ \E i \in 1 .. Len(Polled(d)) : Polled(d)[i] = e
  BY UpdateKeeps
<1>3. CASE e \in Drained(d).data /\ e.sequence >= Drained(d).current
  BY <1>1, <1>3
<1>4. CASE \E i \in 1 .. Len(Polled(d)) : Polled(d)[i] = e
  <2> DEFINE p == Polled(d)
  <2>1. Sound(d)
    BY <1>1, SkippedRight
  <2>2. played \in Seq(Entries) /\ p \in Seq(Entries)
    BY <2>1, PolledRight DEF Inv, PlayedBefore, PlayedBetween
  <2> HIDE DEF p
  <2>3. PICK i \in 1 .. Len(p) : p[i] = e
    BY <1>4 DEF p
  <2>4. PICK a \in Nat : a = Len(played)
    BY <2>2
  <2> DEFINE r == played \o p
  <2>5. /\ Len(r) = Len(played) + Len(p)
        /\ \A k \in 1 .. Len(r) : r[k] = IF k <= Len(played) THEN played[k] ELSE p[k - Len(played)]
    BY <2>2, ConcatProperties
  <2> HIDE DEF r
  <2>6. Len(p) \in Nat
    BY <2>2
  <2>7. a + i \in 1 .. Len(r) /\ ~(a + i <= a) /\ (a + i) - a = i
    BY <2>4, <2>5, <2>6
  <2>8. r[a + i] = e
    BY <2>3, <2>4, <2>5, <2>7
  <2> QED  BY <1>1, <2>7, <2>8 DEF r, p
<1> QED  BY <1>2, <1>3, <1>4

\* Whatever the stream has received and may still play it plays, or waits with.
THEOREM QueuedComesOut ==
  ASSUME InOneRound, ~FecRepeated
  PROVE  Spec => QueuedIsPlayed
<1> DEFINE Kept == \A e \in depayloader.data :
                     e.sequence >= depayloader.current /\ e.payload \notin Undecryptable =>
                       \/ e \in depayloader'.data /\ e.sequence >= depayloader'.current
                       \/ \E i \in 1 .. Len(played') : played'[i] = e
<1>1. Inv /\ [Next]_vars => [Kept]_vars
  <2> SUFFICES ASSUME Inv, [Next]_vars, UNCHANGED vars => FALSE,
                      NEW e \in depayloader.data, e.sequence >= depayloader.current,
                      e.payload \notin Undecryptable
               PROVE  \/ e \in depayloader'.data /\ e.sequence >= depayloader'.current
                      \/ \E i \in 1 .. Len(played') : played'[i] = e
    OBVIOUS
  <2>0. Sound(depayloader) /\ Recovering(depayloader)
    BY DEF Inv
  <2>1. ASSUME NEW p \in Packet, Receive(p)
        PROVE  \/ e \in depayloader'.data /\ e.sequence >= depayloader'.current
               \/ \E i \in 1 .. Len(played') : played'[i] = e
    <3>1. PICK f \in 0 .. sent - 1 : p \in PacketsOf(f)
      BY <2>1 DEF Receive
    <3>2. f \in Frame
      <4>1. sent \in 0 .. MaxFrame + 1
        BY DEF Inv
      <4> QED  BY <4>1, SentFrame
    <3>3. p.fec => \A i \in 1 .. Len(depayloader.fec) : depayloader.fec[i] # p
      <4>1. p.fec => p \notin once
        BY <2>1 DEF Receive
      <4>2. \A i \in 1 .. Len(depayloader.fec) : depayloader.fec[i] \in once
        BY DEF Inv
      <4> QED  BY <4>1, <4>2
    <3>4. PICK d \in Handled(depayloader, p) : Update(d)
      BY <2>1 DEF Receive
    <3>5. Sound(d) /\ Recovering(d) /\ d.current = depayloader.current
      BY <2>0, <3>1, <3>2, <3>3, HandledRight
    <3>6. depayloader.data \subseteq d.data
      BY <2>0, <3>1, <3>2, HandledKeeps
    <3> QED  BY <3>4, <3>5, <3>6, UpdatePlaysQueued
  <2>2. CASE HandleTimeout
    <3>1. Update(depayloader)
      BY <2>2 DEF HandleTimeout
    <3> QED  BY <2>0, <3>1, UpdatePlaysQueued
  <2>3. CASE Tick \/ HostSend
    BY <2>3 DEF Tick, HostSend
  <2> QED  BY <2>1, <2>2, <2>3 DEF Next
<1> QED  BY <1>1, AudioSafety, PTL DEF Spec, QueuedIsPlayed

=============================================================================
