-------------------------- MODULE VideoDepayloader --------------------------
(***************************************************************************)
(* The VideoDepayloader as a component of its own: packets of the host's   *)
(* frames arrive in any order, any number of times or never, while its     *)
(* owner takes and discards frames as it likes.                            *)
(***************************************************************************)
EXTENDS VideoFec

VARIABLE given  \* given[f]: history, the packets handled for frame f since
                \* it was last unknown to the depayloader

DepayloaderVars == <<depayloader, given>>

TypeOK ==
  /\ depayloader.packets \subseteq Packet
  /\ Known(depayloader) \subseteq Frame
  /\ depayloader.frames \in [Known(depayloader) -> FrameState]
  /\ given \in [Frame -> SUBSET Packet]

DepayloaderInit ==
  /\ depayloader = EmptyDepayloader
  /\ given = [f \in Frame |-> {}]

HandlePacket(p) ==
  /\ depayloader' \in Handled(depayloader, p)
  /\ given' = [given EXCEPT ![p.frame] = @ \cup {p}]

TakeFrame(f) ==
  /\ f \in Complete(depayloader)
  /\ depayloader' = Take(depayloader, f)
  /\ given' = [given EXCEPT ![f] = {}]

DiscardFrame(f) ==
  /\ depayloader' = Discard(depayloader, {f})
  /\ given' = [given EXCEPT ![f] = {}]

DepayloaderNext ==
  \/ \E p \in Packet : HandlePacket(p)
  \/ \E f \in Frame : TakeFrame(f)
  \/ \E f \in Frame : DiscardFrame(f)

DepayloaderSpec == DepayloaderInit /\ [][DepayloaderNext]_DepayloaderVars

-----------------------------------------------------------------------------

\* A complete frame carries exactly the payload the host sent, in order:
\* whatever was lost, duplicated or reordered, no unit is missing, misplaced
\* or taken from another block (the buffer offsets, the shard bookkeeping and
\* the parity packets kept for the recovery agree).
CompleteFramesIntact ==
  \A f \in Complete(depayloader) :
    depayloader.frames[f].buffer = [i \in 0 .. Units - 1 |-> i]

\* FEC keeps its promise: a frame of which enough packets of every block were
\* handled is complete, in whatever order they came.
EnoughPacketsComplete ==
  \A f \in Known(depayloader) :
    (\A b \in Block :
       Cardinality({ p \in given[f] : p.block = b }) >= DataShards(b))
      => f \in Complete(depayloader)

\* The parity packets counted as available are still at hand, so the
\* Reed-Solomon step never fails for want of a shard.
CountedParityAtHand ==
  \A f \in Known(depayloader) :
    LET fr == depayloader.frames[f] IN
    \A s \in fr.shards :
      s < DataShards(fr.current_block)
        \/ s \in Shards(InBlock(depayloader, f, fr.current_block))
=============================================================================
