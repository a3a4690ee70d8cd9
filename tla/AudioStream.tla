----------------------------- MODULE AudioStream -----------------------------
(***************************************************************************)
(* The AudioStream of audio/mod.rs over its AudioDepayloader: frames come  *)
(* out in order, missing ones are recovered from FEC packets or skipped    *)
(* after a while.  The host sends the packets of an AudioPayloader; the    *)
(* network may lose, reorder and, as far as FecRepeated says, repeat them. *)
(***************************************************************************)
EXTENDS AudioQueue

CONSTANTS
  MaxWait,     \* max_sample_wait, in ticks
  FecRepeated  \* whether the network repeats FEC packets

ASSUME StreamAssumption ==
  /\ MaxWait \in Nat \ {0}
  /\ FecRepeated \in BOOLEAN

VARIABLES
  depayloader,
  dropped_frames,
  waited,        \* now - last_frame, counted no further than MaxWait + 1
  played,        \* history: the OnFrame events
  sent,          \* the host has sent the frames below this one
  once           \* history: the FEC packets that have been delivered

vars == <<depayloader, dropped_frames, waited, played, sent, once>>

Init ==
  /\ depayloader = NewDepayloader
  /\ dropped_frames = TRUE
  /\ waited = 0
  /\ played = <<>>
  /\ sent = 0
  /\ once = {}

-----------------------------------------------------------------------------

\* Variant: the frames that are late are left to be skipped another time.
UpdateDroppingOnly(d) ==
  /\ depayloader' = Drained(d)
  /\ played' = played \o Polled(d)
  /\ waited' = IF played' = played THEN waited ELSE 0
  /\ dropped_frames' = ((dropped_frames \/ waited > MaxWait) /\ played' = played)

\* handle_timeout with the depayloader d: if the last frame is too long ago,
\* the next packet at hand is skipped to; then all frames there are come out.
Update(d0) ==
  \E d \in { IF waited > MaxWait THEN Skipped(d0) ELSE d0 } :
    /\ depayloader' = Drained(d)
    /\ played' = played \o Polled(d)
    /\ waited' = IF played' = played THEN waited ELSE 0
    /\ dropped_frames' = ((dropped_frames \/ waited > MaxWait) /\ played' = played)

\* handle_receive
Receive(p) ==
  /\ \E f \in 0 .. sent - 1 : p \in PacketsOf(f)
  /\ p.fec => FecRepeated \/ p \notin once
  /\ \E d \in Handled(depayloader, p) : Update(d)
  /\ once' = IF p.fec THEN once \cup {p} ELSE once
  /\ UNCHANGED sent

\* handle_timeout, when the time poll_timeout returned has come.  It returns
\* none while frames come out.
HandleTimeout ==
  /\ dropped_frames /\ waited >= MaxWait
  /\ Update(depayloader)
  /\ UNCHANGED <<sent, once>>

Tick ==
  /\ waited' = IF waited > MaxWait THEN waited ELSE waited + 1
  /\ UNCHANGED <<depayloader, dropped_frames, played, sent, once>>

HostSend ==
  /\ sent <= MaxFrame
  /\ sent' = sent + 1
  /\ UNCHANGED <<depayloader, dropped_frames, waited, played, once>>

Next ==
  \/ \E p \in Packet : Receive(p)
  \/ HandleTimeout
  \/ Tick
  \/ HostSend

Spec == Init /\ [][Next]_vars

\* Time passes, and packets keep coming: at least the first one, which is of
\* no use but to have handle_timeout called.  (poll_timeout is of no help: it
\* returns no time while frames come out.)
FairSpec == Spec /\ WF_vars(Tick) /\ WF_vars(Receive(DataPacket(0)))

-----------------------------------------------------------------------------

\* Frames come out in the order they were sent, none of them twice, with the
\* payload and the timestamp they were sent with, recovered ones included.
PlayedIntactInOrder ==
  /\ \A i \in 1 .. Len(played) :
       played[i].payload \in Frame /\ played[i].timestamp = played[i].payload * Duration
  /\ \A i \in 1 .. Len(played) - 1 : played[i].payload < played[i + 1].payload

\* FEC keeps its promise: as soon as DataShards packets of a block are at hand
\* all its data packets are, whichever they are and in whatever order they
\* came, as long as the block is wanted.
EnoughShardsRecover ==
  depayloader.enabled =>
    \A i \in 1 .. Len(depayloader.fec) :
      LET base == depayloader.fec[i].base
          at == DataAt(depayloader, base)
          fecs == { k \in 0 .. FecShards - 1 : \E n \in 1 .. Len(depayloader.fec) :
                      depayloader.fec[n].base = base /\ depayloader.fec[n].shard = k }
      IN  Cardinality(at) + Cardinality(fecs) >= DataShards => Cardinality(at) = DataShards

\* While packets come in, no frame at hand waits forever for a lost one: again
\* and again there is none ahead.
BufferedFramesPassed ==
  []<>(\A e \in depayloader.data : e.sequence < depayloader.current)

\* A packet dropped "because it is too old" is: the frame it carries is not one
\* of the next DataShards frames.
OnlyOldDropped ==
  [][\A f \in 0 .. sent - 1 :
       Receive(DataPacket(f)) /\ NumberOf(f) < depayloader.current /\ played # <<>> =>
         f - Last(played).payload \notin 1 .. DataShards]_vars
=============================================================================
