---------------------------- MODULE VideoStream -----------------------------
(***************************************************************************)
(* The VideoStream of video/mod.rs over its VideoDepayloader: packets come *)
(* in, whole frames go out in an order the decoder can use, and the host   *)
(* is asked for an IDR frame when the stream is stuck.                     *)
(*                                                                         *)
(* Time.  Every Instant the stream keeps is only ever compared with `now', *)
(* so it is kept as its age, counted in ticks and no further than the      *)
(* timeout it is compared with.                                            *)
(*                                                                         *)
(* The host sends frames 1, 2, ...; its next frame after an IDR request is *)
(* an IDR frame.  The network may lose, repeat and reorder its packets.    *)
(***************************************************************************)
EXTENDS VideoFec, Sequences

CONSTANTS
  FullFrameTimeout,   \* FULL_FRAME_RECEIVE_TIMEOUT, in ticks
  IdrRequestTimeout,  \* IDR_REQUEST_TIMEOUT
  StallTimeout,       \* STALL_TIMEOUT
  DiscardLimit        \* the known frames update() looks at when it discards

ASSUME TimeAssumption ==
  /\ FullFrameTimeout \in Nat \ {0}
  /\ IdrRequestTimeout \in Nat \ {0}
  /\ StallTimeout \in Nat \ {0}
  /\ DiscardLimit \in Nat \ {0}

\* An Instant that is None, and the current_frame that is None.
None == -1

VARIABLES
  current_frame,  \* the frame to play next, or None before the first one
  waiting,        \* waiting_for_idr_since: age of the last request, or None
  last_frame,     \* age of the last frame played
  first_seen,     \* frames_first_seen: ages, None for a frame not seen
  played,         \* history: every OnFrame event, as [frame, idr]
  idr_request,    \* a SignalIdr event has not reached the host yet
  sent,           \* the frames the host has sent are 1 .. sent
  idr             \* the frames sent as IDR frames

stream == <<depayloader, current_frame, waiting, last_frame, first_seen, played>>
host   == <<sent, idr>>
vars   == <<stream, idr_request, host>>

Init ==
  /\ depayloader = EmptyDepayloader
  /\ current_frame = None
  /\ waiting = 0
  /\ last_frame = 0
  /\ first_seen = [f \in Frame |-> None]
  /\ played = <<>>
  /\ idr_request = FALSE
  /\ sent = 0
  /\ idr = {}

-----------------------------------------------------------------------------
(* update()                                                                *)

Least(a, b) == IF a <= b THEN a ELSE b

\* How long the stream waits before it asks for an IDR frame.  The code looks
\* up frame 0, not the current frame, to see whether a frame is incomplete.
WaitUntilIdr(d, seen, age) ==
  LET stalled == StallTimeout - age
      dropped == FullFrameTimeout - seen[current_frame]
      skipped == \E f \in Known(d) : f > current_frame
      partial == 0 \in Known(d)
  IN  IF /\ current_frame \in Frame
         /\ seen[current_frame] # None
         /\ skipped \/ partial
      THEN Least(stalled, dropped) ELSE stalled

\* Variant: nothing is discarded.
OutdatedNever(d) == {}

\* The first DiscardLimit known frames that lie before the current one.
Outdated(d) ==
  { f \in Known(d) : /\ f < current_frame
                     /\ Cardinality({ g \in Known(d) : g < f }) < DiscardLimit }

IsLargest(f, fs) == \A g \in fs : g <= f

Unsynced == waiting # None \/ current_frame = None

Seen(d) ==
  [f \in Frame |-> IF f \in Known(d) /\ first_seen[f] = None THEN 0 ELSE first_seen[f]]

\* Variant: any complete frame ends the wait for an IDR frame.
ResyncFramesAny(d) == IF Unsynced THEN Complete(d) ELSE {}

\* The complete frames the stream may go on with out of turn.
ResyncFrames(d) == IF Unsynced THEN Complete(d) \cap idr ELSE {}

\* The frame is taken from the depayloader and becomes an OnFrame event.
PlayFrame(d, f) ==
  /\ depayloader' = Take(d, f)
  /\ played' = Append(played, [frame |-> f, idr |-> f \in idr])
  /\ current_frame' = f + 1
  /\ last_frame' = 0
  /\ UNCHANGED idr_request

\* Variant: a request that brought no IDR frame is not repeated.
DoIdrRequestOnce(d, seen) ==
  /\ IF WaitUntilIdr(d, seen, last_frame) = 0 /\ waiting = None
     THEN waiting' = 0 /\ idr_request' = TRUE
     ELSE UNCHANGED <<waiting, idr_request>>
  /\ depayloader' = d
  /\ UNCHANGED <<current_frame, last_frame, played>>

\* do_idr_request
DoIdrRequest(d, seen) ==
  /\ IF /\ WaitUntilIdr(d, seen, last_frame) = 0
        /\ waiting = None \/ waiting >= IdrRequestTimeout
     THEN waiting' = 0 /\ idr_request' = TRUE
     ELSE UNCHANGED <<waiting, idr_request>>
  /\ depayloader' = d
  /\ UNCHANGED <<current_frame, last_frame, played>>

\* A complete IDR frame found while the stream waits for one or has not
\* begun is played, the last of them; otherwise the current frame if it is
\* complete; otherwise an IDR request may be due.
Update(d0) ==
  LET d    == Discard(d0, Outdated(d0))
      seen == Seen(d0)
      idrs == ResyncFrames(d)
  IN  /\ first_seen' = seen
      /\ \/ /\ \E f \in idrs : IsLargest(f, idrs) /\ PlayFrame(d, f)
            /\ waiting' = None
         \/ /\ idrs = {}
            /\ current_frame \in Complete(d)
            /\ PlayFrame(d, current_frame)
            /\ UNCHANGED waiting
         \/ /\ idrs = {}
            /\ current_frame \notin Complete(d)
            /\ DoIdrRequest(d, seen)

-----------------------------------------------------------------------------
(* The stream's handlers.                                                  *)

\* handle_receive of a video packet.
ReceivePacket(p) ==
  /\ p.frame <= sent
  /\ \E d \in Handled(depayloader, p) : Update(d)
  /\ UNCHANGED host

\* handle_receive of a datagram that does not come from the host.
ReceiveForeign ==
  /\ Update(depayloader)
  /\ UNCHANGED host

\* Variant: the timeout only sees to the IDR request.
HandleTimeoutRequestOnly ==
  /\ WaitUntilIdr(depayloader, first_seen, last_frame) = 0
  /\ DoIdrRequest(depayloader, first_seen)
  /\ UNCHANGED <<first_seen, host>>

\* handle_timeout, when the time poll_timeout returned has come.
HandleTimeout ==
  /\ WaitUntilIdr(depayloader, first_seen, last_frame) = 0
  /\ Update(depayloader)
  /\ UNCHANGED host

\* request_idr, called on behalf of the decoder.
RequestIdr ==
  /\ idr_request' = TRUE
  /\ UNCHANGED <<stream, host>>

-----------------------------------------------------------------------------
(* The environment.                                                        *)

Older(age, limit) == IF age = None THEN None ELSE Least(age + 1, limit)

Tick ==
  /\ waiting' = Older(waiting, IdrRequestTimeout)
  /\ last_frame' = Older(last_frame, StallTimeout)
  /\ first_seen' = [f \in Frame |-> Older(first_seen[f], FullFrameTimeout)]
  /\ UNCHANGED <<depayloader, current_frame, played, idr_request, host>>

\* The host sends its next frame; its first frame and the one after an IDR
\* request are IDR frames, any other may be.
HostSend ==
  /\ sent < MaxFrame
  /\ sent' = sent + 1
  /\ \/ idr' = idr \cup {sent + 1}
     \/ sent > 0 /\ ~idr_request /\ UNCHANGED idr
  /\ idr_request' = FALSE
  /\ UNCHANGED stream

Next ==
  \/ \E p \in Packet : ReceivePacket(p)
  \/ ReceiveForeign
  \/ HandleTimeout
  \/ RequestIdr
  \/ Tick
  \/ HostSend

Spec == Init /\ [][Next]_vars

\* Time passes, and the driver calls handle_timeout when it is due.
FairSpec == Spec /\ WF_vars(Tick) /\ WF_vars(HandleTimeout)

-----------------------------------------------------------------------------

\* The stream implements the abstract decodable stream: every frame handed
\* over is an IDR frame or follows the frame handed over before it.
Abstract == INSTANCE DecodableStream WITH FrameIndex <- Frame

ImplementsDecodableStream == Abstract!Spec

\* Frames are handed over in increasing order, so none twice, late and
\* repeated packets notwithstanding.
PlayedInOrder ==
  \A i \in 1 .. Len(played) - 1 : played[i].frame < played[i + 1].frame

\* A stuck stream asks for help: whatever frame it awaits, it goes on to
\* another or an IDR request reaches the host's queue.
StuckStreamAsks ==
  \A f \in {None} \cup (2 .. MaxFrame + 1) :
    (current_frame = f) ~> (current_frame # f \/ idr_request)

\* A complete frame the stream awaits is handed over without a new packet.
CompleteFramePlayed ==
  \A f \in Frame :
    (current_frame = f /\ f \in Complete(depayloader)) ~> (current_frame # f)
=============================================================================
