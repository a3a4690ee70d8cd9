-------------------------- MODULE DecodableStream ---------------------------
(***************************************************************************)
(* What the video stream promises the decoder behind it: every frame it is *)
(* handed can be decoded, because it is an IDR frame (it needs nothing) or *)
(* the direct successor of the frame handed over before it.                *)
(***************************************************************************)
EXTENDS Integers, Sequences

CONSTANT FrameIndex   \* the frame indices of the host

VARIABLE played       \* the frames handed to the decoder, [frame, idr]

Decodable(f, idr) ==
  \/ idr
  \/ played # <<>> /\ f = played[Len(played)].frame + 1

Play(f, idr) ==
  /\ Decodable(f, idr)
  /\ played' = Append(played, [frame |-> f, idr |-> idr])

Init == played = <<>>

Next == \E f \in FrameIndex, idr \in BOOLEAN : Play(f, idr)

Spec == Init /\ [][Next]_played
=============================================================================
