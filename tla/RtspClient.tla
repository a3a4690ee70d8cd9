----------------------------- MODULE RtspClient -----------------------------
(***************************************************************************)
(* RtspClient (stream/proto/rtsp/client.rs) as operators on its state.  One *)
(* TCP connection carries one request; its answer is what has come when the *)
(* host closes the connection.                                              *)
(*                                                                         *)
(* An answer comes in two pieces, its header and its body, a part of a       *)
(* header being as good as none.  The header says which sequence number it  *)
(* repeats, whether its status is a success, and its session.               *)
(***************************************************************************)
EXTENDS Naturals, Sequences

CONSTANTS Session, None

ASSUME SessionAssumption == None \notin Session

Request == {"options", "describe", "audio", "video", "mic", "control", "announce", "play"}

Piece == [part : {"header", "body"}, cseq : Nat, ok : BOOLEAN, session : Session]

NewRtsp ==
  [state            |-> "WaitForSendRequest",
   transmit         |-> "none",
   expect_response  |-> FALSE,
   current_response |-> <<>>,
   receive          |-> <<>>,
   sequence_number  |-> 1]

RtspState == {"WaitForSendRequest", "SendRequest", "WaitResponse", "Disconnected"}

RtspClientType ==
  [state            : RtspState,
   transmit         : Request \cup {"none"},
   expect_response  : BOOLEAN,
   current_response : Seq(Piece),
   receive          : Seq(Piece),
   sequence_number  : Nat]

\* Both ways to send fail with AlreadySending otherwise.
MaySend(r) == r.transmit = "none" /\ r.state = "WaitForSendRequest"

\* Variant: whether an answer is expected stays as it was.
SendAsBefore(r, request) == [r EXCEPT !.transmit = request]

Send(r, request) == [r EXCEPT !.transmit = request, !.expect_response = TRUE]

SendNoResponse(r, request) == [r EXCEPT !.transmit = request, !.expect_response = FALSE]

\* poll_output with a request to send: first the connection, then the bytes.
PollConnect(r) == [r EXCEPT !.state = "SendRequest"]

PollWrite(r) ==
  [r EXCEPT !.transmit = "none", !.receive = <<>>, !.state = "WaitResponse"]

\* poll_output after the end of the connection: the answer is handed over.
PollResponse(r) == [r EXCEPT !.state = "WaitForSendRequest", !.current_response = <<>>]

HandleReceive(r, piece) == [r EXCEPT !.receive = Append(r.receive, piece)]

\* What has come is an answer to the request: its header is complete and has the
\* request's number and a status of success.  Nothing tells whether the body is.
Acceptable(r) ==
  /\ r.receive # <<>>
  /\ r.receive[1].cseq = r.sequence_number
  /\ r.receive[1].ok

\* Requests that expect no answer do not count: DESCRIBE repeats the number of
\* OPTIONS.
HandleDisconnected(r) ==
  [r EXCEPT !.state = "Disconnected",
            !.receive = <<>>,
            !.current_response = IF r.expect_response THEN r.receive ELSE r.current_response,
            !.sequence_number = IF r.expect_response THEN r.sequence_number + 1
                               ELSE r.sequence_number]
=============================================================================
