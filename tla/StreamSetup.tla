----------------------------- MODULE StreamSetup ----------------------------
(***************************************************************************)
(* The setup of a stream: MoonlightStreamSetup (stream/proto/mod.rs) over   *)
(* the RTSP client, driven by the loop in connect() of the blocking backend *)
(* (stream/std/mod.rs) or of the asynchronous one (stream/tokio/mod.rs),    *)
(* against a host that may answer anything, and close or reset a connection *)
(* at any time.                                                             *)
(*                                                                         *)
(* Each action of the client is one turn of poll_output's loop together     *)
(* with what the backend does with its output; nothing but the connection   *)
(* is shared with the host.                                                 *)
(***************************************************************************)
EXTENDS RtspClient

CONSTANTS
  Majors,        \* the major versions that a server may have
  PlayNeedsPing  \* whether the host leaves PLAY open until it hears from the audio stream

VARIABLES
  backend,        \* whose connect() it is, "std" or "tokio"
  mic,            \* foundation_enable_mic
  major,          \* the major version of the server
  rtsp,
  state,          \* of MoonlightStreamSetup
  audio_session,  \* the session in the response RtspSetupAudioReceive holds
  session_id,
  tcp,            \* the connection: what was asked and is answered, what has
                  \* come, what has been read, and its end; or no connection
  started,        \* the streams handed to the backend
  result,         \* of connect()
  panicked,       \* whether an unreachable!(), unwrap() or expect() failed
  offered,        \* the streams the host has agreed to,
  sessions,       \* in which sessions,
  announced       \* and whether it has accepted the client's description

given == <<backend, mic, major>>
client == <<rtsp, state, audio_session, session_id, started, result, panicked>>
host == <<offered, sessions, announced>>
vars == <<given, client, tcp, host>>

Streams == IF mic THEN <<"audio", "video", "mic", "control">> ELSE <<"audio", "video", "control">>

NoConnection == [request |-> "none", cseq |-> 0, answer |-> <<>>, sent |-> 0, read |-> 0,
                 end |-> "absent"]

Connection ==
  [request : Request \cup {"none"}, cseq : Nat, answer : Seq(Piece), sent : 0 .. 2, read : 0 .. 2,
   end : {"absent", "open", "closed", "reset"}]

Opened == [NoConnection EXCEPT !.end = "open"]

\* The state in which the answer to a stream's SETUP is awaited, and the one after it.
Awaiting == [audio |-> "SetupAudio", video |-> "SetupVideo", mic |-> "SetupFoundationMic",
             control |-> "SetupControl"]
Received == [audio |-> "RtspSetupAudioReceive", video |-> "RtspSetupVideoReceive",
             mic |-> "RtspSetupFoundationMicReceive", control |-> "RtspSetupControlReceive"]

State == { Awaiting[s] : s \in DOMAIN Awaiting } \cup { Received[s] : s \in DOMAIN Received }
  \cup {"RtspOptionsReceive", "RtspDescribeReceive", "RtspAnnounceReceive", "RtspPlayReceive",
        "Connected"}

Answer(cseq, ok, session) ==
  <<[part |-> "header", cseq |-> cseq, ok |-> ok, session |-> session],
    [part |-> "body", cseq |-> cseq, ok |-> ok, session |-> session]>>

Answered(c) == c.answer # <<>>

Init ==
  /\ backend \in {"std", "tokio"} /\ mic \in BOOLEAN /\ major \in Majors
  /\ rtsp = SendNoResponse(NewRtsp, "options")
  /\ state = "RtspOptionsReceive"
  /\ audio_session = None /\ session_id = None
  /\ tcp = NoConnection
  /\ started = <<>>
  /\ result = "running"
  /\ panicked = FALSE
  /\ offered = <<>> /\ sessions = {} /\ announced = FALSE

-----------------------------------------------------------------------------
(* The loops of connect().                                                  *)

Fail ==
  /\ result' = "failed"
  /\ UNCHANGED <<given, rtsp, state, audio_session, session_id, tcp, started, panicked, host>>

Connect ==
  /\ result = "running"
  /\ rtsp.state = "WaitForSendRequest" /\ rtsp.transmit # "none"
  /\ rtsp' = PollConnect(rtsp)
  /\ tcp' = Opened
  /\ UNCHANGED <<given, state, audio_session, session_id, started, result, panicked, host>>

\* What is written to a connection that has ended meanwhile is lost.
Write ==
  /\ result = "running"
  /\ rtsp.state = "SendRequest"
  /\ rtsp' = PollWrite(rtsp)
  /\ tcp' = [tcp EXCEPT !.request = IF tcp.end = "open" THEN rtsp.transmit ELSE "none",
                        !.cseq = rtsp.sequence_number]
  /\ UNCHANGED <<given, state, audio_session, session_id, started, result, panicked, host>>

\* A connection cannot be made, or written to once the host has ended it.
CannotReach ==
  /\ result = "running"
  /\ \/ rtsp.state = "WaitForSendRequest" /\ rtsp.transmit # "none"
     \/ rtsp.state = "SendRequest" /\ tcp.end # "open"
  /\ Fail

Waiting == result = "running" /\ rtsp.state = "WaitResponse"

Read ==
  /\ Waiting /\ tcp.read < tcp.sent
  /\ rtsp' = HandleReceive(rtsp, tcp.answer[tcp.read + 1])
  /\ tcp' = [tcp EXCEPT !.read = tcp.read + 1]
  /\ UNCHANGED <<given, state, audio_session, session_id, started, result, panicked, host>>

\* The end of the connection as the backends see it: the blocking one takes a
\* reset, which may overtake what was sent, for an orderly end.
SeesEnd ==
  \/ tcp.end = "closed" /\ tcp.read = tcp.sent
  \/ tcp.end = "reset" /\ backend = "std"

\* Variant: a read of no bytes is taken for data.
ReadEndAsData == Waiting /\ SeesEnd /\ UNCHANGED vars

ReadEnd ==
  /\ Waiting /\ SeesEnd
  /\ IF rtsp.expect_response /\ ~Acceptable(rtsp)
     THEN Fail
     ELSE /\ rtsp' = HandleDisconnected(rtsp)
          /\ tcp' = IF backend = "std" THEN NoConnection ELSE tcp
          /\ UNCHANGED <<given, state, audio_session, session_id, started, result, panicked,
                         host>>

\* The blocking backend waits a second for data and fails then; the other one
\* calls handle_timeout and goes on.  A reset is an error to the latter.
ReadFails ==
  /\ Waiting
  /\ \/ backend = "std" /\ tcp.end = "open" /\ tcp.read = tcp.sent
     \/ backend = "tokio" /\ tcp.end = "reset"
  /\ Fail

Panic ==
  /\ panicked' = TRUE /\ result' = "failed"
  /\ UNCHANGED <<given, rtsp, state, audio_session, session_id, tcp, started, host>>

-----------------------------------------------------------------------------
(* poll_output: the RTSP client has a response.                             *)

HasResponse == result = "running" /\ rtsp.state = "Disconnected"
Response == rtsp.current_response

Proceed(next_rtsp, next) ==
  /\ rtsp' = next_rtsp
  /\ state' = next
  /\ UNCHANGED <<given, audio_session, session_id, tcp, started, result, panicked, host>>

\* The next request is sent, which must not be while another one is.
SendNext(r, request, next) ==
  IF MaySend(r) THEN Proceed(Send(r, request), next) ELSE Fail

\* Without an answer: OPTIONS and PLAY are over; any other state is unreachable!().
ConnectionOver ==
  /\ HasResponse /\ Response = <<>>
  /\ IF state = "RtspOptionsReceive"
     THEN SendNext(PollResponse(rtsp), "describe", "RtspDescribeReceive")
     ELSE IF state = "RtspPlayReceive"
     THEN Proceed(PollResponse(rtsp), "Connected")
     ELSE Panic

\* The description may be none, or ask for what the client has not; one that was
\* cut short may still be one.
DescribeResponse ==
  /\ HasResponse /\ Response # <<>> /\ state = "RtspDescribeReceive"
  /\ SendNext(PollResponse(rtsp), "audio", "SetupAudio") \/ Fail

\* Variant: the session is not looked at.
InSessionAny(s) == TRUE

\* The first stream's answer names the session, the others must be of the same.
InSession(s) == s = "audio" \/ Response[1].session = session_id

StartStream(s) ==
  /\ rtsp' = PollResponse(rtsp)
  /\ state' = Received[s]
  /\ audio_session' = IF s = "audio" THEN Response[1].session ELSE audio_session
  /\ started' = Append(started, s)
  /\ UNCHANGED <<given, session_id, tcp, result, panicked, host>>

\* ControlPacketConfig::new and ControlStream::new: the versions of the server for
\* which there is a control stream.
Supported == major \in 5 .. 7

\* The answer may also lack its session, and the blocking backend fail to bind a
\* socket for the stream.  The control stream is expect()ed to exist.
StreamResponse(s) ==
  /\ HasResponse /\ Response # <<>> /\ state = Awaiting[s]
  /\ IF s # "audio" /\ session_id = None
     THEN Panic
     ELSE \/ InSession(s) /\ (IF s = "control" /\ ~Supported THEN Panic ELSE StartStream(s))
          \/ Fail

AnnounceResponse ==
  /\ HasResponse /\ Response # <<>> /\ state = "RtspAnnounceReceive"
  /\ IF MaySend(PollResponse(rtsp))
     THEN Proceed(SendNoResponse(PollResponse(rtsp), "play"), "RtspPlayReceive")
     ELSE Fail

-----------------------------------------------------------------------------
(* poll_output: the RTSP client has nothing to do.                          *)

Idle == result = "running" /\ rtsp.state = "WaitForSendRequest" /\ rtsp.transmit = "none"

RequestVideo ==
  /\ Idle /\ state = "RtspSetupAudioReceive"
  /\ MaySend(rtsp) /\ rtsp' = Send(rtsp, "video")
  /\ session_id' = audio_session
  /\ state' = "SetupVideo"
  /\ UNCHANGED <<given, audio_session, tcp, started, result, panicked, host>>

AfterVideo == IF mic THEN "mic" ELSE "control"

RequestAfterVideo ==
  /\ Idle /\ state = "RtspSetupVideoReceive"
  /\ SendNext(rtsp, AfterVideo, Awaiting[AfterVideo])

RequestControl ==
  /\ Idle /\ state = "RtspSetupFoundationMicReceive"
  /\ SendNext(rtsp, "control", "SetupControl")

RequestAnnounce ==
  /\ Idle /\ state = "RtspSetupControlReceive"
  /\ SendNext(rtsp, "announce", "RtspAnnounceReceive")

\* connect() leaves its loop; only now the backend begins to drive the streams,
\* for which the asynchronous one has still to bind the sockets.
SetupConnected ==
  /\ Idle /\ state = "Connected"
  /\ \/ /\ result' = "connected"
        /\ UNCHANGED <<given, rtsp, state, audio_session, session_id, tcp, started,
                       panicked, host>>
     \/ backend = "tokio" /\ Fail

-----------------------------------------------------------------------------
(* The host.                                                                *)

\* It grants or refuses what it is asked, in whatever session and with whatever
\* sequence number it likes.
Serve ==
  /\ tcp.end = "open" /\ tcp.request # "none" /\ ~Answered(tcp)
  /\ PlayNeedsPing /\ tcp.request = "play" => result = "connected"
  /\ \E cseq \in {tcp.cseq, tcp.cseq + 1}, ok \in BOOLEAN, session \in Session :
       /\ tcp' = [tcp EXCEPT !.answer = Answer(cseq, ok, session)]
       /\ IF ok /\ tcp.request \in DOMAIN Awaiting
          THEN offered' = Append(offered, tcp.request) /\ sessions' = sessions \cup {session}
          ELSE UNCHANGED <<offered, sessions>>
       /\ announced' = (announced \/ (ok /\ tcp.request = "announce"))
  /\ UNCHANGED <<given, client>>

SendPiece ==
  /\ tcp.end = "open" /\ Answered(tcp) /\ tcp.sent < 2
  /\ tcp' = [tcp EXCEPT !.sent = tcp.sent + 1]
  /\ UNCHANGED <<given, client, host>>

\* The host has sent its answer, or crashes.
End ==
  /\ tcp.end = "open"
  /\ PlayNeedsPing /\ tcp.request = "play" => result = "connected"
  /\ \E e \in {"closed", "reset"} : tcp' = [tcp EXCEPT !.end = e]
  /\ UNCHANGED <<given, client, host>>

-----------------------------------------------------------------------------

ClientStep ==
  \/ Connect \/ Write \/ CannotReach \/ Read \/ ReadEnd \/ ReadFails
  \/ ConnectionOver \/ DescribeResponse \/ (\E s \in DOMAIN Awaiting : StreamResponse(s))
  \/ AnnounceResponse
  \/ RequestVideo \/ RequestAfterVideo \/ RequestControl \/ RequestAnnounce \/ SetupConnected

HostStep == Serve \/ SendPiece \/ End

Next == ClientStep \/ HostStep

Spec == Init /\ [][Next]_vars

\* connect() goes on, and the host ends every connection at last.
FairSpec == Spec /\ WF_vars(ClientStep) /\ WF_vars(HostStep)

-----------------------------------------------------------------------------

\* The setup keeps to the handshake: streams are started one by one in their
\* order, each when the host has granted it and before the next is asked for,
\* and connect() succeeds only after the host has accepted the session.  No
\* unreachable!(), unwrap() or expect() fails on the way but the one on the control
\* stream, when the host has granted that and its version has none.
Abstract ==
  INSTANCE Handshake WITH
    streams <- Streams,
    supported <- Supported,
    outcome <- IF panicked THEN "panicked" ELSE result

ImplementsHandshake == Abstract!Spec

\* The streams of a connection belong to one session of the host, whatever it
\* answered: the one the client announced and plays.
OneSession ==
  result = "connected" => sessions = {session_id}

\* connect() comes to an end.
SetupEnds == (result = "running") ~> (result # "running")
=============================================================================
