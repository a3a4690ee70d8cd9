-------------------------- MODULE StdConnectionProofs --------------------------
(***************************************************************************)
(* The setup of a stream implements the handshake, and its streams are of   *)
(* one session, for any set of sessions, whatever the host answers and      *)
(* whenever it ends a connection; connect() never reaches its               *)
(* unreachable!(), whichever streams there are and whatever codes the host  *)
(* gives; and both still hold where the blocking connect() does the two     *)
(* one after the other.                                                     *)
(***************************************************************************)
EXTENDS StdConnection, SequenceTheorems, TLAPS

-----------------------------------------------------------------------------
(* The setup.                                                              *)

SetupStream == {"audio", "video", "mic", "control"}

\* The request that is to be sent, under way, or answered but not yet looked at.
Asked ==
  IF state = "RtspOptionsReceive" THEN "options"
  ELSE IF state = "RtspDescribeReceive" THEN "describe"
  ELSE IF state = "SetupAudio" THEN "audio"
  ELSE IF state = "SetupVideo" THEN "video"
  ELSE IF state = "SetupFoundationMic" THEN "mic"
  ELSE IF state = "SetupControl" THEN "control"
  ELSE IF state = "RtspAnnounceReceive" THEN "announce"
  ELSE IF state = "RtspPlayReceive" THEN "play"
  ELSE "none"

NoStreamYet == {"RtspOptionsReceive", "RtspDescribeReceive", "SetupAudio"}

\* The streams that are started by the time a state is reached.
Done ==
  IF state \in NoStreamYet THEN <<>>
  ELSE IF state \in {"RtspSetupAudioReceive", "SetupVideo"} THEN <<"audio">>
  ELSE IF state \in {"RtspSetupVideoReceive", "SetupFoundationMic"} THEN <<"audio", "video">>
  ELSE IF state = "RtspSetupFoundationMicReceive" THEN <<"audio", "video", "mic">>
  ELSE IF state = "SetupControl"
       THEN IF mic THEN <<"audio", "video", "mic">> ELSE <<"audio", "video">>
  ELSE Streams

Types ==
  /\ mic \in BOOLEAN
  /\ rtsp \in RtspClientType
  /\ tcp \in Connection
  /\ state \in State
  /\ announced \in BOOLEAN

Progress ==
  /\ started = Done
  /\ state \in {"SetupFoundationMic", "RtspSetupFoundationMicReceive"} => mic
  /\ panicked \in BOOLEAN /\ (panicked => result = "failed" /\ ~Supported)

\* The RTSP client works on the request of the state, on a connection of its own,
\* and knows whether to expect an answer.
Requests ==
  /\ rtsp.state \in {"WaitForSendRequest", "SendRequest"} => rtsp.transmit = Asked
  /\ rtsp.state \notin {"WaitForSendRequest", "SendRequest"} => rtsp.transmit = "none"
  /\ rtsp.state # "WaitForSendRequest" => Asked # "none"
  /\ rtsp.state = "SendRequest" => tcp.request = "none" /\ tcp.answer = <<>> /\ tcp.sent = 0
  /\ rtsp.state = "WaitResponse" => tcp.request \in {"none", Asked}
  /\ tcp.end = "open" => rtsp.state \in {"SendRequest", "WaitResponse"}
  /\ Asked # "none" => (rtsp.expect_response <=> Asked \notin {"options", "play"})

\* What the client has of an answer is of the answer the host gave.
Answers ==
  /\ tcp.answer # <<>> =>
       /\ tcp.answer[1] \in Piece /\ tcp.answer[2] \in Piece
       /\ tcp.answer[2].ok = tcp.answer[1].ok /\ tcp.answer[2].session = tcp.answer[1].session
  /\ tcp.sent > 0 => tcp.answer # <<>>
  /\ rtsp.state = "WaitResponse" /\ rtsp.receive # <<>> =>
       /\ tcp.answer # <<>>
       /\ rtsp.receive[1].ok = tcp.answer[1].ok
       /\ rtsp.receive[1].session = tcp.answer[1].session
  /\ rtsp.state # "Disconnected" => rtsp.current_response = <<>>
  /\ rtsp.state = "Disconnected" => (rtsp.current_response = <<>> <=> Asked \in {"options", "play"})

Granted ==
  \/ rtsp.state = "WaitResponse" /\ tcp.answer # <<>> /\ tcp.answer[1].ok
  \/ rtsp.state = "Disconnected"

\* The host is at most one step ahead: by the stream asked for, or the session.
Offers ==
  /\ offered = IF Asked \in SetupStream /\ Granted THEN Append(started, Asked) ELSE started
  /\ announced = (\/ state \in {"RtspPlayReceive", "Connected"}
                  \/ state = "RtspAnnounceReceive" /\ Granted)

IInv == Types /\ Progress /\ Requests /\ Answers /\ Offers

\* The session of the answer that is on its way.
AnsweredSession ==
  IF rtsp.state = "Disconnected" THEN rtsp.current_response[1].session ELSE tcp.answer[1].session

\* The session that the streams started are of.
Settled ==
  IF state \in NoStreamYet THEN {}
  ELSE IF state = "RtspSetupAudioReceive" THEN {audio_session} ELSE {session_id}

SessionInv ==
  /\ state \notin NoStreamYet => audio_session \in Session
  /\ state \notin NoStreamYet \cup {"RtspSetupAudioReceive"} => session_id \in Session
  /\ sessions = IF Asked \in SetupStream /\ Granted THEN Settled \cup {AnsweredSession} ELSE Settled
  /\ result = "connected" => state = "Connected"

-----------------------------------------------------------------------------

LEMMA AwaitingIs ==
  /\ DOMAIN Awaiting = SetupStream
  /\ Awaiting["audio"] = "SetupAudio" /\ Received["audio"] = "RtspSetupAudioReceive"
  /\ Awaiting["video"] = "SetupVideo" /\ Received["video"] = "RtspSetupVideoReceive"
  /\ Awaiting["mic"] = "SetupFoundationMic" /\ Received["mic"] = "RtspSetupFoundationMicReceive"
  /\ Awaiting["control"] = "SetupControl" /\ Received["control"] = "RtspSetupControlReceive"
  BY DEF Awaiting, Received, SetupStream

LEMMA NoPieces == <<>> \in Seq(Piece)
  OBVIOUS

LEMMA FreshConnections ==
  /\ NoConnection \in Connection /\ Opened \in Connection
  /\ Opened.request = "none" /\ Opened.answer = <<>> /\ Opened.sent = 0 /\ Opened.end = "open"
<1>1. Opened = [request |-> "none", cseq |-> 0, answer |-> <<>>, sent |-> 0, read |-> 0,
                end |-> "open"]
  BY DEF Opened, NoConnection
<1> QED  BY <1>1, NoPieces DEF NoConnection, Connection

\* A step that leaves the handshake as it is.
Unmoved == UNCHANGED <<mic, major, offered, started, announced, result, panicked>>

LEMMA UnmovedStutters == Unmoved => UNCHANGED Abstract!vars
  BY DEF Unmoved, Abstract!vars, Streams, Supported

LEMMA FailStep ==
  ASSUME IInv, result = "running", Fail
  PROVE  IInv' /\ Abstract!Next
<1>0. UNCHANGED <<mic, major, rtsp, state, tcp, started, panicked, offered, announced>>
  BY DEF Fail, given, host
<1>1. IInv'
  <2>1. Asked' = Asked /\ Done' = Done /\ (Granted' <=> Granted)
    BY <1>0 DEF Asked, Done, Granted, Streams
  <2> QED  BY <1>0, <2>1 DEF IInv, Types, Progress, Requests, Answers, Offers, Supported
<1>2. Abstract!Fail
  BY <1>0 DEF IInv, Progress, Fail, Streams, Supported, Abstract!Fail
<1> QED  BY <1>1, <1>2 DEF Abstract!Next

LEMMA InitInv == Init => IInv /\ Abstract!Init
<1> SUFFICES ASSUME Init PROVE IInv /\ Abstract!Init
  OBVIOUS
<1>1. Types
  <2>1. SendNoResponse(NewRtsp, "options") \in RtspClientType
    BY NoPieces DEF NewRtsp, SendNoResponse, RtspClientType, RtspState, Request
  <2>2. "RtspOptionsReceive" \in State
    BY DEF State
  <2> QED  BY <2>1, <2>2, FreshConnections DEF Init, Types
<1>2. Asked = "options" /\ Done = <<>> /\ ~Granted
  BY DEF Init, Asked, Done, NoStreamYet, Granted, NewRtsp, SendNoResponse
<1>3. Progress /\ Offers
  BY <1>2 DEF Init, Progress, Offers, SetupStream
<1>4. Requests
  BY <1>2 DEF Init, Requests, NewRtsp, SendNoResponse, NoConnection
<1>5. Answers
  BY <1>2 DEF Init, Answers, NewRtsp, SendNoResponse, NoConnection
<1>6. Abstract!Init
  BY DEF Init, Streams, Supported, Abstract!Init
<1> QED  BY <1>1, <1>3, <1>4, <1>5, <1>6 DEF IInv

LEMMA ConnectStep ==
  ASSUME IInv, Connect
  PROVE  IInv' /\ Unmoved
<1> USE DEF IInv, Connect, given, host
<1>1. Types'
  <2>1. PollConnect(rtsp) \in RtspClientType
    BY DEF Types, PollConnect, RtspClientType, RtspState
  <2> QED  BY <2>1, FreshConnections DEF Types
<1>2. Asked' = Asked /\ Done' = Done /\ ~Granted' /\ ~Granted /\ Asked # "none"
  BY DEF Asked, Done, Granted, Types, RtspClientType, PollConnect, Streams, Requests
<1>3. Requests'
  BY <1>2, FreshConnections DEF Types, Requests, PollConnect, RtspClientType
<1>4. Answers'
  BY <1>2, FreshConnections DEF Types, Answers, PollConnect, RtspClientType
<1> QED  BY <1>1, <1>2, <1>3, <1>4 DEF Progress, Offers, Unmoved, Supported

LEMMA WriteStep ==
  ASSUME IInv, Write
  PROVE  IInv' /\ Unmoved
<1> USE DEF IInv, Write, given, host
<1>1. Types'
  BY NoPieces DEF Types, PollWrite, RtspClientType, RtspState, Connection
<1>2. Asked' = Asked /\ Done' = Done /\ ~Granted' /\ ~Granted /\ Asked # "none"
  BY DEF Asked, Done, Granted, Types, RtspClientType, Connection, PollWrite, Streams, Requests
<1>3. Requests'
  BY <1>2 DEF Types, Requests, PollWrite, RtspClientType, Connection
<1>4. Answers'
  BY <1>2 DEF Types, Answers, Requests, PollWrite, RtspClientType, Connection
<1> QED  BY <1>1, <1>2, <1>3, <1>4 DEF Progress, Offers, Unmoved, Supported

LEMMA FirstOfAppend ==
  ASSUME NEW q \in Seq(Piece), NEW e \in Piece
  PROVE  /\ Append(q, e) \in Seq(Piece) /\ Append(q, e) # <<>>
         /\ Append(q, e)[1] = IF q = <<>> THEN e ELSE q[1]
<1>1. /\ Append(q, e) \in Seq(Piece) /\ Append(q, e) # <<>>
      /\ Append(q, e)[Len(q) + 1] = e
      /\ \A i \in 1 .. Len(q) : Append(q, e)[i] = q[i]
  BY AppendProperties
<1>2. q = <<>> => Len(q) + 1 = 1
  OBVIOUS
<1>3. q # <<>> => 1 \in 1 .. Len(q)
  BY EmptySeq, LenProperties
<1> QED  BY <1>1, <1>2, <1>3

LEMMA ReadStep ==
  ASSUME IInv, Read
  PROVE  IInv' /\ Unmoved
<1> USE DEF IInv, Read, Waiting, given, host
<1> DEFINE piece == tcp.answer[tcp.read + 1]
<1>1. piece \in Piece /\ piece.ok = tcp.answer[1].ok /\ piece.session = tcp.answer[1].session
  <2>1. tcp.read \in 0 .. 2 /\ tcp.sent \in 0 .. 2 /\ tcp.answer # <<>>
    BY DEF Types, Connection, Answers
  <2>2. tcp.read + 1 = 1 \/ tcp.read + 1 = 2
    BY <2>1
  <2> QED  BY <2>1, <2>2 DEF Answers
<1>2. rtsp.receive \in Seq(Piece)
  BY DEF Types, RtspClientType
<1>3. rtsp' = [rtsp EXCEPT !.receive = Append(rtsp.receive, piece)]
  BY DEF HandleReceive
<1>4. tcp.read + 1 \in 0 .. 2
  BY DEF Types, Connection
<1>5. tcp' = [tcp EXCEPT !.read = tcp.read + 1]
  OBVIOUS
<1> HIDE DEF piece
<1>6. Types'
  <2>1. Append(rtsp.receive, piece) \in Seq(Piece)
    BY <1>1, <1>2, FirstOfAppend
  <2>2. rtsp' \in RtspClientType
    BY <1>3, <2>1 DEF Types, RtspClientType
  <2>3. tcp' \in Connection
    BY <1>4, <1>5 DEF Types, Connection
  <2> QED  BY <2>2, <2>3 DEF Types
<1>7. Asked' = Asked /\ Done' = Done /\ Granted' = Granted /\ Asked # "none"
  BY <1>3, <1>5 DEF Asked, Done, Granted, Types, RtspClientType, Connection, Streams, Requests
<1>8. Requests'
  BY <1>3, <1>5, <1>7 DEF Types, Requests, RtspClientType, Connection
<1>9. Answers'
  <2>1. rtsp'.receive[1] = IF rtsp.receive = <<>> THEN piece ELSE rtsp.receive[1]
    BY <1>1, <1>2, <1>3, FirstOfAppend DEF Types, RtspClientType
  <2>2. tcp'.answer = tcp.answer /\ tcp'.sent = tcp.sent /\ tcp.answer # <<>>
    BY <1>5 DEF Types, Connection, Answers
  <2>3. rtsp'.state = "WaitResponse" /\ rtsp'.current_response = rtsp.current_response
    BY <1>3 DEF Types, RtspClientType
  <2> QED  BY <1>1, <2>1, <2>2, <2>3 DEF Answers
<1> QED  BY <1>6, <1>7, <1>8, <1>9 DEF Progress, Offers, Unmoved, Supported

LEMMA ReadEndStep ==
  ASSUME IInv, ReadEnd
  PROVE  IInv' /\ (Unmoved \/ Abstract!Next)
<1> USE DEF IInv, ReadEnd, Waiting, given, host
<1>1. CASE Fail
  BY <1>1, FailStep
<1>2. CASE ~Fail
  <2>1. /\ rtsp.expect_response => Acceptable(rtsp)
        /\ rtsp' = HandleDisconnected(rtsp)
        /\ tcp' = NoConnection \/ tcp' = tcp
        /\ Unmoved /\ UNCHANGED <<state, offered, announced, started>>
    BY <1>2 DEF Unmoved
  <2>2. Types'
    <3>1. HandleDisconnected(rtsp) \in RtspClientType
      <4>1. rtsp \in RtspClientType /\ "Disconnected" \in RtspState
        BY DEF Types, RtspState
      <4>2. CASE rtsp.expect_response
        <5>1. /\ rtsp.receive \in Seq(Piece)
              /\ rtsp.sequence_number + 1 \in Nat
          BY <4>1 DEF RtspClientType
        <5>2. HandleDisconnected(rtsp)
                = [rtsp EXCEPT !.state = "Disconnected", !.receive = <<>>,
                               !.current_response = rtsp.receive,
                               !.sequence_number = rtsp.sequence_number + 1]
          BY <4>2 DEF HandleDisconnected
        <5> QED  BY <4>1, <5>1, <5>2, NoPieces DEF RtspClientType
      <4>3. CASE ~rtsp.expect_response
        BY <4>1, <4>3, NoPieces DEF HandleDisconnected, RtspClientType
      <4> QED  BY <4>2, <4>3
    <3> QED  BY <2>1, <3>1, FreshConnections DEF Types, Unmoved
  <2>3. /\ rtsp'.state = "Disconnected" /\ rtsp'.transmit = rtsp.transmit
        /\ rtsp'.expect_response = rtsp.expect_response
        /\ rtsp'.current_response = IF rtsp.expect_response THEN rtsp.receive ELSE <<>>
    BY <2>1 DEF HandleDisconnected, Types, RtspClientType, Answers
  <2>4. Asked' = Asked /\ Done' = Done /\ Granted' /\ Asked # "none"
    BY <2>1, <2>3 DEF Asked, Done, Granted, Unmoved, Streams, Requests
  <2>5. Asked \in SetupStream \cup {"announce"} => Granted
    <3>1. Asked \in SetupStream \cup {"announce"} => rtsp.expect_response
      BY <2>4 DEF Requests, SetupStream
    <3> QED  BY <2>1, <3>1 DEF Answers, Granted, Acceptable
  <2>6. Requests'
    BY <2>1, <2>3, <2>4 DEF Requests, NoConnection, SeesEnd
  <2>7. Answers'
    <3>1. rtsp.expect_response => rtsp.receive # <<>>
      BY <2>1 DEF Acceptable
    <3>2. rtsp'.current_response = <<>> <=> Asked' \in {"options", "play"}
      BY <2>3, <2>4, <3>1 DEF Requests
    <3>3. tcp' = NoConnection => tcp'.answer = <<>> /\ tcp'.sent = 0
      BY DEF NoConnection
    <3> QED  BY <2>1, <2>3, <3>2, <3>3 DEF Answers
  <2>8. Offers'
    BY <2>1, <2>4, <2>5 DEF Offers, Asked
  <2> QED  BY <2>1, <2>2, <2>4, <2>6, <2>7, <2>8 DEF Progress, Unmoved, Supported
<1> QED  BY <1>1, <1>2

LEMMA FailingSteps ==
  ASSUME IInv, ReadFails \/ CannotReach
  PROVE  IInv' /\ Abstract!Next
BY FailStep DEF ReadFails, CannotReach, Waiting

-----------------------------------------------------------------------------
(* Steps that end with a request to be sent, or with none.                  *)

\* r is a client that may send.
Ready(r) ==
  r \in RtspClientType /\ r.state = "WaitForSendRequest" /\ r.transmit = "none"
    /\ r.current_response = <<>>

LEMMA PolledIsReady ==
  ASSUME IInv, rtsp.state = "Disconnected"
  PROVE  Ready(PollResponse(rtsp)) /\ MaySend(PollResponse(rtsp))
BY NoPieces DEF IInv, Types, Requests, Ready, PollResponse, MaySend, RtspClientType, RtspState

LEMMA IdleIsReady ==
  ASSUME IInv, Idle
  PROVE  Ready(rtsp) /\ MaySend(rtsp) /\ ~Granted
BY DEF IInv, Types, Answers, Ready, MaySend, Idle, Granted

LEMMA NotOpen ==
  ASSUME IInv, rtsp.state \in {"WaitForSendRequest", "Disconnected"}
  PROVE  tcp.end # "open"
BY DEF IInv, Requests

LEMMA NextRequest ==
  ASSUME IInv, NEW r, Ready(r), rtsp.state \in {"WaitForSendRequest", "Disconnected"},
         NEW q \in Request, Asked' = q,
         rtsp' = IF q \in {"options", "play"} THEN SendNoResponse(r, q) ELSE Send(r, q),
         state' \in State, tcp' = tcp, mic' = mic, announced' = announced
  PROVE  Types' /\ Requests' /\ Answers' /\ ~Granted'
<1>1. /\ rtsp' \in RtspClientType
      /\ rtsp'.state = "WaitForSendRequest" /\ rtsp'.transmit = q
      /\ rtsp'.current_response = <<>>
      /\ rtsp'.expect_response <=> q \notin {"options", "play"}
  BY DEF Ready, Send, SendNoResponse, RtspClientType
<1>2. q # "none"
  BY DEF Request
<1>3. Types'
  BY <1>1 DEF IInv, Types
<1>4. Requests'
  BY <1>1, <1>2, NotOpen DEF Requests
<1>5. Answers' /\ ~Granted'
  BY <1>1 DEF IInv, Answers, Granted
<1> QED  BY <1>3, <1>4, <1>5

LEMMA NoRequest ==
  ASSUME IInv, NEW r, Ready(r), rtsp.state \in {"WaitForSendRequest", "Disconnected"},
         Asked' = "none", rtsp' = r,
         state' \in State, tcp' = tcp, mic' = mic, announced' = announced
  PROVE  Types' /\ Requests' /\ Answers' /\ ~Granted'
<1>1. Types'
  BY DEF IInv, Types, Ready
<1>2. Requests'
  BY NotOpen DEF Requests, Ready
<1>3. Answers' /\ ~Granted'
  BY DEF IInv, Answers, Granted, Ready
<1> QED  BY <1>1, <1>2, <1>3

LEMMA ConnectionOverStep ==
  ASSUME IInv, ConnectionOver
  PROVE  IInv' /\ Unmoved
<1> DEFINE r == PollResponse(rtsp)
<1>1. rtsp.state = "Disconnected" /\ Asked \in {"options", "play"} /\ started = Done
  BY DEF IInv, ConnectionOver, HasResponse, Response, Answers, Progress
<1>2. Ready(r) /\ MaySend(r)
  BY <1>1, PolledIsReady
<1> HIDE DEF r
<1>3. CASE state = "RtspOptionsReceive"
  <2>1. /\ rtsp' = Send(r, "describe") /\ state' = "RtspDescribeReceive"
        /\ tcp' = tcp /\ Unmoved
    BY <1>2, <1>3 DEF ConnectionOver, SendNext, Proceed, given, host, Unmoved, r
  <2>2. Asked' = "describe" /\ Done' = <<>> /\ Done = <<>> /\ Asked \notin SetupStream
    BY <1>3, <2>1 DEF Asked, Done, NoStreamYet, SetupStream
  <2>3. Types' /\ Requests' /\ Answers' /\ ~Granted'
    <3>1. "describe" \in Request /\ state' \in State
      BY <2>1 DEF Request, State
    <3> QED  BY <1>1, <1>2, <2>1, <2>2, <3>1, NextRequest DEF Unmoved
  <2>4. Progress'
    BY <1>1, <2>1, <2>2 DEF IInv, Progress, Unmoved, Supported
  <2>5. Offers'
    BY <1>3, <2>1, <2>2, <2>3 DEF IInv, Offers, Unmoved
  <2> QED  BY <2>1, <2>3, <2>4, <2>5 DEF IInv
<1>4. CASE state # "RtspOptionsReceive"
  <2>1. state = "RtspPlayReceive" /\ Asked = "play"
    BY <1>1, <1>4 DEF Asked
  <2>2. rtsp' = r /\ state' = "Connected" /\ tcp' = tcp /\ Unmoved
    BY <2>1 DEF ConnectionOver, Proceed, given, host, Unmoved, r
  <2>3. Asked' = "none" /\ Done' = Streams /\ Done = Streams /\ Asked \notin SetupStream
    BY <2>1, <2>2 DEF Asked, Done, NoStreamYet, SetupStream, Streams, Unmoved
  <2>4. Types' /\ Requests' /\ Answers' /\ ~Granted'
    <3>1. state' \in State
      BY <2>2 DEF State
    <3> QED  BY <1>1, <1>2, <2>2, <2>3, <3>1, NoRequest DEF Unmoved
  <2>5. Progress'
    BY <1>1, <2>2, <2>3 DEF IInv, Progress, Unmoved, Supported
  <2>6. Offers'
    BY <2>1, <2>2, <2>3, <2>4 DEF IInv, Offers, Unmoved, SetupStream
  <2> QED  BY <2>2, <2>4, <2>5, <2>6 DEF IInv
<1> QED  BY <1>3, <1>4

LEMMA DescribeStep ==
  ASSUME IInv, DescribeResponse
  PROVE  IInv' /\ (Unmoved \/ Abstract!Next)
<1> DEFINE r == PollResponse(rtsp)
<1>1. rtsp.state = "Disconnected" /\ state = "RtspDescribeReceive" /\ result = "running"
  BY DEF DescribeResponse, HasResponse
<1>2. Ready(r) /\ MaySend(r)
  BY <1>1, PolledIsReady
<1> HIDE DEF r
<1>3. CASE Fail
  BY <1>1, <1>3, FailStep
<1>4. CASE ~Fail
  <2>1. rtsp' = Send(r, "audio") /\ state' = "SetupAudio" /\ tcp' = tcp /\ Unmoved
    BY <1>2, <1>4 DEF DescribeResponse, SendNext, Proceed, given, host, Unmoved, r
  <2>2. Asked' = "audio" /\ Done' = <<>> /\ Done = <<>> /\ Asked \notin SetupStream
    BY <1>1, <2>1 DEF Asked, Done, NoStreamYet, SetupStream
  <2>3. Types' /\ Requests' /\ Answers' /\ ~Granted'
    <3>1. "audio" \in Request /\ state' \in State
      BY <2>1, AwaitingIs DEF Request, State, SetupStream
    <3> QED  BY <1>1, <1>2, <2>1, <2>2, <3>1, NextRequest DEF Unmoved
  <2>4. Progress'
    BY <2>1, <2>2 DEF IInv, Progress, Unmoved, Supported
  <2>5. Offers'
    BY <1>1, <2>1, <2>2, <2>3 DEF IInv, Offers, Unmoved
  <2> QED  BY <2>1, <2>3, <2>4, <2>5 DEF IInv
<1> QED  BY <1>3, <1>4

LEMMA AnnounceStep ==
  ASSUME IInv, AnnounceResponse
  PROVE  IInv' /\ Unmoved
<1> DEFINE r == PollResponse(rtsp)
<1>1. rtsp.state = "Disconnected" /\ state = "RtspAnnounceReceive"
  BY DEF AnnounceResponse, HasResponse
<1>2. Ready(r) /\ MaySend(r)
  BY <1>1, PolledIsReady
<1> HIDE DEF r
<1>3. rtsp' = SendNoResponse(r, "play") /\ state' = "RtspPlayReceive" /\ tcp' = tcp /\ Unmoved
  BY <1>2 DEF AnnounceResponse, Proceed, given, host, Unmoved, r
<1>4. Asked' = "play" /\ Done' = Done /\ {Asked, Asked'} \cap SetupStream = {} /\ Granted
  BY <1>1, <1>3 DEF Asked, Done, NoStreamYet, SetupStream, Streams, Unmoved, Granted
<1>5. Types' /\ Requests' /\ Answers' /\ ~Granted'
  <2>1. "play" \in Request /\ state' \in State
    BY <1>3 DEF Request, State
  <2> QED  BY <1>1, <1>2, <1>3, <1>4, <2>1, NextRequest DEF Unmoved
<1>6. Progress'
  BY <1>3, <1>4 DEF IInv, Progress, Unmoved, Supported
<1>7. Offers'
  BY <1>1, <1>3, <1>4, <1>5 DEF IInv, Offers, Unmoved
<1> QED  BY <1>3, <1>5, <1>6, <1>7 DEF IInv

LEMMA AppendIs ==
  ASSUME NEW S, NEW q \in Seq(S), NEW e \in S, NEW t \in Seq(S),
         Len(t) = Len(q) + 1, t[Len(q) + 1] = e, \A i \in 1 .. Len(q) : t[i] = q[i]
  PROVE  Append(q, e) = t
<1>1. Append(q, e) \in Seq(S) /\ Len(Append(q, e)) = Len(t)
  BY AppendProperties
<1>2. ASSUME NEW i \in 1 .. Len(t) PROVE Append(q, e)[i] = t[i]
  BY AppendProperties, LenProperties
<1> QED  BY <1>1, <1>2, SeqEqual

LEMMA Appended ==
  /\ Append(<<>>, "audio") = <<"audio">>
  /\ Append(<<"audio">>, "video") = <<"audio", "video">>
  /\ Append(<<"audio", "video">>, "mic") = <<"audio", "video", "mic">>
  /\ Append(<<"audio", "video">>, "control") = <<"audio", "video", "control">>
  /\ Append(<<"audio", "video", "mic">>, "control") = <<"audio", "video", "mic", "control">>
<1> DEFINE none == <<>>
           a == <<"audio">>
           av == <<"audio", "video">>
           avm == <<"audio", "video", "mic">>
           avc == <<"audio", "video", "control">>
           avmc == <<"audio", "video", "mic", "control">>
<1>1. /\ none \in Seq(SetupStream) /\ a \in Seq(SetupStream) /\ av \in Seq(SetupStream)
      /\ avm \in Seq(SetupStream) /\ avc \in Seq(SetupStream) /\ avmc \in Seq(SetupStream)
  BY DEF SetupStream
<1>2. Len(none) = 0 /\ Len(a) = 1 /\ Len(av) = 2 /\ Len(avm) = 3 /\ Len(avc) = 3 /\ Len(avmc) = 4
  OBVIOUS
<1>3. /\ a[1] = "audio" /\ av[1] = "audio" /\ av[2] = "video"
      /\ avm[1] = "audio" /\ avm[2] = "video" /\ avm[3] = "mic"
      /\ avc[1] = "audio" /\ avc[2] = "video" /\ avc[3] = "control"
      /\ avmc[1] = "audio" /\ avmc[2] = "video" /\ avmc[3] = "mic" /\ avmc[4] = "control"
  OBVIOUS
<1> HIDE DEF none, a, av, avm, avc, avmc
<1>4. Append(none, "audio") = a
  <2>1. "audio" \in SetupStream /\ Len(a) = Len(none) + 1 /\ a[Len(none) + 1] = "audio"
    BY <1>2, <1>3 DEF SetupStream
  <2>2. \A i \in 1 .. Len(none) : a[i] = none[i]
    BY <1>2
  <2> QED  BY <1>1, <2>1, <2>2, AppendIs
<1>5. Append(a, "video") = av
  <2>1. "video" \in SetupStream /\ Len(av) = Len(a) + 1 /\ av[Len(a) + 1] = "video"
    BY <1>2, <1>3 DEF SetupStream
  <2>2. \A i \in 1 .. Len(a) : av[i] = a[i]
    BY <1>2, <1>3
  <2> QED  BY <1>1, <2>1, <2>2, AppendIs
<1>6. Append(av, "mic") = avm /\ Append(av, "control") = avc
  <2>1. /\ {"mic", "control"} \subseteq SetupStream /\ Len(avm) = Len(av) + 1 /\ Len(avc) = Len(av) + 1
        /\ avm[Len(av) + 1] = "mic" /\ avc[Len(av) + 1] = "control"
    BY <1>2, <1>3 DEF SetupStream
  <2>2. \A i \in 1 .. Len(av) : avm[i] = av[i] /\ avc[i] = av[i]
    BY <1>2, <1>3
  <2> QED  BY <1>1, <2>1, <2>2, AppendIs
<1>7. Append(avm, "control") = avmc
  <2>1. "control" \in SetupStream /\ Len(avmc) = Len(avm) + 1 /\ avmc[Len(avm) + 1] = "control"
    BY <1>2, <1>3 DEF SetupStream
  <2>2. \A i \in 1 .. Len(avm) : avmc[i] = avm[i]
    BY <1>2, <1>3
  <2> QED  BY <1>1, <2>1, <2>2, AppendIs
<1> QED  BY <1>4, <1>5, <1>6, <1>7 DEF none, a, av, avm, avc, avmc

\* Where the stream asked for stands in the order of the streams.
LEMMA AskedIsNext ==
  ASSUME Asked \in SetupStream, IInv
  PROVE  /\ Done \in Seq(SetupStream)
         /\ Len(Done) < Len(Streams) /\ Streams[Len(Done) + 1] = Asked
<1>1. CASE Asked = "audio"
  <2>1. Done = <<>>
    BY <1>1 DEF Asked, Done, NoStreamYet
  <2>2. Done \in Seq(SetupStream) /\ Len(Done) = 0
    BY <2>1
  <2> QED  BY <1>1, <2>2 DEF Streams
<1>2. CASE Asked = "video"
  <2>1. Done = <<"audio">>
    BY <1>2 DEF Asked, Done, NoStreamYet
  <2> QED  BY <1>2, <2>1 DEF Streams, SetupStream
<1>3. CASE Asked = "mic"
  <2>1. Done = <<"audio", "video">> /\ mic
    BY <1>3 DEF Asked, Done, NoStreamYet, IInv, Progress
  <2> QED  BY <1>3, <2>1 DEF Streams, SetupStream
<1>4. CASE Asked = "control"
  <2>1. Done = IF mic THEN <<"audio", "video", "mic">> ELSE <<"audio", "video">>
    BY <1>4 DEF Asked, Done, NoStreamYet
  <2>2. CASE mic
    BY <1>4, <2>1, <2>2 DEF Streams, SetupStream
  <2>3. CASE ~mic
    BY <1>4, <2>1, <2>3 DEF Streams, SetupStream
  <2> QED  BY <2>2, <2>3
<1> QED  BY <1>1, <1>2, <1>3, <1>4 DEF SetupStream

LEMMA StreamStep ==
  ASSUME IInv, SessionInv, NEW s \in SetupStream, StreamResponse(s)
  PROVE  IInv' /\ Abstract!Next
<1> DEFINE r == PollResponse(rtsp)
<1>1. rtsp.state = "Disconnected" /\ state = Awaiting[s] /\ result = "running" /\ Granted
  BY DEF StreamResponse, HasResponse, Granted
<1>2. Ready(r)
  BY <1>1, PolledIsReady
<1>3. Asked = s
  BY <1>1, AwaitingIs DEF Asked, SetupStream
<1>4. s = "audio" \/ session_id # None
  BY <1>1, AwaitingIs, SessionAssumption DEF SetupStream, SessionInv, NoStreamYet
<1> HIDE DEF r
<1>5. CASE Fail
  BY <1>1, <1>5, FailStep
<1>7. offered = Append(Done, s) /\ started = Done /\ panicked = FALSE
  BY <1>1, <1>3 DEF IInv, Offers, Progress
<1>8. Len(offered) = Len(started) + 1
  BY <1>3, <1>7, AskedIsNext, AppendProperties
<1>9. offered = Streams <=> s = "control"
  <2>1. CASE s = "audio"
    <3>1. offered = <<"audio">>
      BY <1>1, <1>7, <2>1, AwaitingIs, Appended DEF Done, NoStreamYet
    <3> QED  BY <2>1, <3>1 DEF Streams
  <2>2. CASE s = "video"
    <3>1. offered = <<"audio", "video">>
      BY <1>1, <1>7, <2>2, AwaitingIs, Appended DEF Done, NoStreamYet
    <3> QED  BY <2>2, <3>1 DEF Streams
  <2>3. CASE s = "mic"
    <3>1. offered = <<"audio", "video", "mic">> /\ mic
      BY <1>1, <1>7, <2>3, AwaitingIs, Appended DEF Done, NoStreamYet, IInv, Progress
    <3> QED  BY <2>3, <3>1 DEF Streams
  <2>4. CASE s = "control"
    BY <1>1, <1>7, <2>4, AwaitingIs, Appended DEF Done, NoStreamYet, Streams
  <2> QED  BY <2>1, <2>2, <2>3, <2>4 DEF SetupStream
<1>10. CASE s = "control" /\ ~Supported /\ ~Fail
  <2>1. panicked' = TRUE /\ result' = "failed"
        /\ UNCHANGED <<mic, major, rtsp, state, tcp, started, offered, announced>>
    BY <1>4, <1>10 DEF StreamResponse, Panic, given, host
  <2>2. IInv'
    <3>1. Asked' = Asked /\ Done' = Done /\ (Granted' <=> Granted)
      BY <2>1 DEF Asked, Done, Granted, Streams
    <3> QED  BY <1>10, <2>1, <3>1 DEF IInv, Types, Progress, Requests, Answers, Offers, Supported
  <2>3. Abstract!Panic
    BY <1>1, <1>7, <1>8, <1>9, <1>10, <2>1 DEF Abstract!Panic, Streams, Supported
  <2> QED  BY <2>2, <2>3 DEF Abstract!Next
<1>6. CASE (s = "control" => Supported) /\ ~Fail
  <2>1. /\ rtsp' = r /\ state' = Received[s] /\ started' = Append(started, s)
        /\ UNCHANGED <<mic, major, tcp, result, panicked, offered, announced>>
    BY <1>4, <1>6 DEF StreamResponse, StartStream, given, host, r
  <2>2. Asked' = "none" /\ Done' = Append(Done, s)
    <3>1. CASE s = "audio"
      BY <1>1, <2>1, <3>1, AwaitingIs, Appended DEF Asked, Done, NoStreamYet
    <3>2. CASE s = "video"
      BY <1>1, <2>1, <3>2, AwaitingIs, Appended DEF Asked, Done, NoStreamYet
    <3>3. CASE s = "mic"
      BY <1>1, <2>1, <3>3, AwaitingIs, Appended DEF Asked, Done, NoStreamYet
    <3>4. CASE s = "control"
      BY <1>1, <2>1, <3>4, AwaitingIs, Appended DEF Asked, Done, NoStreamYet, Streams
    <3> QED  BY <3>1, <3>2, <3>3, <3>4 DEF SetupStream
  <2>3. Types' /\ Requests' /\ Answers' /\ ~Granted'
    <3>1. state' \in State
      BY <2>1, AwaitingIs DEF State, Received, SetupStream
    <3> QED  BY <1>1, <1>2, <2>1, <2>2, <3>1, NoRequest
  <2>4. Progress'
    <3>1. state' = "RtspSetupFoundationMicReceive" => state = "SetupFoundationMic"
      BY <1>1, <2>1, AwaitingIs DEF SetupStream
    <3>2. state' # "SetupFoundationMic"
      BY <2>1, AwaitingIs DEF SetupStream
    <3> QED  BY <2>1, <2>2, <3>1, <3>2 DEF IInv, Progress, Supported
  <2>5. Offers'
    <3>1. {state, state'} \cap {"RtspPlayReceive", "Connected", "RtspAnnounceReceive"} = {}
      BY <1>1, <2>1, AwaitingIs DEF SetupStream
    <3> QED  BY <1>1, <1>3, <2>1, <2>2, <2>3, <3>1 DEF IInv, Offers, SetupStream
  <2>6. Abstract!Start
    BY <1>1, <1>6, <1>7, <1>8, <1>9, <2>1 DEF Abstract!Start, Streams, Supported
  <2> QED  BY <2>1, <2>3, <2>4, <2>5, <2>6 DEF IInv, Abstract!Next
<1> QED  BY <1>5, <1>6, <1>10

LEMMA RequestStep ==
  ASSUME IInv, RequestVideo \/ RequestAfterVideo \/ RequestControl \/ RequestAnnounce
  PROVE  IInv' /\ Unmoved
<1>1. Ready(rtsp) /\ MaySend(rtsp) /\ ~Granted /\ rtsp.state = "WaitForSendRequest"
  BY IdleIsReady DEF RequestVideo, RequestAfterVideo, RequestControl, RequestAnnounce, Ready
<1> DEFINE q == IF state = "RtspSetupAudioReceive" THEN "video"
                ELSE IF state = "RtspSetupVideoReceive" THEN AfterVideo
                ELSE IF state = "RtspSetupFoundationMicReceive" THEN "control"
                ELSE "announce"
<1>2. /\ rtsp' = Send(rtsp, q) /\ tcp' = tcp /\ Unmoved
      /\ state' = IF q = "announce" THEN "RtspAnnounceReceive" ELSE Awaiting[q]
      /\ state \in {"RtspSetupAudioReceive", "RtspSetupVideoReceive",
                    "RtspSetupFoundationMicReceive", "RtspSetupControlReceive"}
      /\ q \in {"video", "mic", "control", "announce"}
  BY <1>1, AwaitingIs DEF RequestVideo, RequestAfterVideo, RequestControl, RequestAnnounce, SendNext,
     Proceed, given, host, Unmoved, AfterVideo
<1>3. /\ Asked' = q /\ Done' = Done
      /\ state' \in {"SetupFoundationMic", "RtspSetupFoundationMicReceive"} => mic
      /\ state' \in State \ {"RtspPlayReceive", "Connected"}
  <2>1. mic' = mic /\ (state = "RtspSetupFoundationMicReceive" => mic)
    BY <1>2 DEF Unmoved, IInv, Progress
  <2> USE DEF Asked, Done, NoStreamYet, Streams, AfterVideo, State, SetupStream
  <2>2. CASE state = "RtspSetupAudioReceive"
    BY <1>2, <2>1, <2>2, AwaitingIs
  <2>3. CASE state = "RtspSetupVideoReceive"
    BY <1>2, <2>1, <2>3, AwaitingIs
  <2>4. CASE state = "RtspSetupFoundationMicReceive"
    BY <1>2, <2>1, <2>4, AwaitingIs
  <2>5. CASE state = "RtspSetupControlReceive"
    BY <1>2, <2>1, <2>5, AwaitingIs
  <2> QED  BY <1>2, <2>2, <2>3, <2>4, <2>5
<1> HIDE DEF q
<1>4. Types' /\ Requests' /\ Answers' /\ ~Granted'
  <2>1. q \in Request /\ q \notin {"options", "play"}
    BY <1>2 DEF Request
  <2> QED  BY <1>1, <1>2, <1>3, <2>1, NextRequest DEF Unmoved
<1>5. Progress' /\ Offers'
  BY <1>1, <1>2, <1>3, <1>4 DEF IInv, Progress, Offers, Unmoved, Supported
<1> QED  BY <1>2, <1>4, <1>5 DEF IInv

LEMMA ConnectedStep ==
  ASSUME IInv, SetupConnected
  PROVE  IInv' /\ Abstract!Next
<1>1. result = "running" /\ state = "Connected"
  BY DEF SetupConnected, Idle
<1>2. CASE Fail
  BY <1>1, <1>2, FailStep
<1>3. CASE ~Fail
  <2>1. /\ result' = "connected"
        /\ UNCHANGED <<mic, major, rtsp, state, tcp, started, panicked, offered, announced>>
    BY <1>3 DEF SetupConnected, given, host
  <2>2. Asked' = Asked /\ Done' = Done /\ (Granted' <=> Granted)
    BY <2>1 DEF Asked, Done, Granted, Streams
  <2>3. IInv'
    BY <1>1, <2>1, <2>2 DEF IInv, Types, Progress, Requests, Answers, Offers, Supported
  <2>4. Abstract!Connect
    BY <1>1, <2>1 DEF IInv, Progress, Offers, Streams, Supported, Abstract!Connect
  <2> QED  BY <2>3, <2>4 DEF Abstract!Next
<1> QED  BY <1>2, <1>3

-----------------------------------------------------------------------------
(* The host.                                                                *)

LEMMA AnswerIs ==
  ASSUME NEW cseq \in Nat, NEW ok \in BOOLEAN, NEW session \in Session
  PROVE  LET a == Answer(cseq, ok, session)
         IN  /\ a \in Seq(Piece) /\ a # <<>> /\ a[1] \in Piece /\ a[2] \in Piece
             /\ a[1].ok = ok /\ a[2].ok = ok /\ a[1].session = session /\ a[2].session = session
BY DEF Answer, Piece

LEMMA ServeStep ==
  ASSUME IInv, Serve
  PROVE  IInv' /\ (Unmoved \/ Abstract!Next)
<1>1. /\ tcp.end = "open" /\ tcp.request # "none" /\ tcp.answer = <<>> /\ tcp.cseq \in Nat
      /\ UNCHANGED <<mic, major, rtsp, state, started, result, panicked>>
  BY DEF Serve, Answered, client, given, IInv, Types, Connection
<1>2. PICK cseq \in {tcp.cseq, tcp.cseq + 1}, ok \in BOOLEAN, session \in Session :
        /\ tcp' = [tcp EXCEPT !.answer = Answer(cseq, ok, session)]
        /\ offered' = IF ok /\ tcp.request \in SetupStream THEN Append(offered, tcp.request) ELSE offered
        /\ announced' = (announced \/ (ok /\ tcp.request = "announce"))
  BY AwaitingIs DEF Serve
<1>3. rtsp.state = "WaitResponse" /\ tcp.request = Asked /\ ~Granted
  BY <1>1 DEF IInv, Requests, Granted
<1> DEFINE a == Answer(cseq, ok, session)
<1>4. /\ a \in Seq(Piece) /\ a # <<>> /\ a[1] \in Piece /\ a[2] \in Piece
      /\ a[1].ok = ok /\ a[2].ok = ok /\ a[1].session = session /\ a[2].session = session
  <2>1. cseq \in Nat
    BY <1>1
  <2> QED  BY <2>1, AnswerIs
<1>5. tcp' = [tcp EXCEPT !.answer = a] /\ tcp \in Connection
  BY <1>2 DEF IInv, Types
<1> HIDE DEF a
<1>6. tcp'.answer = a /\ tcp' \in Connection
      /\ tcp'.sent = tcp.sent /\ tcp'.end = tcp.end /\ tcp'.request = tcp.request
  BY <1>4, <1>5 DEF Connection
<1>7. Asked' = Asked /\ Done' = Done /\ (Granted' <=> ok)
  BY <1>1, <1>3, <1>4, <1>6 DEF Asked, Done, Streams, Granted
<1>8. announced' \in BOOLEAN /\ announced \in BOOLEAN
  BY <1>2 DEF IInv, Types
<1>9. Types' /\ Progress'
  BY <1>1, <1>6, <1>7, <1>8 DEF IInv, Types, Progress, Supported
<1>10. Requests'
  BY <1>1, <1>3, <1>6, <1>7 DEF IInv, Requests
<1>11. Answers'
  <2>1. rtsp.receive = <<>>
    BY <1>1, <1>3 DEF IInv, Answers
  <2> QED  BY <1>1, <1>4, <1>6, <1>7, <2>1 DEF IInv, Answers
<1>12. Asked = "announce" <=> state = "RtspAnnounceReceive"
  BY DEF Asked
<1>13. Offers'
  BY <1>1, <1>2, <1>3, <1>7, <1>8, <1>12 DEF IInv, Offers, SetupStream
<1>14. CASE ok /\ Asked \in SetupStream
  <2>1. offered = started /\ started = Done
    BY <1>3 DEF IInv, Offers, Progress
  <2>2. announced' = announced /\ offered' = Append(offered, Asked)
    BY <1>2, <1>3, <1>8, <1>14 DEF SetupStream
  <2>3. Abstract!Offer
    BY <1>1, <1>14, <2>1, <2>2, AskedIsNext DEF Abstract!Offer, Streams, Supported
  <2> QED  BY <1>9, <1>10, <1>11, <1>13, <2>3 DEF IInv, Abstract!Next
<1>15. CASE ok /\ Asked = "announce"
  <2>1. offered' = offered /\ announced' = TRUE
    BY <1>2, <1>3, <1>15 DEF SetupStream
  <2>2. started = Streams /\ announced = FALSE
    BY <1>3, <1>8, <1>12, <1>15 DEF IInv, Progress, Offers, Done, NoStreamYet
  <2>3. Abstract!Announce
    BY <1>1, <2>1, <2>2 DEF Abstract!Announce, Streams, Supported
  <2> QED  BY <1>9, <1>10, <1>11, <1>13, <2>3 DEF IInv, Abstract!Next
<1>16. CASE ~ok \/ Asked \notin SetupStream \cup {"announce"}
  <2>1. offered' = offered /\ announced' = announced
    BY <1>2, <1>3, <1>8, <1>16
  <2> QED  BY <1>1, <1>9, <1>10, <1>11, <1>13, <2>1 DEF IInv, Unmoved
<1> QED  BY <1>14, <1>15, <1>16

LEMMA PieceOrEndStep ==
  ASSUME IInv, SendPiece \/ End
  PROVE  IInv' /\ Unmoved
<1>1. Unmoved /\ UNCHANGED <<rtsp, state, started>>
  BY DEF SendPiece, End, client, given, host, Unmoved
<1>2. /\ tcp' \in Connection /\ tcp'.answer = tcp.answer /\ tcp'.request = tcp.request
      /\ tcp'.sent > 0 => tcp.answer # <<>>
      /\ tcp'.end = "open" => tcp.end = "open"
      /\ tcp.end = "open"
  BY DEF IInv, Types, Connection, SendPiece, End, Answered, Answers
<1>3. rtsp.state = "SendRequest" => tcp'.sent = 0
  BY DEF IInv, Types, Connection, SendPiece, End, Answered, Requests
<1>4. Asked' = Asked /\ Done' = Done /\ (Granted' <=> Granted)
  BY <1>1, <1>2 DEF Asked, Done, Streams, Granted, Unmoved
<1> QED  BY <1>1, <1>2, <1>3, <1>4 DEF IInv, Types, Progress, Requests, Answers, Offers, Unmoved,
     Supported

-----------------------------------------------------------------------------
(* The session.                                                             *)

LEMMA SameSession ==
  ASSUME SessionInv, UNCHANGED <<state, audio_session, session_id, sessions>>,
         result' # "connected" \/ result' = result,
         Asked \in SetupStream => /\ Granted' <=> Granted
                                  /\ Granted => AnsweredSession' = AnsweredSession
  PROVE  SessionInv'
<1>1. Asked' = Asked /\ Settled' = Settled
  BY DEF Asked, Settled, NoStreamYet
<1>2. sessions' = IF Asked' \in SetupStream /\ Granted' THEN Settled' \cup {AnsweredSession'}
                  ELSE Settled'
  <2>1. CASE Asked \in SetupStream /\ Granted
    BY <1>1, <2>1 DEF SessionInv
  <2>2. CASE ~(Asked \in SetupStream /\ Granted)
    BY <1>1, <2>2 DEF SessionInv
  <2> QED  BY <2>1, <2>2
<1> QED  BY <1>2 DEF SessionInv, NoStreamYet

LEMMA NextSession ==
  ASSUME SessionInv, UNCHANGED <<audio_session, sessions, result>>, result = "running",
         Asked \notin SetupStream \/ ~Granted, ~Granted',
         \/ /\ session_id' = session_id /\ Settled' = Settled
            /\ \/ state' \in NoStreamYet
               \/ {state, state'} \cap (NoStreamYet \cup {"RtspSetupAudioReceive"}) = {}
         \/ session_id' = audio_session /\ state = "RtspSetupAudioReceive" /\ state' = "SetupVideo"
  PROVE  SessionInv'
<1>1. sessions = Settled /\ result' # "connected"
  BY DEF SessionInv
<1>2. sessions' = Settled'
  BY <1>1 DEF Settled, NoStreamYet
<1> QED  BY <1>1, <1>2 DEF SessionInv, NoStreamYet

LEMMA FailSession ==
  ASSUME SessionInv, Fail
  PROVE  SessionInv'
BY SameSession DEF Fail, host, Granted, AnsweredSession

LEMMA RequestUnderWaySession ==
  ASSUME IInv, SessionInv, Connect \/ Write \/ Read \/ ReadEnd
  PROVE  SessionInv'
<1>1. CASE Connect
  <2>1. ~Granted /\ ~Granted'
    BY <1>1 DEF Connect, PollConnect, Granted, IInv, Types, RtspClientType
  <2> QED  BY <1>1, <2>1, SameSession DEF Connect, host
<1>2. CASE Write
  <2>1. ~Granted /\ ~Granted'
    BY <1>2 DEF Write, PollWrite, Granted, IInv, Types, RtspClientType, Requests, Connection
  <2> QED  BY <1>2, <2>1, SameSession DEF Write, host
<1>3. CASE Read
  <2>1. rtsp'.state = rtsp.state /\ tcp'.answer = tcp.answer /\ rtsp.state = "WaitResponse"
    BY <1>3 DEF Read, Waiting, HandleReceive, IInv, Types, RtspClientType, Connection
  <2>2. (Granted' <=> Granted) /\ AnsweredSession' = AnsweredSession
    BY <2>1 DEF Granted, AnsweredSession
  <2> QED  BY <1>3, <2>2, SameSession DEF Read, host
<1>4. CASE ReadEnd /\ ~Fail
  <2>1. /\ rtsp.state = "WaitResponse"
        /\ rtsp.expect_response => Acceptable(rtsp)
        /\ rtsp' = HandleDisconnected(rtsp)
        /\ UNCHANGED <<state, audio_session, session_id, sessions, result>>
    BY <1>4 DEF ReadEnd, Waiting, host
  <2>2. /\ rtsp'.state = "Disconnected"
        /\ rtsp.expect_response => rtsp'.current_response = rtsp.receive
    BY <2>1 DEF HandleDisconnected, IInv, Types, RtspClientType
  <2>3. Asked \in SetupStream => rtsp.expect_response
    BY DEF IInv, Requests, SetupStream
  <2>4. Asked \in SetupStream => Granted /\ Granted' /\ AnsweredSession' = AnsweredSession
    BY <2>1, <2>2, <2>3 DEF Granted, AnsweredSession, IInv, Answers, Acceptable
  <2> QED  BY <2>1, <2>4, SameSession
<1> QED  BY <1>1, <1>2, <1>3, <1>4, FailSession

LEMMA NoStreamSession ==
  ASSUME IInv, SessionInv, ConnectionOver \/ DescribeResponse \/ AnnounceResponse
  PROVE  SessionInv'
<1>1. CASE Fail
  BY <1>1, FailSession
<1>2. CASE ~Fail
  <2>1. rtsp.state = "Disconnected" /\ result = "running"
    BY DEF ConnectionOver, DescribeResponse, AnnounceResponse, HasResponse
  <2>2. Ready(PollResponse(rtsp)) /\ MaySend(PollResponse(rtsp))
    BY <2>1, PolledIsReady
  <2>3. ConnectionOver => state \in {"RtspOptionsReceive", "RtspPlayReceive"}
    BY <2>1 DEF ConnectionOver, Response, IInv, Answers, Asked
  <2>4. /\ UNCHANGED <<audio_session, session_id, sessions, result>>
        /\ \/ rtsp' = PollResponse(rtsp)
           \/ \E q \in Request : rtsp' \in {Send(PollResponse(rtsp), q),
                                         SendNoResponse(PollResponse(rtsp), q)}
        /\ \/ state = "RtspOptionsReceive" /\ state' = "RtspDescribeReceive"
           \/ state = "RtspDescribeReceive" /\ state' = "SetupAudio"
           \/ state = "RtspAnnounceReceive" /\ state' = "RtspPlayReceive"
           \/ state = "RtspPlayReceive" /\ state' = "Connected"
    BY <1>2, <2>2, <2>3 DEF ConnectionOver, DescribeResponse, AnnounceResponse, SendNext, Proceed,
       host, Request
  <2>5. ~Granted'
    BY <2>2, <2>4 DEF Ready, Send, SendNoResponse, Granted, RtspClientType
  <2>6. Asked \notin SetupStream /\ Settled' = Settled
    BY <2>4 DEF Asked, SetupStream, Settled, NoStreamYet
  <2> QED  BY <2>1, <2>4, <2>5, <2>6, NextSession DEF NoStreamYet
<1> QED  BY <1>1, <1>2

LEMMA StreamSession ==
  ASSUME IInv, SessionInv, NEW s \in SetupStream, StreamResponse(s)
  PROVE  SessionInv'
<1>1. /\ rtsp.state = "Disconnected" /\ Response # <<>> /\ Response \in Seq(Piece)
      /\ state = Awaiting[s] /\ Asked = s /\ Granted /\ result = "running"
  BY AwaitingIs DEF StreamResponse, HasResponse, Response, Granted, Asked, SetupStream, IInv, Types,
     RtspClientType
<1>2. Response[1].session \in Session
  <2>1. Len(Response) \in Nat \ {0}
    BY <1>1, EmptySeq
  <2>2. Response[1] \in Piece
    BY <1>1, <2>1, ElementOfSeq
  <2> QED  BY <2>2 DEF Piece
<1>3. s = "audio" \/ session_id \in Session
  BY <1>1, AwaitingIs DEF SetupStream, SessionInv, NoStreamYet
<1>4. CASE Fail
  BY <1>4, FailSession
<1>6. CASE Panic
  <2>1. /\ UNCHANGED <<rtsp, state, audio_session, session_id, sessions, tcp>>
        /\ result' # "connected"
    BY <1>6 DEF Panic, host
  <2> QED  BY <2>1, SameSession DEF Granted, AnsweredSession
<1>5. CASE ~Fail /\ ~Panic
  <2>1. /\ rtsp' = PollResponse(rtsp) /\ state' = Received[s]
        /\ audio_session' = IF s = "audio" THEN Response[1].session ELSE audio_session
        /\ UNCHANGED <<session_id, result, sessions>>
        /\ s = "audio" \/ Response[1].session = session_id
    BY <1>3, <1>5, SessionAssumption DEF StreamResponse, StartStream, InSession, host
  <2>2. ~Granted'
    BY <1>1, <2>1, PolledIsReady DEF Ready, Granted
  <2>3. sessions = Settled \cup {Response[1].session}
    BY <1>1 DEF SessionInv, AnsweredSession, Response
  <2>4. CASE s = "audio"
    <3>1. state' = "RtspSetupAudioReceive" /\ Settled = {} /\ Settled' = {audio_session'}
      BY <1>1, <2>1, <2>4, AwaitingIs DEF Settled, NoStreamYet
    <3>2. sessions' = Settled' /\ audio_session' \in Session
      BY <1>2, <2>1, <2>3, <2>4, <3>1
    <3> QED  BY <1>1, <2>1, <2>2, <3>1, <3>2 DEF SessionInv, NoStreamYet
  <2>5. CASE s # "audio"
    <3>1. {state, state'} \cap (NoStreamYet \cup {"RtspSetupAudioReceive"}) = {}
      BY <1>1, <2>1, <2>5, AwaitingIs DEF NoStreamYet, SetupStream
    <3>2. sessions' = Settled'
      BY <2>1, <2>3, <2>5, <3>1 DEF Settled
    <3> QED  BY <1>1, <1>3, <2>1, <2>2, <2>5, <3>1, <3>2 DEF SessionInv
  <2> QED  BY <2>4, <2>5
<1> QED  BY <1>4, <1>5, <1>6

LEMMA RequestSession ==
  ASSUME IInv, SessionInv, RequestVideo \/ RequestAfterVideo \/ RequestControl \/ RequestAnnounce
  PROVE  SessionInv'
<1>1. MaySend(rtsp) /\ ~Granted /\ rtsp \in RtspClientType /\ result = "running"
  BY IdleIsReady DEF RequestVideo, RequestAfterVideo, RequestControl, RequestAnnounce, Ready, Idle
<1>2. /\ UNCHANGED <<audio_session, sessions, result>>
      /\ rtsp'.state = "WaitForSendRequest"
      /\ \/ /\ state = "RtspSetupAudioReceive" /\ state' = "SetupVideo"
            /\ session_id' = audio_session
         \/ /\ state \in {"RtspSetupVideoReceive", "RtspSetupFoundationMicReceive",
                          "RtspSetupControlReceive"}
            /\ state' \in {"SetupFoundationMic", "SetupControl", "RtspAnnounceReceive"}
            /\ session_id' = session_id
  BY <1>1, AwaitingIs DEF RequestVideo, RequestAfterVideo, RequestControl, RequestAnnounce, SendNext,
     Proceed, given, host, AfterVideo, MaySend, Send, RtspClientType
<1>3. ~Granted'
  BY <1>2 DEF Granted
<1>4. \/ /\ session_id' = session_id /\ Settled' = Settled
         /\ {state, state'} \cap (NoStreamYet \cup {"RtspSetupAudioReceive"}) = {}
      \/ session_id' = audio_session /\ state = "RtspSetupAudioReceive" /\ state' = "SetupVideo"
  BY <1>2 DEF Settled, NoStreamYet
<1> QED  BY <1>1, <1>2, <1>3, <1>4, NextSession

LEMMA ConnectedSession ==
  ASSUME SessionInv, SetupConnected
  PROVE  SessionInv'
<1>1. CASE Fail
  BY <1>1, FailSession
<1>2. CASE ~Fail
  <2>1. /\ state = "Connected"
        /\ UNCHANGED <<rtsp, state, audio_session, session_id, tcp, sessions>>
    BY <1>2 DEF SetupConnected, Idle, host
  <2> QED  BY <2>1 DEF SessionInv, Asked, Granted, Settled, AnsweredSession, NoStreamYet
<1> QED  BY <1>1, <1>2

LEMMA HostSession ==
  ASSUME IInv, SessionInv, HostStep
  PROVE  SessionInv'
<1>1. UNCHANGED <<rtsp, state, audio_session, session_id, result>>
  BY DEF HostStep, Serve, SendPiece, End, client
<1>2. CASE Serve
  <2>1. tcp.answer = <<>> /\ rtsp.state = "WaitResponse" /\ tcp.request = Asked /\ ~Granted
    BY <1>2 DEF Serve, Answered, IInv, Requests, Granted
  <2>2. PICK cseq \in {tcp.cseq, tcp.cseq + 1}, ok \in BOOLEAN, session \in Session :
          /\ tcp' = [tcp EXCEPT !.answer = Answer(cseq, ok, session)]
          /\ sessions' = IF ok /\ tcp.request \in SetupStream THEN sessions \cup {session} ELSE sessions
    BY <1>2, AwaitingIs DEF Serve
  <2>3. cseq \in Nat
    BY DEF IInv, Types, Connection
  <2>4. /\ tcp'.answer # <<>> /\ tcp'.answer[1].ok = ok /\ tcp'.answer[1].session = session
    <3>1. tcp'.answer = Answer(cseq, ok, session)
      BY <2>2 DEF IInv, Types, Connection
    <3> QED  BY <2>3, <3>1, AnswerIs
  <2>5. Asked' = Asked /\ Settled' = Settled /\ (Granted' <=> ok) /\ AnsweredSession' = session
    BY <1>1, <2>1, <2>4 DEF Asked, Settled, NoStreamYet, Granted, AnsweredSession
  <2>6. sessions = Settled
    BY <2>1 DEF SessionInv
  <2>7. sessions' = IF Asked' \in SetupStream /\ Granted' THEN Settled' \cup {AnsweredSession'}
                    ELSE Settled'
    BY <2>1, <2>2, <2>5, <2>6
  <2> QED  BY <1>1, <2>7 DEF SessionInv, NoStreamYet
<1>3. CASE SendPiece \/ End
  <2>1. tcp'.answer = tcp.answer /\ sessions' = sessions
    BY <1>3 DEF SendPiece, End, host, IInv, Types, Connection
  <2>2. (Granted' <=> Granted) /\ AnsweredSession' = AnsweredSession
    BY <1>1, <2>1 DEF Granted, AnsweredSession
  <2> QED  BY <1>1, <2>1, <2>2, SameSession
<1> QED  BY <1>2, <1>3 DEF HostStep

-----------------------------------------------------------------------------

LEMMA SessionInit == Init => SessionInv
<1> SUFFICES ASSUME Init PROVE SessionInv
  OBVIOUS
<1>1. ~Granted /\ state \in NoStreamYet /\ sessions = {} /\ result = "running"
  BY DEF Init, Granted, NewRtsp, SendNoResponse, NoStreamYet
<1> QED  BY <1>1 DEF SessionInv, Settled

LEMMA StutterInv ==
  ASSUME IInv, SessionInv, UNCHANGED vars
  PROVE  IInv' /\ SessionInv' /\ UNCHANGED Abstract!vars
<1> USE DEF vars, given, client, host
<1>1. UNCHANGED <<Asked, Done, Granted, Settled, AnsweredSession>>
  BY DEF Asked, Done, Granted, Settled, AnsweredSession, Streams
<1>2. IInv'
  BY <1>1 DEF IInv, Types, Progress, Requests, Answers, Offers, Supported
<1>3. SessionInv'
  BY <1>1 DEF SessionInv
<1>4. Unmoved
  BY DEF Unmoved
<1> QED  BY <1>2, <1>3, <1>4, UnmovedStutters

LEMMA StepInv ==
  ASSUME IInv, SessionInv, [Next]_vars
  PROVE  IInv' /\ SessionInv' /\ [Abstract!Next]_(Abstract!vars)
<1>1. CASE Connect \/ Write
  BY <1>1, ConnectStep, WriteStep, UnmovedStutters, RequestUnderWaySession
<1>2. CASE Read \/ ReadEnd
  BY <1>2, ReadStep, ReadEndStep, UnmovedStutters, RequestUnderWaySession
<1>3. CASE CannotReach \/ ReadFails
  BY <1>3, FailingSteps, FailSession DEF CannotReach, ReadFails
<1>4. CASE ConnectionOver \/ DescribeResponse \/ AnnounceResponse
  BY <1>4, ConnectionOverStep, DescribeStep, AnnounceStep, UnmovedStutters, NoStreamSession
<1>5. CASE \E s \in DOMAIN Awaiting : StreamResponse(s)
  BY <1>5, AwaitingIs, StreamStep, StreamSession
<1>6. CASE RequestVideo \/ RequestAfterVideo \/ RequestControl \/ RequestAnnounce
  BY <1>6, RequestStep, UnmovedStutters, RequestSession
<1>7. CASE SetupConnected
  BY <1>7, ConnectedStep, ConnectedSession
<1>8. CASE HostStep
  BY <1>8, ServeStep, PieceOrEndStep, UnmovedStutters, HostSession DEF HostStep
<1>9. CASE UNCHANGED vars
  BY <1>9, StutterInv
<1> QED
  BY <1>1, <1>2, <1>3, <1>4, <1>5, <1>6, <1>7, <1>8, <1>9 DEF Next, ClientStep

\* The setup keeps to the handshake: every step of poll_output's loop and of
\* connect()'s is a step of Handshake or leaves what it shows as it is, so the
\* streams are started in their order, each after the host has granted it, and of
\* the unreachable!(), unwrap() and expect() on the way none fails but the one on the
\* control stream, for whatever sessions and sequence numbers the host answers with
\* and whenever it closes or resets a connection.
THEOREM SetupImplementsHandshake == Spec => ImplementsHandshake
<1>1. Init => IInv /\ SessionInv /\ Abstract!Init
  BY InitInv, SessionInit
<1>2. IInv /\ SessionInv /\ [Next]_vars
        => IInv' /\ SessionInv' /\ [Abstract!Next]_(Abstract!vars)
  BY StepInv
<1> QED  BY <1>1, <1>2, PTL DEF Spec, ImplementsHandshake, Abstract!Spec

\* "This cannot panic" (mod.rs:614) holds for the versions of the server that have a
\* control stream, whatever the host answers: the setup panics for no other reason.
THEOREM SupportedNeverPanics == Spec => [](Supported => ~panicked)
<1>1. IInv => (Supported => ~panicked)
  BY DEF IInv, Progress
<1>2. Init => IInv /\ SessionInv
  BY InitInv, SessionInit
<1>3. IInv /\ SessionInv /\ [Next]_vars => IInv' /\ SessionInv'
  BY StepInv
<1> QED  BY <1>1, <1>2, <1>3, PTL DEF Spec

\* The streams of a connection are of one session, the one that session_id holds,
\* for any set of sessions the host picks its answers from.
THEOREM SetupKeepsOneSession == Spec => []OneSession
<1>1. Init => IInv /\ SessionInv
  BY InitInv, SessionInit
<1>2. IInv /\ SessionInv /\ [Next]_vars => IInv' /\ SessionInv'
  BY StepInv
<1>3. SessionInv => OneSession
  BY DEF SessionInv, OneSession, Asked, Settled, NoStreamYet, SetupStream
<1> QED  BY <1>1, <1>2, <1>3, PTL DEF Spec

-----------------------------------------------------------------------------
(* The threads: they end before the connection is made only if one of them *)
(* has failed.                                                             *)

\* Until a driver fails or connect() has returned, so that the application can
\* call stop(), nobody stops anything.
NobodyStops ==
  failed = {} /\ connect # "returned" =>
    /\ driver_stopped = {}
    /\ \A s \in Stream : run[s] = "running"
    /\ joiner = "joining"

Reasons == TypeOK /\ NobodyStops /\ FailureHasError

LEMMA ReasonsInit == StreamInit => Reasons
<1> SUFFICES ASSUME StreamInit PROVE Reasons
  OBVIOUS
<1>1. TypeOK
  <2>1. queue \in Seq(ControlEvent) /\ terminated \in Seq(Codes \cup {0})
    BY EmptySeq DEF StreamInit
  <2> QED  BY <2>1 DEF StreamInit, TypeOK
<1>2. NobodyStops /\ FailureHasError
  BY DEF StreamInit, NobodyStops, FailureHasError
<1> QED  BY <1>1, <1>2 DEF Reasons

-----------------------------------------------------------------------------
(* The types.                                                              *)

LEMMA ControlIsEventful == Control \in Stream /\ Control \in Eventful /\ Eventful \subseteq Stream
  BY DEF Stream, Eventful

LEMMA RunTypes ==
  ASSUME TypeOK, NEW s \in Stream, RunEnds(s) \/ RunFails(s) \/ PropagateError(s)
  PROVE  TypeOK'
<1> USE DEF TypeOK, caller, network, flags
<1>1. CASE RunEnds(s)
  BY <1>1 DEF RunEnds
<1>2. CASE RunFails(s)
  BY <1>2 DEF RunFails
<1>3. CASE PropagateError(s)
  BY <1>3 DEF PropagateError, InnerStop
<1> QED  BY <1>1, <1>2, <1>3

LEMMA EventTypes ==
  ASSUME TypeOK, NextControlEvent
  PROVE  /\ Head(queue) \in ControlEvent
         /\ queue' \in Seq(ControlEvent)
         /\ UNCHANGED <<link, reason>>
<1>1. queue \in Seq(ControlEvent) /\ queue # <<>>
  BY DEF TypeOK, NextControlEvent
<1>2. Head(queue) \in ControlEvent /\ Tail(queue) \in Seq(ControlEvent)
  BY <1>1, HeadTailProperties
<1> QED  BY <1>2 DEF NextControlEvent

LEMMA ConsumerTypes ==
  ASSUME TypeOK,
         \/ \E s \in Eventful : ConsumerEnds(s)
         \/ ControlNews \/ ControlDisconnect \/ ConnectionTerminated
  PROVE  TypeOK'
<1> USE DEF TypeOK, caller, network, flags
<1>1. ASSUME NEW s \in Eventful, ConsumerEnds(s) PROVE TypeOK'
  BY <1>1 DEF ConsumerEnds
<1>2. CASE ControlNews
  <2>1. Head(queue) \in ControlEvent /\ queue' \in Seq(ControlEvent) /\ UNCHANGED <<link, reason>>
    <3> HIDE DEF TypeOK
    <3> QED  BY <1>2, EventTypes DEF ControlNews
  <2>2. Head(queue)[1] = "Termination" => Head(queue)[2] \in Codes \cup {0}
    BY <2>1 DEF ControlEvent
  <2>3. error_code' \in Codes \cup {0}
    BY <1>2, <2>2 DEF ControlNews
  <2>4. signal' \in BOOLEAN
    BY <1>2 DEF ControlNews
  <2> QED  BY <1>2, <2>1, <2>3, <2>4 DEF ControlNews
<1>3. CASE ControlDisconnect
  <2>1. queue' \in Seq(ControlEvent) /\ UNCHANGED <<link, reason>>
    <3> HIDE DEF TypeOK
    <3> QED  BY <1>3, EventTypes DEF ControlDisconnect
  <2> QED  BY <1>3, <2>1, ControlIsEventful DEF ControlDisconnect
<1>4. CASE ConnectionTerminated
  <2>1. terminated' \in Seq(Codes \cup {0})
    BY <1>4, AppendProperties DEF ConnectionTerminated
  <2> QED  BY <1>4, <2>1 DEF ConnectionTerminated
<1> QED  BY <1>1, <1>2, <1>3, <1>4

LEMMA CallerTypes ==
  ASSUME TypeOK, Join \/ ConnectReturns \/ ConnectTimeout \/ ConnectFails \/ Stop
  PROVE  TypeOK'
<1> USE DEF TypeOK, threads, caller, network, flags
<1>1. CASE Join
  BY <1>1 DEF Join, InnerStop
<1>2. CASE ConnectReturns \/ ConnectTimeout \/ ConnectFails
  BY <1>2 DEF ConnectReturns, ConnectTimeout, ConnectFails
<1>3. CASE Stop
  BY <1>3 DEF Stop, InnerStop
<1> QED  BY <1>1, <1>2, <1>3

LEMMA NetworkTypes ==
  ASSUME TypeOK, LinkUp \/ LinkLost \/ \E code \in Codes \cup {0} : HostTerminates(code)
  PROVE  TypeOK'
<1> USE DEF TypeOK, threads, caller, flags
<1>1. <<"Connect">> \in ControlEvent /\ <<"Disconnect">> \in ControlEvent
  BY DEF ControlEvent
<1>2. CASE LinkUp
  <2>1. queue' \in Seq(ControlEvent)
    BY <1>1, <1>2, AppendProperties DEF LinkUp
  <2> QED  BY <1>2, <2>1 DEF LinkUp
<1>3. CASE LinkLost
  <2>1. queue' \in Seq(ControlEvent)
    BY <1>1, <1>3, AppendProperties DEF LinkLost
  <2> QED  BY <1>3, <2>1 DEF LinkLost
<1>4. ASSUME NEW code \in Codes \cup {0}, HostTerminates(code) PROVE TypeOK'
  <2>1. <<"Termination", code>> \in ControlEvent
    BY DEF ControlEvent
  <2>2. <<<<"Disconnect">>, <<"Termination", code>>>> \in Seq(ControlEvent)
    BY <1>1, <2>1
  <2>3. queue' \in Seq(ControlEvent)
    BY <1>4, <2>2, ConcatProperties DEF HostTerminates
  <2> QED  BY <1>4, <2>3 DEF HostTerminates
<1> QED  BY <1>2, <1>3, <1>4

LEMMA TypesStep == TypeOK /\ [StreamNext]_StreamVars => TypeOK'
<1> SUFFICES ASSUME TypeOK, [StreamNext]_StreamVars PROVE TypeOK'
  OBVIOUS
<1>1. CASE UNCHANGED StreamVars
  BY <1>1 DEF StreamVars, threads, caller, network, flags, TypeOK
<1> QED
  BY <1>1, RunTypes, ConsumerTypes, CallerTypes, NetworkTypes DEF StreamNext

-----------------------------------------------------------------------------

\* A step that leaves the drivers, their errors and the joining thread alone, and
\* with which connect() neither fails nor goes back.
LEMMA NothingStopped ==
  ASSUME NobodyStops, FailureHasError, UNCHANGED <<driver_stopped, run, failed, joiner>>,
         connect' = connect \/ connect' \in {"returned", "timeout"}, connect # "returned" \/ connect' = connect
  PROVE  NobodyStops' /\ FailureHasError'
  BY DEF NobodyStops, FailureHasError

\* One step per action: only Stop and the error of a driver can stop a driver.
LEMMA ReasonsStep == Reasons /\ [StreamNext]_StreamVars => Reasons'
<1> SUFFICES ASSUME Reasons, [StreamNext]_StreamVars PROVE NobodyStops' /\ FailureHasError'
  BY TypesStep DEF Reasons
<1> USE DEF Reasons, caller, network, flags, threads
<1>1. ASSUME NEW s \in Stream, RunEnds(s) PROVE NobodyStops' /\ FailureHasError'
  BY <1>1 DEF RunEnds, NobodyStops, FailureHasError, TypeOK
<1>2. ASSUME NEW s \in Stream, RunFails(s) PROVE NobodyStops' /\ FailureHasError'
  BY <1>2 DEF RunFails, NobodyStops, FailureHasError
<1>3. ASSUME NEW s \in Stream, PropagateError(s) PROVE NobodyStops' /\ FailureHasError'
  <2>1. run[s] = "failing" /\ UNCHANGED <<failed, connect>>
    BY <1>3 DEF PropagateError
  <2>2. failed = {} => connect = "returned"
    BY <2>1 DEF NobodyStops
  <2> QED  BY <2>1, <2>2 DEF NobodyStops, FailureHasError
<1>4. CASE Join
  <2>1. UNCHANGED <<failed, connect>> /\ run[Control] = "ended"
    BY <1>4, ControlIsEventful DEF Join
  <2>2. failed = {} => connect = "returned"
    BY <2>1, ControlIsEventful DEF NobodyStops
  <2> QED  BY <2>1, <2>2 DEF NobodyStops, FailureHasError
<1>5. CASE ConnectFails
  <2>1. failed # {}
    BY <1>5 DEF ConnectFails, NobodyStops
  <2> QED  BY <1>5, <2>1 DEF ConnectFails, NobodyStops, FailureHasError
<1>6. CASE Stop
  BY <1>6 DEF Stop, NobodyStops, FailureHasError
<1>7. CASE \/ \E s \in Eventful : ConsumerEnds(s)
           \/ ControlNews \/ ControlDisconnect \/ ConnectionTerminated
  BY <1>7, NothingStopped
     DEF ConsumerEnds, ControlNews, ControlDisconnect, ConnectionTerminated
<1>8. CASE ConnectReturns \/ ConnectTimeout
  BY <1>8, NothingStopped DEF ConnectReturns, ConnectTimeout
<1>9. CASE LinkUp \/ LinkLost \/ \E code \in Codes \cup {0} : HostTerminates(code)
  BY <1>9, NothingStopped DEF LinkUp, LinkLost, HostTerminates
<1>10. CASE UNCHANGED StreamVars
  BY <1>10, NothingStopped DEF StreamVars
<1> QED
  BY <1>1, <1>2, <1>3, <1>4, <1>5, <1>6, <1>7, <1>8, <1>9, <1>10 DEF StreamNext

-----------------------------------------------------------------------------

\* connect() gives up with an error of one of the threads (std/mod.rs, connect:
\* the unreachable!() after finalize_errors is).
THEOREM ConnectHasError == StreamSpec => []FailureHasError
<1>1. StreamSpec => []Reasons
  BY ReasonsInit, ReasonsStep, PTL DEF StreamSpec
<1>2. Reasons => FailureHasError
  BY DEF Reasons
<1> QED  BY <1>1, <1>2, PTL

-----------------------------------------------------------------------------
(* The two together, as the blocking backend has them.                     *)

\* When the streams are handed over, the setup has nothing under way: what is left
\* of it and of its last connection goes, and the handshake stays as it is.
LEMMA SpawnStep ==
  ASSUME IInv, SessionInv, Spawn
  PROVE  IInv' /\ SessionInv' /\ UNCHANGED Abstract!vars
<1>1. /\ UNCHANGED <<mic, major, state, audio_session, session_id, started, result, panicked,
                     offered, sessions, announced>>
      /\ rtsp' = NewRtsp /\ tcp' = NoConnection
  BY DEF Spawn, given, host
<1>2. state = "Connected"
  BY DEF Spawn, SessionInv
<1>3. Asked = "none" /\ Asked' = "none" /\ Done' = Done /\ Settled' = Settled
  BY <1>1, <1>2 DEF Asked, Done, Streams, Settled, NoStreamYet
<1>4. /\ NewRtsp \in RtspClientType /\ NewRtsp.state = "WaitForSendRequest"
      /\ NewRtsp.transmit = "none" /\ NewRtsp.current_response = <<>>
  BY NoPieces DEF NewRtsp, RtspClientType, RtspState, Request
<1>5. /\ NoConnection.end = "absent" /\ NoConnection.answer = <<>> /\ NoConnection.sent = 0
  BY DEF NoConnection
<1>6. Types' /\ Progress'
  BY <1>1, <1>3, <1>4, FreshConnections DEF IInv, Types, Progress, Supported
<1>7. Requests' /\ Answers'
  BY <1>1, <1>3, <1>4, <1>5 DEF Requests, Answers
<1>8. Offers'
  BY <1>1, <1>2, <1>3 DEF IInv, Offers, SetupStream
<1>9. SessionInv'
  BY <1>1, <1>2, <1>3 DEF SessionInv, SetupStream
<1>10. UNCHANGED Abstract!vars
  BY <1>1, UnmovedStutters DEF Unmoved
<1> QED  BY <1>6, <1>7, <1>8, <1>9, <1>10 DEF IInv

\* A step of the setup leaves the threads alone, and a step of the threads the
\* setup, so that each keeps to what it keeps to by itself.
LEMMA StdStep ==
  ASSUME IInv, SessionInv, Reasons, [StdNext]_StdVars
  PROVE  IInv' /\ SessionInv' /\ Reasons' /\ [Abstract!Next]_(Abstract!vars)
<1>1. CASE SettingUp(Next)
  <2>1. IInv' /\ SessionInv' /\ [Abstract!Next]_(Abstract!vars)
    BY <1>1, StepInv DEF SettingUp
  <2>2. Reasons'
    BY <1>1, ReasonsStep DEF SettingUp
  <2> QED  BY <2>1, <2>2
<1>2. CASE Spawn
  <2>1. Reasons'
    BY <1>2, ReasonsStep DEF Spawn
  <2> QED  BY <1>2, <2>1, SpawnStep
<1>3. CASE Running(StreamNext)
  <2>1. IInv' /\ SessionInv' /\ UNCHANGED Abstract!vars
    BY <1>3, StutterInv DEF Running
  <2>2. Reasons'
    BY <1>3, ReasonsStep DEF Running
  <2> QED  BY <2>1, <2>2
<1>4. CASE UNCHANGED StdVars
  <2>1. UNCHANGED vars /\ UNCHANGED StreamVars
    BY <1>4 DEF StdVars
  <2> QED  BY <2>1, StutterInv, ReasonsStep
<1> QED  BY <1>1, <1>2, <1>3, <1>4 DEF StdNext

StdInv == IInv /\ SessionInv /\ Reasons

LEMMA StdInvStep == StdInv /\ [StdNext]_StdVars => StdInv' /\ [Abstract!Next]_(Abstract!vars)
  BY StdStep DEF StdInv

LEMMA StdInvInit == StdInit => StdInv /\ Abstract!Init
  BY InitInv, SessionInit, ReasonsInit DEF StdInit, StdInv

\* What the blocking connect() keeps to from its first request to the end of the
\* last thread: the hand-over of the streams and everything that comes after it
\* leave the handshake where it was.
THEOREM StdImplementsHandshake == StdSpec => ImplementsHandshake
  BY StdInvInit, StdInvStep, PTL DEF StdSpec, ImplementsHandshake, Abstract!Spec

\* The streams that run are those of one session of the host, and stay so.
THEOREM StdKeepsOneSession == StdSpec => []OneSession
<1>1. StdInv => OneSession
  BY DEF StdInv, SessionInv, OneSession, Asked, Settled, NoStreamYet, SetupStream
<1> QED  BY <1>1, StdInvInit, StdInvStep, PTL DEF StdSpec

\* connect() gives up on its threads only with the error of one of them, whatever
\* the setup that came before them went through.
THEOREM StdConnectHasError == StdSpec => []FailureHasError
<1>1. StdInv => FailureHasError
  BY DEF StdInv, Reasons
<1> QED  BY <1>1, StdInvInit, StdInvStep, PTL DEF StdSpec

=============================================================================
