---------------------------- MODULE PairingProofs ----------------------------
(***************************************************************************)
(* Pairing keeps its promise, a call that failed leaves no trust behind,    *)
(* and a call alone with its host is told the right error, for any number   *)
(* of calls, PINs and versions of hosts, whatever requests and answers are  *)
(* lost, late or out of order.                                              *)
(***************************************************************************)
EXTENDS Pairing, TLAPS

CallState == {"none", "running", "unpairing", "paired", "failed", "gave up", "dropped", "panicked"}

Shapes ==
  /\ pin \in [Attempt -> Pin]
  /\ entered \in [Attempt -> Pin \cup {None}]
  /\ call \in [Attempt -> CallState]
  /\ waiting \in [Attempt -> 0 .. 6]
  /\ pairing = [a \in Attempt |-> pairing[a]]
  /\ answer = [a \in Attempt |-> answer[a]]

\* What a call says in a phase is its own.
Messages == \A m \in requests :
  /\ m.from \in Attempt /\ m.phase \in 1 .. 6
  /\ m.phase = 1 => m = [from |-> m.from, phase |-> 1, request |-> Phase1Request(m.from)]
  /\ m.phase = 3 => m.request.hash.key = AesKey(m.from)
  /\ m.phase = 4 => m.request.signer = Own("certificate", m.from)
  /\ m.phase = 5 => m.request.with = Own("certificate", m.from)

\* The session is of one call, and has the PIN entered for it; a hash that the
\* host could decrypt was made with that PIN.
SessionAgrees(s) ==
  /\ s = [of |-> s.of, step |-> s.step, pin |-> s.pin, salt |-> s.salt,
          certificate |-> s.certificate, hash |-> s.hash]
  /\ s.of \in Attempt /\ s.step \in 1 .. 4
  /\ s.salt = Own("salt", s.of)
  /\ s.certificate = Own("certificate", s.of)
  /\ s.step # 1 => s.pin = entered[s.of]
  /\ s.step = 4 /\ s.hash # Junk => entered[s.of] = pin[s.of]

Sessions == session # NoSession => SessionAgrees(session)

\* A call waits for the answer its state says, and is told it is paired only if it is.
CallAgrees(a) ==
  /\ call[a] \notin {"running", "unpairing"} => waiting[a] = 0
  /\ call[a] = "unpairing" => waiting[a] = 6
  /\ Running(a) => pairing[a].state # "Error"
  /\ Running(a) /\ pairing[a].state = "RecvPhase1" => waiting[a] = 1
  /\ Running(a) /\ pairing[a].state = "RecvPhase5" => waiting[a] = 5
  /\ Running(a) /\ waiting[a] = 5 /\ answer[a] # None /\ answer[a].paired => a \in accepted
  /\ Running(a) /\ pairing[a].state = "Success" => a \in accepted

Calls == \A a \in Attempt : CallAgrees(a)

Trust == trusted \subseteq accepted

Agrees == Shapes /\ Messages /\ Sessions /\ Calls /\ Trust

-----------------------------------------------------------------------------

\* The host has a request of call a for one of the phases.
Requested(a, phases) == \E m \in requests : m.from = a /\ m.phase \in phases

InSession(a) == session # NoSession /\ session.of = a

\* As long as the first request of a call is under way, and before, the host has
\* heard nothing of the call, and the call has not got beyond it.
BeginsRight(a) ==
  /\ call[a] = "none" \/ pairing[a].state = "SendPhase1" =>
       ~Requested(a, 1 .. 5) /\ ~InSession(a)
  /\ call[a] = "none" => pairing[a].state = "None"
  /\ Requested(a, {1}) =>
       /\ pairing[a].state \in {"RecvPhase1", "Error"}
       /\ Running(a) => answer[a] = None
       /\ ~Requested(a, 2 .. 5) /\ ~InSession(a)

Beginnings == \A a \in Attempt : BeginsRight(a)

\* Once the host has answered the unpairing it has nothing left to accept.
UnpairedRight(a) ==
  call[a] = "failed" \/ (call[a] = "unpairing" /\ answer[a] # None) =>
    a \notin trusted /\ ~(InSession(a) /\ Requested(a, {4}))

Unpaired == \A a \in Attempt : UnpairedRight(a)

Leaves == Agrees /\ Beginnings /\ Unpaired

-----------------------------------------------------------------------------
(* What the steps of a call do.                                            *)

\* The other calls are left alone, and so is the host.
Only(a) ==
  /\ call' \in [Attempt -> CallState]
  /\ waiting' \in [Attempt -> 0 .. 6]
  /\ pairing' = [b \in Attempt |-> pairing'[b]]
  /\ answer' = [b \in Attempt |-> answer'[b]]
  /\ \A b \in Attempt \ {a} :
       /\ call'[b] = call[b] /\ waiting'[b] = waiting[b]
       /\ pairing'[b] = pairing[b] /\ answer'[b] = answer[b]
  /\ UNCHANGED <<pin, session, entered, trusted, accepted>>

Begins(a) ==
  /\ Only(a) /\ UNCHANGED requests
  /\ call[a] = "none" /\ call'[a] \in {"running", "panicked"}
  /\ call'[a] = "running" => pairing'[a].state = "SendPhase1"
  /\ call'[a] = "panicked" => pairing'[a] = pairing[a]
  /\ waiting'[a] = waiting[a] /\ answer'[a] = answer[a]

Ends(a) ==
  /\ Only(a) /\ UNCHANGED requests
  /\ call[a] \in {"running", "unpairing"} /\ call'[a] \in {"dropped", "failed", "gave up"}
  /\ call'[a] = "failed" => call[a] = "unpairing" /\ answer[a] # None
  /\ pairing'[a] = pairing[a] /\ waiting'[a] = 0 /\ answer'[a] = None

Message(a, phase, request) == [from |-> a, phase |-> phase, request |-> request]

Asks(a) ==
  /\ Only(a)
  /\ Running(a) /\ call'[a] = "running" /\ answer'[a] = None
  /\ \E phase \in 1 .. 5 :
       /\ waiting'[a] = phase
       /\ IF phase = 1
          THEN pairing[a].state = "SendPhase1" /\ pairing'[a].state = "RecvPhase1"
          ELSE /\ pairing[a].state \in {"SendPhase2", "SendPhase3", "SendPhase4", "SendPhase5"}
               /\ pairing'[a].state \in {"RecvPhase2", "RecvPhase3", "RecvPhase4", "RecvPhase5"}
               /\ pairing'[a].state = "RecvPhase5" => phase = 5
       /\ \E request :
            /\ requests' = requests \cup {Message(a, phase, request)}
            /\ phase = 1 => request = Phase1Request(a)
            /\ phase = 3 => request.hash.key = AesKey(a)
            /\ phase = 4 => request.signer = Own("certificate", a)
            /\ phase = 5 => request.with = Own("certificate", a)

Fails(a) ==
  /\ Only(a)
  /\ Running(a) /\ call'[a] = "unpairing"
  /\ pairing'[a].state = "Error" /\ waiting'[a] = 6 /\ answer'[a] = None
  /\ requests' = requests \cup {Message(a, 6, [unpair |-> TRUE])}

GoesOn(a) ==
  /\ Only(a) /\ UNCHANGED requests
  /\ Running(a) /\ waiting'[a] = 0 /\ answer'[a] \in {answer[a], None}
  /\ answer'[a] = None \/ waiting[a] = 0
  /\ \/ /\ call'[a] = "running"
        /\ pairing'[a].state \in {"SendPhase2", "SendPhase3", "SendPhase4", "SetCertificate",
                                  "SendPhase5", "Success"}
        /\ \/ pairing[a].state = "SetCertificate"
           \/ /\ pairing[a].state \in {"RecvPhase1", "RecvPhase2", "RecvPhase3", "RecvPhase4",
                                       "RecvPhase5"}
              /\ answer[a] # None /\ answer[a].paired
        /\ pairing'[a].state = "Success" => pairing[a].state = "RecvPhase5"
     \/ /\ call'[a] = "paired" /\ pairing[a].state = "Success"
        /\ pairing'[a].state = "None"

LEMMA CallSet ==
  ASSUME Shapes, NEW a \in Attempt, NEW c \in CallState, call' = [call EXCEPT ![a] = c]
  PROVE  /\ call' \in [Attempt -> CallState] /\ call'[a] = c
         /\ \A b \in Attempt \ {a} : call'[b] = call[b]
  BY DEF Shapes

LEMMA HangSet ==
  ASSUME Shapes, NEW a \in Attempt, Hangs(a)
  PROVE  /\ waiting' \in [Attempt -> 0 .. 6] /\ waiting'[a] = 0
         /\ answer' = [b \in Attempt |-> answer'[b]] /\ answer'[a] = None
         /\ \A b \in Attempt \ {a} : waiting'[b] = waiting[b] /\ answer'[b] = answer[b]
         /\ UNCHANGED requests
  BY DEF Shapes, Hangs

LEMMA SendSet ==
  ASSUME Shapes, NEW a \in Attempt, NEW phase \in 1 .. 6, NEW request, Send(a, phase, request)
  PROVE  /\ waiting' \in [Attempt -> 0 .. 6] /\ waiting'[a] = phase
         /\ answer' = [b \in Attempt |-> answer'[b]] /\ answer'[a] = None
         /\ \A b \in Attempt \ {a} : waiting'[b] = waiting[b] /\ answer'[b] = answer[b]
         /\ requests' = requests \cup {Message(a, phase, request)}
  BY DEF Shapes, Send, Message

LEMMA BeginBegins ==
  ASSUME Shapes, NEW a \in Attempt, Begin(a)
  PROVE  Begins(a)
  BY DEF Begin, Begins, Only, Shapes, CallState, hostVars, Idle

LEMMA EndEnds ==
  ASSUME Shapes, NEW a \in Attempt, NEW c \in {"dropped", "failed", "gave up"},
         call[a] \in {"running", "unpairing"}, c = "failed" => call[a] = "unpairing" /\ answer[a] # None,
         call' = [call EXCEPT ![a] = c], Hangs(a), UNCHANGED <<pin, pairing, hostVars>>
  PROVE  Ends(a)
<1>1. /\ call' \in [Attempt -> CallState] /\ call'[a] = c
      /\ \A b \in Attempt \ {a} : call'[b] = call[b]
  BY CallSet DEF CallState
<1>2. Only(a)
  BY <1>1, HangSet DEF Only, Shapes, hostVars
<1> QED  BY <1>1, <1>2, HangSet DEF Ends

LEMMA FailFails ==
  ASSUME Shapes, NEW a \in Attempt, Running(a), NEW err, Fail(a, err), UNCHANGED <<pin, hostVars>>
  PROVE  Fails(a)
<1>1. /\ waiting' \in [Attempt -> 0 .. 6] /\ waiting'[a] = 6
      /\ answer' = [b \in Attempt |-> answer'[b]] /\ answer'[a] = None
      /\ \A b \in Attempt \ {a} : waiting'[b] = waiting[b] /\ answer'[b] = answer[b]
      /\ requests' = requests \cup {Message(a, 6, [unpair |-> TRUE])}
  BY SendSet DEF Fail, UnpairPhase
<1>2. /\ call' \in [Attempt -> CallState] /\ call'[a] = "unpairing"
      /\ \A b \in Attempt \ {a} : call'[b] = call[b]
  BY CallSet DEF Fail, CallState
<1>3. /\ pairing' = [b \in Attempt |-> pairing'[b]] /\ pairing'[a].state = "Error"
      /\ \A b \in Attempt \ {a} : pairing'[b] = pairing[b]
  BY DEF Fail, Errors, Idle, Shapes
<1> QED  BY <1>1, <1>2, <1>3 DEF Fails, Only, hostVars

LEMMA RequestAsks ==
  ASSUME Shapes, NEW a \in Attempt, PollRequest(a)
  PROVE  Asks(a)
<1>1. ASSUME NEW phase \in 1 .. 5, NEW from, NEW to, NEW request,
             Polls(a, from, to), Send(a, phase, request), UNCHANGED call
      PROVE  /\ Only(a)
             /\ Running(a) /\ call'[a] = "running" /\ answer'[a] = None /\ waiting'[a] = phase
             /\ pairing[a].state = from /\ pairing'[a].state = to
             /\ requests' = requests \cup {Message(a, phase, request)}
  <2>1. pairing'[a].state = to /\ pairing' = [b \in Attempt |-> pairing'[b]]
        /\ \A b \in Attempt \ {a} : pairing'[b] = pairing[b]
    BY <1>1 DEF Polls, Goes, Shapes
  <2>2. /\ waiting' \in [Attempt -> 0 .. 6] /\ waiting'[a] = phase
        /\ answer' = [b \in Attempt |-> answer'[b]] /\ answer'[a] = None
        /\ \A b \in Attempt \ {a} : waiting'[b] = waiting[b] /\ answer'[b] = answer[b]
        /\ requests' = requests \cup {Message(a, phase, request)}
    BY <1>1, SendSet
  <2> QED  BY <1>1, <2>1, <2>2 DEF Polls, Only, Shapes, Running, hostVars
<1>2. UNCHANGED call
  BY DEF PollRequest
<1>3. CASE Polls(a, "SendPhase1", "RecvPhase1") /\ Send(a, 1, Phase1Request(a))
  BY <1>1, <1>2, <1>3 DEF Asks
<1>4. ASSUME NEW cipher, Polls(a, "SendPhase2", "RecvPhase2"), Send(a, 2, Phase2Request(cipher))
      PROVE  Asks(a)
  BY <1>1, <1>2, <1>4 DEF Asks
<1>5. ASSUME NEW text, Polls(a, "SendPhase3", "RecvPhase3"),
             Send(a, 3, Phase3Request(Encrypted(AesKey(a), text)))
      PROVE  Asks(a)
  <2>1. Phase3Request(Encrypted(AesKey(a), text)).hash.key = AesKey(a)
    BY DEF Phase3Request, Encrypted
  <2> QED  BY <1>1, <1>2, <1>5, <2>1 DEF Asks
<1>6. CASE Polls(a, "SendPhase4", "RecvPhase4") /\ Send(a, 4, Phase4Request(a))
  <2>1. Phase4Request(a).signer = Own("certificate", a)
    BY DEF Phase4Request
  <2> QED  BY <1>1, <1>2, <1>6, <2>1 DEF Asks
<1>7. CASE Polls(a, "SendPhase5", "RecvPhase5") /\ Send(a, 5, Phase5Request(a))
  <2>1. Phase5Request(a).with = Own("certificate", a)
    BY DEF Phase5Request
  <2> QED  BY <1>1, <1>2, <1>7, <2>1 DEF Asks
<1> QED  BY <1>3, <1>4, <1>5, <1>6, <1>7 DEF PollRequest

LEMMA PollGoesOn ==
  ASSUME Shapes, NEW a \in Attempt, PollIdentifier(a) \/ PollSuccess(a)
  PROVE  GoesOn(a)
<1>1. CASE PollIdentifier(a)
  BY <1>1 DEF PollIdentifier, Polls, Goes, GoesOn, Only, Shapes, Running, hostVars
<1>2. CASE PollSuccess(a)
  BY <1>2 DEF PollSuccess, Polls, Goes, GoesOn, Only, Shapes, Running, hostVars, CallState
<1> QED  BY <1>1, <1>2

LEMMA PairingSet ==
  ASSUME Shapes, NEW a \in Attempt, NEW next, pairing' = [pairing EXCEPT ![a] = next]
  PROVE  /\ pairing' = [b \in Attempt |-> pairing'[b]] /\ pairing'[a] = next
         /\ \A b \in Attempt \ {a} : pairing'[b] = pairing[b]
  BY DEF Shapes

LEMMA HandleAdvances ==
  ASSUME Shapes, NEW a \in Attempt, NEW response, NEW state,
         \/ state = "SendPhase2" /\ Handle1(a, response)
         \/ state = "SendPhase3" /\ Handle2(a, response)
         \/ Goes(a, state)
  PROVE  /\ pairing' = [b \in Attempt |-> pairing'[b]]
         /\ \A b \in Attempt \ {a} : pairing'[b] = pairing[b]
         /\ pairing'[a].state = state
<1>1. CASE state = "SendPhase2" /\ Handle1(a, response)
  <2> DEFINE next == [Idle EXCEPT !.state = "SendPhase2",
                                  !.server_certificate = response.certificate]
  <2>1. pairing' = [pairing EXCEPT ![a] = next]
    BY <1>1 DEF Handle1
  <2>2. next.state = "SendPhase2"
    BY DEF Idle
  <2> HIDE DEF next
  <2> QED  BY <1>1, <2>1, <2>2, PairingSet
<1>2. CASE state = "SendPhase3" /\ Handle2(a, response)
  <2> DEFINE plain == Decrypted(AesKey(a), response.text)
             next == [state |-> "SendPhase3",
                      server_certificate |-> pairing[a].server_certificate,
                      server_response_hash |-> IF plain = Junk THEN Junk ELSE plain.hash,
                      server_challenge |-> IF plain = Junk THEN Junk ELSE plain.challenge]
  <2>1. pairing' = [pairing EXCEPT ![a] = next]
    BY <1>2 DEF Handle2
  <2>2. next.state = "SendPhase3"
    OBVIOUS
  <2> HIDE DEF next
  <2> QED  BY <1>2, <2>1, <2>2, PairingSet
<1>3. CASE Goes(a, state)
  BY <1>3 DEF Goes, Shapes
<1> QED  BY <1>1, <1>2, <1>3

LEMMA ReceiveGoesOn ==
  ASSUME Shapes, NEW a \in Attempt, Receive(a)
  PROVE  GoesOn(a) \/ Fails(a)
<1>1. Running(a) /\ answer[a] # None /\ HandleResponse(a, answer[a]) /\ UNCHANGED <<pin, hostVars>>
  BY DEF Receive
<1> DEFINE response == answer[a]
           state == pairing[a].state
<1>2. CASE \E err : Fail(a, err)
  BY <1>1, <1>2, FailFails
<1>3. CASE ~\E err : Fail(a, err)
  <2>1. /\ response.paired
        /\ \/ state = "RecvPhase1" /\ Handle1(a, response)
           \/ state = "RecvPhase2" /\ Handle2(a, response)
           \/ state = "RecvPhase3" /\ Goes(a, "SendPhase4")
           \/ state = "RecvPhase4" /\ Goes(a, "SetCertificate")
           \/ state = "RecvPhase5" /\ Goes(a, "Success")
        /\ Hangs(a)
        /\ UNCHANGED call
    BY <1>1, <1>3 DEF HandleResponse, Accepts, Paired
  <2>2. /\ pairing' = [b \in Attempt |-> pairing'[b]]
        /\ \A b \in Attempt \ {a} : pairing'[b] = pairing[b]
    BY <2>1, HandleAdvances
  <2>3. /\ pairing'[a].state \in {"SendPhase2", "SendPhase3", "SendPhase4", "SetCertificate", "Success"}
        /\ pairing'[a].state = "Success" => state = "RecvPhase5"
        /\ state \in {"RecvPhase1", "RecvPhase2", "RecvPhase3", "RecvPhase4", "RecvPhase5"}
    BY <2>1, HandleAdvances
  <2>4. /\ waiting' \in [Attempt -> 0 .. 6] /\ waiting'[a] = 0
        /\ answer' = [b \in Attempt |-> answer'[b]] /\ answer'[a] = None
        /\ \A b \in Attempt \ {a} : waiting'[b] = waiting[b] /\ answer'[b] = answer[b]
        /\ UNCHANGED requests
    BY <2>1 DEF Hangs, Shapes
  <2>5. Only(a)
    BY <1>1, <2>1, <2>2, <2>4 DEF Only, Shapes, hostVars
  <2> QED  BY <1>1, <2>1, <2>3, <2>4, <2>5 DEF GoesOn, Running
<1> QED  BY <1>2, <1>3

LEMMA CallDoes ==
  ASSUME Shapes, Calls, NEW a \in Attempt, Call(a)
  PROVE  Begins(a) \/ Ends(a) \/ Asks(a) \/ Fails(a) \/ GoesOn(a)
<1>1. CASE Begin(a)
  BY <1>1, BeginBegins
<1>2. CASE Cancel(a)
  <2>1. call[a] \in {"running", "unpairing"}
    BY <1>2 DEF Cancel, Calls, CallAgrees
  <2>2. call' = [call EXCEPT ![a] = "dropped"] /\ Hangs(a) /\ UNCHANGED <<pin, pairing, hostVars>>
    BY <1>2 DEF Cancel
  <2> QED  BY <2>1, <2>2, EndEnds
<1>3. CASE PollRequest(a)
  BY <1>3, RequestAsks
<1>4. CASE PollIdentifier(a) \/ PollSuccess(a)
  BY <1>4, PollGoesOn
<1>5. CASE CryptoFails(a)
  BY <1>5, FailFails DEF CryptoFails
<1>6. CASE Receive(a)
  BY <1>6, ReceiveGoesOn
<1>7. CASE ReceiveUnpaired(a)
  BY <1>7, EndEnds DEF ReceiveUnpaired
<1>8. CASE RequestFails(a)
  <2>1. CASE Running(a) /\ Fail(a, "Other")
    BY <1>8, <2>1, FailFails DEF RequestFails
  <2>2. CASE ~(Running(a) /\ Fail(a, "Other"))
    BY <1>8, <2>2, EndEnds DEF RequestFails
  <2> QED  BY <2>1, <2>2
<1> QED  BY <1>1, <1>2, <1>3, <1>4, <1>5, <1>6, <1>7, <1>8 DEF Call

-----------------------------------------------------------------------------
(* The invariant Agrees.                                                   *)

LEMMA AgreesInit == Init => Agrees
<1> SUFFICES ASSUME Init PROVE Agrees
  OBVIOUS
<1>1. Shapes
  BY DEF Init, Shapes, CallState
<1>2. Messages /\ Sessions /\ Trust
  BY DEF Init, Messages, Sessions, Trust
<1>3. Calls
  BY DEF Init, Calls, CallAgrees, Running
<1> QED  BY <1>1, <1>2, <1>3 DEF Agrees

\* A step of one call keeps the rest, given that it keeps the messages and the
\* call itself right.
LEMMA AgreesOnly ==
  ASSUME Agrees, NEW a \in Attempt, Only(a), Messages', CallAgrees(a)'
  PROVE  Agrees'
<1>1. Shapes' /\ Sessions' /\ Trust'
  BY DEF Agrees, Only, Shapes, Sessions, SessionAgrees, Trust
<1>2. ASSUME NEW b \in Attempt PROVE CallAgrees(b)'
  <2>1. CASE b = a
    BY <2>1
  <2>2. CASE b # a
    <3>1. CallAgrees(b)
      BY DEF Agrees, Calls
    <3>2. /\ call'[b] = call[b] /\ waiting'[b] = waiting[b] /\ accepted' = accepted
          /\ pairing'[b] = pairing[b] /\ answer'[b] = answer[b]
      BY <2>2 DEF Only
    <3> QED  BY <3>1, <3>2 DEF CallAgrees, Running
  <2> QED  BY <2>1, <2>2
<1>3. Calls'
  BY <1>2 DEF Calls
<1> QED  BY <1>1, <1>3 DEF Agrees

LEMMA MessagesLeft ==
  ASSUME Messages, requests' \subseteq requests, UNCHANGED pin
  PROVE  Messages'
  BY DEF Messages, AesKey

LEMMA MessagesAsked ==
  ASSUME Messages, NEW a \in Attempt, Asks(a)
  PROVE  Messages'
<1>1. PICK phase, request :
        /\ phase \in 1 .. 5
        /\ requests' = requests \cup {Message(a, phase, request)}
        /\ phase = 1 => request = Phase1Request(a)
        /\ phase = 3 => request.hash.key = AesKey(a)
        /\ phase = 4 => request.signer = Own("certificate", a)
        /\ phase = 5 => request.with = Own("certificate", a)
  BY DEF Asks
<1>2. UNCHANGED pin
  BY DEF Asks, Only
<1> QED  BY <1>1, <1>2 DEF Messages, Message, AesKey

LEMMA AgreesOnCall ==
  ASSUME Agrees, NEW a \in Attempt, Call(a)
  PROVE  Agrees'
<1>1. CallAgrees(a) /\ Messages
  BY DEF Agrees, Calls
<1>2. CASE Begins(a)
  <2>1. CallAgrees(a)'
    BY <1>1, <1>2 DEF Begins, Only, CallAgrees, Running
  <2> QED  BY <1>1, <1>2, <2>1, MessagesLeft, AgreesOnly DEF Begins, Only
<1>3. CASE Ends(a)
  <2>1. CallAgrees(a)'
    BY <1>3 DEF Ends, CallAgrees, Running
  <2> QED  BY <1>1, <1>3, <2>1, MessagesLeft, AgreesOnly DEF Ends, Only
<1>4. CASE Asks(a)
  <2>1. CallAgrees(a)'
    BY <1>4 DEF Asks, CallAgrees, Running
  <2> QED  BY <1>1, <1>4, <2>1, MessagesAsked, AgreesOnly DEF Asks
<1>5. CASE Fails(a)
  <2>1. CallAgrees(a)'
    BY <1>5 DEF Fails, CallAgrees, Running
  <2>2. Messages'
    BY <1>1, <1>5 DEF Fails, Only, Messages, Message, AesKey
  <2> QED  BY <1>5, <2>1, <2>2, AgreesOnly DEF Fails
<1>6. CASE GoesOn(a)
  <2>1. pairing'[a].state = "Success" /\ call'[a] = "running" => a \in accepted'
    BY <1>1, <1>6 DEF GoesOn, Only, CallAgrees, Running
  <2>2. CallAgrees(a)'
    BY <1>6, <2>1 DEF GoesOn, CallAgrees, Running
  <2> QED  BY <1>1, <1>6, <2>2, MessagesLeft, AgreesOnly DEF GoesOn, Only
<1> QED  BY <1>2, <1>3, <1>4, <1>5, <1>6, CallDoes DEF Agrees

-----------------------------------------------------------------------------
(* The host.                                                               *)

LEMMA AnswerSet ==
  ASSUME Shapes, NEW a, NEW phase, NEW response, AnswerTo(a, phase, response)
  PROVE  /\ answer' = [b \in Attempt |-> answer'[b]]
         /\ \A b \in Attempt : answer'[b] # answer[b] =>
              b = a /\ waiting[b] = phase /\ answer'[b] = response
  BY DEF Shapes, AnswerTo

\* What a step of the host does to the calls: at most, it answers one of them.
HostSteps ==
  /\ UNCHANGED <<pin, call, waiting, pairing>>
  /\ requests' \subseteq requests
  /\ answer' = [b \in Attempt |-> answer'[b]]

\* An answer to phase 5 says paired only if the call is.
RightAnswer(b) == waiting[b] = 5 /\ answer'[b].paired => b \in accepted

LEMMA AgreesHost ==
  ASSUME Agrees, HostSteps, Sessions', Trust', accepted \subseteq accepted',
         entered' \in [Attempt -> Pin \cup {None}],
         \A b \in Attempt : answer'[b] # answer[b] => RightAnswer(b)
  PROVE  Agrees'
<1>1. Shapes' /\ Messages'
  BY MessagesLeft DEF Agrees, HostSteps, Shapes
<1>2. ASSUME NEW b \in Attempt PROVE CallAgrees(b)'
  <2>1. /\ CallAgrees(b)
        /\ call'[b] = call[b] /\ waiting'[b] = waiting[b] /\ pairing'[b] = pairing[b]
        /\ b \in accepted => b \in accepted'
    BY DEF Agrees, Calls, HostSteps
  <2>2. answer'[b] = answer[b] \/ RightAnswer(b)
    OBVIOUS
  <2>3. CASE answer'[b] = answer[b]
    BY <2>1, <2>3 DEF CallAgrees, Running
  <2>4. CASE RightAnswer(b)
    BY <2>1, <2>4 DEF CallAgrees, Running, RightAnswer
  <2> QED  BY <2>2, <2>3, <2>4
<1> QED  BY <1>1, <1>2 DEF Agrees, Calls

LEMMA HostAnswers ==
  ASSUME Agrees, NEW m \in requests, NEW response, Answer(m, response),
         m.phase = 5 /\ response.paired => m.from \in accepted
  PROVE  /\ answer' = [b \in Attempt |-> answer'[b]]
         /\ \A b \in Attempt : answer'[b] # answer[b] => RightAnswer(b)
<1>1. AnswerTo(m.from, m.phase, response)
  BY DEF Answer
<1> QED  BY <1>1, AnswerSet DEF Agrees, RightAnswer

\* The host has served a request.
Serves(m) ==
  /\ m \in requests /\ requests' = requests \ {m}
  /\ UNCHANGED <<pin, callVars>>

\* A request is served with an answer that is right, and the session kept so.
LEMMA AgreesServed ==
  ASSUME Agrees, NEW m, Serves(m), NEW response, Answer(m, response),
         m.phase = 5 /\ response.paired => m.from \in accepted,
         Sessions', Trust', accepted \subseteq accepted', UNCHANGED entered
  PROVE  Agrees'
<1>1. /\ answer' = [b \in Attempt |-> answer'[b]]
      /\ \A b \in Attempt : answer'[b] # answer[b] => RightAnswer(b)
  BY HostAnswers DEF Serves
<1>2. HostSteps
  BY <1>1 DEF Serves, HostSteps, callVars
<1>3. entered' \in [Attempt -> Pin \cup {None}]
  BY DEF Agrees, Shapes
<1> QED  BY <1>1, <1>2, <1>3, AgreesHost

LEMMA AgreesOnPhase1 ==
  ASSUME Agrees, NEW m, Serves(m), m.phase = 1, HostPhase1(m)
  PROVE  Agrees'
<1>1. m = [from |-> m.from, phase |-> 1, request |-> Phase1Request(m.from)] /\ m.from \in Attempt
  BY DEF Agrees, Messages, Serves
<1>2. m.request.salt = Own("salt", m.from) /\ m.request.certificate = Own("certificate", m.from)
  BY <1>1 DEF Phase1Request
<1>3. Sessions'
  BY <1>1, <1>2 DEF HostPhase1, Sessions, SessionAgrees
<1>4. HostSteps
  BY DEF Serves, HostSteps, callVars, HostPhase1, Agrees, Shapes
<1>5. Trust' /\ entered' \in [Attempt -> Pin \cup {None}] /\ answer' = answer /\ accepted' = accepted
  BY DEF HostPhase1, Agrees, Trust, Shapes
<1> QED  BY <1>3, <1>4, <1>5, AgreesHost

LEMMA InStepSession ==
  ASSUME Sessions, InStep(1) \/ InStep(2) \/ InStep(3) \/ InStep(4)
  PROVE  /\ session # NoSession /\ SessionAgrees(session)
         /\ InStep(1) => session.step = 1
         /\ InStep(2) => session.step = 2
         /\ InStep(3) => session.step = 3
         /\ InStep(4) => session.step = 4
  BY DEF Sessions, NoSession, InStep

LEMMA AgreesOnEnterPin == Agrees /\ EnterPin => Agrees'
<1> SUFFICES ASSUME Agrees, EnterPin PROVE Agrees'
  OBVIOUS
<1>1. session # NoSession /\ session.step = 1 /\ SessionAgrees(session)
  BY InStepSession DEF EnterPin, Agrees
<1>2. PICK p \in Pin :
        /\ session' = [session EXCEPT !.step = 2, !.pin = p]
        /\ entered' = [entered EXCEPT ![session.of] = p]
  BY DEF EnterPin
<1>3. entered' \in [Attempt -> Pin \cup {None}] /\ entered'[session.of] = p
  BY <1>1, <1>2 DEF Agrees, Shapes, SessionAgrees
<1>4. /\ session'.of = session.of /\ session'.step = 2 /\ session'.pin = p
      /\ session'.salt = session.salt /\ session'.certificate = session.certificate
      /\ session' = [of |-> session'.of, step |-> session'.step, pin |-> session'.pin,
                     salt |-> session'.salt, certificate |-> session'.certificate,
                     hash |-> session'.hash]
  BY <1>1, <1>2 DEF SessionAgrees
<1>5. Sessions'
  BY <1>1, <1>3, <1>4 DEF Sessions, SessionAgrees
<1>6. AnswerTo(session.of, 1, Phase1Response(ServerCertificate))
  BY DEF EnterPin
<1>7. /\ answer' = [b \in Attempt |-> answer'[b]]
      /\ \A b \in Attempt : answer'[b] # answer[b] => RightAnswer(b)
  BY <1>6, AnswerSet DEF Agrees, RightAnswer
<1>8. HostSteps /\ Trust' /\ accepted' = accepted
  BY <1>7 DEF HostSteps, EnterPin, callVars, Agrees, Trust
<1> QED  BY <1>3, <1>5, <1>7, <1>8, AgreesHost

LEMMA AgreesOnPhase2 ==
  ASSUME Agrees, NEW m, Serves(m), m.phase = 2, HostPhase2(m)
  PROVE  Agrees'
<1>1. session.step = 2 /\ SessionAgrees(session)
  BY InStepSession DEF HostPhase2, Agrees
<1>2. /\ session'.of = session.of /\ session'.step = 3 /\ session'.pin = session.pin
      /\ session'.salt = session.salt /\ session'.certificate = session.certificate
      /\ session' = [of |-> session'.of, step |-> session'.step, pin |-> session'.pin,
                     salt |-> session'.salt, certificate |-> session'.certificate,
                     hash |-> session'.hash]
  BY <1>1 DEF HostPhase2, SessionAgrees
<1>3. UNCHANGED <<pin, entered, trusted, accepted>>
  BY DEF HostPhase2, Serves
<1>4. Sessions' /\ Trust'
  BY <1>1, <1>2, <1>3 DEF Sessions, SessionAgrees, Agrees, Trust
<1>5. \E response : Answer(m, response)
  BY DEF HostPhase2
<1> QED  BY <1>3, <1>4, <1>5, AgreesServed

LEMMA AgreesOnPhase3 ==
  ASSUME Agrees, NEW m, Serves(m), m.phase = 3, HostPhase3(m)
  PROVE  Agrees'
<1>1. session.step = 3 /\ SessionAgrees(session)
  BY InStepSession DEF HostPhase3, Agrees
<1>2. UNCHANGED <<pin, entered, trusted, accepted>>
  BY DEF HostPhase3, Serves
<1> DEFINE hash == Decrypted(SessionKey, m.request.hash)
<1>3. /\ session'.of = session.of /\ session'.step = 4 /\ session'.pin = session.pin
      /\ session'.salt = session.salt /\ session'.certificate = session.certificate
      /\ session'.hash = hash
      /\ session' = [of |-> session'.of, step |-> session'.step, pin |-> session'.pin,
                     salt |-> session'.salt, certificate |-> session'.certificate,
                     hash |-> session'.hash]
  <2> HIDE DEF hash
  <2>1. session' = [session EXCEPT !.step = 4, !.hash = hash]
    BY DEF HostPhase3, hash
  <2> QED  BY <1>1, <2>1 DEF SessionAgrees
<1>4. ASSUME hash # Junk PROVE entered[session.of] = pin[session.of]
  <2>1. m.request.hash.key = SessionKey
    BY <1>4 DEF Decrypted
  <2>2. m.request.hash.key = AesKey(m.from)
    BY DEF Agrees, Messages, Serves
  <2>3. Own("salt", m.from) = session.salt /\ pin[m.from] = session.pin
    <3>1. Key(Own("salt", m.from), pin[m.from]) = Key(session.salt, session.pin)
      BY <2>1, <2>2 DEF AesKey, SessionKey
    <3>2. \A s, p : Key(s, p).salt = s /\ Key(s, p).pin = p
      BY DEF Key
    <3> QED  BY <3>1, <3>2
  <2>4. m.from = session.of
    <3>1. Own("salt", m.from) = Own("salt", session.of)
      BY <1>1, <2>3 DEF SessionAgrees
    <3>2. \A b : Own("salt", b).of = b
      BY DEF Own
    <3> QED  BY <3>1, <3>2
  <2> QED  BY <1>1, <2>3, <2>4 DEF SessionAgrees
<1>5. Sessions' /\ Trust'
  <2> HIDE DEF hash
  <2> QED  BY <1>1, <1>2, <1>3, <1>4 DEF Sessions, SessionAgrees, Agrees, Trust
<1>6. \E response : Answer(m, response)
  BY DEF HostPhase3
<1> QED  BY <1>2, <1>5, <1>6, AgreesServed

\* What the host has accepted was shown the PIN entered.
LEMMA ProvenEntered ==
  ASSUME Agrees, NEW m, InStep(4), Proven(m.request)
  PROVE  session.of \in Attempt /\ entered[session.of] = pin[session.of]
<1>1. session.step = 4 /\ SessionAgrees(session)
  BY InStepSession DEF Agrees
<1>2. session.hash # Junk
  <2>1. \A first, certificate, secret : Hash(first, certificate, secret) # Junk
    BY DEF Hash, Junk
  <2> QED  BY <2>1 DEF Proven
<1> QED  BY <1>1, <1>2 DEF SessionAgrees

LEMMA AgreesOnPhase4 ==
  ASSUME Agrees, NEW m, Serves(m), m.phase = 4, HostPhase4(m)
  PROVE  Agrees'
<1>1. Sessions' /\ Trust' /\ accepted \subseteq accepted' /\ UNCHANGED entered
  BY DEF HostPhase4, Agrees, Trust, Sessions
<1>2. \E response : Answer(m, response)
  BY DEF HostPhase4
<1> QED  BY <1>1, <1>2, AgreesServed

LEMMA AgreesOnPhase5 ==
  ASSUME Agrees, NEW m, Serves(m), m.phase = 5, HostPhase5(m)
  PROVE  Agrees'
<1>1. UNCHANGED <<pin, session, entered, trusted, accepted>>
  BY DEF HostPhase5, hostVars, Serves
<1>2. Sessions' /\ Trust'
  BY <1>1 DEF Agrees, Sessions, SessionAgrees, Trust
<1>3. Trusts(m.request.with) => m.from \in accepted
  <2>1. m.request.with = Own("certificate", m.from)
    BY DEF Agrees, Messages, Serves
  <2>2. \A b : Own("certificate", b).of = b
    BY DEF Own
  <2> QED  BY <2>1, <2>2 DEF Trusts, Agrees, Trust
<1>4. Phase4Response(Trusts(m.request.with)).paired => m.from \in accepted
  BY <1>3 DEF Phase4Response
<1> QED  BY <1>1, <1>2, <1>4, AgreesServed DEF HostPhase5

LEMMA AgreesOnUnpair ==
  ASSUME Agrees, NEW m, Serves(m), m.phase # 5, HostUnpair(m) \/ Refuse(m)
  PROVE  Agrees'
<1>1. Sessions' /\ Trust' /\ UNCHANGED <<accepted, entered>>
  BY DEF HostUnpair, Refuse, Sessions, Trust, Agrees
<1>2. \E response : Answer(m, response)
  BY DEF HostUnpair, Refuse
<1> QED  BY <1>1, <1>2, AgreesServed

LEMMA AgreesOnHost == Agrees /\ (Host \/ Lose) => Agrees'
<1>1. ASSUME Agrees, Host PROVE Agrees'
  <2>1. PICK m \in requests :
          /\ \/ m.phase = 1 /\ HostPhase1(m)
             \/ m.phase = 2 /\ (HostPhase2(m) \/ Refuse(m))
             \/ m.phase = 3 /\ (HostPhase3(m) \/ Refuse(m))
             \/ m.phase = 4 /\ (HostPhase4(m) \/ Refuse(m))
             \/ m.phase = 5 /\ HostPhase5(m)
             \/ m.phase = 6 /\ HostUnpair(m)
          /\ requests' = requests \ {m}
          /\ UNCHANGED <<pin, callVars>>
    BY <1>1 DEF Host, UnpairPhase
  <2>2. Serves(m)
    BY <2>1 DEF Serves
  <2> QED  BY <1>1, <2>1, <2>2, AgreesOnPhase1, AgreesOnPhase2, AgreesOnPhase3, AgreesOnPhase4,
              AgreesOnPhase5, AgreesOnUnpair
<1>2. ASSUME Agrees, Lose PROVE Agrees'
  <2>1. UNCHANGED <<pin, callVars, answer, session, entered, trusted, accepted>> /\ requests' \subseteq requests
    BY <1>2 DEF Lose, hostVars
  <2>2. Sessions' /\ Trust' /\ entered' \in [Attempt -> Pin \cup {None}]
    BY <1>2, <2>1 DEF Agrees, Sessions, SessionAgrees, Trust, Shapes
  <2>3. HostSteps
    BY <1>2, <2>1 DEF HostSteps, callVars, Agrees, Shapes
  <2> QED  BY <1>2, <2>1, <2>2, <2>3, AgreesHost
<1> QED  BY <1>1, <1>2

LEMMA AgreesUnchanged == Agrees /\ UNCHANGED vars => Agrees'
<1> SUFFICES ASSUME Agrees, UNCHANGED vars PROVE Agrees'
  OBVIOUS
<1>1. Sessions' /\ Trust' /\ entered' \in [Attempt -> Pin \cup {None}]
  BY DEF vars, hostVars, Agrees, Sessions, SessionAgrees, Trust, Shapes
<1>2. HostSteps /\ answer' = answer /\ accepted' = accepted
  BY DEF vars, hostVars, callVars, HostSteps, Agrees, Shapes
<1> QED  BY <1>1, <1>2, AgreesHost

LEMMA AgreesNext == Agrees /\ [Next]_vars => Agrees'
  BY AgreesOnCall, AgreesOnEnterPin, AgreesOnHost, AgreesUnchanged DEF Next

-----------------------------------------------------------------------------
(* Pairing implements PinPairing.                                          *)

LEMMA Outcomes ==
  \A a \in Attempt :
    /\ call[a] = "paired" => PairingOutcome[a] = "paired"
    /\ call[a] \in {"none", "running"} => PairingOutcome[a] = "open"
    /\ call[a] \notin {"none", "running", "paired"} => PairingOutcome[a] = "failed"
  BY DEF PairingOutcome

LEMMA OutcomesNext ==
  \A a \in Attempt :
    /\ call'[a] = "paired" => PairingOutcome'[a] = "paired"
    /\ call'[a] \in {"none", "running"} => PairingOutcome'[a] = "open"
    /\ call'[a] \notin {"none", "running", "paired"} => PairingOutcome'[a] = "failed"
  BY DEF PairingOutcome

LEMMA OutcomeOnly ==
  ASSUME NEW a \in Attempt, Only(a)
  PROVE  PairingOutcome' = [PairingOutcome EXCEPT ![a] = PairingOutcome'[a]]
<1>1. \A b \in Attempt \ {a} : PairingOutcome'[b] = PairingOutcome[b]
  BY DEF Only, PairingOutcome
<1>2. /\ PairingOutcome = [b \in Attempt |-> PairingOutcome[b]]
      /\ PairingOutcome' = [b \in Attempt |-> PairingOutcome'[b]]
  BY DEF PairingOutcome
<1> QED  BY <1>1, <1>2

LEMMA CallImplements ==
  ASSUME Agrees, NEW a \in Attempt, Call(a)
  PROVE  [PinPairing!Next]_PinPairing!vars
<1>1. Only(a)
  BY CallDoes DEF Agrees, Begins, Ends, Asks, Fails, GoesOn
<1>2. UNCHANGED <<pin, entered, accepted>>
  BY <1>1 DEF Only
<1>3. CASE PairingOutcome'[a] = PairingOutcome[a]
  <2>1. PairingOutcome = [b \in Attempt |-> PairingOutcome[b]]
    BY DEF PairingOutcome
  <2>2. PairingOutcome' = PairingOutcome
    BY <1>1, <1>3, <2>1, OutcomeOnly
  <2> QED  BY <1>2, <2>2 DEF PinPairing!vars
<1>4. CASE PairingOutcome[a] = "open" /\ PairingOutcome'[a] = "failed"
  <2>1. PinPairing!Fail(a)
    BY <1>1, <1>2, <1>4, OutcomeOnly DEF PinPairing!Fail
  <2> QED  BY <2>1 DEF PinPairing!Next
<1>5. CASE PairingOutcome[a] = "open" /\ PairingOutcome'[a] = "paired" /\ a \in accepted
  <2>1. PinPairing!Conclude(a)
    BY <1>1, <1>2, <1>5, OutcomeOnly DEF PinPairing!Conclude
  <2> QED  BY <2>1 DEF PinPairing!Next
<1>6. \/ PairingOutcome'[a] = PairingOutcome[a]
      \/ PairingOutcome[a] = "open" /\ PairingOutcome'[a] = "failed"
      \/ PairingOutcome[a] = "open" /\ PairingOutcome'[a] = "paired" /\ a \in accepted
  <2>1. CASE Begins(a)
    BY <2>1, Outcomes, OutcomesNext DEF Begins
  <2>2. CASE Ends(a)
    BY <2>2, Outcomes, OutcomesNext DEF Ends
  <2>3. CASE Asks(a)
    BY <2>3, Outcomes, OutcomesNext DEF Asks, Running
  <2>4. CASE Fails(a)
    BY <2>4, Outcomes, OutcomesNext DEF Fails, Running
  <2>5. CASE GoesOn(a)
    <3>1. Running(a) /\ pairing[a].state = "Success" => a \in accepted
      BY DEF Agrees, Calls, CallAgrees
    <3>2. call[a] = "running" /\ (call'[a] = "running" \/ (call'[a] = "paired" /\ a \in accepted))
      BY <2>5, <3>1 DEF GoesOn, Running
    <3> QED  BY <3>2, Outcomes, OutcomesNext
  <2> QED  BY <2>1, <2>2, <2>3, <2>4, <2>5, CallDoes DEF Agrees
<1> QED  BY <1>3, <1>4, <1>5, <1>6

LEMMA HostImplements ==
  ASSUME Agrees, EnterPin \/ Host \/ Lose
  PROVE  [PinPairing!Next]_PinPairing!vars
<1>1. PairingOutcome' = PairingOutcome /\ UNCHANGED pin
  BY DEF EnterPin, Host, Lose, callVars, PairingOutcome
<1>2. CASE UNCHANGED <<entered, accepted>>
  BY <1>1, <1>2 DEF PinPairing!vars
<1>3. CASE EnterPin
  <2>1. session # NoSession /\ session.of \in Attempt
    BY <1>3, InStepSession DEF EnterPin, Agrees, SessionAgrees
  <2>2. PinPairing!Enter(session.of)
    BY <1>1, <1>3 DEF EnterPin, PinPairing!Enter
  <2> QED  BY <2>1, <2>2 DEF PinPairing!Next
<1>4. ASSUME NEW m \in requests, HostPhase4(m)
      PROVE  [PinPairing!Next]_PinPairing!vars
  <2>1. session.of \in Attempt /\ entered[session.of] = pin[session.of]
    BY <1>4, ProvenEntered DEF HostPhase4
  <2>2. PinPairing!Accept(session.of)
    BY <1>1, <1>4, <2>1 DEF HostPhase4, PinPairing!Accept
  <2> QED  BY <2>1, <2>2 DEF PinPairing!Next
<1>5. UNCHANGED <<entered, accepted>> \/ EnterPin \/ \E m \in requests : HostPhase4(m)
  BY DEF Host, Lose, HostPhase1, HostPhase2, HostPhase3, HostPhase5, HostUnpair, Refuse, hostVars
<1> QED  BY <1>2, <1>3, <1>4, <1>5

\* Whatever is lost, late or repeated, a call of pair() returns Ok only after
\* the PIN it shows was entered and the host has accepted it (client.rs,
\* handle_response).
THEOREM PairingKeepsPromise == Spec => ImplementsPinPairing
<1>1. Init => PinPairing!Init
  <2> SUFFICES ASSUME Init PROVE PinPairing!Init
    OBVIOUS
  <2>1. PairingOutcome = [a \in Attempt |-> "open"]
    BY DEF Init, PairingOutcome
  <2> QED  BY <2>1 DEF Init, PinPairing!Init
<1>2. Agrees /\ [Next]_vars => [PinPairing!Next]_PinPairing!vars
  <2>1. ASSUME Agrees, UNCHANGED vars PROVE UNCHANGED PinPairing!vars
    BY <2>1 DEF vars, callVars, hostVars, PinPairing!vars, PairingOutcome
  <2> QED  BY <2>1, CallImplements, HostImplements DEF Next
<1> QED  BY <1>1, <1>2, AgreesInit, AgreesNext, PTL DEF Spec, ImplementsPinPairing, PinPairing!Spec

-----------------------------------------------------------------------------
(* A call that failed leaves no trust behind.                              *)

LEMMA LeavesInit == Init => Leaves
<1> SUFFICES ASSUME Init PROVE Leaves
  OBVIOUS
<1>1. Beginnings
  BY DEF Init, Beginnings, BeginsRight, Requested, InSession, Idle
<1>2. Unpaired
  BY DEF Init, Unpaired, UnpairedRight
<1> QED  BY <1>1, <1>2, AgreesInit DEF Leaves

\* A step of another call.
LEMMA LeavesOther ==
  ASSUME NEW a \in Attempt, NEW b \in Attempt \ {a}, Only(a),
         \A m \in requests' : m \in requests \/ m.from = a,
         requests \subseteq requests',
         BeginsRight(b), UnpairedRight(b)
  PROVE  BeginsRight(b)' /\ UnpairedRight(b)'
<1>1. \A phases : Requested(b, phases)' <=> Requested(b, phases)
  BY DEF Requested
<1>2. InSession(b)' <=> InSession(b)
  BY DEF Only, InSession
<1>3. /\ call'[b] = call[b] /\ pairing'[b] = pairing[b] /\ answer'[b] = answer[b]
      /\ trusted' = trusted
  BY DEF Only
<1> QED  BY <1>1, <1>2, <1>3 DEF BeginsRight, UnpairedRight, Running

LEMMA LeavesAsked ==
  ASSUME NEW a \in Attempt, Asks(a), BeginsRight(a)
  PROVE  BeginsRight(a)' /\ UnpairedRight(a)'
<1>1. PICK phase, request :
        /\ phase \in 1 .. 5
        /\ requests' = requests \cup {Message(a, phase, request)}
        /\ IF phase = 1
           THEN pairing[a].state = "SendPhase1" /\ pairing'[a].state = "RecvPhase1"
           ELSE /\ pairing[a].state \in {"SendPhase2", "SendPhase3", "SendPhase4", "SendPhase5"}
                /\ pairing'[a].state \in {"RecvPhase2", "RecvPhase3", "RecvPhase4", "RecvPhase5"}
  BY DEF Asks
<1>2. InSession(a)' <=> InSession(a)
  BY DEF Asks, Only, InSession
<1>3. \A phases : Requested(a, phases)' => Requested(a, phases) \/ phase \in phases
  BY <1>1 DEF Requested, Message
<1>4. call'[a] = "running" /\ answer'[a] = None
  BY DEF Asks
<1>5. CASE phase = 1
  <2>1. ~Requested(a, 1 .. 5) /\ ~InSession(a)
    BY <1>1, <1>5 DEF BeginsRight
  <2>2. ~Requested(a, 2 .. 5)
    BY <2>1 DEF Requested
  <2> QED  BY <1>1, <1>2, <1>3, <1>4, <1>5, <2>1, <2>2 DEF BeginsRight, UnpairedRight
<1>6. CASE phase # 1
  <2>1. ~Requested(a, {1})
    BY <1>1, <1>6 DEF BeginsRight
  <2> QED  BY <1>1, <1>3, <1>4, <1>6, <2>1 DEF BeginsRight, UnpairedRight
<1> QED  BY <1>5, <1>6

LEMMA LeavesOnCall ==
  ASSUME Leaves, NEW a \in Attempt, Call(a)
  PROVE  Leaves'
<1>1. BeginsRight(a) /\ UnpairedRight(a)
  BY DEF Leaves, Beginnings, Unpaired
<1>2. BeginsRight(a)' /\ UnpairedRight(a)'
  <2>1. CASE UNCHANGED requests
    <3>1. \A phases : Requested(a, phases)' <=> Requested(a, phases)
      BY <2>1 DEF Requested
    <3>2. Only(a) => (InSession(a)' <=> InSession(a)) /\ trusted' = trusted
      BY DEF Only, InSession
    <3>3. CASE Begins(a)
      BY <1>1, <3>1, <3>2, <3>3 DEF Begins, BeginsRight, UnpairedRight, Running
    <3>4. CASE Ends(a)
      BY <1>1, <3>1, <3>2, <3>4 DEF Ends, BeginsRight, UnpairedRight, Running
    <3>5. CASE GoesOn(a)
      BY <1>1, <3>1, <3>2, <3>5 DEF GoesOn, BeginsRight, UnpairedRight, Running
    <3>6. CASE Fails(a)
      BY <1>1, <3>1, <3>2, <3>6 DEF Fails, BeginsRight, UnpairedRight, Running
    <3>7. CASE Asks(a)
      BY <1>1, <3>7, LeavesAsked
    <3> QED  BY <3>3, <3>4, <3>5, <3>6, <3>7, CallDoes DEF Leaves, Agrees
  <2>2. CASE Asks(a)
    BY <1>1, <2>2, LeavesAsked
  <2>3. CASE Fails(a)
    <3>1. \A phases \in SUBSET (1 .. 5) : Requested(a, phases)' <=> Requested(a, phases)
      BY <2>3 DEF Fails, Requested, Message
    <3>2. (InSession(a)' <=> InSession(a))
      BY <2>3 DEF Fails, Only, InSession
    <3> QED  BY <1>1, <2>3, <3>1, <3>2 DEF Fails, BeginsRight, UnpairedRight, Running
  <2> QED  BY <2>1, <2>2, <2>3, CallDoes DEF Leaves, Agrees, Begins, Ends, GoesOn
<1>3. ASSUME NEW b \in Attempt \ {a} PROVE BeginsRight(b)' /\ UnpairedRight(b)'
  <2>1. BeginsRight(b) /\ UnpairedRight(b)
    BY DEF Leaves, Beginnings, Unpaired
  <2>2. Only(a)
    BY CallDoes DEF Leaves, Agrees, Begins, Ends, Asks, Fails, GoesOn
  <2>3. (\A m \in requests' : m \in requests \/ m.from = a) /\ requests \subseteq requests'
    <3>1. CASE Asks(a)
      BY <3>1 DEF Asks, Message
    <3>2. CASE Fails(a)
      BY <3>2 DEF Fails, Message
    <3>3. CASE UNCHANGED requests
      BY <3>3
    <3> QED  BY <3>1, <3>2, <3>3, CallDoes DEF Leaves, Agrees, Begins, Ends, GoesOn
  <2> QED  BY <2>1, <2>2, <2>3, LeavesOther
<1>4. \A b \in Attempt : BeginsRight(b)' /\ UnpairedRight(b)'
  BY <1>2, <1>3
<1>5. Beginnings' /\ Unpaired'
  BY <1>4 DEF Beginnings, Unpaired
<1> QED  BY <1>5, AgreesOnCall DEF Leaves

\* What a step of the host or the network may do: the session becomes the one
\* of a call only by its first request, an answer is to a request, the one to
\* unpairing leaves neither session nor trust, and a call is accepted by its
\* own request.
HostRight ==
  /\ UNCHANGED <<call, pairing>>
  /\ requests' \subseteq requests
  /\ \A a \in Attempt :
       /\ InSession(a)' => InSession(a) \/ (Requested(a, {1}) /\ ~Requested(a, {1})')
       /\ answer'[a] # answer[a] =>
            \/ waiting[a] = 1 /\ InSession(a)
            \/ waiting[a] \in 2 .. 5 /\ Requested(a, 2 .. 5)
            \/ waiting[a] = 6 /\ ~InSession(a)' /\ trusted' = {}
       /\ a \in trusted' => a \in trusted \/ (InSession(a) /\ Requested(a, {4}))

LEMMA LeavesOnHost ==
  ASSUME Leaves, HostRight, Agrees'
  PROVE  Leaves'
<1> SUFFICES ASSUME NEW a \in Attempt PROVE BeginsRight(a)' /\ UnpairedRight(a)'
  BY DEF Leaves, Beginnings, Unpaired
<1>1. BeginsRight(a) /\ UnpairedRight(a) /\ CallAgrees(a)
  BY DEF Leaves, Beginnings, Unpaired, Agrees, Calls
<1>2. \A phases : Requested(a, phases)' => Requested(a, phases)
  BY DEF HostRight, Requested
<1>3. /\ call'[a] = call[a] /\ pairing'[a] = pairing[a]
      /\ InSession(a)' => InSession(a) \/ (Requested(a, {1}) /\ ~Requested(a, {1})')
      /\ answer'[a] # answer[a] =>
           \/ waiting[a] = 1 /\ InSession(a)
           \/ waiting[a] \in 2 .. 5 /\ Requested(a, 2 .. 5)
           \/ waiting[a] = 6 /\ ~InSession(a)' /\ trusted' = {}
      /\ a \in trusted' => a \in trusted \/ (InSession(a) /\ Requested(a, {4}))
  BY DEF HostRight
<1>4. BeginsRight(a)'
  <2>1. Requested(a, {1}) => Requested(a, 1 .. 5)
    BY DEF Requested
  <2>2. Requested(a, {1})' /\ Running(a) => answer'[a] = answer[a]
    <3>1. Requested(a, {1})' /\ Running(a) => waiting[a] # 6
      BY <1>1, <1>2 DEF BeginsRight, CallAgrees
    <3> QED  BY <1>1, <1>2, <1>3, <3>1 DEF BeginsRight
  <2> QED  BY <1>1, <1>2, <1>3, <2>1, <2>2 DEF BeginsRight, Running
<1>5. UnpairedRight(a)'
  <2>1. Requested(a, {4}) => Requested(a, 2 .. 5)
    BY DEF Requested
  <2>2. CASE call[a] = "failed" \/ (call[a] = "unpairing" /\ answer[a] # None)
    BY <1>1, <1>2, <1>3, <2>1, <2>2 DEF UnpairedRight, BeginsRight
  <2>3. CASE call[a] = "unpairing" /\ answer[a] = None
    BY <1>1, <1>3, <2>3 DEF UnpairedRight, CallAgrees
  <2> QED  BY <1>3, <2>2, <2>3 DEF UnpairedRight
<1> QED  BY <1>4, <1>5

\* The answers of a request that is not the one to unpair.
LEMMA HostRightServed ==
  ASSUME Agrees, NEW m, Serves(m), m.phase \in 2 .. 5, NEW response, Answer(m, response),
         session' = NoSession \/ (session # NoSession /\ session'.of = session.of),
         \A a \in trusted' : a \in trusted \/ (InSession(a) /\ Requested(a, {4}))
  PROVE  HostRight
<1>1. m \in requests /\ m.from \in Attempt /\ Requested(m.from, 2 .. 5)
  BY DEF Serves, Agrees, Messages, Requested
<1>2. \A a \in Attempt : answer'[a] # answer[a] => a = m.from /\ waiting[a] = m.phase
  <2>1. AnswerTo(m.from, m.phase, response)
    BY DEF Answer
  <2> QED  BY <2>1, AnswerSet DEF Agrees
<1>3. \A a \in Attempt : InSession(a)' => InSession(a)
  BY DEF InSession
<1> QED  BY <1>1, <1>2, <1>3 DEF HostRight, Serves, callVars

LEMMA LeavesServed ==
  ASSUME Agrees, NEW m, Serves(m),
         \/ m.phase = 1 /\ HostPhase1(m)
         \/ m.phase = 2 /\ (HostPhase2(m) \/ Refuse(m))
         \/ m.phase = 3 /\ (HostPhase3(m) \/ Refuse(m))
         \/ m.phase = 4 /\ (HostPhase4(m) \/ Refuse(m))
         \/ m.phase = 5 /\ HostPhase5(m)
         \/ m.phase = 6 /\ HostUnpair(m)
  PROVE  HostRight
<1>1. CASE m.phase = 1 /\ HostPhase1(m)
  <2>1. m = [from |-> m.from, phase |-> 1, request |-> Phase1Request(m.from)] /\ m.from \in Attempt
    BY <1>1 DEF Agrees, Messages, Serves
  <2>2. Requested(m.from, {1})
    BY <1>1 DEF Requested, Serves
  <2>3. ~Requested(m.from, {1})'
    <3>1. ASSUME NEW n \in requests', n.from = m.from, n.phase = 1 PROVE FALSE
      <4>1. n = [from |-> n.from, phase |-> 1, request |-> Phase1Request(n.from)]
        BY <3>1 DEF Agrees, Messages, Serves
      <4> QED  BY <2>1, <3>1, <4>1 DEF Serves
    <3> QED  BY <3>1 DEF Requested
  <2>4. \A a : InSession(a)' => a = m.from
    BY <1>1 DEF InSession, HostPhase1
  <2> QED  BY <1>1, <2>1, <2>2, <2>3, <2>4 DEF HostRight, HostPhase1, Serves, callVars
<1>2. CASE m.phase \in 2 .. 5 /\ Refuse(m)
  BY <1>2, HostRightServed DEF Refuse
<1>3. CASE m.phase = 2 /\ HostPhase2(m)
  <2>1. session # NoSession /\ SessionAgrees(session)
    BY <1>3, InStepSession DEF HostPhase2, Agrees
  <2>2. session'.of = session.of /\ trusted' = trusted
    BY <1>3, <2>1 DEF HostPhase2, SessionAgrees
  <2>3. \E response : Answer(m, response)
    BY <1>3 DEF HostPhase2
  <2> QED  BY <1>3, <2>1, <2>2, <2>3, HostRightServed
<1>4. CASE m.phase = 3 /\ HostPhase3(m)
  <2>1. session # NoSession /\ SessionAgrees(session)
    BY <1>4, InStepSession DEF HostPhase3, Agrees
  <2>2. session'.of = session.of /\ trusted' = trusted
    BY <1>4, <2>1 DEF HostPhase3, SessionAgrees
  <2>3. \E response : Answer(m, response)
    BY <1>4 DEF HostPhase3
  <2> QED  BY <1>4, <2>1, <2>2, <2>3, HostRightServed
<1>5. CASE m.phase = 4 /\ HostPhase4(m)
  <2>1. session # NoSession /\ SessionAgrees(session)
    BY <1>5, InStepSession DEF HostPhase4, Agrees
  <2>2. m.from = session.of
    <3>1. Own("certificate", m.from) = Own("certificate", session.of)
      BY <1>5, <2>1 DEF HostPhase4, Proven, SessionAgrees, Agrees, Messages, Serves
    <3>2. \A b : Own("certificate", b).of = b
      BY DEF Own
    <3> QED  BY <3>1, <3>2
  <2>3. InSession(session.of) /\ Requested(session.of, {4})
    BY <1>5, <2>1, <2>2 DEF InSession, Requested, Serves
  <2>4. session' = NoSession /\ \A a \in trusted' : a \in trusted \/ a = session.of
    BY <1>5 DEF HostPhase4
  <2>5. \E response : Answer(m, response)
    BY <1>5 DEF HostPhase4
  <2> QED  BY <1>5, <2>3, <2>4, <2>5, HostRightServed
<1>6. CASE m.phase = 5 /\ HostPhase5(m)
  <2>1. UNCHANGED <<session, trusted>>
    BY <1>6 DEF HostPhase5, hostVars
  <2>2. session' = NoSession \/ (session # NoSession /\ session'.of = session.of)
    BY <2>1
  <2> QED  BY <1>6, <2>1, <2>2, HostRightServed DEF HostPhase5
<1>7. CASE m.phase = 6 /\ HostUnpair(m)
  <2>1. AnswerTo(m.from, 6, [tag |-> "none"]) /\ session' = NoSession /\ trusted' = {}
    BY <1>7 DEF HostUnpair, Answer
  <2>2. \A a \in Attempt : answer'[a] # answer[a] => waiting[a] = 6
    BY <2>1, AnswerSet DEF Agrees
  <2> QED  BY <2>1, <2>2 DEF HostRight, Serves, callVars, InSession
<1> QED  BY <1>1, <1>2, <1>3, <1>4, <1>5, <1>6, <1>7

LEMMA LeavesNext == Leaves /\ [Next]_vars => Leaves'
<1> SUFFICES ASSUME Leaves, [Next]_vars PROVE Leaves'
  OBVIOUS
<1>1. Agrees /\ Agrees'
  BY AgreesNext DEF Leaves
<1>2. CASE \E a \in Attempt : Call(a)
  BY <1>2, LeavesOnCall
<1>3. CASE EnterPin
  <2>1. session # NoSession /\ session'.of = session.of
    BY <1>1, <1>3, InStepSession DEF EnterPin, Agrees, SessionAgrees
  <2>2. \A a \in Attempt : answer'[a] # answer[a] => a = session.of /\ waiting[a] = 1
    BY <1>1, <1>3, AnswerSet DEF EnterPin, Agrees
  <2>3. HostRight
    BY <1>3, <2>1, <2>2 DEF HostRight, EnterPin, callVars, InSession
  <2> QED  BY <1>1, <2>3, LeavesOnHost
<1>4. CASE Host
  <2>1. PICK m \in requests :
          /\ \/ m.phase = 1 /\ HostPhase1(m)
             \/ m.phase = 2 /\ (HostPhase2(m) \/ Refuse(m))
             \/ m.phase = 3 /\ (HostPhase3(m) \/ Refuse(m))
             \/ m.phase = 4 /\ (HostPhase4(m) \/ Refuse(m))
             \/ m.phase = 5 /\ HostPhase5(m)
             \/ m.phase = 6 /\ HostUnpair(m)
          /\ requests' = requests \ {m}
          /\ UNCHANGED <<pin, callVars>>
    BY <1>4 DEF Host, UnpairPhase
  <2>2. Serves(m)
    BY <2>1 DEF Serves
  <2>3. HostRight
    BY <1>1, <2>1, <2>2, LeavesServed
  <2> QED  BY <1>1, <2>3, LeavesOnHost
<1>5. CASE Lose \/ UNCHANGED vars
  <2>1. HostRight
    BY <1>5 DEF Lose, vars, callVars, hostVars, HostRight, InSession
  <2> QED  BY <1>1, <2>1, LeavesOnHost
<1> QED  BY <1>2, <1>3, <1>4, <1>5 DEF Next

\* When pair() has returned an error and the host has answered the unpairing,
\* the host does not trust the certificate, even if it accepted phase 4 and
\* only the answer got lost (tokio.rs, pair).
THEOREM FailureIsClean == Spec => []FailureLeavesNothing
<1>1. Leaves => FailureLeavesNothing
  BY DEF Leaves, Unpaired, UnpairedRight, FailureLeavesNothing
<1> QED  BY <1>1, LeavesInit, LeavesNext, PTL DEF Spec

-----------------------------------------------------------------------------
(* A call alone with its host is told the right error.                     *)

HostOwn(what, a) == [what |-> what, session |-> a]

\* The host waits for the request of call a that follows that of phase n - 1.
HostAt(a, n) == session # NoSession /\ session.of = a /\ session.step = n

\* What the client has of the host's challenge and its hash: all of it if it was
\* encrypted with its key, and else nothing.
HashSeen(a) ==
  IF entered[a] = pin[a]
  THEN Hash(Own("challenge", a), ServerCertificate, HostOwn("server secret", a)) ELSE Junk
ChallengeSeen(a) == IF entered[a] = pin[a] THEN HostOwn("server challenge", a) ELSE Junk

\* What the host has of the hash of the client.
HashKnown(a) ==
  entered[a] = pin[a] =>
    session.hash = Hash(HostOwn("server challenge", a), Own("certificate", a), Own("secret", a))

\* The request under way is the one whose answer the call waits for.
OwnRequest(a, m) ==
  /\ m.from = a /\ m.phase = waiting[a]
  /\ m.phase = 2 => m.request = Phase2Request(Encrypted(AesKey(a), Own("challenge", a)))
  /\ m.phase = 3 => m.request = Phase3Request(Encrypted(AesKey(a),
       Hash(ChallengeSeen(a), Own("certificate", a), Own("secret", a))))
  /\ m.phase = 4 => m.request = Phase4Request(a)

Sending == {"SendPhase1", "SendPhase2", "SendPhase3", "SendPhase4", "SetCertificate", "SendPhase5",
            "Success"}

\* Call and host are in step in each state of the call.
Awaited(a) ==
  LET state == pairing[a].state IN
  /\ state \in Sending => waiting[a] = 0
  /\ state = "RecvPhase1" => waiting[a] = 1
  /\ state = "RecvPhase2" => waiting[a] = 2
  /\ state = "RecvPhase3" => waiting[a] = 3
  /\ state = "RecvPhase4" => waiting[a] = 4
  /\ state = "RecvPhase5" => waiting[a] = 5
  /\ state \in Sending \cup {"RecvPhase1", "RecvPhase2", "RecvPhase3", "RecvPhase4", "RecvPhase5"}

\* What the call holds of what the host has told it.
Told(a) ==
  LET p == pairing[a] IN
  /\ p.state \notin {"SendPhase1", "RecvPhase1"} => entered[a] \in Pin
  /\ p.state \in {"SendPhase2", "RecvPhase2", "SendPhase3", "RecvPhase3"} =>
       p.server_certificate = ServerCertificate
  /\ p.state \in {"SendPhase3", "RecvPhase3"} => p.server_response_hash = HashSeen(a)
  /\ p.state = "SendPhase3" => p.server_challenge = ChallengeSeen(a)
  /\ p.state \in {"SendPhase4", "RecvPhase4"} => entered[a] = pin[a]
  /\ p.state \in {"SetCertificate", "SendPhase5", "RecvPhase5"} => a \in trusted

\* The host is ready for the request that is next, or under way.
Expected(a) ==
  LET state == pairing[a].state
      asked == requests # {} IN
  /\ state = "SendPhase2" \/ (state = "RecvPhase2" /\ asked) => HostAt(a, 2)
  /\ state = "SendPhase3" \/ (state = "RecvPhase3" /\ asked) => HostAt(a, 3)
  /\ state = "SendPhase4" \/ (state = "RecvPhase4" /\ asked) => HostAt(a, 4) /\ HashKnown(a)

\* And its answer is right.
RightChallenge(a) ==
  /\ HostAt(a, 3)
  /\ \E first :
       /\ answer[a] = Phase2Response(Encrypted(Key(Own("salt", a), entered[a]),
            [hash |-> Hash(first, ServerCertificate, HostOwn("server secret", a)),
             challenge |-> HostOwn("server challenge", a)]))
       /\ entered[a] = pin[a] => first = Own("challenge", a)

RightSecret(a) ==
  /\ answer[a] = Phase3Response(HostOwn("server secret", a), ServerCertificate)
  /\ HostAt(a, 4) /\ HashKnown(a)

RightAnswerTo(a) ==
  /\ waiting[a] = 1 =>
       answer[a] = Phase1Response(ServerCertificate) /\ HostAt(a, 2) /\ entered[a] \in Pin
  /\ waiting[a] = 2 => RightChallenge(a)
  /\ waiting[a] = 3 => RightSecret(a)
  /\ waiting[a] = 4 => answer[a] = Phase4Response(TRUE) /\ a \in trusted
  /\ waiting[a] = 5 => answer[a] = Phase4Response(TRUE)

InTouch(a) ==
  /\ \A m \in requests : OwnRequest(a, m)
  /\ \A m, n \in requests : m = n
  /\ requests # {} => answer[a] = None
  /\ Awaited(a) /\ Told(a) /\ Expected(a)
  /\ answer[a] # None => RightAnswerTo(a)

RightErrors ==
  /\ error = [a \in Attempt |-> error[a]]
  /\ \A a \in Attempt :
       /\ error[a] = "WrongPin" => entered[a] \in Pin \ {pin[a]}
       /\ error[a] # "Failed"

Live(a) == call[a] \in {"running", "unpairing"}

Alone ==
  /\ RightErrors
  /\ \A a, b \in Attempt : Live(a) /\ Live(b) => a = b
  /\ \A a \in Attempt : Running(a) => InTouch(a)

Quiet == \A a \in Attempt : waiting[a] = 0 => answer[a] = None

Right == Leaves /\ Quiet /\ (~overlapped => Alone)

LEMMA RightInit == Init => Right
<1> SUFFICES ASSUME Init PROVE Right
  OBVIOUS
<1>1. Quiet
  BY DEF Init, Quiet
<1>2. \A a \in Attempt : error[a] = None /\ ~Running(a) /\ ~Live(a)
  BY DEF Init, Running, Live
<1>3. error = [a \in Attempt |-> error[a]]
  BY DEF Init
<1>4. Alone
  BY <1>2, <1>3, PairingAssumption DEF Alone, RightErrors
<1> QED  BY <1>1, <1>4, LeavesInit DEF Right

\* Nothing is under way while a call waits for nothing.
LEMMA NothingUnderWay ==
  ASSUME Agrees, Quiet, NEW a \in Attempt, InTouch(a), waiting[a] = 0
  PROVE  requests = {} /\ answer[a] = None
  BY DEF Agrees, Messages, Quiet, InTouch, OwnRequest

\* A step of the only call.
LEMMA AloneOnly ==
  ASSUME Alone, NEW a \in Attempt, Only(a), Live(a) \/ \A b \in Attempt : ~Live(b),
         Running(a)' => InTouch(a)', RightErrors'
  PROVE  Alone'
<1>1. \A b \in Attempt \ {a} : ~Live(b)' /\ ~Running(b)'
  BY DEF Alone, Only, Live, Running
<1> QED  BY <1>1 DEF Alone

\* The call goes on to send a request: nothing was under way before.
LEMMA AskedInTouch ==
  ASSUME Agrees, NEW a \in Attempt, requests = {}, NEW phase, NEW request,
         requests' = requests \cup {Message(a, phase, request)}, answer'[a] = None,
         OwnRequest(a, Message(a, phase, request))',
         Awaited(a)', Told(a)', Expected(a)'
  PROVE  InTouch(a)'
  BY DEF InTouch

LEMMA GoesTo ==
  ASSUME Shapes, NEW a \in Attempt, NEW state, Goes(a, state)
  PROVE  /\ pairing'[a].state = state
         /\ pairing'[a].server_certificate =
              IF state \in {"SendPhase5", "RecvPhase5", "Success", "None"} THEN None
              ELSE pairing[a].server_certificate
         /\ pairing'[a].server_response_hash =
              IF state \in {"SendPhase3", "RecvPhase3"} THEN pairing[a].server_response_hash ELSE None
  BY DEF Goes, Shapes

LEMMA PollInTouch ==
  ASSUME Agrees, Quiet, Alone, NEW a \in Attempt, PollRequest(a)
  PROVE  InTouch(a)' /\ Live(a) /\ UNCHANGED error
<1>1. Running(a) /\ waiting[a] = 0 /\ InTouch(a) /\ UNCHANGED <<pin, error, session, entered, trusted>>
  BY DEF PollRequest, Polls, Alone, hostVars
<1>2. requests = {} /\ answer[a] = None /\ Told(a) /\ Expected(a)
  BY <1>1, NothingUnderWay DEF InTouch
<1>3. HashSeen(a)' = HashSeen(a) /\ ChallengeSeen(a)' = ChallengeSeen(a) /\ AesKey(a)' = AesKey(a)
  BY <1>1 DEF HashSeen, ChallengeSeen, AesKey
<1>4. \A n : HostAt(a, n)' <=> HostAt(a, n)
  BY <1>1 DEF HostAt
<1>5. HashKnown(a)' <=> HashKnown(a)
  BY <1>1 DEF HashKnown
<1>6. ASSUME NEW phase \in 1 .. 5, NEW from, NEW to, NEW request,
             Polls(a, from, to), Send(a, phase, request)
      PROVE  /\ pairing[a].state = from /\ pairing'[a].state = to
             /\ pairing'[a].server_certificate =
                  IF to \in {"SendPhase5", "RecvPhase5", "Success", "None"} THEN None
                  ELSE pairing[a].server_certificate
             /\ pairing'[a].server_response_hash =
                  IF to \in {"SendPhase3", "RecvPhase3"} THEN pairing[a].server_response_hash ELSE None
             /\ waiting'[a] = phase /\ answer'[a] = None
             /\ requests' = requests \cup {Message(a, phase, request)}
  BY <1>6, SendSet, GoesTo DEF Polls, Agrees
<1>7. CASE Polls(a, "SendPhase1", "RecvPhase1") /\ Send(a, 1, Phase1Request(a))
  <2>1. OwnRequest(a, Message(a, 1, Phase1Request(a)))'
    BY <1>6, <1>7 DEF OwnRequest, Message
  <2>2. Awaited(a)' /\ Told(a)' /\ Expected(a)'
    BY <1>6, <1>7 DEF Awaited, Told, Expected, Sending
  <2> QED  BY <1>1, <1>2, <1>6, <1>7, <2>1, <2>2, AskedInTouch DEF Live, Running
<1>8. CASE Polls(a, "SendPhase2", "RecvPhase2")
             /\ Send(a, 2, Phase2Request(Encrypted(AesKey(a), Own("challenge", a))))
  <2>0. PICK request : request = Phase2Request(Encrypted(AesKey(a), Own("challenge", a)))
    OBVIOUS
  <2>1. Polls(a, "SendPhase2", "RecvPhase2") /\ Send(a, 2, request)
    BY <1>8, <2>0
  <2>2. /\ pairing[a].state = "SendPhase2" /\ pairing'[a].state = "RecvPhase2"
        /\ pairing'[a].server_certificate = pairing[a].server_certificate
        /\ waiting'[a] = 2 /\ answer'[a] = None
        /\ requests' = requests \cup {Message(a, 2, request)}
    BY <1>6, <2>1
  <2>3. OwnRequest(a, Message(a, 2, request))'
    BY <1>3, <2>0, <2>2 DEF OwnRequest, Message
  <2>4. Awaited(a)'
    BY <2>2 DEF Awaited, Sending
  <2>5. Told(a)'
    BY <1>1, <1>2, <2>2 DEF Told
  <2>6. Expected(a)'
    BY <1>2, <1>4, <2>2 DEF Expected
  <2>7. InTouch(a)'
    BY <1>2, <2>2, <2>3, <2>4, <2>5, <2>6, AskedInTouch
  <2> QED  BY <1>1, <2>7 DEF Live, Running
<1>9. CASE Polls(a, "SendPhase3", "RecvPhase3")
             /\ Send(a, 3, Phase3Request(Encrypted(AesKey(a),
                  Hash(pairing[a].server_challenge, Own("certificate", a), Own("secret", a)))))
  <2>0. PICK request : request = Phase3Request(Encrypted(AesKey(a),
                         Hash(pairing[a].server_challenge, Own("certificate", a), Own("secret", a))))
    OBVIOUS
  <2>1. Polls(a, "SendPhase3", "RecvPhase3") /\ Send(a, 3, request)
    BY <1>9, <2>0
  <2>2. /\ pairing[a].state = "SendPhase3" /\ pairing'[a].state = "RecvPhase3"
        /\ pairing'[a].server_certificate = pairing[a].server_certificate
        /\ pairing'[a].server_response_hash = pairing[a].server_response_hash
        /\ waiting'[a] = 3 /\ answer'[a] = None
        /\ requests' = requests \cup {Message(a, 3, request)}
    BY <1>6, <2>1
  <2>3. OwnRequest(a, Message(a, 3, request))'
    <3>1. pairing[a].server_challenge = ChallengeSeen(a)
      BY <1>2, <2>2 DEF Told
    <3> QED  BY <1>3, <2>0, <2>2, <3>1 DEF OwnRequest, Message
  <2>4. Awaited(a)'
    BY <2>2 DEF Awaited, Sending
  <2>5. Told(a)'
    BY <1>1, <1>2, <1>3, <2>2 DEF Told
  <2>6. Expected(a)'
    BY <1>2, <1>4, <2>2 DEF Expected
  <2>7. InTouch(a)'
    BY <1>2, <2>2, <2>3, <2>4, <2>5, <2>6, AskedInTouch
  <2> QED  BY <1>1, <2>7 DEF Live, Running
<1>10. CASE Polls(a, "SendPhase4", "RecvPhase4") /\ Send(a, 4, Phase4Request(a))
  <2>1. OwnRequest(a, Message(a, 4, Phase4Request(a)))'
    BY <1>6, <1>10 DEF OwnRequest, Message
  <2>2. Awaited(a)'
    BY <1>6, <1>10 DEF Awaited, Sending
  <2>3. Told(a)'
    BY <1>1, <1>2, <1>6, <1>10 DEF Told
  <2>4. Expected(a)'
    BY <1>2, <1>4, <1>5, <1>6, <1>10 DEF Expected
  <2> QED  BY <1>1, <1>2, <1>6, <1>10, <2>1, <2>2, <2>3, <2>4, AskedInTouch DEF Live, Running
<1>11. CASE Polls(a, "SendPhase5", "RecvPhase5") /\ Send(a, 5, Phase5Request(a))
  <2>1. OwnRequest(a, Message(a, 5, Phase5Request(a)))'
    BY <1>6, <1>11 DEF OwnRequest, Message
  <2>2. Awaited(a)'
    BY <1>6, <1>11 DEF Awaited, Sending
  <2>3. Told(a)'
    BY <1>1, <1>2, <1>6, <1>11 DEF Told
  <2>4. Expected(a)'
    BY <1>6, <1>11 DEF Expected
  <2> QED  BY <1>1, <1>2, <1>6, <1>11, <2>1, <2>2, <2>3, <2>4, AskedInTouch DEF Live, Running
<1> QED  BY <1>7, <1>8, <1>9, <1>10, <1>11 DEF PollRequest

\* The call goes on without a request.
LEMMA GoesOnInTouch ==
  ASSUME NEW a \in Attempt, requests' = {}, answer'[a] = None, Awaited(a)', Told(a)', Expected(a)'
  PROVE  InTouch(a)'
  BY DEF InTouch

LEMMA BeginInTouch ==
  ASSUME Agrees, Quiet, NEW a \in Attempt, Begin(a), ~overlapped'
  PROVE  /\ \A b \in Attempt : ~Live(b)
         /\ Running(a)' => InTouch(a)'
         /\ UNCHANGED error
<1>1. requests = {} /\ (\A b \in Attempt : ~Live(b)) /\ UNCHANGED error
  BY DEF Begin, Live
<1>2. Begins(a) /\ waiting[a] = 0 /\ answer[a] = None
  BY BeginBegins DEF Agrees, Calls, CallAgrees, Quiet, Begins
<1>3. ASSUME Running(a)' PROVE InTouch(a)'
  <2>1. pairing'[a].state = "SendPhase1" /\ waiting'[a] = 0 /\ answer'[a] = None /\ requests' = {}
    BY <1>1, <1>2, <1>3 DEF Begins, Running
  <2>2. Awaited(a)' /\ Told(a)' /\ Expected(a)'
    BY <2>1 DEF Awaited, Told, Expected, Sending
  <2> QED  BY <2>1, <2>2, GoesOnInTouch
<1> QED  BY <1>1, <1>3

LEMMA IdentifierInTouch ==
  ASSUME Agrees, Quiet, Alone, NEW a \in Attempt, PollIdentifier(a)
  PROVE  InTouch(a)' /\ Live(a) /\ UNCHANGED error
<1>1. /\ Running(a) /\ waiting[a] = 0 /\ InTouch(a) /\ UNCHANGED <<error, entered, trusted>>
      /\ pairing[a].state = "SetCertificate" /\ UNCHANGED <<waiting, requests, answer>>
  BY DEF PollIdentifier, Polls, Alone, hostVars
<1>2. requests = {} /\ answer[a] = None /\ Told(a)
  BY <1>1, NothingUnderWay DEF InTouch
<1>3. pairing'[a].state = "SendPhase5"
  BY GoesTo DEF PollIdentifier, Polls, Agrees
<1>4. Awaited(a)' /\ Told(a)' /\ Expected(a)'
  BY <1>1, <1>2, <1>3 DEF Awaited, Told, Expected, Sending
<1>5. InTouch(a)'
  BY <1>1, <1>2, <1>4, GoesOnInTouch
<1> QED  BY <1>1, <1>5 DEF Live, Running

\* An error that is not of the host's making.
LEMMA FailRight ==
  ASSUME RightErrors, NEW a \in Attempt, NEW err, Fail(a, err), err # "Failed",
         err = "WrongPin" => entered[a] \in Pin \ {pin[a]}, UNCHANGED <<pin, entered>>
  PROVE  RightErrors'
<1>1. error' = [error EXCEPT ![a] = err]
  BY DEF Fail, Errors
<1> QED  BY <1>1 DEF RightErrors

LEMMA Response1 ==
  ASSUME NEW r, NEW c, r = Phase1Response(c)
  PROVE  ParsedAs(r) = 1 /\ r.paired /\ r.certificate = c
  BY DEF ParsedAs, Phase1Response

LEMMA Response2 ==
  ASSUME NEW r, NEW t, r = Phase2Response(t)
  PROVE  ParsedAs(r) = 2 /\ r.paired /\ r.text = t
  BY DEF ParsedAs, Phase2Response

LEMMA Response3 ==
  ASSUME NEW r, NEW s, NEW c, r = Phase3Response(s, c)
  PROVE  ParsedAs(r) = 3 /\ r.paired /\ r.secret = s /\ r.signer = c
  BY DEF ParsedAs, Phase3Response

LEMMA Response4 ==
  ASSUME NEW r, r = Phase4Response(TRUE)
  PROVE  ParsedAs(r) = 4 /\ r.paired
  BY DEF ParsedAs, Phase4Response

\* What the host has hashed and encrypted, as a client with the PIN entered, or
\* with another, sees it.
LEMMA SeenText ==
  ASSUME NEW a \in Attempt, NEW first, NEW plain,
         plain = Decrypted(AesKey(a), Encrypted(Key(Own("salt", a), entered[a]),
                   [hash |-> Hash(first, ServerCertificate, HostOwn("server secret", a)),
                    challenge |-> HostOwn("server challenge", a)])),
         entered[a] = pin[a] => first = Own("challenge", a)
  PROVE  /\ (IF plain = Junk THEN Junk ELSE plain.hash) = HashSeen(a)
         /\ (IF plain = Junk THEN Junk ELSE plain.challenge) = ChallengeSeen(a)
<1> DEFINE text == [hash |-> Hash(first, ServerCertificate, HostOwn("server secret", a)),
                    challenge |-> HostOwn("server challenge", a)]
<1>1. text # Junk
  BY DEF Junk
<1>2. /\ text.hash = Hash(first, ServerCertificate, HostOwn("server secret", a))
      /\ text.challenge = HostOwn("server challenge", a)
  OBVIOUS
<1>3. plain = IF Key(Own("salt", a), entered[a]) = AesKey(a) THEN text ELSE Junk
  BY DEF Decrypted, Encrypted
<1>4. Key(Own("salt", a), entered[a]) = AesKey(a) <=> entered[a] = pin[a]
  BY DEF Key, AesKey
<1> HIDE DEF text
<1>5. CASE entered[a] = pin[a]
  BY <1>1, <1>2, <1>3, <1>4, <1>5 DEF HashSeen, ChallengeSeen
<1>6. CASE entered[a] # pin[a]
  BY <1>3, <1>4, <1>6 DEF HashSeen, ChallengeSeen
<1> QED  BY <1>5, <1>6

LEMMA Phases ==
  /\ PhaseOf["RecvPhase1"] = 1 /\ PhaseOf["RecvPhase2"] = 2 /\ PhaseOf["RecvPhase3"] = 3
  /\ PhaseOf["RecvPhase4"] = 4 /\ PhaseOf["RecvPhase5"] = 4
  BY DEF PhaseOf

\* An answer that is accepted, but the one with the secret of the host.
LEMMA AcceptedHandled ==
  ASSUME NEW a \in Attempt, NEW response, HandleResponse(a, response),
         pairing[a].state # "RecvPhase3",
         ParsedAs(response) = PhaseOf[pairing[a].state], response.paired
  PROVE  /\ \/ pairing[a].state = "RecvPhase1" /\ Handle1(a, response)
            \/ pairing[a].state = "RecvPhase2" /\ Handle2(a, response)
            \/ pairing[a].state = "RecvPhase4" /\ Goes(a, "SetCertificate")
            \/ pairing[a].state = "RecvPhase5" /\ Goes(a, "Success")
         /\ Hangs(a)
         /\ UNCHANGED error
<1>1. Accepts(a, PhaseOf[pairing[a].state], response)
  BY DEF Accepts, Paired
<1> QED  BY <1>1 DEF HandleResponse

LEMMA ReceiveInTouch ==
  ASSUME Agrees, Quiet, Alone, NEW a \in Attempt, Receive(a)
  PROVE  (Running(a)' => InTouch(a)') /\ RightErrors'
<1>1. /\ Running(a) /\ answer[a] # None /\ HandleResponse(a, answer[a]) /\ InTouch(a)
      /\ UNCHANGED <<pin, session, entered, trusted>>
  BY DEF Receive, Alone, hostVars
<1>2. waiting[a] # 0 /\ requests = {} /\ RightAnswerTo(a) /\ Awaited(a) /\ Told(a)
  BY <1>1 DEF Quiet, InTouch
<1>3. HashSeen(a)' = HashSeen(a) /\ ChallengeSeen(a)' = ChallengeSeen(a)
  BY <1>1 DEF HashSeen, ChallengeSeen
<1>4. (\A n : HostAt(a, n)' <=> HostAt(a, n)) /\ (HashKnown(a)' <=> HashKnown(a))
  BY <1>1 DEF HostAt, HashKnown
\* The call takes the answer and goes on.
<1>5. ASSUME Hangs(a), UNCHANGED error, pairing'[a].state \in Sending, Told(a)', Expected(a)'
      PROVE  InTouch(a)' /\ RightErrors'
  <2>1. waiting'[a] = 0 /\ answer'[a] = None /\ requests' = {}
    BY <1>2, <1>5, HangSet DEF Agrees
  <2>2. Awaited(a)'
    BY <1>5, <2>1 DEF Awaited, Sending
  <2>3. RightErrors'
    BY <1>1, <1>5 DEF Alone, RightErrors
  <2> QED  BY <1>5, <2>1, <2>2, <2>3, GoesOnInTouch
<1>6. CASE pairing[a].state = "RecvPhase1"
  <2>1. answer[a] = Phase1Response(ServerCertificate) /\ HostAt(a, 2) /\ entered[a] \in Pin
    BY <1>2, <1>6 DEF Awaited, RightAnswerTo
  <2>2. Handle1(a, answer[a]) /\ Hangs(a) /\ UNCHANGED error
    <3>1. ParsedAs(answer[a]) = 1 /\ answer[a].paired
      BY <2>1, Response1
    <3> QED  BY <1>1, <1>6, <3>1, Phases, AcceptedHandled
  <2>3. pairing'[a].state = "SendPhase2" /\ pairing'[a].server_certificate = ServerCertificate
    <3>1. answer[a].certificate = ServerCertificate
      BY <2>1, Response1
    <3>2. pairing'[a] = [Idle EXCEPT !.state = "SendPhase2", !.server_certificate = answer[a].certificate]
      <4> DEFINE next == [Idle EXCEPT !.state = "SendPhase2",
                                      !.server_certificate = answer[a].certificate]
      <4>1. pairing' = [pairing EXCEPT ![a] = next]
        BY <2>2 DEF Handle1
      <4> HIDE DEF next
      <4>2. pairing'[a] = next
        BY <4>1, PairingSet DEF Agrees
      <4> QED  BY <4>2 DEF next
    <3> QED  BY <3>1, <3>2 DEF Idle
  <2>4. Told(a)' /\ Expected(a)'
    BY <1>1, <1>4, <2>1, <2>3 DEF Told, Expected
  <2> QED  BY <1>5, <2>2, <2>3, <2>4 DEF Sending
<1>7. CASE pairing[a].state = "RecvPhase2"
  <2>0. RightChallenge(a)
    BY <1>2, <1>7 DEF Awaited, RightAnswerTo
  <2>1. PICK first :
          /\ answer[a] = Phase2Response(Encrypted(Key(Own("salt", a), entered[a]),
               [hash |-> Hash(first, ServerCertificate, HostOwn("server secret", a)),
                challenge |-> HostOwn("server challenge", a)]))
          /\ entered[a] = pin[a] => first = Own("challenge", a)
    BY <2>0 DEF RightChallenge
  <2>2. HostAt(a, 3)
    BY <2>0 DEF RightChallenge
  <2>3. PICK text : answer[a] = Phase2Response(text) /\ text =
               Encrypted(Key(Own("salt", a), entered[a]),
               [hash |-> Hash(first, ServerCertificate, HostOwn("server secret", a)),
                challenge |-> HostOwn("server challenge", a)])
    BY <2>1
  <2>4. Handle2(a, answer[a]) /\ Hangs(a) /\ UNCHANGED error
    <3>1. ParsedAs(answer[a]) = 2 /\ answer[a].paired
      BY <2>3, Response2
    <3> QED  BY <1>1, <1>7, <3>1, Phases, AcceptedHandled
  <2>5. PICK plain : plain = Decrypted(AesKey(a), text)
    OBVIOUS
  <2>6. /\ (IF plain = Junk THEN Junk ELSE plain.hash) = HashSeen(a)
        /\ (IF plain = Junk THEN Junk ELSE plain.challenge) = ChallengeSeen(a)
    BY <2>1, <2>3, <2>5, SeenText
  <2>7. /\ pairing'[a].state = "SendPhase3"
        /\ pairing'[a].server_certificate = pairing[a].server_certificate
        /\ pairing'[a].server_response_hash = HashSeen(a)
        /\ pairing'[a].server_challenge = ChallengeSeen(a)
    <3>1. answer[a].text = text
      BY <2>3, Response2
    <3>2. pairing'[a] = [state |-> "SendPhase3",
             server_certificate |-> pairing[a].server_certificate,
             server_response_hash |-> IF plain = Junk THEN Junk ELSE plain.hash,
             server_challenge |-> IF plain = Junk THEN Junk ELSE plain.challenge]
      BY <2>4, <2>5, <3>1 DEF Handle2, Agrees, Shapes
    <3> QED  BY <2>6, <3>2
  <2>8. Told(a)' /\ Expected(a)'
    BY <1>1, <1>2, <1>3, <1>4, <1>7, <2>2, <2>7 DEF Told, Expected
  <2> QED  BY <1>5, <2>4, <2>7, <2>8 DEF Sending
<1>8. CASE pairing[a].state = "RecvPhase3"
  <2>1. /\ answer[a] = Phase3Response(HostOwn("server secret", a), ServerCertificate)
        /\ HostAt(a, 4) /\ HashKnown(a)
    <3>1. RightSecret(a)
      BY <1>2, <1>8 DEF Awaited, RightAnswerTo
    <3> QED  BY <3>1 DEF RightSecret
  <2>2. /\ pairing[a].server_certificate = ServerCertificate
        /\ pairing[a].server_response_hash = HashSeen(a) /\ entered[a] \in Pin
    BY <1>2, <1>8 DEF Told
  <2>3. /\ Accepts(a, PhaseOf[pairing[a].state], answer[a]) /\ SignatureVerified(a, answer[a])
        /\ ExpectedResponse(a, answer[a])
             = Hash(Own("challenge", a), ServerCertificate, HostOwn("server secret", a))
    <3>0. PICK s, c : answer[a] = Phase3Response(s, c) /\ s = HostOwn("server secret", a)
                      /\ c = ServerCertificate
      BY <2>1
    <3>1. /\ ParsedAs(answer[a]) = 3 /\ answer[a].paired
          /\ answer[a].secret = HostOwn("server secret", a) /\ answer[a].signer = ServerCertificate
      <4>1. ParsedAs(answer[a]) = 3 /\ answer[a].paired /\ answer[a].secret = s /\ answer[a].signer = c
        <5>1. answer[a] = Phase3Response(s, c)
          BY <3>0
        <5> QED  BY <5>1, Response3
      <4> QED  BY <3>0, <4>1
    <3>2. Accepts(a, PhaseOf[pairing[a].state], answer[a])
      BY <1>8, <3>1, Phases DEF Accepts, Paired
    <3> QED  BY <2>2, <3>1, <3>2 DEF SignatureVerified, ExpectedResponse
  <2>4. HashSeen(a) = ExpectedResponse(a, answer[a]) <=> entered[a] = pin[a]
    <3>1. \A first, certificate, secret : Hash(first, certificate, secret) # Junk
      BY DEF Hash, Junk
    <3> QED  BY <2>3, <3>1 DEF HashSeen
  <2>5. CASE entered[a] = pin[a]
    <3>1. Goes(a, "SendPhase4") /\ Hangs(a) /\ UNCHANGED error
      BY <1>1, <1>8, <2>2, <2>3, <2>4, <2>5 DEF HandleResponse
    <3>2. pairing'[a].state = "SendPhase4"
      BY <3>1, GoesTo DEF Agrees
    <3>3. Told(a)' /\ Expected(a)'
      BY <1>1, <1>4, <2>1, <2>2, <2>5, <3>2 DEF Told, Expected
    <3> QED  BY <1>5, <3>1, <3>2, <3>3 DEF Sending
  <2>6. CASE entered[a] # pin[a]
    <3>1. Fail(a, "WrongPin")
      BY <1>1, <1>8, <2>2, <2>3, <2>4, <2>6 DEF HandleResponse
    <3>2. RightErrors'
      BY <1>1, <2>2, <2>6, <3>1, FailRight DEF Alone
    <3>3. ~Running(a)'
      BY <3>1, CallSet DEF Fail, Agrees, CallState, Running
    <3> QED  BY <3>2, <3>3
  <2> QED  BY <2>5, <2>6
<1>9. CASE pairing[a].state = "RecvPhase4"
  <2>1. answer[a] = Phase4Response(TRUE) /\ a \in trusted /\ entered[a] \in Pin
    BY <1>2, <1>9 DEF Awaited, RightAnswerTo, Told
  <2>2. Goes(a, "SetCertificate") /\ Hangs(a) /\ UNCHANGED error
    <3>1. ParsedAs(answer[a]) = 4 /\ answer[a].paired
      BY <2>1, Response4
    <3> QED  BY <1>1, <1>9, <3>1, Phases, AcceptedHandled
  <2>3. pairing'[a].state = "SetCertificate"
    BY <2>2, GoesTo DEF Agrees
  <2>4. Told(a)' /\ Expected(a)'
    BY <1>1, <2>1, <2>3 DEF Told, Expected
  <2> QED  BY <1>5, <2>2, <2>3, <2>4 DEF Sending
<1>10. CASE pairing[a].state = "RecvPhase5"
  <2>1. answer[a] = Phase4Response(TRUE) /\ entered[a] \in Pin
    BY <1>2, <1>10 DEF Awaited, RightAnswerTo, Told
  <2>2. Goes(a, "Success") /\ Hangs(a) /\ UNCHANGED error
    <3>1. ParsedAs(answer[a]) = 4 /\ answer[a].paired
      BY <2>1, Response4
    <3> QED  BY <1>1, <1>10, <3>1, Phases, AcceptedHandled
  <2>3. pairing'[a].state = "Success"
    BY <2>2, GoesTo DEF Agrees
  <2>4. Told(a)' /\ Expected(a)'
    BY <1>1, <2>1, <2>3 DEF Told, Expected
  <2> QED  BY <1>5, <2>2, <2>3, <2>4 DEF Sending
<1> QED  BY <1>2, <1>6, <1>7, <1>8, <1>9, <1>10 DEF Awaited

LEMMA AloneOnCall ==
  ASSUME Right, NEW a \in Attempt, Call(a), ~overlapped'
  PROVE  Alone'
<1>1. ~overlapped
  BY DEF Call, Begin, Cancel, PollRequest, PollIdentifier, PollSuccess, Polls, CryptoFails,
         Receive, ReceiveUnpaired, RequestFails
<1>2. Agrees /\ Quiet /\ Alone /\ RightErrors
  BY <1>1 DEF Right, Leaves, Alone
<1>3. Only(a)
  BY <1>2, CallDoes DEF Agrees, Begins, Ends, Asks, Fails, GoesOn
<1>4. UNCHANGED <<pin, entered>>
  BY <1>3 DEF Only
\* A call that ends, or has failed.
<1>5. ASSUME Live(a), ~Running(a)', RightErrors' PROVE Alone'
  BY <1>2, <1>3, <1>5, AloneOnly
<1>6. ASSUME Live(a), InTouch(a)', UNCHANGED error PROVE Alone'
  <2>1. RightErrors'
    BY <1>2, <1>4, <1>6 DEF RightErrors
  <2> QED  BY <1>2, <1>3, <1>6, <2>1, AloneOnly
<1>7. CASE Begin(a)
  <2>1. (\A b \in Attempt : ~Live(b)) /\ (Running(a)' => InTouch(a)') /\ UNCHANGED error
    BY <1>2, <1>7, BeginInTouch
  <2>2. RightErrors'
    BY <1>2, <1>4, <2>1 DEF RightErrors
  <2> QED  BY <1>2, <1>3, <2>1, <2>2, AloneOnly
<1>8. CASE PollRequest(a)
  BY <1>2, <1>6, <1>8, PollInTouch
<1>9. CASE PollIdentifier(a)
  BY <1>2, <1>6, <1>9, IdentifierInTouch
<1>10. CASE PollSuccess(a)
  <2>1. Live(a) /\ ~Running(a)' /\ UNCHANGED error
    BY <1>2, <1>10 DEF PollSuccess, Polls, Live, Running, Agrees, Shapes
  <2>2. RightErrors'
    BY <1>2, <1>4, <2>1 DEF RightErrors
  <2> QED  BY <1>5, <2>1, <2>2
<1>11. ASSUME Running(a), Fail(a, "Other") PROVE Alone'
  <2>1. RightErrors'
    BY <1>2, <1>4, <1>11, FailRight
  <2>2. Live(a) /\ ~Running(a)'
    BY <1>2, <1>11 DEF Live, Running, Fail, Agrees, Shapes
  <2> QED  BY <1>5, <2>1, <2>2
<1>12. CASE Receive(a)
  <2>1. (Running(a)' => InTouch(a)') /\ RightErrors' /\ Live(a)
    BY <1>2, <1>12, ReceiveInTouch DEF Receive, Live, Running
  <2> QED  BY <1>2, <1>3, <2>1, AloneOnly
<1>13. CASE Cancel(a) \/ ReceiveUnpaired(a) \/ (RequestFails(a) /\ ~(Running(a) /\ Fail(a, "Other")))
  <2>1. Live(a)
    BY <1>2, <1>13 DEF Cancel, ReceiveUnpaired, RequestFails, Live, Agrees, Calls, CallAgrees
  <2>2. ~Running(a)' /\ UNCHANGED error
    BY <1>2, <1>13 DEF Cancel, ReceiveUnpaired, RequestFails, Running, Agrees, Shapes
  <2>3. RightErrors'
    BY <1>2, <1>4, <2>2 DEF RightErrors
  <2> QED  BY <1>5, <2>1, <2>2, <2>3
<1> QED
  BY <1>7, <1>8, <1>9, <1>10, <1>11, <1>12, <1>13 DEF Call, CryptoFails, RequestFails

LEMMA QuietOnCall ==
  ASSUME Agrees, Quiet, NEW a \in Attempt, Call(a)
  PROVE  Quiet'
<1>1. Only(a) /\ (waiting'[a] = 0 => answer'[a] = None)
  BY CallDoes DEF Agrees, Quiet, Begins, Ends, Asks, Fails, GoesOn
<1> QED  BY <1>1 DEF Only, Quiet

\* What stays as it is when the host takes the only request of a running call.
LEMMA ServedInTouch ==
  ASSUME Agrees, NEW a \in Attempt, InTouch(a), NEW m \in requests, Serves(m),
         UNCHANGED entered, trusted \subseteq trusted',
         answer'[a] # None => RightAnswerTo(a)'
  PROVE  InTouch(a)'
<1>1. requests' = {} /\ UNCHANGED <<pin, pairing, waiting>>
  BY DEF InTouch, Serves, callVars
<1>2. m.phase \in 1 .. 6 /\ waiting[a] = m.phase
  BY DEF InTouch, OwnRequest, Agrees, Messages
<1>3. pairing[a].state \notin Sending
  BY <1>2 DEF InTouch, Awaited
<1>4. Awaited(a)'
  BY <1>1 DEF InTouch, Awaited
<1>5. HashSeen(a)' = HashSeen(a) /\ ChallengeSeen(a)' = ChallengeSeen(a)
  BY <1>1 DEF HashSeen, ChallengeSeen
<1>6. Told(a)'
  BY <1>1, <1>5 DEF InTouch, Told
<1>7. Expected(a)'
  BY <1>1, <1>3 DEF Expected, Sending
<1> QED  BY <1>1, <1>4, <1>6, <1>7 DEF InTouch

\* The host and the call have the same key if the PIN entered is the one shown.
LEMMA SessionIs ==
  ASSUME Agrees, NEW a \in Attempt, HostAt(a, 2) \/ HostAt(a, 3) \/ HostAt(a, 4)
  PROVE  /\ SessionKey = Key(Own("salt", a), entered[a])
         /\ session.certificate = Own("certificate", a)
         /\ SessionOwn("server secret") = HostOwn("server secret", a)
         /\ SessionOwn("server challenge") = HostOwn("server challenge", a)
         /\ session.of = a
         /\ HostAt(a, 2) => InStep(2)
         /\ HostAt(a, 3) => InStep(3)
         /\ HostAt(a, 4) => InStep(4)
         /\ entered[a] = pin[a] => SessionKey = AesKey(a)
         /\ session = [of |-> session.of, step |-> session.step, pin |-> session.pin,
                       salt |-> session.salt, certificate |-> session.certificate,
                       hash |-> session.hash]
<1>1. SessionAgrees(session) /\ session.of = a /\ session.step # 1
  BY DEF HostAt, Agrees, Sessions
<1>2. session.salt = Own("salt", a) /\ session.pin = entered[a]
  BY <1>1 DEF SessionAgrees
<1> QED  BY <1>1, <1>2 DEF SessionAgrees, SessionKey, SessionOwn, HostOwn, AesKey, HostAt, InStep

\* The answer that the call awaits.
LEMMA AnswerIsAwaited ==
  ASSUME Agrees, NEW a \in Attempt, NEW phase, waiting[a] = phase, NEW response,
         AnswerTo(a, phase, response)
  PROVE  answer'[a] = response
  BY DEF Agrees, Shapes, AnswerTo

\* The host takes the request of a running call that is alone with it.
LEMMA HostInTouch ==
  ASSUME Agrees, NEW a \in Attempt, InTouch(a), NEW m \in requests, Serves(m),
         \/ m.phase = 1 /\ HostPhase1(m)
         \/ m.phase = 2 /\ (HostPhase2(m) \/ (~InStep(2) /\ Refuse(m)))
         \/ m.phase = 3 /\ (HostPhase3(m) \/ (~InStep(3) /\ Refuse(m)))
         \/ m.phase = 4 /\ (HostPhase4(m) \/ (~(InStep(4) /\ Proven(m.request)) /\ Refuse(m)))
         \/ m.phase = 5 /\ HostPhase5(m)
         \/ m.phase = 6 /\ HostUnpair(m)
  PROVE  InTouch(a)'
<1>1. /\ m.from = a /\ m.phase = waiting[a] /\ OwnRequest(a, m) /\ answer[a] = None /\ requests # {}
      /\ Awaited(a) /\ Told(a) /\ Expected(a)
  BY DEF InTouch, OwnRequest
<1>2. UNCHANGED <<pin, pairing, waiting>>
  BY DEF Serves, callVars
<1>3. CASE m.phase = 1
  <2>1. UNCHANGED <<answer, entered, trusted>>
    BY <1>3 DEF HostPhase1
  <2> QED  BY <1>1, <2>1, ServedInTouch
<1>4. CASE m.phase = 2
  <2>1. HostAt(a, 2)
    BY <1>1, <1>4 DEF Awaited, Sending, Expected
  <2>2. HostPhase2(m)
    <3>1. InStep(2)
      BY <2>1, SessionIs
    <3> QED  BY <1>4, <3>1
  <2>3. PICK first : first = Decrypted(SessionKey, m.request.challenge)
    OBVIOUS
  <2>4. entered[a] = pin[a] => first = Own("challenge", a)
    <3>1. m.request.challenge = Encrypted(AesKey(a), Own("challenge", a))
      BY <1>1, <1>4 DEF OwnRequest, Phase2Request
    <3>2. Decrypted(AesKey(a), m.request.challenge) = Own("challenge", a)
      BY <3>1 DEF Decrypted, Encrypted
    <3> QED  BY <2>1, <2>3, <3>2, SessionIs
  <2>5. PICK response : response =
          Phase2Response(Encrypted(SessionKey,
            [hash |-> Hash(first, ServerCertificate, SessionOwn("server secret")),
             challenge |-> SessionOwn("server challenge")]))
    OBVIOUS
  <2>6. AnswerTo(a, 2, response) /\ UNCHANGED <<entered, trusted>>
        /\ session' = [session EXCEPT !.step = 3]
    BY <1>1, <1>4, <2>2, <2>3, <2>5 DEF HostPhase2, Answer
  <2>7. answer'[a] = response
    BY <1>1, <1>4, <2>6, AnswerIsAwaited
  <2>8. response = Phase2Response(Encrypted(Key(Own("salt", a), entered[a]),
            [hash |-> Hash(first, ServerCertificate, HostOwn("server secret", a)),
             challenge |-> HostOwn("server challenge", a)]))
    BY <2>1, <2>5, SessionIs
  <2>9. HostAt(a, 3)'
    <3>1. session.of = a /\ session' = [of |-> session.of, step |-> 3, pin |-> session.pin,
                      salt |-> session.salt, certificate |-> session.certificate,
                      hash |-> session.hash]
      <4>1. session = [of |-> session.of, step |-> session.step, pin |-> session.pin,
                       salt |-> session.salt, certificate |-> session.certificate,
                       hash |-> session.hash]
        BY <2>1, SessionIs
      <4> QED  BY <2>1, <2>6, <4>1 DEF HostAt
    <3> QED  BY <3>1 DEF HostAt, NoSession
  <2>10. RightAnswerTo(a)'
    <3>1. entered' = entered /\ pin' = pin /\ waiting'[a] = 2
      BY <1>1, <1>2, <1>4, <2>6
    <3>2. RightChallenge(a)'
      BY <3>1, <2>4, <2>7, <2>8, <2>9 DEF RightChallenge
    <3> QED  BY <3>1, <3>2 DEF RightAnswerTo
  <2> QED  BY <2>6, <2>10, ServedInTouch
<1>5. CASE m.phase = 3
  <2>1. HostAt(a, 3)
    BY <1>1, <1>5 DEF Awaited, Sending, Expected
  <2>2. HostPhase3(m)
    <3>1. InStep(3)
      BY <2>1, SessionIs
    <3> QED  BY <1>5, <3>1
  <2>3. PICK hash : hash = Decrypted(SessionKey, m.request.hash)
    OBVIOUS
  <2>4. entered[a] = pin[a] =>
          hash = Hash(HostOwn("server challenge", a), Own("certificate", a), Own("secret", a))
    <3>1. m.request.hash = Encrypted(AesKey(a),
            Hash(ChallengeSeen(a), Own("certificate", a), Own("secret", a)))
      BY <1>1, <1>5 DEF OwnRequest, Phase3Request
    <3>2. Decrypted(AesKey(a), m.request.hash)
            = Hash(ChallengeSeen(a), Own("certificate", a), Own("secret", a))
      BY <3>1 DEF Decrypted, Encrypted
    <3> QED  BY <2>1, <2>3, <3>2, SessionIs DEF ChallengeSeen
  <2>5. PICK response : response = Phase3Response(SessionOwn("server secret"), ServerCertificate)
    OBVIOUS
  <2>6. AnswerTo(a, 3, response) /\ UNCHANGED <<entered, trusted>>
        /\ session' = [session EXCEPT !.step = 4, !.hash = hash]
    BY <1>1, <1>5, <2>2, <2>3, <2>5 DEF HostPhase3, Answer
  <2>7. answer'[a] = Phase3Response(HostOwn("server secret", a), ServerCertificate)
    <3>1. answer'[a] = response
      BY <1>1, <1>5, <2>6, AnswerIsAwaited
    <3>2. SessionOwn("server secret") = HostOwn("server secret", a)
      BY <2>1, SessionIs
    <3> QED  BY <2>5, <3>1, <3>2
  <2>8. session.of = a /\ session' = [of |-> session.of, step |-> 4, pin |-> session.pin,
                    salt |-> session.salt, certificate |-> session.certificate,
                    hash |-> hash]
    <3>1. session = [of |-> session.of, step |-> session.step, pin |-> session.pin,
                     salt |-> session.salt, certificate |-> session.certificate,
                     hash |-> session.hash]
      BY <2>1, SessionIs
    <3> QED  BY <2>1, <2>6, <3>1 DEF HostAt
  <2>9. HostAt(a, 4)' /\ session'.hash = hash
    BY <2>8 DEF HostAt, NoSession
  <2>10. HashKnown(a)'
    BY <1>2, <2>4, <2>6, <2>9 DEF HashKnown
  <2>11. RightAnswerTo(a)'
    <3>1. waiting'[a] = 3 /\ RightSecret(a)'
      BY <1>1, <1>2, <1>5, <2>7, <2>9, <2>10 DEF RightSecret
    <3> QED  BY <3>1 DEF RightAnswerTo
  <2> QED  BY <2>6, <2>11, ServedInTouch
<1>6. CASE m.phase = 4
  <2>1. HostAt(a, 4) /\ HashKnown(a) /\ entered[a] = pin[a]
    BY <1>1, <1>6 DEF Awaited, Sending, Expected, Told
  <2>2. m.request.signer = Own("certificate", a) /\ m.request.secret = Own("secret", a)
    BY <1>1, <1>6 DEF OwnRequest, Phase4Request
  <2>3. Proven(m.request) /\ InStep(4)
    <3>1. /\ session.certificate = Own("certificate", a) /\ InStep(4)
          /\ SessionOwn("server challenge") = HostOwn("server challenge", a)
      BY <2>1, SessionIs
    <3> QED  BY <2>1, <2>2, <3>1 DEF Proven, HashKnown
  <2>4. HostPhase4(m)
    BY <1>6, <2>3
  <2>5. AnswerTo(a, 4, Phase4Response(TRUE)) /\ UNCHANGED entered /\ trusted' = trusted \cup {a}
    BY <1>1, <1>6, <2>1, <2>4 DEF HostPhase4, Answer, HostAt
  <2>6. answer'[a] = Phase4Response(TRUE)
    BY <1>1, <1>6, <2>5, AnswerIsAwaited
  <2>7. RightAnswerTo(a)'
    BY <1>1, <1>2, <1>6, <2>5, <2>6 DEF RightAnswerTo
  <2> QED  BY <2>5, <2>7, ServedInTouch
<1>7. CASE m.phase = 5
  <2>1. a \in trusted
    BY <1>1, <1>7 DEF Awaited, Sending, Told
  <2>2. m.request.with = Own("certificate", a)
    BY <1>1, <1>7 DEF Agrees, Messages
  <2>3. Trusts(m.request.with) = TRUE
    BY <2>1, <2>2 DEF Trusts
  <2>4. AnswerTo(a, 5, Phase4Response(TRUE)) /\ UNCHANGED <<entered, trusted>>
    <3>1. Answer(m, Phase4Response(Trusts(m.request.with))) /\ UNCHANGED <<entered, trusted>>
      BY <1>7 DEF HostPhase5, hostVars
    <3>2. Phase4Response(Trusts(m.request.with)) = Phase4Response(TRUE)
      <4>1. PICK trusts : trusts = Trusts(m.request.with)
        OBVIOUS
      <4>2. trusts = TRUE
        BY <2>3, <4>1
      <4> QED  BY <4>1, <4>2
    <3> QED  BY <1>1, <1>7, <3>1, <3>2 DEF Answer
  <2>5. answer'[a] = Phase4Response(TRUE)
    BY <1>1, <1>7, <2>4, AnswerIsAwaited
  <2>6. RightAnswerTo(a)'
    BY <1>1, <1>2, <1>7, <2>5 DEF RightAnswerTo
  <2> QED  BY <2>4, <2>6, ServedInTouch
<1>8. CASE m.phase = 6
  BY <1>1, <1>8 DEF Awaited, Sending
<1> QED  BY <1>3, <1>4, <1>5, <1>6, <1>7, <1>8

\* The PIN is entered: for the call that is alone, or for one that has ended.
LEMMA EnterPinInTouch ==
  ASSUME Leaves, NEW a \in Attempt, Running(a), InTouch(a), EnterPin
  PROVE  InTouch(a)'
<1>1. session # NoSession /\ session.step = 1 /\ SessionAgrees(session) /\ entered[session.of] = None
  BY InStepSession DEF EnterPin, Leaves, Agrees
<1>2. PICK p \in Pin :
        /\ session' = [session EXCEPT !.step = 2, !.pin = p]
        /\ entered' = [entered EXCEPT ![session.of] = p]
  BY DEF EnterPin
<1>3. session' = [of |-> session.of, step |-> 2, pin |-> p, salt |-> session.salt,
                  certificate |-> session.certificate, hash |-> session.hash]
  BY <1>1, <1>2 DEF SessionAgrees
<1>4. UNCHANGED <<pin, pairing, waiting, requests, trusted>>
  BY DEF EnterPin, callVars
<1>5. AnswerTo(session.of, 1, Phase1Response(ServerCertificate)) /\ Shapes
  BY DEF EnterPin, Leaves, Agrees
<1>6. Awaited(a) /\ Told(a) /\ Expected(a)
  BY DEF InTouch
<1>7. Awaited(a)'
  BY <1>4, <1>6 DEF Awaited
<1>8. CASE session.of # a
  <2>1. entered'[a] = entered[a] /\ answer'[a] = answer[a]
    BY <1>1, <1>2, <1>5, <1>8, AnswerSet DEF Shapes, SessionAgrees
  <2>2. HashSeen(a)' = HashSeen(a) /\ ChallengeSeen(a)' = ChallengeSeen(a) /\ AesKey(a)' = AesKey(a)
    BY <1>4, <2>1 DEF HashSeen, ChallengeSeen, AesKey
  <2>3. \A n : ~HostAt(a, n)
    BY <1>8 DEF HostAt
  <2>4. \A m \in requests : OwnRequest(a, m)'
    BY <1>4, <2>2 DEF InTouch, OwnRequest
  <2>5. Told(a)'
    BY <1>4, <1>6, <2>1, <2>2 DEF Told
  <2>6. Expected(a)'
    BY <1>4, <1>6, <2>3 DEF Expected
  <2>7. answer[a] # None => RightAnswerTo(a)'
    BY <1>4, <2>1, <2>3 DEF InTouch, RightAnswerTo, RightChallenge, RightSecret
  <2> QED  BY <1>4, <1>7, <2>1, <2>4, <2>5, <2>6, <2>7 DEF InTouch
<1>9. CASE session.of = a
  <2>1. pairing[a].state \in {"SendPhase1", "RecvPhase1"}
    BY <1>1, <1>6, <1>9, PairingAssumption DEF Told
  <2>2. InSession(a) /\ BeginsRight(a)
    BY <1>1, <1>9 DEF InSession, Leaves, Beginnings
  <2>3. pairing[a].state = "RecvPhase1" /\ ~Requested(a, {1})
    BY <2>1, <2>2 DEF BeginsRight
  <2>4. waiting[a] = 1 /\ requests = {}
    BY <1>6, <2>3 DEF Awaited, InTouch, OwnRequest, Requested
  <2>5. answer'[a] = Phase1Response(ServerCertificate)
    BY <1>5, <1>9, <2>4, AnswerIsAwaited DEF Leaves
  <2>6. HostAt(a, 2)' /\ entered'[a] = p
    BY <1>2, <1>3, <1>5, <1>9 DEF HostAt, Shapes, NoSession
  <2>7. RightAnswerTo(a)'
    BY <1>2, <1>4, <2>4, <2>5, <2>6 DEF RightAnswerTo
  <2>8. Told(a)' /\ Expected(a)'
    BY <1>4, <2>3 DEF Told, Expected
  <2> QED  BY <1>4, <1>7, <2>4, <2>7, <2>8 DEF InTouch
<1> QED  BY <1>8, <1>9


\* A request gets lost.
LEMMA LoseInTouch ==
  ASSUME NEW a \in Attempt, InTouch(a), Lose
  PROVE  InTouch(a)'
<1>1. requests' \subseteq requests /\ UNCHANGED <<pin, pairing, waiting, answer, session, entered, trusted>>
  BY DEF Lose, callVars, hostVars
<1>2. HashSeen(a)' = HashSeen(a) /\ ChallengeSeen(a)' = ChallengeSeen(a) /\ AesKey(a)' = AesKey(a)
  BY <1>1 DEF HashSeen, ChallengeSeen, AesKey
<1>3. (\A n : HostAt(a, n)' <=> HostAt(a, n)) /\ (HashKnown(a)' <=> HashKnown(a))
  BY <1>1 DEF HostAt, HashKnown
<1>4. \A m \in requests' : OwnRequest(a, m)'
  BY <1>1, <1>2 DEF InTouch, OwnRequest
<1>5. Awaited(a)'
  BY <1>1 DEF InTouch, Awaited
<1>6. Told(a)'
  BY <1>1, <1>2 DEF InTouch, Told
<1>7. Expected(a)'
  BY <1>1, <1>3 DEF InTouch, Expected
<1>8. answer'[a] # None => RightAnswerTo(a)'
  BY <1>1, <1>3 DEF InTouch, RightAnswerTo, RightChallenge, RightSecret
<1> QED  BY <1>1, <1>4, <1>5, <1>6, <1>7, <1>8 DEF InTouch

LEMMA AloneServed ==
  ASSUME Alone, RightErrors', UNCHANGED call,
         \A a \in Attempt : Running(a) => InTouch(a)'
  PROVE  Alone'
  BY DEF Alone, Live, Running

LEMMA AloneOnHost ==
  ASSUME Leaves, Alone, EnterPin \/ Host \/ Lose
  PROVE  Alone'
<1>1. RightErrors /\ Agrees /\ \A a \in Attempt : Running(a) => InTouch(a)
  BY DEF Alone, Leaves
<1>2. CASE EnterPin
  <2>1. session # NoSession /\ SessionAgrees(session) /\ entered[session.of] = None
    BY <1>1, <1>2, InStepSession DEF EnterPin, Agrees
  <2>2. \A a \in Attempt : entered[a] = None \/ entered'[a] = entered[a]
    BY <1>1, <1>2, <2>1 DEF EnterPin, Agrees, Shapes, SessionAgrees
  <2>3. RightErrors' /\ UNCHANGED call
    BY <1>1, <1>2, <2>2, PairingAssumption DEF EnterPin, callVars, RightErrors
  <2> QED  BY <1>1, <1>2, <2>3, EnterPinInTouch, AloneServed
<1>3. CASE Host
  <2>1. PICK m \in requests :
          /\ \/ m.phase = 1 /\ HostPhase1(m)
             \/ m.phase = 2 /\ (HostPhase2(m) \/ (~InStep(2) /\ Refuse(m)))
             \/ m.phase = 3 /\ (HostPhase3(m) \/ (~InStep(3) /\ Refuse(m)))
             \/ m.phase = 4 /\ (HostPhase4(m) \/ (~(InStep(4) /\ Proven(m.request)) /\ Refuse(m)))
             \/ m.phase = 5 /\ HostPhase5(m)
             \/ m.phase = 6 /\ HostUnpair(m)
          /\ requests' = requests \ {m}
          /\ UNCHANGED <<pin, callVars>>
    BY <1>3 DEF Host, UnpairPhase
  <2>2. Serves(m) /\ UNCHANGED <<call, error, pin>>
    BY <2>1 DEF Serves, callVars
  <2>3. UNCHANGED entered
    BY <2>1 DEF HostPhase1, HostPhase2, HostPhase3, HostPhase4, HostPhase5, HostUnpair, Refuse, hostVars
  <2>4. RightErrors'
    BY <1>1, <2>2, <2>3 DEF RightErrors
  <2>5. \A a \in Attempt : Running(a) => InTouch(a)'
    BY <1>1, <2>1, <2>2, HostInTouch
  <2> QED  BY <2>2, <2>4, <2>5, AloneServed
<1>4. CASE Lose
  <2>1. UNCHANGED <<call, error, pin, entered>>
    BY <1>4 DEF Lose, callVars, hostVars
  <2>2. RightErrors'
    BY <1>1, <2>1 DEF RightErrors
  <2> QED  BY <1>1, <1>4, <2>1, <2>2, LoseInTouch, AloneServed
<1> QED  BY <1>2, <1>3, <1>4

LEMMA QuietOnHost ==
  ASSUME Agrees, Quiet, EnterPin \/ Host \/ Lose
  PROVE  Quiet'
<1>1. CASE EnterPin
  <2>1. PICK response : AnswerTo(session.of, 1, response)
    BY <1>1 DEF EnterPin
  <2>2. \A b \in Attempt : answer'[b] # answer[b] => waiting[b] = 1
    BY <2>1, AnswerSet DEF Agrees
  <2>3. waiting' = waiting
    BY <1>1 DEF EnterPin, callVars
  <2> QED  BY <2>2, <2>3 DEF Quiet
<1>2. CASE Host
  <2>1. PICK m \in requests :
          /\ \/ m.phase = 1 /\ HostPhase1(m)
             \/ HostPhase2(m) \/ HostPhase3(m) \/ HostPhase4(m) \/ HostPhase5(m)
             \/ HostUnpair(m) \/ Refuse(m)
          /\ UNCHANGED callVars
    BY <1>2 DEF Host, UnpairPhase
  <2>2. m.phase \in 1 .. 6
    BY DEF Agrees, Messages
  <2>3. answer' = answer \/ \E response : AnswerTo(m.from, m.phase, response)
    BY <2>1 DEF HostPhase1, HostPhase2, HostPhase3, HostPhase4, HostPhase5, HostUnpair, Refuse, Answer
  <2>4. \A b \in Attempt : answer'[b] # answer[b] => waiting[b] = m.phase
    BY <2>3, AnswerSet DEF Agrees
  <2>5. \A b \in Attempt : answer'[b] # answer[b] => waiting[b] # 0
    BY <2>2, <2>4
  <2> QED  BY <2>1, <2>5 DEF callVars, Quiet
<1>3. CASE Lose
  BY <1>3 DEF Lose, callVars, Quiet
<1> QED  BY <1>1, <1>2, <1>3

LEMMA RightUnchanged ==
  ASSUME Right, Leaves', UNCHANGED vars
  PROVE  Right'
<1>1. UNCHANGED <<pin, pairing, waiting, answer, session, entered, trusted, requests, call, error, overlapped>>
  BY DEF vars, callVars, hostVars
<1>2. Quiet'
  BY <1>1 DEF Right, Quiet
<1>3. ASSUME Alone PROVE Alone'
  <2>1. ASSUME NEW a \in Attempt, InTouch(a) PROVE InTouch(a)'
    <3>1. HashSeen(a)' = HashSeen(a) /\ ChallengeSeen(a)' = ChallengeSeen(a) /\ AesKey(a)' = AesKey(a)
      BY <1>1 DEF HashSeen, ChallengeSeen, AesKey
    <3>2. (\A n : HostAt(a, n)' <=> HostAt(a, n)) /\ (HashKnown(a)' <=> HashKnown(a))
      BY <1>1 DEF HostAt, HashKnown
    <3>3. \A m \in requests' : OwnRequest(a, m)'
      BY <1>1, <2>1, <3>1 DEF InTouch, OwnRequest
    <3>4. Awaited(a)' /\ Told(a)'
      BY <1>1, <2>1, <3>1 DEF InTouch, Awaited, Told
    <3>5. Expected(a)'
      BY <1>1, <2>1, <3>2 DEF InTouch, Expected
    <3>6. answer'[a] # None => RightAnswerTo(a)'
      BY <1>1, <2>1, <3>2 DEF InTouch, RightAnswerTo, RightChallenge, RightSecret
    <3> QED  BY <1>1, <2>1, <3>3, <3>4, <3>5, <3>6 DEF InTouch
  <2>2. RightErrors'
    BY <1>1, <1>3 DEF Alone, RightErrors
  <2> QED  BY <1>1, <1>3, <2>1, <2>2, AloneServed DEF Alone
<1> QED  BY <1>1, <1>2, <1>3 DEF Right

LEMMA RightNext == Right /\ [Next]_vars => Right'
<1> SUFFICES ASSUME Right, [Next]_vars PROVE Right'
  OBVIOUS
<1>1. Leaves /\ Quiet /\ Agrees /\ Leaves'
  BY LeavesNext DEF Right, Leaves
<1>2. CASE \E a \in Attempt : Call(a)
  BY <1>1, <1>2, AloneOnCall, QuietOnCall DEF Right
<1>3. CASE EnterPin \/ Host \/ Lose
  <2>1. overlapped' = overlapped
    BY <1>3 DEF EnterPin, Host, Lose
  <2> QED  BY <1>1, <1>3, <2>1, AloneOnHost, QuietOnHost DEF Right
<1>4. CASE UNCHANGED vars
  BY <1>1, <1>4, RightUnchanged
<1> QED  BY <1>2, <1>3, <1>4 DEF Next

\* A call that meets no other one at the host, nor a request left of one, is told
\* of a wrong PIN only if another PIN was entered, and never that pairing failed,
\* whatever gets lost or times out: each answer is what its state expects, and
\* the hash of phase 3 is the one of the host if the keys are the same, and
\* unreadable if they are not (client.rs, handle_response).
THEOREM ErrorsRight == Spec => []ErrorsAreRight
<1>1. Right => ErrorsAreRight
  BY DEF Right, Alone, RightErrors, ErrorsAreRight
<1> QED  BY <1>1, RightInit, RightNext, PTL DEF Spec

=============================================================================
