------------------------------- MODULE Pairing -------------------------------
(***************************************************************************)
(* Pairing: calls of pair() (high/tokio.rs, high/std.rs) drive the states   *)
(* of ClientPairing (http/pair/client.rs) against a host.  The host is      *)
(* external.  It knows a client by its unique id, which all calls share: it *)
(* has one pairing session, which a new phase 1 replaces, and unpairing     *)
(* ends the session and forgets the client.  It refuses whatever does not   *)
(* fit its session, which is over then.                                     *)
(*                                                                         *)
(* Hashes and cipher texts are terms: two are equal if all that went into   *)
(* them is, and decrypting with another key gives junk.                     *)
(***************************************************************************)
EXTENDS Naturals, FiniteSets

CONSTANTS
  Attempt,   \* the calls of pair(), each with a client certificate of its own
  Pin,
  Majors,    \* the major versions of hosts
  Backend,   \* the HTTP client: "ureq" or "hyper"
  None

ASSUME PairingAssumption ==
  /\ Majors \subseteq Nat
  /\ Backend \in {"ureq", "hyper"}
  /\ None \notin Attempt /\ None \notin Pin
  /\ None \notin {"Other", "Failed", "WrongPin"}

VARIABLES
  server_version,
  pin,        \* the PIN each call shows
  call,       \* how far each call is
  pairing,    \* its ClientPairing
  client,     \* the certificate of the host its HTTP client was made with
  waiting,    \* the number of the phase it awaits the answer of (0: none)
  error,      \* the error it returns
  requests,   \* the requests under way, those given up included
  answer,     \* the answer under way to each call (None: none)
  session,    \* the session of the host
  entered,    \* the PIN entered at the host for each call
  trusted,    \* the calls whose certificate the host trusts
  accepted,   \* history: those it has ever trusted
  overlapped  \* history: two calls, or a request left of one, met at the host

hostVars == <<session, entered, trusted, accepted>>
callVars == <<call, pairing, client, waiting, error>>
vars == <<server_version, pin, callVars, requests, answer, hostVars, overlapped>>

-----------------------------------------------------------------------------
(* Terms.                                                                  *)

Junk == [junk |-> TRUE]
Own(what, a) == [what |-> what, of |-> a]   \* random bytes and certificates of a call
ServerCertificate == [what |-> "server certificate"]

\* generate_aes_key
Key(salt, p) == [salt |-> salt, pin |-> p]
Hash(first, certificate, secret) == [hash |-> <<first, certificate, secret>>]
Encrypted(key, text) == [key |-> key, text |-> text]
Decrypted(key, cipher) == IF cipher.key = key THEN cipher.text ELSE Junk

\* hash_algorithm_for_server, and the length of what hash() gives
HashLen == IF server_version >= 7 THEN 32 ELSE 20
MAX_HASH_LEN == 32

-----------------------------------------------------------------------------
(* Requests and answers.                                                   *)

UnpairPhase == 6
Http == {1, 2, 3, 4, UnpairPhase}
Https == {5}

Phase1Request(a) == [salt |-> Own("salt", a), certificate |-> Own("certificate", a)]
Phase2Request(challenge) == [challenge |-> challenge]
Phase3Request(hash) == [hash |-> hash]
Phase4Request(a) == [secret |-> Own("secret", a), signer |-> Own("certificate", a)]
Phase5Request(a) == [with |-> Own("certificate", a)]

\* The tags of the answers, beside the paired they all have.
Phase1Response(certificate) == [tag |-> "plaincert", paired |-> TRUE, certificate |-> certificate]
Phase2Response(text) == [tag |-> "challengeresponse", paired |-> TRUE, text |-> text]
Phase3Response(secret, signer) ==
  [tag |-> "pairingsecret", paired |-> TRUE, secret |-> secret, signer |-> signer]
Phase4Response(paired) == [tag |-> "none", paired |-> paired]

\* PairResponse::from_str goes by the tag, so that an answer without one is of phase 4.
ParsedAs(response) ==
  CASE response.tag = "plaincert"         -> 1
    [] response.tag = "challengeresponse" -> 2
    [] response.tag = "pairingsecret"     -> 3
    [] OTHER                              -> 4

\* Variant: the tag is there, whatever it says.
PairedPresent(response) == response.paired \in BOOLEAN

\* parse_xml_child_paired
Paired(response) == response.paired

-----------------------------------------------------------------------------
(* pair() and pair_impl().                                                 *)

Idle == [state |-> "None", server_certificate |-> None, server_response_hash |-> None,
         server_challenge |-> None]

Running(a) == call[a] = "running"
Ended(a) == call[a] \in {"paired", "failed", "gave up", "dropped", "panicked"}

\* A call begins; the AES key is made at once.  The backends copy a hash of
\* HashLen bytes into the MAX_HASH_LEN bytes that hash_size_uneq passes them.
Begin(a) ==
  /\ call[a] = "none"
  /\ IF HashLen = MAX_HASH_LEN
     THEN /\ call' = [call EXCEPT ![a] = "running"]
          /\ pairing' = [pairing EXCEPT ![a] = [Idle EXCEPT !.state = "SendPhase1"]]
     ELSE /\ call' = [call EXCEPT ![a] = "panicked"]
          /\ UNCHANGED pairing
  /\ overlapped' = (overlapped \/ requests # {} \/ \E b \in Attempt : call[b] \in {"running", "unpairing"})
  /\ UNCHANGED <<server_version, pin, client, waiting, error, requests, answer, hostVars>>

Send(a, phase, request) ==
  /\ requests' = requests \cup {[from |-> a, phase |-> phase, request |-> request]}
  /\ waiting' = [waiting EXCEPT ![a] = phase]
  /\ answer' = [answer EXCEPT ![a] = None]

\* The connection of the request is closed, whether an answer was under way or not.
Hangs(a) ==
  /\ waiting' = [waiting EXCEPT ![a] = 0]
  /\ answer' = [answer EXCEPT ![a] = None]
  /\ UNCHANGED requests

Errors(a, err) ==
  /\ error' = [error EXCEPT ![a] = err]
  /\ pairing' = [pairing EXCEPT ![a] = [Idle EXCEPT !.state = "Error"]]
  /\ UNCHANGED client

\* Variant: the error is returned at once.
FailQuietly(a, err) ==
  /\ Errors(a, err)
  /\ call' = [call EXCEPT ![a] = "failed"]
  /\ Hangs(a)

\* pair_impl returns an error: the host is told to unpair, over http, and the
\* error is returned however that goes.
Fail(a, err) ==
  /\ Errors(a, err)
  /\ call' = [call EXCEPT ![a] = "unpairing"]
  /\ Send(a, UnpairPhase, [unpair |-> TRUE])

\* The future is dropped while it waits; nobody tells the host.
Cancel(a) ==
  /\ waiting[a] # 0
  /\ call' = [call EXCEPT ![a] = "dropped"]
  /\ Hangs(a)
  /\ UNCHANGED <<server_version, pin, pairing, client, error, hostVars, overlapped>>

-----------------------------------------------------------------------------
(* ClientPairing::poll_output, and what pair_impl does with it.            *)

AesKey(a) == Key(Own("salt", a), pin[a])

\* The next state takes over what it has fields for.
Goes(a, state) ==
  pairing' = [pairing EXCEPT ![a] =
    [state |-> state,
     server_certificate |->
       IF state \in {"SendPhase5", "RecvPhase5", "Success", "None"} THEN None ELSE @.server_certificate,
     server_response_hash |->
       IF state \in {"SendPhase3", "RecvPhase3"} THEN @.server_response_hash ELSE None,
     server_challenge |-> None]]

Polls(a, from, to) ==
  /\ Running(a) /\ waiting[a] = 0 /\ pairing[a].state = from
  /\ Goes(a, to)
  /\ UNCHANGED <<server_version, pin, error, hostVars, overlapped>>

PollRequest(a) ==
  /\ \/ Polls(a, "SendPhase1", "RecvPhase1") /\ Send(a, 1, Phase1Request(a))
     \/ /\ Polls(a, "SendPhase2", "RecvPhase2")
        /\ Send(a, 2, Phase2Request(Encrypted(AesKey(a), Own("challenge", a))))
     \/ /\ Polls(a, "SendPhase3", "RecvPhase3")
        /\ Send(a, 3, Phase3Request(Encrypted(AesKey(a),
             Hash(pairing[a].server_challenge, Own("certificate", a), Own("secret", a)))))
     \/ Polls(a, "SendPhase4", "RecvPhase4") /\ Send(a, 4, Phase4Request(a))
     \/ Polls(a, "SendPhase5", "RecvPhase5") /\ Send(a, 5, Phase5Request(a))
  /\ UNCHANGED <<call, client>>

\* SetServerIdentifier: a client with certificates takes the place of the first.
PollIdentifier(a) ==
  /\ Polls(a, "SetCertificate", "SendPhase5")
  /\ client' = [client EXCEPT ![a] = pairing[a].server_certificate]
  /\ UNCHANGED <<call, waiting, requests, answer>>

PollSuccess(a) ==
  /\ Polls(a, "Success", "None")
  /\ call' = [call EXCEPT ![a] = "paired"]
  /\ UNCHANGED <<client, waiting, requests, answer>>

\* A call of the crypto backend fails.
CryptoFails(a) ==
  /\ Running(a) /\ waiting[a] = 0
  /\ pairing[a].state \in {"SendPhase2", "SendPhase3", "SendPhase4"}
  /\ Fail(a, "Other")
  /\ UNCHANGED <<server_version, pin, hostVars, overlapped>>

-----------------------------------------------------------------------------
(* ClientPairing::handle_response.                                         *)

\* Variant: hashed with the secret of the client.
ExpectedOwnSecret(a, response) ==
  Hash(Own("challenge", a), pairing[a].server_certificate, Own("secret", a))

ExpectedResponse(a, response) ==
  Hash(Own("challenge", a), pairing[a].server_certificate, response.secret)

\* The state goes on if the answer is the one expected and says paired.
Accepts(a, phase, response) == ParsedAs(response) = phase /\ Paired(response)

Handle1(a, response) ==
  pairing' = [pairing EXCEPT ![a] =
    [Idle EXCEPT !.state = "SendPhase2", !.server_certificate = response.certificate]]

\* Both lengths are right for whichever key, or none of the two would be read.
Handle2(a, response) ==
  LET plain == Decrypted(AesKey(a), response.text) IN
  pairing' = [pairing EXCEPT ![a] =
    [state |-> "SendPhase3",
     server_certificate |-> @.server_certificate,
     server_response_hash |-> IF plain = Junk THEN Junk ELSE plain.hash,
     server_challenge |-> IF plain = Junk THEN Junk ELSE plain.challenge]]

SignatureVerified(a, response) == response.signer = pairing[a].server_certificate

PhaseOf ==
  [RecvPhase1 |-> 1, RecvPhase2 |-> 2, RecvPhase3 |-> 3, RecvPhase4 |-> 4, RecvPhase5 |-> 4]

HandleResponse(a, response) ==
  LET state == pairing[a].state IN
  IF ~Accepts(a, PhaseOf[state], response)
  THEN Fail(a, "Failed")
  ELSE IF state = "RecvPhase3" /\ ~SignatureVerified(a, response)
  THEN Fail(a, "Failed")
  ELSE IF state = "RecvPhase3" /\ pairing[a].server_response_hash # ExpectedResponse(a, response)
  THEN Fail(a, "WrongPin")
  ELSE /\ \/ state = "RecvPhase1" /\ Handle1(a, response)
          \/ state = "RecvPhase2" /\ Handle2(a, response)
          \/ state = "RecvPhase3" /\ Goes(a, "SendPhase4")
          \/ state = "RecvPhase4" /\ Goes(a, "SetCertificate")
          \/ state = "RecvPhase5" /\ Goes(a, "Success")
       /\ Hangs(a)
       /\ UNCHANGED <<call, client, error>>

\* The answer awaited has come.
Receive(a) ==
  /\ Running(a) /\ answer[a] # None
  /\ HandleResponse(a, answer[a])
  /\ UNCHANGED <<server_version, pin, hostVars, overlapped>>

ReceiveUnpaired(a) ==
  /\ call[a] = "unpairing" /\ answer[a] # None
  /\ call' = [call EXCEPT ![a] = "failed"]
  /\ Hangs(a)
  /\ UNCHANGED <<server_version, pin, pairing, client, error, hostVars, overlapped>>

\* Variant: only the client made for http has a timeout.
TimesOutHttp(phase) == phase \in Http /\ Backend = "ureq"

\* ureq limits a request from its beginning to its end (timeout_global), hyper
\* only the time connecting takes.
TimesOut(phase) == phase \in Http \cup Https /\ Backend = "ureq"

\* A request times out, or its connection breaks.
RequestFails(a) ==
  /\ waiting[a] # 0
  /\ \/ Running(a) /\ Fail(a, "Other")
     \/ /\ call[a] = "unpairing"
        /\ call' = [call EXCEPT ![a] = "gave up"]
        /\ Hangs(a)
        /\ UNCHANGED <<pairing, client, error>>
  /\ UNCHANGED <<server_version, pin, hostVars, overlapped>>

-----------------------------------------------------------------------------
(* The host.                                                               *)

\* Nobody takes the answer to a request that was given up.
AnswerTo(a, phase, response) ==
  answer' = IF waiting[a] = phase THEN [answer EXCEPT ![a] = response] ELSE answer

Answer(m, response) == AnswerTo(m.from, m.phase, response)

NoSession == [of |-> None, step |-> 0, pin |-> None, salt |-> None,
              certificate |-> None, hash |-> None]

Refuse(m) ==
  /\ Answer(m, Phase4Response(FALSE))
  /\ session' = NoSession
  /\ UNCHANGED <<entered, trusted, accepted>>

InStep(step) == session.step = step

SessionKey == Key(session.salt, session.pin)
SessionOwn(what) == [what |-> what, session |-> session.of]

\* The answer to phase 1 waits for the PIN.
HostPhase1(m) ==
  /\ session' = [of |-> m.from, step |-> 1, pin |-> None, salt |-> m.request.salt,
                 certificate |-> m.request.certificate, hash |-> None]
  /\ UNCHANGED <<answer, entered, trusted, accepted>>

EnterPin ==
  /\ InStep(1) /\ entered[session.of] = None
  /\ \E p \in Pin :
       /\ session' = [session EXCEPT !.step = 2, !.pin = p]
       /\ entered' = [entered EXCEPT ![session.of] = p]
  /\ AnswerTo(session.of, 1, Phase1Response(ServerCertificate))
  /\ UNCHANGED <<server_version, pin, callVars, requests, trusted, accepted, overlapped>>

HostPhase2(m) ==
  LET challenge == Decrypted(SessionKey, m.request.challenge) IN
  /\ InStep(2)
  /\ session' = [session EXCEPT !.step = 3]
  /\ Answer(m, Phase2Response(Encrypted(SessionKey,
       [hash |-> Hash(challenge, ServerCertificate, SessionOwn("server secret")),
        challenge |-> SessionOwn("server challenge")])))
  /\ UNCHANGED <<entered, trusted, accepted>>

HostPhase3(m) ==
  /\ InStep(3)
  /\ session' = [session EXCEPT !.step = 4, !.hash = Decrypted(SessionKey, m.request.hash)]
  /\ Answer(m, Phase3Response(SessionOwn("server secret"), ServerCertificate))
  /\ UNCHANGED <<entered, trusted, accepted>>

Proven(request) ==
  /\ request.signer = session.certificate
  /\ session.hash = Hash(SessionOwn("server challenge"), session.certificate, request.secret)

HostPhase4(m) ==
  /\ InStep(4) /\ Proven(m.request)
  /\ session' = NoSession
  /\ trusted' = trusted \cup {session.of}
  /\ accepted' = accepted \cup {session.of}
  /\ Answer(m, Phase4Response(TRUE))
  /\ UNCHANGED entered

Trusts(certificate) == \E a \in trusted : certificate = Own("certificate", a)

HostPhase5(m) ==
  /\ Answer(m, Phase4Response(Trusts(m.request.with)))
  /\ UNCHANGED hostVars

HostUnpair(m) ==
  /\ session' = NoSession
  /\ trusted' = {}
  /\ Answer(m, [tag |-> "none"])
  /\ UNCHANGED <<entered, accepted>>

Host == \E m \in requests :
  /\ \/ m.phase = 1 /\ HostPhase1(m)
     \/ m.phase = 2 /\ (HostPhase2(m) \/ (~InStep(2) /\ Refuse(m)))
     \/ m.phase = 3 /\ (HostPhase3(m) \/ (~InStep(3) /\ Refuse(m)))
     \/ m.phase = 4 /\ (HostPhase4(m) \/ (~(InStep(4) /\ Proven(m.request)) /\ Refuse(m)))
     \/ m.phase = 5 /\ HostPhase5(m)
     \/ m.phase = UnpairPhase /\ HostUnpair(m)
  /\ requests' = requests \ {m}
  /\ UNCHANGED <<server_version, pin, callVars, overlapped>>

\* A request never arrives.
Lose == \E m \in requests :
  /\ requests' = requests \ {m}
  /\ UNCHANGED <<server_version, pin, callVars, answer, hostVars, overlapped>>

-----------------------------------------------------------------------------

Init ==
  /\ server_version \in Majors
  /\ pin \in [Attempt -> Pin]
  /\ call = [a \in Attempt |-> "none"]
  /\ pairing = [a \in Attempt |-> Idle]
  /\ client = [a \in Attempt |-> None]
  /\ waiting = [a \in Attempt |-> 0]
  /\ error = [a \in Attempt |-> None]
  /\ requests = {}
  /\ answer = [a \in Attempt |-> None]
  /\ session = NoSession
  /\ entered = [a \in Attempt |-> None]
  /\ trusted = {} /\ accepted = {}
  /\ overlapped = FALSE

Call(a) ==
  \/ Begin(a) \/ Cancel(a)
  \/ PollRequest(a) \/ PollIdentifier(a) \/ PollSuccess(a) \/ CryptoFails(a)
  \/ Receive(a) \/ ReceiveUnpaired(a) \/ RequestFails(a)

Next == (\E a \in Attempt : Call(a)) \/ EnterPin \/ Host \/ Lose

\* A thread or task that can go on does, and the timeout of a request expires
\* if nothing comes before.  Nothing is assumed of the host, the user and the
\* network.
Fairness == \A a \in Attempt :
  /\ WF_vars(PollRequest(a) \/ PollIdentifier(a) \/ PollSuccess(a))
  /\ WF_vars(TimesOut(waiting[a]) /\ RequestFails(a))

Spec == Init /\ [][Next]_vars /\ Fairness

-----------------------------------------------------------------------------
(* Properties.                                                             *)

PairingOutcome == [a \in Attempt |->
  CASE call[a] = "paired"                    -> "paired"
    [] call[a] \in {"none", "running"}       -> "open"
    [] OTHER                                 -> "failed"]

PinPairing == INSTANCE PinPairing WITH outcome <- PairingOutcome

\* A call of pair() ends once, and returns Ok only after the host has accepted
\* its certificate; the host does that only if the PIN entered is the one of
\* that call.  So whatever is sent late, by whichever call: all that is hashed
\* and encrypted on the two sides fits together (client.rs, handle_response).
ImplementsPinPairing == PinPairing!Spec

\* When pair() has returned an error and the host has answered the unpairing,
\* the host does not trust the certificate, even if it accepted phase 4 and
\* only the answer got lost, or phase 4 comes after the unpairing (tokio.rs,
\* pair: "Try to unpair").
FailureLeavesNothing ==
  \A a \in Attempt : call[a] = "failed" => a \notin trusted

\* A call alone with its host is told of a wrong PIN only if another PIN was
\* entered, and that pairing failed, never.
ErrorsAreRight ==
  ~overlapped => \A a \in Attempt :
    /\ error[a] = "WrongPin" => entered[a] # pin[a]
    /\ error[a] # "Failed"

\* pair() returns, whatever gets lost and whether or not a PIN is entered, if
\* requests have timeouts (http/client/ureq.rs).
PairingEnds == \A a \in Attempt : Running(a) ~> Ended(a)
=============================================================================
