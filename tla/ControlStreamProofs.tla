-------------------------- MODULE ControlStreamProofs --------------------------
(***************************************************************************)
(* The invariants of ControlStream, for any number of keys and gamepads,   *)
(* any intervals and any range of motion.                                  *)
(*                                                                         *)
(* The inductive invariant is a conjunction of predicates on plain values  *)
(* (a host, a server, a stream, ...), because one update goes through      *)
(* several of each before its values are those of the next state: what the *)
(* events make of the host and the stream (Heard), then what the batch and *)
(* the ping make of the server.                                            *)
(***************************************************************************)
EXTENDS ControlStream, SequenceTheorems, TLAPS

Peer == {"connecting", "connected", "disconnecting", "disconnected"}
Event == {"Connect", "Packet", "Termination", "Disconnect"}
FirstTwo == <<"RequestIdr", "StartB">>
Waiting == <<[type |-> "RequestIdr"], [type |-> "StartB"]>>

\* Every event the application has been told of or can poll.
Told(a, es) == a \cup {es[i] : i \in DOMAIN es}

\* A termination is not told of before a disconnect.
EndInOrder(a, es) ==
  /\ "Termination" \in a => "Disconnect" \in a
  /\ \A i \in DOMAIN es : es[i] = "Termination" =>
       "Disconnect" \in a \/ \E j \in 1..(i - 1) : es[j] = "Disconnect"

HostOK(h) ==
  /\ h \in [peer : Peer, configured : BOOLEAN]
  /\ h.peer # "disconnected" => h.configured

ServerOK(s) ==
  s \in [first : {<<>>, FirstTwo}, keys : SUBSET Key, gamepads : SUBSET Pad, lost : SUBSET Pad,
         behind : Int, sinceping : Nat]

StreamOK(st) ==
  st \in [connected : BOOLEAN, ok : BOOLEAN, events : Seq(Event),
          buffered : {<<>>, Waiting}]

BatchOK(b) == b \in [motion : Int, at : Position \cup {Nowhere}]

\* What a peer that is connecting has got and told of: nothing.
Early(h, s, st, a) ==
  h.peer = "connecting" =>
    s.first = <<>> /\ st.buffered = Waiting /\ st.events = <<>> /\ ~st.connected /\ a = {}

\* A connected peer has got the two first packets and what was batched.
Late(h, s, st) == h.peer = "connected" => s.first = FirstTwo /\ st.connected

Remembered(h, s, k, g) ==
  ~EarlyInput /\ h.peer \in {"connecting", "connected"} =>
    /\ s.keys = k /\ g \subseteq s.gamepads
    /\ s.gamepads \ g \subseteq (IF Sunshine THEN s.lost ELSE {})

Conserved(h, s, st, b) ==
  h.peer \in {"connecting", "connected"} /\ st.ok => s.behind = b.motion

Ended(h, st, a) ==
  /\ EndInOrder(a, st.events)
  /\ h.peer = "disconnected" /\ st.connected =>
       {"Termination", "Disconnect"} \subseteq Told(a, st.events)
  /\ h.peer = "disconnected" /\ "Connect" \in Told(a, st.events) =>
       "Disconnect" \in Told(a, st.events)

\* The age of the last ping bounds what the server has waited, unless the
\* ping is overdue, as it can be before the connection.
AgeOK(ag) == ag \in [ping : 0..PingInterval, batch : Nat, now : Nat]
Fresh(h, s, st, ag) ==
  /\ h.peer = "connected" /\ st.ok =>
       s.sinceping <= ag.ping + ag.now /\ ag.ping + ag.now <= PingInterval
  /\ h.peer = "connecting" /\ st.ok =>
       s.sinceping <= ag.ping + ag.now \/ ag.ping + ag.now >= PingInterval

Inv ==
  /\ HostOK(host) /\ ServerOK(server) /\ StreamOK(stream) /\ BatchOK(batch) /\ AgeOK(age)
  /\ keys \in SUBSET Key /\ gamepads \in SUBSET Pad /\ app \in SUBSET Event
  /\ Early(host, server, stream, app)
  /\ Late(host, server, stream)
  /\ Remembered(host, server, keys, gamepads)
  /\ Conserved(host, server, stream, batch)
  /\ Ended(host, stream, app)
  /\ Fresh(host, server, stream, age)

-----------------------------------------------------------------------------
(* Sequences of events                                                     *)

LEMMA Nothing == Len(<<>>) = 0 /\ DOMAIN <<>> = {}
OBVIOUS

LEMMA AppendTwo ==
  ASSUME NEW S, NEW a \in S, NEW b \in S
  PROVE  Append(<<a>>, b) = <<a, b>>
<1> DEFINE s == Append(<<a>>, b)
           t == <<a, b>>
<1>1. <<a>> \in Seq(S) /\ Len(<<a>>) = 1 /\ <<a>>[1] = a
  OBVIOUS
<1>2. s \in Seq(S) /\ Len(s) = 2 /\ s[1] = a /\ s[2] = b
  BY <1>1, AppendProperties
<1>3. t \in Seq(S) /\ Len(t) = 2 /\ t[1] = a /\ t[2] = b
  OBVIOUS
<1> HIDE DEF s, t
<1>4. ASSUME NEW i \in 1 .. Len(s) PROVE s[i] = t[i]
  <2>1. i = 1 \/ i = 2
    BY <1>2
  <2> QED BY <2>1, <1>2, <1>3
<1>5. s = t
  BY <1>2, <1>3, <1>4, SeqEqual
<1> QED BY <1>5 DEF s, t

\* What goes in turn, spelt out.
LEMMA SendTurns ==
  ASSUME NEW w, NEW p, NEW q
  PROVE  /\ SendAll(w, <<>>) = w
         /\ SendAll(w, <<p>>) = Send(w, p)
         /\ SendAll(w, <<p, q>>) = Send(Send(w, p), q)
<1>1. SendAll(w, <<>>) = w
  BY Nothing DEF SendAll, InTurn
<1>2. SendAll(w, <<p>>) = Send(w, p)
  BY DEF SendAll, InTurn
<1>3. SendAll(w, <<p, q>>) = Send(Send(w, p), q)
  BY DEF SendAll, InTurn
<1> QED BY <1>1, <1>2, <1>3

LEMMA HandleTurns ==
  ASSUME NEW u, NEW a, NEW b
  PROVE  /\ InTurn(Handle, u, <<>>) = u
         /\ InTurn(Handle, u, <<a>>) = Handle(u, a)
         /\ InTurn(Handle, u, <<a, b>>) = Handle(Handle(u, a), b)
<1>1. InTurn(Handle, u, <<>>) = u
  BY Nothing DEF InTurn
<1>2. InTurn(Handle, u, <<a>>) = Handle(u, a)
  BY DEF InTurn
<1>3. InTurn(Handle, u, <<a, b>>) = Handle(Handle(u, a), b)
  BY DEF InTurn
<1> QED BY <1>1, <1>2, <1>3

\* The host passes every event of a configured peer on, in order, and forgets
\* the peer with a disconnect, which is the last.
LEMMA HostPasses ==
  ASSUME NEW p \in Peer, NEW a \in Event, NEW b \in Event, a # "Disconnect"
  PROVE  LET h == [peer |-> p, configured |-> TRUE]
             g(ev) == [peer |-> p, configured |-> ev # "Disconnect"]
         IN /\ HandleEvents(h, <<a>>) = [host |-> h, out |-> <<a>>]
            /\ HandleEvents(h, <<"Disconnect">>) = [host |-> g("Disconnect"), out |-> <<"Disconnect">>]
            /\ HandleEvents(h, <<a, b>>) = [host |-> g(b), out |-> <<a, b>>]
<1> DEFINE h == [peer |-> p, configured |-> TRUE]
           e == [host |-> h, out |-> <<>>]
<1>1. \A c : Append(<<>>, c) = <<c>>
  OBVIOUS
<1>2. \A c \in Event \ {"Disconnect"} : \A es \in Seq(Event) :
        HostEvent([host |-> h, out |-> es], c) = [host |-> h, out |-> Append(es, c)]
  BY DEF HostEvent
<1>3. \A es \in Seq(Event) :
        HostEvent([host |-> h, out |-> es], "Disconnect")
          = [host |-> [peer |-> p, configured |-> FALSE], out |-> Append(es, "Disconnect")]
  BY DEF HostEvent
<1>4. <<>> \in Seq(Event) /\ <<a>> \in Seq(Event)
  OBVIOUS
<1>5. Append(<<a>>, b) = <<a, b>>
  BY AppendTwo
<1>6. HandleEvents(h, <<a>>) = HostEvent(e, a)
  BY DEF HandleEvents, InTurn
<1>7. HandleEvents(h, <<"Disconnect">>) = HostEvent(e, "Disconnect")
  BY DEF HandleEvents, InTurn
<1>8. HandleEvents(h, <<a, b>>) = HostEvent(HostEvent(e, a), b)
  BY DEF HandleEvents, InTurn
<1>9. HostEvent(e, a) = [host |-> h, out |-> <<a>>]
  BY <1>1, <1>2, <1>4
<1>10. HostEvent(e, "Disconnect") = [host |-> [peer |-> p, configured |-> FALSE], out |-> <<"Disconnect">>]
  BY <1>1, <1>3, <1>4
<1>11. CASE b = "Disconnect"
  BY <1>3, <1>4, <1>5, <1>6, <1>7, <1>8, <1>9, <1>10, <1>11
<1>12. CASE b # "Disconnect"
  <2>1. HostEvent([host |-> h, out |-> <<a>>], b) = [host |-> h, out |-> <<a, b>>]
    BY <1>2, <1>4, <1>5, <1>12
  <2> QED BY <2>1, <1>6, <1>7, <1>8, <1>9, <1>10, <1>12
<1> QED BY <1>11, <1>12

-----------------------------------------------------------------------------
(* What the events make of the host, the server and the stream             *)

U(h, s, st) == [w |-> [host |-> h, server |-> s, ok |-> TRUE], stream |-> st]
StreamType ==
  [connected : BOOLEAN, ok : BOOLEAN, events : Seq(Event), buffered : {<<>>, Waiting}]

LEMMA SendPacket ==
  ASSUME NEW h, NEW s, NEW p
  PROVE  LET w == [host |-> h, server |-> s, ok |-> TRUE]
         IN /\ Sendable(h) => Send(w, p) = [host |-> h, server |-> Served(s, p), ok |-> TRUE]
            /\ ~Sendable(h) => Send(w, p) = [host |-> h, server |-> s, ok |-> FALSE]
BY DEF Send

\* The stream with a packet, the end or the loss of the connection told of,
\* and the host that has dropped its peer.
WithPacket(st) == [st EXCEPT !.events = Append(@, "Packet")]
WithEnd(st) == [st EXCEPT !.events = Append(Append(@, "Disconnect"), "Termination")]
WithLoss(st) == [st EXCEPT !.connected = FALSE, !.events = Append(@, "Disconnect")]
Dropped(h) == [h EXCEPT !.peer = "disconnected"]

LEMMA HandleOne ==
  ASSUME NEW h \in [peer : Peer, configured : BOOLEAN], NEW s, NEW st \in StreamType
  PROVE  /\ Handle(U(h, s, st), "Packet") = U(h, s, WithPacket(st))
         /\ Handle(U(h, s, st), "Termination") = U(Dropped(h), s, WithEnd(st))
         /\ Handle(U(h, s, st), "Disconnect") = U(h, s, WithLoss(st))
<1>1. Handle(U(h, s, st), "Packet") = U(h, s, WithPacket(st))
  BY DEF Handle, U, WithPacket
<1>2. Handle(U(h, s, st), "Termination") = U(Dropped(h), s, WithEnd(st))
  BY DEF Handle, U, Terminated, Dropped, WithEnd
<1>3. Handle(U(h, s, st), "Disconnect") = U(h, s, WithLoss(st))
  BY DEF Handle, U, Disconnected, WithLoss
<1> QED BY <1>1, <1>2, <1>3

Opened(st) ==
  [st EXCEPT !.connected = TRUE, !.buffered = <<>>, !.events = Append(@, "Connect")]

LEMMA HandleConnect ==
  ASSUME NEW h, Sendable(h), NEW s, NEW st \in StreamType, st.buffered = Waiting
  PROVE  Handle(U(h, s, st), "Connect")
           = U(h, Served(Served(s, Waiting[1]), Waiting[2]), Opened(st))
<1> DEFINE r == [type |-> "RequestIdr"]
           b == [type |-> "StartB"]
           w == [host |-> h, server |-> s, ok |-> TRUE]
           v == [host |-> h, server |-> Served(s, r), ok |-> TRUE]
<1>1. st.buffered = <<r, b>> /\ Waiting[1] = r /\ Waiting[2] = b
  BY DEF Waiting
<1> HIDE DEF r, b
<1>2. Send(w, r) = v
  BY SendPacket
<1>3. Send(v, b) = [host |-> h, server |-> Served(Served(s, r), b), ok |-> TRUE]
  BY SendPacket
<1> HIDE DEF v
<1>4. SendAll(w, <<r, b>>) = Send(Send(w, r), b)
  <2> HIDE DEF w
  <2> QED BY DEF SendAll, InTurn
<1>5. SendAll(w, st.buffered) = [host |-> h, server |-> Served(Served(s, r), b), ok |-> TRUE]
  BY <1>1, <1>2, <1>3, <1>4
<1>6. Connected(U(h, s, st))
        = U(h, Served(Served(s, r), b), Opened(st))
  <2> DEFINE x == SendAll(w, st.buffered)
  <2>1. U(h, s, st).w = w /\ U(h, s, st).stream = st
    BY DEF U
  <2>2. Connected(U(h, s, st)) =
          [w |-> x, stream |-> [st EXCEPT !.connected = TRUE, !.buffered = <<>>,
             !.events = IF x.ok THEN Append(@, "Connect") ELSE @]]
    BY <2>1 DEF Connected
  <2>3. x = [host |-> h, server |-> Served(Served(s, r), b), ok |-> TRUE] /\ x.ok
    BY <1>5
  <2> HIDE DEF x
  <2>4. [st EXCEPT !.connected = TRUE, !.buffered = <<>>,
             !.events = IF x.ok THEN Append(@, "Connect") ELSE @]
        = Opened(st)
    BY <2>3 DEF Opened
  <2> QED BY <2>2, <2>3, <2>4 DEF U
<1>7. Handle(U(h, s, st), "Connect") = Connected(U(h, s, st))
  BY DEF Handle, U
<1> QED BY <1>1, <1>6, <1>7

\* The two packets that were waiting are the first.
LEMMA FirstServed ==
  ASSUME NEW s \in [first : {<<>>, FirstTwo}, keys : SUBSET Key, gamepads : SUBSET Pad, lost : SUBSET Pad,
                    behind : Int, sinceping : Nat], s.first = <<>>
  PROVE  Served(Served(s, Waiting[1]), Waiting[2]) = [s EXCEPT !.first = FirstTwo]
<1>1. Waiting[1] = [type |-> "RequestIdr"] /\ Waiting[2] = [type |-> "StartB"]
  BY DEF Waiting
<1>2. Append(<<>>, "RequestIdr") = <<"RequestIdr">> /\ Len(<<"RequestIdr">>) = 1
  OBVIOUS
<1>3. Append(<<"RequestIdr">>, "StartB") = FirstTwo
  <2> DEFINE a == "RequestIdr"
             b == "StartB"
  <2>1. a \in {"RequestIdr", "StartB"} /\ b \in {"RequestIdr", "StartB"}
    OBVIOUS
  <2> HIDE DEF a, b
  <2>2. Append(<<a>>, b) = <<a, b>>
    BY <2>1, AppendTwo
  <2> QED BY <2>2 DEF FirstTwo, a, b
<1>4. Kind(Waiting[1]) = "RequestIdr" /\ Kind(Waiting[2]) = "StartB"
  BY <1>1 DEF Kind
<1>5. Served(s, Waiting[1])
        = [first |-> <<"RequestIdr">>, keys |-> s.keys, gamepads |-> s.gamepads, lost |-> s.lost,
           behind |-> s.behind, sinceping |-> s.sinceping]
  BY <1>1, <1>2, <1>4, Nothing DEF Served, ControllerTypes
<1>6. Served(Served(s, Waiting[1]), Waiting[2])
        = [first |-> FirstTwo, keys |-> s.keys, gamepads |-> s.gamepads, lost |-> s.lost,
           behind |-> s.behind, sinceping |-> s.sinceping]
  BY <1>1, <1>2, <1>3, <1>4, <1>5 DEF Served, ControllerTypes
<1> QED BY <1>6

\* What has been told only grows, and a termination told after a disconnect
\* keeps the order.
LEMMA TellOne ==
  ASSUME NEW a \in SUBSET Event, NEW es \in Seq(Event), NEW c \in Event
  PROVE  /\ Append(es, c) \in Seq(Event)
         /\ Told(a, Append(es, c)) = Told(a, es) \cup {c}
         /\ EndInOrder(a, es) /\ (c = "Termination" => "Disconnect" \in Told(a, es))
              => EndInOrder(a, Append(es, c))
<1> DEFINE fs == Append(es, c)
<1>1. /\ fs \in Seq(Event) /\ Len(fs) = Len(es) + 1 /\ Len(es) \in Nat
      /\ fs[Len(es) + 1] = c
      /\ \A i \in 1..Len(es) : fs[i] = es[i]
      /\ DOMAIN es = 1..Len(es) /\ DOMAIN fs = 1..(Len(es) + 1)
  BY AppendProperties, LenProperties
<1> HIDE DEF fs
<1>2. Told(a, fs) = Told(a, es) \cup {c}
  <2>1. \A i \in 1..(Len(es) + 1) : i \in 1..Len(es) \/ i = Len(es) + 1
    BY <1>1
  <2>2. \A i \in 1..Len(es) : i \in 1..(Len(es) + 1)
    BY <1>1
  <2>3. Len(es) + 1 \in 1..(Len(es) + 1)
    BY <1>1
  <2> QED BY <1>1, <2>1, <2>2, <2>3 DEF Told
<1>3. ASSUME EndInOrder(a, es), c = "Termination" => "Disconnect" \in Told(a, es)
      PROVE  EndInOrder(a, fs)
  <2>1. ASSUME NEW i \in 1..(Len(es) + 1), fs[i] = "Termination", "Disconnect" \notin a
        PROVE  \E j \in 1..(i - 1) : fs[j] = "Disconnect"
    <3>1. CASE i \in 1..Len(es)
      <4>1. es[i] = "Termination" /\ i \in DOMAIN es
        BY <3>1, <2>1, <1>1
      <4>2. PICK j \in 1..(i - 1) : es[j] = "Disconnect"
        BY <4>1, <1>3, <2>1 DEF EndInOrder
      <4>3. j \in 1..Len(es)
        BY <3>1, <1>1
      <4> QED BY <4>2, <4>3, <1>1
    <3>2. CASE i = Len(es) + 1
      <4>1. "Disconnect" \in Told(a, es)
        BY <3>2, <2>1, <1>1, <1>3
      <4>2. PICK j \in 1..Len(es) : es[j] = "Disconnect"
        BY <4>1, <2>1, <1>1 DEF Told
      <4>3. j \in 1..(i - 1)
        BY <3>2, <1>1
      <4> QED BY <4>2, <4>3, <1>1
    <3> QED BY <3>1, <3>2, <1>1, <2>1
  <2> QED BY <2>1, <1>1, <1>3 DEF EndInOrder
<1> QED BY <1>1, <1>2, <1>3 DEF fs

LEMMA ToSets ==
  ASSUME NEW a, NEW b
  PROVE  ToSet(<<>>) = {} /\ ToSet(<<a>>) = {a} /\ ToSet(<<a, b>>) = {a, b}
<1>1. ToSet(<<>>) = {}
  BY Nothing DEF ToSet
<1>2. ToSet(<<a>>) = {a}
  <2>1. DOMAIN <<a>> = {1} /\ <<a>>[1] = a
    OBVIOUS
  <2> QED BY <2>1 DEF ToSet
<1>3. ToSet(<<a, b>>) = {a, b}
  <2>1. DOMAIN <<a, b>> = {1, 2} /\ <<a, b>>[1] = a /\ <<a, b>>[2] = b
    OBVIOUS
  <2> QED BY <2>1 DEF ToSet
<1> QED BY <1>1, <1>2, <1>3

Heard(evs) ==
  LET h == HandleEvents(Serviced(host, evs), evs)
  IN InTurn(Handle, [w |-> World(h.host), stream |-> stream], h.out)

\* The host after the events, of which b is the last.
After(a, b) ==
  [peer |-> IF b = "Disconnect" THEN "disconnected"
            ELSE IF "Connect" \in {a, b} THEN "connected" ELSE host.peer,
   configured |-> b # "Disconnect"]

LEMMA HeardEvents ==
  ASSUME Inv, NEW a \in Event, NEW b \in Event, a # "Disconnect"
  PROVE  /\ Heard(<<>>) = U(host, server, stream)
         /\ host.peer # "disconnected" =>
              /\ Heard(<<b>>) = Handle(U(After(b, b), server, stream), b)
              /\ Heard(<<a, b>>) = Handle(Handle(U(After(a, b), server, stream), a), b)
<1>1. host = [peer |-> host.peer, configured |-> host.configured] /\ host.peer \in Peer
  BY DEF Inv, HostOK
<1>3. Heard(<<>>) = U(host, server, stream)
  <2>1. Serviced(host, <<>>) = host
    BY <1>1, ToSets DEF Serviced
  <2>2. HandleEvents(host, <<>>) = [host |-> host, out |-> <<>>]
    BY Nothing DEF HandleEvents, InTurn
  <2> DEFINE g == HandleEvents(Serviced(host, <<>>), <<>>)
             x == [w |-> World(g.host), stream |-> stream]
             s == g.out
  <2>3. x = U(host, server, stream) /\ s = <<>>
    <3>1. g = [host |-> host, out |-> <<>>]
      BY <2>1, <2>2
    <3> HIDE DEF g
    <3> QED BY <3>1 DEF U, World
  <2>4. Heard(<<>>) = IF Len(s) = 0 THEN x ELSE IF Len(s) = 1 THEN Handle(x, s[1])
                      ELSE Handle(Handle(x, s[1]), s[2])
    BY DEF Heard, InTurn
  <2> HIDE DEF g, x, s
  <2> QED BY <2>3, <2>4, Nothing
<1>4. ASSUME host.peer # "disconnected"
      PROVE  Heard(<<b>>) = Handle(U(After(b, b), server, stream), b)
  <2> DEFINE p == After(b, b).peer
  <2>1. p \in Peer
    BY <1>1 DEF After, Peer
  <2>2. host.configured
    BY <1>4 DEF Inv, HostOK
  <2>3. Serviced(host, <<b>>) = [peer |-> p, configured |-> TRUE]
    <3>1. ToSet(<<b>>) = {b}
      BY ToSets
    <3> QED BY <2>2, <3>1 DEF Serviced, After
  <2>4. After(b, b) = [peer |-> p, configured |-> b # "Disconnect"]
    BY DEF After
  <2> HIDE DEF p
  <2>5. HandleEvents([peer |-> p, configured |-> TRUE], <<b>>) = [host |-> After(b, b), out |-> <<b>>]
    <3>1. CASE b = "Disconnect"
      BY <2>1, <2>4, <3>1, HostPasses
    <3>2. CASE b # "Disconnect"
      BY <2>1, <2>4, <3>2, HostPasses
    <3> QED BY <3>1, <3>2
  <2> DEFINE g == HandleEvents(Serviced(host, <<b>>), <<b>>)
             x == [w |-> World(g.host), stream |-> stream]
             s == g.out
  <2>6. x = U(After(b, b), server, stream) /\ s = <<b>>
    <3>1. g = [host |-> After(b, b), out |-> <<b>>]
      BY <2>3, <2>5
    <3> HIDE DEF g
    <3> QED BY <3>1 DEF U, World
  <2>7. Heard(<<b>>) = IF Len(s) = 0 THEN x ELSE IF Len(s) = 1 THEN Handle(x, s[1])
                      ELSE Handle(Handle(x, s[1]), s[2])
    BY DEF Heard, InTurn
  <2>8. Len(<<b>>) = 1 /\ <<b>>[1] = b
    OBVIOUS
  <2> HIDE DEF g, x, s
  <2> QED BY <2>6, <2>7, <2>8
<1>5. ASSUME host.peer # "disconnected"
      PROVE  Heard(<<a, b>>) = Handle(Handle(U(After(a, b), server, stream), a), b)
  <2> DEFINE p == After(a, b).peer
  <2>1. p \in Peer
    BY <1>1 DEF After, Peer
  <2>2. host.configured
    BY <1>5 DEF Inv, HostOK
  <2>3. Serviced(host, <<a, b>>) = [peer |-> p, configured |-> TRUE]
    <3>1. ToSet(<<a, b>>) = {a, b}
      BY ToSets
    <3> QED BY <2>2, <3>1 DEF Serviced, After
  <2>4. After(a, b) = [peer |-> p, configured |-> b # "Disconnect"]
    BY DEF After
  <2> HIDE DEF p
  <2>5. HandleEvents([peer |-> p, configured |-> TRUE], <<a, b>>) = [host |-> After(a, b), out |-> <<a, b>>]
    BY <2>1, <2>4, HostPasses
  <2> DEFINE g == HandleEvents(Serviced(host, <<a, b>>), <<a, b>>)
             x == [w |-> World(g.host), stream |-> stream]
             s == g.out
  <2>6. x = U(After(a, b), server, stream) /\ s = <<a, b>>
    <3>1. g = [host |-> After(a, b), out |-> <<a, b>>]
      BY <2>3, <2>5
    <3> HIDE DEF g
    <3> QED BY <3>1 DEF U, World
  <2>7. Heard(<<a, b>>) = IF Len(s) = 0 THEN x ELSE IF Len(s) = 1 THEN Handle(x, s[1])
                      ELSE Handle(Handle(x, s[1]), s[2])
    BY DEF Heard, InTurn
  <2>8. Len(<<a, b>>) = 2 /\ <<a, b>>[1] = a /\ <<a, b>>[2] = b
    OBVIOUS
  <2> HIDE DEF g, x, s
  <2> QED BY <2>6, <2>7, <2>8
<1> QED BY <1>3, <1>4, <1>5

\* What holds between the events and the batch: the invariant, but for a ping
\* that is due.
Mid(h, s, st) ==
  /\ HostOK(h) /\ ServerOK(s) /\ StreamOK(st) /\ st.ok
  /\ Early(h, s, st, app) /\ Late(h, s, st)
  /\ Remembered(h, s, keys, gamepads) /\ Conserved(h, s, st, batch) /\ Ended(h, st, app)
  /\ h.peer \in {"connecting", "connected"} =>
       s.sinceping <= age.ping + age.now \/ age.ping + age.now >= PingInterval

LEMMA HeardNothing ==
  ASSUME Inv, stream.ok
  PROVE  Mid(host, server, stream)
<1>1. host.peer \in {"connecting", "connected"} =>
        server.sinceping <= age.ping + age.now \/ age.ping + age.now >= PingInterval
  BY DEF Inv, Fresh, AgeOK
<1> QED BY <1>1 DEF Inv, Mid

\* A packet changes nothing but the queue.
LEMMA PacketMid ==
  ASSUME NEW h, NEW s, NEW st, Mid(h, s, st), app \in SUBSET Event, h.peer # "connecting"
  PROVE  Mid(h, s, WithPacket(st))
<1> DEFINE es == Append(st.events, "Packet")
           nst == [st EXCEPT !.events = es]
<1>1. st \in StreamType /\ st.events \in Seq(Event)
  BY DEF Mid, StreamOK, StreamType
<1>2. /\ es \in Seq(Event)
      /\ Told(app, es) = Told(app, st.events) \cup {"Packet"}
      /\ EndInOrder(app, st.events) => EndInOrder(app, es)
  BY <1>1, TellOne DEF Event
<1> HIDE DEF es
<1>3. nst \in StreamType /\ nst.events = es /\ nst.ok = st.ok /\ nst.connected = st.connected
  BY <1>1, <1>2 DEF StreamType
<1> HIDE DEF nst
<1>4. Ended(h, nst, app)
  BY <1>2, <1>3 DEF Mid, Ended
<1>5. Early(h, s, nst, app) /\ Late(h, s, nst) /\ Conserved(h, s, nst, batch) /\ StreamOK(nst)
  BY <1>3 DEF Mid, Early, Late, Conserved, StreamOK, StreamType
<1>6. Mid(h, s, nst)
  BY <1>3, <1>4, <1>5 DEF Mid
<1> QED BY <1>6 DEF nst, es, WithPacket

\* A termination ends the connection and tells of both.
LEMMA TerminationMid ==
  ASSUME NEW h, NEW s, NEW st, Mid(h, s, st), app \in SUBSET Event, h.peer # "disconnected"
  PROVE  Mid(Dropped(h), s, WithEnd(st))
<1> DEFINE ds == Append(st.events, "Disconnect")
           es == Append(ds, "Termination")
           nst == [st EXCEPT !.events = es]
           nh == [h EXCEPT !.peer = "disconnected"]
<1>1. st \in StreamType /\ st.events \in Seq(Event) /\ h \in [peer : Peer, configured : BOOLEAN]
  BY DEF Mid, StreamOK, StreamType, HostOK
<1>2. /\ ds \in Seq(Event)
      /\ Told(app, ds) = Told(app, st.events) \cup {"Disconnect"}
      /\ EndInOrder(app, st.events) => EndInOrder(app, ds)
  BY <1>1, TellOne DEF Event
<1> HIDE DEF ds
<1>3. /\ es \in Seq(Event)
      /\ Told(app, es) = Told(app, ds) \cup {"Termination"}
      /\ EndInOrder(app, ds) => EndInOrder(app, es)
  BY <1>2, TellOne DEF Event
<1> HIDE DEF es
<1>4. nst \in StreamType /\ nst.events = es /\ nst.ok = st.ok /\ nst.connected = st.connected
  BY <1>1, <1>3 DEF StreamType
<1>5. nh \in [peer : Peer, configured : BOOLEAN] /\ nh.peer = "disconnected"
  BY <1>1 DEF Peer
<1> HIDE DEF nst, nh
<1>6. Ended(nh, nst, app)
  BY <1>2, <1>3, <1>4, <1>5 DEF Mid, Ended
<1>7. HostOK(nh) /\ StreamOK(nst) /\ Early(nh, s, nst, app) /\ Late(nh, s, nst)
  BY <1>4, <1>5 DEF HostOK, StreamOK, StreamType, Early, Late
<1>8. Remembered(nh, s, keys, gamepads) /\ Conserved(nh, s, nst, batch)
  BY <1>5 DEF Remembered, Conserved
<1>9. Mid(nh, s, nst)
  BY <1>4, <1>5, <1>6, <1>7, <1>8 DEF Mid
<1> QED BY <1>9 DEF nh, nst, es, ds, Dropped, WithEnd

\* A disconnect ends the connection, forgets the peer and tells of it.
LEMMA DisconnectMid ==
  ASSUME NEW h, NEW s, NEW st, Mid(h, s, st), app \in SUBSET Event
  PROVE  Mid([peer |-> "disconnected", configured |-> FALSE], s, WithLoss(st))
<1> DEFINE es == Append(st.events, "Disconnect")
           nst == [st EXCEPT !.connected = FALSE, !.events = es]
           nh == [peer |-> "disconnected", configured |-> FALSE]
<1>1. st \in StreamType /\ st.events \in Seq(Event)
  BY DEF Mid, StreamOK, StreamType
<1>2. /\ es \in Seq(Event)
      /\ Told(app, es) = Told(app, st.events) \cup {"Disconnect"}
      /\ EndInOrder(app, st.events) => EndInOrder(app, es)
  BY <1>1, TellOne DEF Event
<1> HIDE DEF es
<1>3. nst \in StreamType /\ nst.events = es /\ nst.ok = st.ok /\ ~nst.connected
  BY <1>1, <1>2 DEF StreamType
<1>4. nh \in [peer : Peer, configured : BOOLEAN] /\ nh.peer = "disconnected"
  BY DEF Peer
<1> HIDE DEF nst, nh
<1>5. Ended(nh, nst, app)
  BY <1>2, <1>3, <1>4 DEF Mid, Ended
<1>6. HostOK(nh) /\ StreamOK(nst) /\ Early(nh, s, nst, app) /\ Late(nh, s, nst)
  BY <1>3, <1>4 DEF HostOK, StreamOK, StreamType, Early, Late
<1>7. Remembered(nh, s, keys, gamepads) /\ Conserved(nh, s, nst, batch)
  BY <1>4 DEF Remembered, Conserved
<1>8. Mid(nh, s, nst)
  BY <1>3, <1>4, <1>5, <1>6, <1>7 DEF Mid
<1> QED BY <1>8 DEF nh, nst, es, WithLoss

\* A connection sends what was waiting, which comes first.
LEMMA ConnectMid ==
  ASSUME Inv, stream.ok, host.peer = "connecting"
  PROVE  LET h == [peer |-> "connected", configured |-> TRUE]
             s == [server EXCEPT !.first = FirstTwo]
             st == [stream EXCEPT !.connected = TRUE, !.buffered = <<>>,
                                  !.events = Append(@, "Connect")]
         IN Handle(U(h, server, stream), "Connect") = U(h, s, st) /\ Mid(h, s, st)
<1> DEFINE h == [peer |-> "connected", configured |-> TRUE]
           s == [server EXCEPT !.first = FirstTwo]
           es == Append(stream.events, "Connect")
           st == [stream EXCEPT !.connected = TRUE, !.buffered = <<>>, !.events = es]
<1>1. /\ stream \in StreamType /\ stream.events \in Seq(Event) /\ ServerOK(server)
      /\ server.first = <<>> /\ stream.buffered = Waiting /\ app \in SUBSET Event
      /\ stream.events = <<>> /\ app = {}
  BY DEF Inv, StreamOK, StreamType, Early
<1>2. Handle(U(h, server, stream), "Connect") = U(h, s, st)
  <2>1. Sendable(h)
    BY DEF Sendable
  <2>2. Served(Served(server, Waiting[1]), Waiting[2]) = s
    BY <1>1, FirstServed DEF ServerOK
  <2> HIDE DEF h, s
  <2>3. Handle(U(h, server, stream), "Connect")
          = U(h, Served(Served(server, Waiting[1]), Waiting[2]), Opened(stream))
    BY <1>1, <2>1, HandleConnect
  <2> QED BY <2>2, <2>3 DEF Opened
<1>3. /\ es \in Seq(Event)
      /\ Told(app, es) = Told(app, stream.events) \cup {"Connect"}
      /\ EndInOrder(app, stream.events) => EndInOrder(app, es)
  BY <1>1, TellOne DEF Event
<1> HIDE DEF es
<1>4. st \in StreamType /\ st.events = es /\ st.ok = stream.ok /\ st.connected
  BY <1>1, <1>3 DEF StreamType
<1>5. /\ ServerOK(s) /\ s.first = FirstTwo /\ s.keys = server.keys /\ s.gamepads = server.gamepads /\ s.lost = server.lost
      /\ s.behind = server.behind /\ s.sinceping = server.sinceping
  BY <1>1 DEF ServerOK
<1>6. HostOK(h) /\ h.peer = "connected"
  BY DEF HostOK, Peer
<1> HIDE DEF h, s, st
<1>7. Ended(h, st, app)
  BY <1>3, <1>4, <1>6 DEF Inv, Ended
<1>8. StreamOK(st) /\ Early(h, s, st, app) /\ Late(h, s, st)
  BY <1>4, <1>5, <1>6 DEF StreamOK, StreamType, Early, Late
<1>9. Remembered(h, s, keys, gamepads) /\ Conserved(h, s, st, batch)
  BY <1>4, <1>5, <1>6 DEF Inv, Remembered, Conserved
<1>10. s.sinceping <= age.ping + age.now \/ age.ping + age.now >= PingInterval
  BY <1>5 DEF Inv, Fresh
<1>11. Mid(h, s, st)
  BY <1>4, <1>5, <1>6, <1>7, <1>8, <1>9, <1>10 DEF Mid
<1> QED BY <1>2, <1>11 DEF h, s, st, es

\* Whatever ENet hands over, the calls succeed and the invariant holds again.
LEMMA HeardSound ==
  ASSUME Inv, stream.ok, NEW evs \in EnetEvents(host.peer)
  PROVE  \E h, s, st : Heard(evs) = U(h, s, st) /\ Mid(h, s, st)

<1>1. /\ host.peer \in Peer /\ host \in [peer : Peer, configured : BOOLEAN]
      /\ host.peer # "disconnected" => host.configured
      /\ stream \in StreamType /\ app \in SUBSET Event
      /\ "Connect" \in Event /\ "Packet" \in Event /\ "Termination" \in Event
      /\ "Disconnect" \in Event
  BY DEF Inv, HostOK, StreamOK, StreamType, Event
<1>2. \/ evs = <<>>
      \/ /\ host.peer = "connecting"
         /\ evs = <<"Connect">> \/ evs = <<"Connect", "Packet">> \/ evs = <<"Connect", "Termination">>
      \/ /\ host.peer \in {"connected", "disconnecting"}
         /\ evs = <<"Packet">> \/ evs = <<"Termination">>
      \/ /\ host.peer = "connected"
         /\ evs = <<"Packet", "Disconnect">> \/ evs = <<"Packet", "Termination">>
      \/ /\ host.peer # "disconnected"
         /\ evs = <<"Disconnect">>
  BY DEF EnetEvents
<1>3. CASE evs = <<>>
  <2>1. Heard(<<>>) = U(host, server, stream)
    BY <1>1, HeardEvents
  <2> QED BY <2>1, <1>3, HeardNothing
<1>4. CASE host.peer = "connecting" /\ evs = <<"Connect">>
  <2>1. After("Connect", "Connect") = [peer |-> "connected", configured |-> TRUE]
    BY DEF After
  <2>2. Heard(<<"Connect">>) = Handle(U(After("Connect", "Connect"), server, stream), "Connect")
    BY <1>1, <1>4, HeardEvents
  <2> QED BY <2>1, <2>2, <1>4, ConnectMid
<1>5. CASE host.peer = "connecting" /\ evs = <<"Connect", "Packet">>
  <2> DEFINE h == [peer |-> "connected", configured |-> TRUE]
  <2>1. After("Connect", "Packet") = h
    BY DEF After
  <2>2. Heard(evs) = Handle(Handle(U(h, server, stream), "Connect"), "Packet")
    BY <2>1, <1>1, <1>5, HeardEvents
  <2>3. PICK s, st : Handle(U(h, server, stream), "Connect") = U(h, s, st) /\ Mid(h, s, st)
    BY <1>5, ConnectMid
  <2>4. h \in [peer : Peer, configured : BOOLEAN] /\ h.peer # "connecting"
    BY DEF Peer
  <2>5. st \in StreamType
    BY <2>3 DEF Mid, StreamOK, StreamType
  <2> HIDE DEF h
  <2>6. Mid(h, s, WithPacket(st))
    BY <2>3, <2>4, <1>1, PacketMid
  <2>7. Handle(U(h, s, st), "Packet") = U(h, s, WithPacket(st))
    BY <2>4, <2>5, HandleOne
  <2> QED BY <2>2, <2>3, <2>6, <2>7
<1>6. CASE host.peer = "connecting" /\ evs = <<"Connect", "Termination">>
  <2> DEFINE h == [peer |-> "connected", configured |-> TRUE]
  <2>1. After("Connect", "Termination") = h
    BY DEF After
  <2>2. Heard(evs) = Handle(Handle(U(h, server, stream), "Connect"), "Termination")
    BY <2>1, <1>1, <1>6, HeardEvents
  <2>3. PICK s, st : Handle(U(h, server, stream), "Connect") = U(h, s, st) /\ Mid(h, s, st)
    BY <1>6, ConnectMid
  <2>4. h \in [peer : Peer, configured : BOOLEAN] /\ h.peer # "disconnected"
    BY DEF Peer
  <2>5. st \in StreamType
    BY <2>3 DEF Mid, StreamOK, StreamType
  <2> HIDE DEF h
  <2> DEFINE nh == Dropped(h)
             nst == WithEnd(st)
  <2>6. Mid(nh, s, nst)
    BY <2>3, <2>4, <1>1, TerminationMid
  <2>7. Handle(U(h, s, st), "Termination") = U(nh, s, nst)
    BY <2>4, <2>5, HandleOne
  <2> HIDE DEF nh, nst
  <2> QED BY <2>2, <2>3, <2>6, <2>7
<1>7. CASE host.peer \in {"connected", "disconnecting"} /\ evs = <<"Packet">>
  <2>1. After("Packet", "Packet") = host
    BY <1>1, <1>7 DEF After
  <2>2. Heard(evs) = Handle(U(host, server, stream), "Packet")
    BY <2>1, <1>1, <1>7, HeardEvents
  <2> DEFINE nst == WithPacket(stream)
  <2>3. Mid(host, server, nst)
    BY <1>1, <1>7, HeardNothing, PacketMid
  <2>4. Handle(U(host, server, stream), "Packet") = U(host, server, nst)
    BY <1>1, HandleOne
  <2> HIDE DEF nst
  <2> QED BY <2>2, <2>3, <2>4
<1>8. CASE host.peer \in {"connected", "disconnecting"} /\ evs = <<"Termination">>
  <2>1. After("Termination", "Termination") = host
    BY <1>1, <1>8 DEF After
  <2>2. Heard(evs) = Handle(U(host, server, stream), "Termination")
    BY <2>1, <1>1, <1>8, HeardEvents
  <2> DEFINE nh == Dropped(host)
             nst == WithEnd(stream)
  <2>3. Mid(nh, server, nst)
    BY <1>1, <1>8, HeardNothing, TerminationMid
  <2>4. Handle(U(host, server, stream), "Termination") = U(nh, server, nst)
    BY <1>1, HandleOne
  <2> HIDE DEF nh, nst
  <2> QED BY <2>2, <2>3, <2>4
<1>9. CASE host.peer = "connected" /\ evs = <<"Packet", "Disconnect">>
  <2> DEFINE h == [peer |-> "disconnected", configured |-> FALSE]
             st == WithPacket(stream)
             nst == WithLoss(st)
  <2>1. After("Packet", "Disconnect") = h
    BY DEF After
  <2>2. Heard(evs) = Handle(Handle(U(h, server, stream), "Packet"), "Disconnect")
    BY <2>1, <1>1, <1>9, HeardEvents
  <2>3. Mid(host, server, st)
    BY <1>1, <1>9, HeardNothing, PacketMid
  <2>4. h \in [peer : Peer, configured : BOOLEAN]
    BY DEF Peer
  <2>5. Mid(h, server, nst)
    <3> HIDE DEF st
    <3> QED BY <2>3, <1>1, DisconnectMid
  <2> HIDE DEF h
  <2>6. Handle(U(h, server, stream), "Packet") = U(h, server, st)
    BY <1>1, <2>4, HandleOne
  <2>7. st \in StreamType
    BY <2>3 DEF Mid, StreamOK, StreamType
  <2> HIDE DEF st
  <2>8. Handle(U(h, server, st), "Disconnect") = U(h, server, nst)
    BY <2>4, <2>7, HandleOne
  <2> HIDE DEF nst
  <2> QED BY <2>2, <2>5, <2>6, <2>8
<1>10. CASE host.peer = "connected" /\ evs = <<"Packet", "Termination">>
  <2> DEFINE st == WithPacket(stream)
             nh == Dropped(host)
             nst == WithEnd(st)
  <2>1. After("Packet", "Termination") = host
    BY <1>1, <1>10 DEF After
  <2>2. Heard(evs) = Handle(Handle(U(host, server, stream), "Packet"), "Termination")
    BY <2>1, <1>1, <1>10, HeardEvents
  <2>3. Mid(host, server, st)
    BY <1>1, <1>10, HeardNothing, PacketMid
  <2>4. Handle(U(host, server, stream), "Packet") = U(host, server, st)
    BY <1>1, HandleOne
  <2>5. st \in StreamType
    BY <2>3 DEF Mid, StreamOK, StreamType
  <2> HIDE DEF st
  <2>6. Mid(nh, server, nst)
    BY <2>3, <1>1, <1>10, TerminationMid
  <2>7. Handle(U(host, server, st), "Termination") = U(nh, server, nst)
    BY <1>1, <2>5, HandleOne
  <2> HIDE DEF nh, nst
  <2> QED BY <2>2, <2>4, <2>6, <2>7
<1>11. CASE host.peer # "disconnected" /\ evs = <<"Disconnect">>
  <2> DEFINE h == [peer |-> "disconnected", configured |-> FALSE]
             nst == WithLoss(stream)
  <2>1. After("Disconnect", "Disconnect") = h
    BY DEF After
  <2>2. Heard(evs) = Handle(U(h, server, stream), "Disconnect")
    BY <2>1, <1>1, <1>11, HeardEvents
  <2>3. Mid(h, server, nst)
    BY <1>1, HeardNothing, DisconnectMid
  <2>4. h \in [peer : Peer, configured : BOOLEAN]
    BY DEF Peer
  <2> HIDE DEF h
  <2>5. Handle(U(h, server, stream), "Disconnect") = U(h, server, nst)
    BY <1>1, <2>4, HandleOne
  <2> HIDE DEF nst
  <2> QED BY <2>2, <2>3, <2>5
<1> QED BY <1>2, <1>3, <1>4, <1>5, <1>6, <1>7, <1>8, <1>9, <1>10, <1>11

-----------------------------------------------------------------------------
(* The batch and the ping                                                  *)

\* A packet that is neither of a key nor of a gamepad, to a server that has
\* got the first two.
LEMMA ServedQuietly ==
  ASSUME NEW s, ServerOK(s), s.first = FirstTwo, NEW p,
         p.type \notin {"Keyboard", "ControllerArrival", "ControllerState"}
  PROVE  LET t == Served(s, p)
         IN /\ t = [first |-> FirstTwo, keys |-> s.keys, gamepads |-> s.gamepads, lost |-> s.lost,
                    behind |-> t.behind, sinceping |-> t.sinceping]
            /\ p.type # "MouseMoveRelative" => t.behind = s.behind
            /\ p.type = "MouseMoveRelative" => t.behind = s.behind - p.delta
            /\ p.type # "PeriodicPing" => t.sinceping = s.sinceping
            /\ p.type = "PeriodicPing" => t.sinceping = 0
<1>1. Len(s.first) = 2
  BY DEF FirstTwo
<1> QED BY <1>1 DEF Served, ControllerTypes

LEMMA ConcatOne ==
  ASSUME NEW a, NEW b
  PROVE  /\ <<a>> \o <<b>> = <<a, b>>
         /\ <<>> \o <<b>> = <<b>>
         /\ <<a>> \o <<>> = <<a>>
         /\ <<>> \o <<>> = <<>>
<1> DEFINE S == {a, b}
<1>1. a \in S /\ b \in S /\ <<a>> \in Seq(S) /\ <<b>> \in Seq(S) /\ <<>> \in Seq(S)
  OBVIOUS
<1> HIDE DEF S
<1>2. Append(<<a>>, b) = <<a, b>>
  BY <1>1, AppendTwo
<1>3. <<a>> \o <<b>> = Append(<<a>>, b)
  BY <1>1, AppendIsConcat
<1>4. <<>> \o <<b>> = <<b>> /\ <<a>> \o <<>> = <<a>> /\ <<>> \o <<>> = <<>>
  BY <1>1, ConcatEmptySeq
<1> QED BY <1>2, <1>3, <1>4

\* The server after the motion and the pings of an update.
Caught(s, beh, since) ==
  [first |-> s.first, keys |-> s.keys, gamepads |-> s.gamepads, lost |-> s.lost,
   behind |-> beh, sinceping |-> since]

\* The batch as it is sent: nothing fails to a connected peer, and the server
\* catches up with the motion.
LEMMA Flushed ==
  ASSUME NEW h, NEW s, ServerOK(s), NEW c, BatchOK(c), IsDirty(c),
         h.peer = "connected" => s.first = FirstTwo
  PROVE  LET w == [host |-> h, server |-> s, ok |-> TRUE]
             t == Caught(s, s.behind - c.motion, s.sinceping)
         IN /\ Sendable(h) => SendAll(w, Batched(c)) = [host |-> h, server |-> t, ok |-> TRUE]
            /\ ~Sendable(h) => SendAll(w, Batched(c)) = [host |-> h, server |-> s, ok |-> FALSE]
<1> DEFINE w == [host |-> h, server |-> s, ok |-> TRUE]
           t == [first |-> FirstTwo, keys |-> s.keys, gamepads |-> s.gamepads, lost |-> s.lost,
                 behind |-> s.behind - c.motion, sinceping |-> s.sinceping]
           f == [host |-> h, server |-> s, ok |-> FALSE]
           m == [type |-> "MouseMoveRelative", delta |-> c.motion]
           a == [type |-> "MouseMoveAbsolute", at |-> c.at]
           v == [host |-> h, server |-> t, ok |-> TRUE]
<1>1. c.motion \in Int /\ c = [motion |-> c.motion, at |-> c.at] /\ s.behind \in Int
  BY DEF BatchOK, ServerOK
<1>2. /\ m.type = "MouseMoveRelative" /\ m.delta = c.motion
      /\ a.type = "MouseMoveAbsolute"
  OBVIOUS
<1>3. Batched(c) = IF c.motion # 0 THEN IF c.at # Nowhere THEN <<m, a>> ELSE <<m>>
                   ELSE IF c.at # Nowhere THEN <<a>> ELSE <<>>
  BY ConcatOne DEF Batched
<1>4. c.motion # 0 \/ c.at # Nowhere
  BY <1>1 DEF IsDirty, Emptied
<1>5. ServerOK(t)
  BY <1>1 DEF ServerOK
<1>6. t.first = FirstTwo /\ t.behind = s.behind - c.motion
      /\ t.keys = s.keys /\ t.gamepads = s.gamepads /\ t.lost = s.lost /\ t.sinceping = s.sinceping
  OBVIOUS
<1>7. s = [first |-> s.first, keys |-> s.keys, gamepads |-> s.gamepads, lost |-> s.lost,
           behind |-> s.behind, sinceping |-> s.sinceping]
  BY DEF ServerOK
<1>8. s.first = FirstTwo /\ c.motion = 0 => t = s
  BY <1>1, <1>7
<1> HIDE DEF m, a
<1>9. ASSUME s.first = FirstTwo
      PROVE  /\ Served(s, m) = t
             /\ Served(s, a) = s
             /\ Served(t, a) = t
  <2>1. Served(s, m) = t
    BY <1>2, <1>9, ServedQuietly
  <2>2. Served(s, a) = s
    BY <1>2, <1>7, <1>9, ServedQuietly
  <2> HIDE DEF t
  <2>3. Served(t, a) = [first |-> FirstTwo, keys |-> t.keys, gamepads |-> t.gamepads, lost |-> t.lost,
                        behind |-> t.behind, sinceping |-> t.sinceping]
    BY <1>2, <1>5, <1>6, ServedQuietly
  <2>4. Served(t, a) = t
    BY <2>3, <1>6 DEF t
  <2> QED BY <2>1, <2>2, <2>4
<1>10. /\ SendAll(w, <<m, a>>) = Send(Send(w, m), a)
       /\ SendAll(w, <<m>>) = Send(w, m)
       /\ SendAll(w, <<a>>) = Send(w, a)
  <2> HIDE DEF w
  <2> QED BY DEF SendAll, InTurn
<1>11. ASSUME Sendable(h)
       PROVE  SendAll(w, Batched(c)) = v
  <2>1. s.first = FirstTwo
    BY <1>11 DEF Sendable
  <2>2. Send(w, m) = v
    <3>1. Send(w, m) = [host |-> h, server |-> Served(s, m), ok |-> TRUE]
      BY <1>11 DEF Send
    <3> QED BY <3>1, <2>1, <1>9
  <2>3. Send(w, a) = w
    <3>1. Send(w, a) = [host |-> h, server |-> Served(s, a), ok |-> TRUE]
      BY <1>11 DEF Send
    <3> QED BY <3>1, <2>1, <1>9
  <2>4. Send(v, a) = v
    <3>1. Send(v, a) = [host |-> h, server |-> Served(t, a), ok |-> TRUE]
      BY <1>11 DEF Send
    <3> QED BY <3>1, <2>1, <1>9
  <2>5. c.motion = 0 => w = v
    BY <2>1, <1>8
  <2> HIDE DEF w, v, t
  <2> QED BY <1>3, <1>4, <1>10, <2>2, <2>3, <2>4, <2>5
<1>12. ASSUME ~Sendable(h)
       PROVE  SendAll(w, Batched(c)) = f
  <2>1. Send(w, m) = f /\ Send(w, a) = f
    BY <1>12, SendPacket
  <2>2. Send(f, a) = f
    BY DEF Send
  <2> HIDE DEF w, f
  <2> QED BY <1>3, <1>4, <1>10, <2>1, <2>2
<1>13. s.first = FirstTwo => Caught(s, s.behind - c.motion, s.sinceping) = t
  BY DEF Caught
<1>14. Sendable(h) => s.first = FirstTwo
  BY DEF Sendable
<1> HIDE DEF t, w
<1> QED BY <1>11, <1>12, <1>13, <1>14 DEF w

\* A ping resets the server's wait, is left for later without a connection,
\* and fails for want of configuration only, which no peer lacks by then.
LEMMA Pinged ==
  ASSUME NEW h, HostOK(h), h.peer # "disconnected", NEW s, ServerOK(s),
         h.peer = "connected" => s.first = FirstTwo
  PROVE  LET w == [host |-> h, server |-> s, ok |-> TRUE]
             t == [first |-> FirstTwo, keys |-> s.keys, gamepads |-> s.gamepads, lost |-> s.lost,
                   behind |-> s.behind, sinceping |-> 0]
         IN /\ h.peer = "connected" =>
                 Ping(w) = [host |-> h, server |-> t, ok |-> TRUE] /\ PingSent(w)
            /\ h.peer # "connected" => Ping(w) = w /\ ~PingSent(w)
<1> DEFINE w == [host |-> h, server |-> s, ok |-> TRUE]
           t == [first |-> FirstTwo, keys |-> s.keys, gamepads |-> s.gamepads, lost |-> s.lost,
                 behind |-> s.behind, sinceping |-> 0]
           p == [type |-> "PeriodicPing"]
<1>1. h.configured
  BY DEF HostOK
<1>2. ASSUME h.peer = "connected"
      PROVE  Ping(w) = [host |-> h, server |-> t, ok |-> TRUE] /\ PingSent(w)
  <2>1. Sendable(h)
    BY <1>1, <1>2 DEF Sendable
  <2>2. p.type = "PeriodicPing"
    OBVIOUS
  <2>3. Ping(w) = Send(w, p)
    BY <1>2 DEF Ping
  <2> HIDE DEF p
  <2>4. Served(s, p) = t
    BY <1>2, <2>2, ServedQuietly
  <2>5. Send(w, p) = [host |-> h, server |-> Served(s, p), ok |-> TRUE]
    BY <2>1 DEF Send
  <2>6. PingSent(w)
    BY <2>1 DEF PingSent
  <2> QED BY <2>3, <2>4, <2>5, <2>6
<1>3. ASSUME h.peer # "connected"
      PROVE  Ping(w) = w /\ ~PingSent(w)
  BY <1>1, <1>3 DEF Ping, PingSent, Sendable
<1> QED BY <1>2, <1>3

LEMMA AgedType ==
  ASSUME AgeOK(age)
  PROVE  /\ AgeOK(Aged) /\ Aged.now = 0
         /\ Aged.ping = IF age.ping + age.now < PingInterval THEN age.ping + age.now
                        ELSE PingInterval
         /\ Aged = [ping |-> Aged.ping, batch |-> Aged.batch, now |-> 0]
<1>1. PingInterval \in Nat /\ age.ping \in 0..PingInterval /\ age.batch \in Nat /\ age.now \in Nat
  BY ControlAssumption DEF AgeOK
<1>2. Least(age.ping + age.now, PingInterval) \in 0..PingInterval
  BY <1>1 DEF Least
<1>3. Least(age.batch + age.now, 1) \in Nat
  BY <1>1 DEF Least
<1> QED BY <1>1, <1>2, <1>3 DEF Aged, AgeOK, Least

\* One update, put together: h, s and st are what the events leave, and the
\* batch and the ping reach the server of a connected peer.
LEMMA UpdateAs ==
  ASSUME Inv, stream.ok, NEW evs \in EnetEvents(host.peer), Update(evs)
  PROVE  \E h, s, st, ok, beh, since :
           /\ Mid(h, s, st)
           /\ host' = h
           /\ server' = Caught(s, beh, since)
           /\ stream' = [st EXCEPT !.ok = ok]
           /\ ok \in BOOLEAN /\ beh \in Int /\ since \in Nat
           /\ BatchOK(batch') /\ AgeOK(age') /\ age'.now = 0
           /\ UNCHANGED <<keys, gamepads, app>>
           /\ h.peer \in {"connecting", "connected"} /\ ok =>
                beh = s.behind - batch.motion + batch'.motion
           /\ h.peer = "connecting" => since = s.sinceping /\ age'.ping = Aged.ping
           /\ h.peer = "connected" =>
                IF Aged.ping = PingInterval THEN since = 0 /\ age'.ping = 0
                ELSE since = s.sinceping /\ age'.ping = Aged.ping
<1>1. PICK h, s, st : Heard(evs) = U(h, s, st) /\ Mid(h, s, st)
  BY HeardSound
<1> DEFINE w0 == [host |-> h, server |-> s, ok |-> TRUE]
           goon == h.peer # "disconnected"
           flush == goon /\ BatchDue(Aged)
           b == IF flush THEN SendAll(w0, Batched(batch)) ELSE w0
           ping == goon /\ b.ok /\ PingDue(Aged)
           w == IF ping THEN Ping(b) ELSE b
<1>2. /\ host' = w.host
      /\ server' = w.server
      /\ stream' = [st EXCEPT !.ok = w.ok]
      /\ batch' = IF flush THEN Emptied ELSE batch
      /\ age' = [Aged EXCEPT !.batch = IF flush THEN 0 ELSE @,
                             !.ping = IF ping /\ PingSent(b) THEN 0 ELSE @]
      /\ UNCHANGED <<keys, gamepads, app>>
  <2> DEFINE u == Heard(evs)
             g == u.w.ok /\ u.w.host.peer # "disconnected"
             f == g /\ BatchDue(Aged)
             c == IF f THEN SendAll(u.w, Batched(batch)) ELSE u.w
             p == g /\ c.ok /\ PingDue(Aged)
             x == IF p THEN Ping(c) ELSE c
  <2>1. /\ host' = x.host
        /\ server' = x.server
        /\ stream' = [u.stream EXCEPT !.ok = x.ok]
        /\ batch' = IF f THEN Emptied ELSE batch
        /\ age' = [Aged EXCEPT !.batch = IF f THEN 0 ELSE @,
                               !.ping = IF p /\ PingSent(c) THEN 0 ELSE @]
        /\ UNCHANGED <<keys, gamepads, app>>
    BY DEF Update, Heard
  <2>2. u.w = w0 /\ u.stream = st
    BY <1>1 DEF U
  <2>3. u.w.ok /\ u.w.host = h
    BY <2>2
  <2> HIDE DEF u
  <2>4. g <=> goon
    BY <2>3
  <2>5. c = b
    BY <2>2, <2>4
  <2>6. p <=> ping
    BY <2>4, <2>5
  <2>7. x = w
    BY <2>5, <2>6
  <2>8. f <=> flush
    BY <2>4
  <2> HIDE DEF x, w, f, flush, p, ping, c, b
  <2> QED BY <2>1, <2>2, <2>5, <2>6, <2>7, <2>8
<1>3. /\ HostOK(h) /\ ServerOK(s) /\ StreamOK(st) /\ h.peer \in Peer
      /\ h.peer = "connected" => s.first = FirstTwo
      /\ BatchOK(batch) /\ BatchOK(Emptied) /\ Emptied.motion = 0
      /\ batch.motion \in Int /\ s.behind \in Int /\ s.sinceping \in Nat
  BY <1>1 DEF Mid, Late, Inv, HostOK, BatchOK, ServerOK, Emptied
<1>4. /\ AgeOK(Aged) /\ Aged = [ping |-> Aged.ping, batch |-> Aged.batch, now |-> 0]
      /\ PingDue(Aged) <=> Aged.ping = PingInterval
      /\ Aged.ping \in 0..PingInterval /\ Aged.batch \in Nat /\ PingInterval \in Nat
  <2>1. AgeOK(Aged) /\ Aged = [ping |-> Aged.ping, batch |-> Aged.batch, now |-> 0]
    BY AgedType DEF Inv
  <2>2. Aged.ping \in 0..PingInterval /\ Aged.batch \in Nat /\ PingInterval \in Nat
    BY <2>1, ControlAssumption DEF AgeOK
  <2> QED BY <2>1, <2>2 DEF PingDue
<1>5. s = [first |-> s.first, keys |-> s.keys, gamepads |-> s.gamepads, lost |-> s.lost,
           behind |-> s.behind, sinceping |-> s.sinceping]
  BY <1>3 DEF ServerOK
<1> DEFINE A == Aged
<1>6. age' = [ping |-> IF ping /\ PingSent(b) THEN 0 ELSE A.ping,
              batch |-> IF flush THEN 0 ELSE A.batch, now |-> 0]
  <2>1. A \in [ping : 0..PingInterval, batch : Nat, now : Nat] /\ A.now = 0
    BY <1>4 DEF AgeOK
  <2> DEFINE c == IF flush THEN 0 ELSE A.batch
             p == IF ping /\ PingSent(b) THEN 0 ELSE A.ping
  <2>2. age' = [A EXCEPT !.batch = c, !.ping = p]
    BY <1>2
  <2> HIDE DEF A, c, p
  <2>3. age' = [ping |-> p, batch |-> c, now |-> 0]
    BY <2>1, <2>2
  <2> QED BY <2>3 DEF c, p
<1>7. AgeOK(age') /\ age'.now = 0
  <2> HIDE DEF flush, ping, b
  <2> QED BY <1>4, <1>6 DEF AgeOK
<1>8. BatchOK(batch')
  <2> HIDE DEF flush
  <2> QED BY <1>2, <1>3
<1>9. CASE h.peer = "disconnected"
  <2>1. ~flush /\ w = w0 /\ ~ping
    BY <1>9
  <2>2. server' = Caught(s, s.behind, s.sinceping)
    BY <1>2, <1>5, <2>1 DEF Caught
  <2>3. host' = h /\ stream' = [st EXCEPT !.ok = TRUE]
    BY <1>2, <2>1
  <2> HIDE DEF flush, w, w0, ping, b
  <2>4. UNCHANGED <<keys, gamepads, app>> /\ h.peer \notin {"connecting", "connected"}
    BY <1>2, <1>9
  <2> QED BY <1>1, <1>3, <1>7, <1>8, <2>2, <2>3, <2>4
<1>10. CASE h.peer = "connected"
  <2> DEFINE beh == IF flush THEN s.behind - batch.motion ELSE s.behind
             t == [first |-> FirstTwo, keys |-> s.keys, gamepads |-> s.gamepads, lost |-> s.lost,
                   behind |-> beh, sinceping |-> s.sinceping]
             r == [first |-> FirstTwo, keys |-> s.keys, gamepads |-> s.gamepads, lost |-> s.lost,
                   behind |-> beh, sinceping |-> 0]
             since == IF Aged.ping = PingInterval THEN 0 ELSE s.sinceping
  <2>1. s.first = FirstTwo /\ goon /\ Sendable(h)
    BY <1>3, <1>10 DEF Sendable, HostOK
  <2>2. beh \in Int /\ ServerOK(t) /\ since \in Nat
    <3> HIDE DEF flush
    <3> QED BY <1>3 DEF ServerOK
  <2>3. b = [host |-> h, server |-> t, ok |-> TRUE]
    <3>1. CASE flush
      <4>1. IsDirty(batch)
        BY <3>1 DEF BatchDue
      <4>2. SendAll(w0, Batched(batch))
              = [host |-> h, server |-> Caught(s, s.behind - batch.motion, s.sinceping), ok |-> TRUE]
        BY <1>3, <2>1, <4>1, Flushed
      <4>3. Caught(s, s.behind - batch.motion, s.sinceping) = t
        <5> HIDE DEF flush
        <5> QED BY <2>1, <3>1 DEF Caught
      <4> HIDE DEF flush, w0, t
      <4> QED BY <3>1, <4>2, <4>3
    <3>2. CASE ~flush
      <4> HIDE DEF flush
      <4> QED BY <3>2, <1>5, <2>1
    <3> QED BY <3>1, <3>2
  <2>4. b.ok /\ (ping <=> Aged.ping = PingInterval)
    <3>1. b.ok
      <4> HIDE DEF t, beh, flush, b
      <4> QED BY <2>3
    <3> HIDE DEF t, beh, flush, b
    <3> QED BY <2>1, <3>1, <1>4
  <2>5. Ping(b) = [host |-> h, server |-> r, ok |-> TRUE] /\ PingSent(b)
    <3>1. t.first = FirstTwo /\ t.keys = s.keys /\ t.gamepads = s.gamepads /\ t.lost = s.lost /\ t.behind = beh
      OBVIOUS
    <3> HIDE DEF t, b, beh
    <3>2. LET v == [host |-> h, server |-> t, ok |-> TRUE]
          IN /\ Ping(v) = [host |-> h,
                          server |-> [first |-> FirstTwo, keys |-> t.keys, gamepads |-> t.gamepads, lost |-> t.lost,
                                      behind |-> t.behind, sinceping |-> 0],
                          ok |-> TRUE]
             /\ PingSent(v)
      BY <1>3, <1>10, <2>2, <3>1, Pinged
    <3> QED BY <2>3, <3>1, <3>2
  <2> HIDE DEF b, ping
  <2>6. w.host = h /\ w.ok = TRUE
    BY <2>3, <2>5
  <2>7. w.server = Caught(s, beh, since)
    <3>1. CASE ping
      <4>1. w.server = r /\ since = 0
        BY <3>1, <2>4, <2>5
      <4>2. Caught(s, beh, 0) = r
        <5> HIDE DEF beh
        <5> QED BY <2>1 DEF Caught
      <4> HIDE DEF w, beh, since, r
      <4> QED BY <4>1, <4>2
    <3>2. CASE ~ping
      <4>1. w.server = t /\ since = s.sinceping
        BY <3>2, <2>3, <2>4
      <4>2. Caught(s, beh, s.sinceping) = t
        <5> HIDE DEF beh
        <5> QED BY <2>1 DEF Caught
      <4> HIDE DEF w, beh, since, t
      <4> QED BY <4>1, <4>2
    <3> QED BY <3>1, <3>2
  <2> HIDE DEF w
  <2>8. age'.ping = IF Aged.ping = PingInterval THEN 0 ELSE Aged.ping
    BY <1>6, <2>4, <2>5
  <2>9. beh = s.behind - batch.motion + batch'.motion
    <3> HIDE DEF flush
    <3> QED BY <1>2, <1>3
  <2>10. host' = h /\ stream' = [st EXCEPT !.ok = TRUE] /\ UNCHANGED <<keys, gamepads, app>>
         /\ server' = Caught(s, beh, since)
    BY <1>2, <2>6, <2>7
  <2>11. IF Aged.ping = PingInterval THEN since = 0 /\ age'.ping = 0
         ELSE since = s.sinceping /\ age'.ping = Aged.ping
    BY <2>8
  <2> HIDE DEF beh, since, flush, t, r
  <2> QED BY <1>1, <1>3, <1>7, <1>8, <1>10, <2>2, <2>9, <2>10, <2>11
<1>11. CASE h.peer \in {"connecting", "disconnecting"}
  <2>1. goon /\ ~Sendable(h)
    BY <1>11 DEF Sendable
  <2> DEFINE ok == IF flush THEN FALSE ELSE TRUE
  <2>2. b = [host |-> h, server |-> s, ok |-> ok]
    <3>1. CASE flush
      <4>1. IsDirty(batch)
        BY <3>1 DEF BatchDue
      <4>2. SendAll(w0, Batched(batch)) = [host |-> h, server |-> s, ok |-> FALSE]
        BY <1>3, <2>1, <4>1, Flushed
      <4> HIDE DEF flush, w0
      <4> QED BY <3>1, <4>2
    <3>2. CASE ~flush
      <4> HIDE DEF flush
      <4> QED BY <3>2
    <3> QED BY <3>1, <3>2
  <2>3. ~flush => Ping(b) = b
    <3>1. LET v == [host |-> h, server |-> s, ok |-> TRUE] IN Ping(v) = v
      BY <1>3, <1>11, Pinged
    <3> HIDE DEF flush, b
    <3> QED BY <2>2, <3>1
  <2> HIDE DEF flush
  <2>4. flush => ~ping
    <3> HIDE DEF b
    <3> QED BY <2>2
  <2>5. w = [host |-> h, server |-> s, ok |-> ok]
    <3> HIDE DEF b, ping
    <3> QED BY <2>2, <2>3, <2>4
  <2>6. ~PingSent(b)
    <3> HIDE DEF b
    <3> QED BY <2>1, <2>2 DEF PingSent
  <2> HIDE DEF b, ping, w
  <2>7. host' = h /\ stream' = [st EXCEPT !.ok = ok] /\ UNCHANGED <<keys, gamepads, app>>
        /\ server' = Caught(s, s.behind, s.sinceping)
    BY <1>2, <1>5, <2>5 DEF Caught
  <2>8. age'.ping = Aged.ping
    BY <1>6, <2>6
  <2>9. ~flush => s.behind = s.behind - batch.motion + batch'.motion
    BY <1>2, <1>3
  <2>10. ok \in BOOLEAN
    OBVIOUS
  <2>11. ok => ~flush
    OBVIOUS
  <2> HIDE DEF ok
  <2> QED BY <1>1, <1>3, <1>7, <1>8, <1>11, <2>7, <2>8, <2>9, <2>10, <2>11 DEF ok
<1> QED BY <1>3, <1>9, <1>10, <1>11 DEF Peer

-----------------------------------------------------------------------------
(* The invariant is kept                                                   *)

LEMMA UpdateStep ==
  ASSUME Inv, stream.ok, NEW evs \in EnetEvents(host.peer), Update(evs)
  PROVE  Inv'
<1>1. PICK h, s, st, ok, beh, since :
        /\ Mid(h, s, st)
        /\ host' = h
        /\ server' = Caught(s, beh, since)
        /\ stream' = [st EXCEPT !.ok = ok]
        /\ ok \in BOOLEAN /\ beh \in Int /\ since \in Nat
        /\ BatchOK(batch') /\ AgeOK(age') /\ age'.now = 0
        /\ UNCHANGED <<keys, gamepads, app>>
        /\ h.peer \in {"connecting", "connected"} /\ ok =>
             beh = s.behind - batch.motion + batch'.motion
        /\ h.peer = "connecting" => since = s.sinceping /\ age'.ping = Aged.ping
        /\ h.peer = "connected" =>
             IF Aged.ping = PingInterval THEN since = 0 /\ age'.ping = 0
             ELSE since = s.sinceping /\ age'.ping = Aged.ping
  BY UpdateAs
<1>2. /\ HostOK(h) /\ ServerOK(s) /\ StreamOK(st) /\ st.ok
      /\ Early(h, s, st, app) /\ Late(h, s, st)
      /\ Remembered(h, s, keys, gamepads) /\ Conserved(h, s, st, batch) /\ Ended(h, st, app)
      /\ h.peer \in {"connecting", "connected"} =>
           s.sinceping <= age.ping + age.now \/ age.ping + age.now >= PingInterval
  BY <1>1 DEF Mid
<1>3. stream' \in StreamType /\ stream'.ok = ok /\ stream'.events = st.events
      /\ stream'.connected = st.connected /\ stream'.buffered = st.buffered
  BY <1>1, <1>2 DEF StreamOK, StreamType
<1>4. /\ ServerOK(server') /\ server'.first = s.first
      /\ server'.keys = s.keys /\ server'.gamepads = s.gamepads /\ server'.lost = s.lost
      /\ server'.behind = beh /\ server'.sinceping = since
  BY <1>1, <1>2 DEF Caught, ServerOK
<1>5. HostOK(host)' /\ ServerOK(server)' /\ StreamOK(stream)' /\ BatchOK(batch)' /\ AgeOK(age)'
  BY <1>1, <1>2, <1>3, <1>4 DEF StreamOK, StreamType, HostOK, ServerOK, BatchOK, AgeOK
<1>6. Early(host, server, stream, app)'
  BY <1>1, <1>2, <1>3, <1>4 DEF Early
<1>7. Late(host, server, stream)' /\ Remembered(host, server, keys, gamepads)'
  BY <1>1, <1>2, <1>3, <1>4 DEF Late, Remembered
<1>8. Conserved(host, server, stream, batch)'
  <2>1. batch.motion \in Int /\ batch'.motion \in Int /\ s.behind \in Int
    BY <1>1, <1>2 DEF Inv, BatchOK, ServerOK
  <2> QED BY <2>1, <1>1, <1>2, <1>3, <1>4 DEF Conserved
<1>9. Ended(host, stream, app)'
  BY <1>1, <1>2, <1>3 DEF Ended
<1>10. Fresh(host, server, stream, age)'
  <2>1. /\ age.ping \in Nat /\ age.now \in Nat /\ PingInterval \in Nat \ {0} /\ s.sinceping \in Nat
        /\ age'.ping \in Nat /\ age'.now = 0
    BY <1>1, <1>2, ControlAssumption DEF Inv, AgeOK, ServerOK
  <2>2. Aged.ping = IF age.ping + age.now < PingInterval THEN age.ping + age.now
                    ELSE PingInterval
    BY AgedType DEF Inv
  <2>3. host'.peer = "connected" =>
          server'.sinceping <= age'.ping + age'.now /\ age'.ping + age'.now <= PingInterval
    <3>1. CASE Aged.ping = PingInterval
      BY <3>1, <2>1, <1>1, <1>4
    <3>2. CASE Aged.ping # PingInterval
      BY <3>2, <2>1, <2>2, <1>1, <1>2, <1>4
    <3> QED BY <3>1, <3>2
  <2>4. host'.peer = "connecting" =>
          server'.sinceping <= age'.ping + age'.now \/ age'.ping + age'.now >= PingInterval
    BY <2>1, <2>2, <1>1, <1>2, <1>4
  <2> QED BY <2>3, <2>4 DEF Fresh
<1>11. keys' \in SUBSET Key /\ gamepads' \in SUBSET Pad /\ app' \in SUBSET Event
  BY <1>1 DEF Inv
<1> QED BY <1>5, <1>6, <1>7, <1>8, <1>9, <1>10, <1>11 DEF Inv

\* Sending to the server of a peer: a packet that cannot be sent changes nothing.
LEMMA SentNow ==
  ASSUME Inv, NEW p, SendNow(p)
  PROVE  /\ UNCHANGED <<host, stream, batch, age, app>>
         /\ host.peer = "connected" => server' = Served(server, p)
         /\ host.peer # "connected" => server' = server
<1>1. server' = Send(World(host), p).server /\ UNCHANGED <<host, stream, batch, age, app>>
  BY DEF SendNow
<1>2. Sendable(host) <=> host.peer = "connected"
  BY DEF Inv, HostOK, Sendable
<1>3. Sendable(host) => Send(World(host), p) = [host |-> host, server |-> Served(server, p), ok |-> TRUE]
  BY DEF Send, World
<1>4. ~Sendable(host) => Send(World(host), p).server = server
  BY DEF Send, World
<1> QED BY <1>1, <1>2, <1>3, <1>4

\* What input and packets do: the server's keys and gamepads follow the
\* batcher's, and nothing else of the server's changes.
LEMMA InputStep ==
  ASSUME Inv, UNCHANGED <<host, stream, batch, age, app>>,
         keys' \in SUBSET Key, gamepads' \in SUBSET Pad,
         host.peer = "connecting" => server'.first = <<>>,
         host.peer = "connected" => server'.first = FirstTwo,
         ServerOK(server'), server'.behind = server.behind, server'.sinceping = server.sinceping,
         Remembered(host, server', keys', gamepads')
  PROVE  Inv'
<1>1. HostOK(host)' /\ StreamOK(stream)' /\ BatchOK(batch)' /\ AgeOK(age)' /\ app' \in SUBSET Event
      /\ Ended(host, stream, app)'
  BY DEF Inv, HostOK, StreamOK, BatchOK, AgeOK, Ended, EndInOrder, Told
<1>2. Early(host, server, stream, app)' /\ Late(host, server, stream)'
  BY DEF Inv, Early, Late
<1>3. Conserved(host, server, stream, batch)' /\ Fresh(host, server, stream, age)'
  BY DEF Inv, Conserved, Fresh
<1>4. ServerOK(server)' /\ Remembered(host, server, keys, gamepads)'
  BY DEF ServerOK, Remembered
<1> QED BY <1>1, <1>2, <1>3, <1>4 DEF Inv

LEMMA MayInputSoon ==
  ASSUME Inv, MayInput, ~EarlyInput
  PROVE  host.peer # "connecting"
BY DEF Inv, MayInput, Early

LEMMA KeyboardStep ==
  ASSUME Inv, NEW k \in Key, NEW down \in BOOLEAN, Keyboard(k, down)
  PROVE  Inv'
<1> DEFINE p == [type |-> "Keyboard", key |-> k, down |-> down]
<1>1. /\ MayInput /\ UNCHANGED gamepads
      /\ keys' = IF down THEN keys \cup {k} ELSE keys \ {k}
      /\ UNCHANGED <<host, stream, batch, age, app>>
      /\ ServerOK(server) /\ keys' \in SUBSET Key
  BY DEF Keyboard, SendNow, Inv
<1>2. CASE keys' = keys
  <2>1. server' = server
    BY <1>2 DEF Keyboard
  <2> QED BY <2>1, <1>1, <1>2, InputStep DEF Inv, Early, Late
<1>3. CASE keys' # keys /\ host.peer # "connected"
  <2>1. SendNow(p)
    BY <1>3 DEF Keyboard
  <2>2. server' = server
    BY <2>1, <1>3, SentNow
  <2>3. Remembered(host, server', keys', gamepads')
    BY <1>1, <1>3, <2>2, MayInputSoon DEF Inv, Remembered
  <2> QED BY <2>2, <2>3, <1>1, InputStep DEF Inv, Early, Late
<1>4. CASE keys' # keys /\ host.peer = "connected"
  <2>1. SendNow(p)
    BY <1>4 DEF Keyboard
  <2>2. server' = Served(server, p) /\ server.first = FirstTwo
    BY <2>1, <1>4, SentNow DEF Inv, Late
  <2>3. server' = [first |-> FirstTwo,
                   keys |-> IF down THEN server.keys \cup {k} ELSE server.keys \ {k},
                   gamepads |-> server.gamepads, lost |-> server.lost,
                   behind |-> server.behind, sinceping |-> server.sinceping]
    <3>1. Len(server.first) = 2
      BY <2>2 DEF FirstTwo
    <3> QED BY <2>2, <3>1 DEF Served, ControllerTypes
  <2>4. ServerOK(server')
    BY <1>1, <2>3 DEF ServerOK
  <2>5. Remembered(host, server', keys', gamepads')
    BY <1>1, <1>4, <2>3 DEF Inv, Remembered
  <2> QED BY <2>3, <2>4, <2>5, <1>1, <1>4, InputStep DEF Inv
<1> QED BY <1>2, <1>3, <1>4

\* A packet of a gamepad leaves the server with what it says of that gamepad.
LEMMA PadStep ==
  ASSUME Inv, MayInput, NEW p, SendNow(p), UNCHANGED keys,
         p.type \in ControllerTypes, p.pad \in Pad,
         gamepads' = IF p.pad \in p.mask THEN gamepads \cup {p.pad} ELSE gamepads \ {p.pad}
  PROVE  Inv'
<1>1. /\ UNCHANGED <<host, stream, batch, age, app>> /\ ServerOK(server) /\ keys' \in SUBSET Key
      /\ gamepads' \in SUBSET Pad
  BY SentNow DEF Inv
<1>2. CASE host.peer # "connected"
  <2>1. server' = server
    BY <1>2, SentNow
  <2>2. Remembered(host, server', keys', gamepads')
    BY <1>2, MayInputSoon DEF Remembered
  <2> QED BY <1>1, <1>2, <2>1, <2>2, InputStep DEF Inv, Early
<1>3. CASE host.peer = "connected"
  <2>1. server' = Served(server, p) /\ server.first = FirstTwo
    BY <1>3, SentNow DEF Inv, Late
  <2> DEFINE g == IF p.pad \in p.mask THEN server.gamepads \cup {p.pad}
                  ELSE server.gamepads \ {p.pad}
  <2>2. server' = [first |-> FirstTwo, keys |-> server.keys, gamepads |-> g,
                   lost |-> server.lost \ {p.pad},
                   behind |-> server.behind, sinceping |-> server.sinceping]
    <3>1. Len(server.first) = 2
      BY <2>1 DEF FirstTwo
    <3>2. p.type \notin {"Keyboard", "MouseMoveRelative", "PeriodicPing"}
      BY DEF ControllerTypes
    <3> HIDE DEF g
    <3>3. Served(server, p).gamepads = g /\ Served(server, p).lost = server.lost \ {p.pad}
      BY DEF Served, g
    <3> QED BY <2>1, <3>1, <3>2, <3>3 DEF Served
  <2>3. g \in SUBSET Pad /\ server.lost \ {p.pad} \in SUBSET Pad
    BY <1>1 DEF ServerOK
  <2>4. ServerOK(server')
    <3> HIDE DEF g
    <3> QED BY <1>1, <2>2, <2>3 DEF ServerOK
  <2>5. Remembered(host, server', keys', gamepads')
    <3>1. server'.keys = server.keys /\ server'.gamepads = g /\ server'.lost = server.lost \ {p.pad}
      BY <2>2
    <3>2. ~EarlyInput => /\ server.keys = keys /\ gamepads \subseteq server.gamepads
                         /\ server.gamepads \ gamepads \subseteq (IF Sunshine THEN server.lost ELSE {})
      BY <1>3 DEF Inv, Remembered
    <3>3. ~EarlyInput => gamepads' \subseteq g
      BY <3>2
    <3>4. ~EarlyInput => g \ gamepads' \subseteq (IF Sunshine THEN server.lost \ {p.pad} ELSE {})
      <4>1. g \ gamepads' \subseteq (server.gamepads \ gamepads) \ {p.pad}
        OBVIOUS
      <4> HIDE DEF g
      <4> QED BY <3>2, <4>1
    <3> HIDE DEF g
    <3> QED BY <3>1, <3>2, <3>3, <3>4 DEF Remembered
  <2> QED BY <1>1, <1>3, <2>2, <2>4, <2>5, InputStep
<1> QED BY <1>2, <1>3

\* The state of a gamepad that is lost leaves the server where it was.
LEMMA LostStep ==
  ASSUME Inv, NEW q \in Pad, Sunshine, Sendable(host), UNCHANGED keys,
         server' = [server EXCEPT !.lost = @ \cup {q}],
         UNCHANGED <<host, stream, batch, age, app>>,
         gamepads' = gamepads \/ gamepads' = gamepads \ {q}
  PROVE  Inv'
<1>1. host.peer = "connected" /\ server.first = FirstTwo /\ ServerOK(server)
      /\ keys' \in SUBSET Key /\ gamepads' \in SUBSET Pad
  BY DEF Inv, Sendable, Late
<1>2. server' = [first |-> FirstTwo, keys |-> server.keys, gamepads |-> server.gamepads,
                 lost |-> server.lost \cup {q},
                 behind |-> server.behind, sinceping |-> server.sinceping]
  BY <1>1 DEF ServerOK
<1>3. ServerOK(server')
  BY <1>1, <1>2 DEF ServerOK
<1>4. Remembered(host, server', keys', gamepads')
  <2>1. ~EarlyInput => /\ server.keys = keys /\ gamepads \subseteq server.gamepads
                       /\ server.gamepads \ gamepads \subseteq server.lost
    BY <1>1 DEF Inv, Remembered
  <2>2. ~EarlyInput => server.gamepads \ gamepads' \subseteq server.lost \cup {q}
    BY <2>1
  <2> QED BY <1>2, <2>1, <2>2 DEF Remembered
<1> QED BY <1>1, <1>2, <1>3, <1>4, InputStep

LEMMA ControllerStep ==
  ASSUME Inv, NEW q \in Pad, ControllerConnect(q) \/ ControllerState(q) \/ ControllerDisconnect(q)
  PROVE  Inv'
<1>1. gamepads \in SUBSET Pad
  BY DEF Inv
<1>2. CASE ControllerConnect(q)
  <2> DEFINE p == [type |-> "ControllerArrival", pad |-> q, mask |-> {q}]
  <2>1. /\ MayInput /\ SendNow(p) /\ UNCHANGED keys /\ gamepads' = gamepads \cup {q}
        /\ p.type \in ControllerTypes /\ p.pad = q /\ p.pad \in p.mask
    BY <1>2 DEF ControllerConnect, ControllerTypes
  <2> HIDE DEF p
  <2> QED BY <1>1, <2>1, PadStep
<1> DEFINE lost == /\ Sunshine /\ Sendable(host)
                   /\ server' = [server EXCEPT !.lost = @ \cup {q}]
                   /\ UNCHANGED <<host, stream, batch, age, app>>
<1>3. CASE ControllerState(q)
  <2> DEFINE p == [type |-> "ControllerState", pad |-> q, mask |-> gamepads]
  <2>1. /\ MayInput /\ UNCHANGED <<keys, gamepads>> /\ q \in gamepads
        /\ p.type \in ControllerTypes /\ p.pad = q /\ p.pad \in p.mask
        /\ SendNow(p) \/ lost
    BY <1>3 DEF ControllerState, ControllerTypes, SendState
  <2> HIDE DEF p
  <2>2. CASE SendNow(p)
    <3>1. gamepads' = IF p.pad \in p.mask THEN gamepads \cup {p.pad} ELSE gamepads \ {p.pad}
      BY <2>1
    <3> QED BY <2>1, <2>2, <3>1, PadStep
  <2>3. CASE lost
    BY <2>1, <2>3, LostStep
  <2> QED BY <2>1, <2>2, <2>3
<1>4. CASE ControllerDisconnect(q)
  <2> DEFINE p == [type |-> "ControllerState", pad |-> q, mask |-> gamepads']
  <2>1. /\ MayInput /\ UNCHANGED keys /\ gamepads' = gamepads \ {q}
        /\ p.type \in ControllerTypes /\ p.pad = q /\ p.pad \notin p.mask
        /\ SendNow(p) \/ lost
    BY <1>4 DEF ControllerDisconnect, ControllerTypes, SendState
  <2> HIDE DEF p
  <2>2. CASE SendNow(p)
    BY <2>1, <2>2, PadStep
  <2>3. CASE lost
    BY <2>1, <2>3, LostStep
  <2> QED BY <2>1, <2>2, <2>3
<1> QED BY <1>2, <1>3, <1>4

LEMMA SendRawStep ==
  ASSUME Inv, SendRaw
  PROVE  Inv'
<1> DEFINE p == [type |-> "RequestIdr"]
<1>1. SendNow(p) /\ UNCHANGED <<keys, gamepads>> /\ p.type = "RequestIdr"
  BY DEF SendRaw
<1> HIDE DEF p
<1>2. /\ UNCHANGED <<host, stream, batch, age, app>> /\ ServerOK(server)
      /\ keys' \in SUBSET Key /\ gamepads' \in SUBSET Pad
  BY <1>1, SentNow DEF Inv
<1>3. CASE host.peer # "connected"
  <2>1. server' = server
    BY <1>1, <1>3, SentNow
  <2> QED BY <1>1, <1>2, <1>3, <2>1, InputStep DEF Inv, Early
<1>4. CASE host.peer = "connected"
  <2>1. server' = Served(server, p) /\ server.first = FirstTwo
    BY <1>1, <1>4, SentNow DEF Inv, Late
  <2>2. server' = server
    <3>1. Served(server, p) = [first |-> FirstTwo, keys |-> server.keys, gamepads |-> server.gamepads, lost |-> server.lost,
                               behind |-> server.behind, sinceping |-> server.sinceping]
      BY <1>1, <1>2, <2>1, ServedQuietly
    <3> QED BY <1>2, <2>1, <3>1 DEF ServerOK
  <2> QED BY <1>1, <1>2, <1>4, <2>1, <2>2, InputStep DEF Inv
<1> QED BY <1>3, <1>4

LEMMA MouseStep ==
  ASSUME Inv, (\E d \in {-1, 1} : MouseMoveRelative(d)) \/ (\E p \in Position : MouseMoveAbsolute(p))
  PROVE  Inv'
<1>1. /\ UNCHANGED <<host, stream, keys, gamepads, age, app>>
      /\ BatchOK(batch') /\ ServerOK(server')
      /\ server'.first = server.first /\ server'.keys = server.keys
      /\ server'.gamepads = server.gamepads /\ server'.lost = server.lost /\ server'.sinceping = server.sinceping
      /\ server.behind = batch.motion => server'.behind = batch'.motion
  <2>1. ASSUME NEW d \in {-1, 1}, MouseMoveRelative(d)
        PROVE  <1>1
    <3>1. /\ batch \in [motion : Int, at : Position \cup {Nowhere}] /\ ServerOK(server)
          /\ MaxMotion \in Nat
      BY ControlAssumption DEF Inv, BatchOK
    <3>2. \A n \in Int : Clamp(n + d) \in Int
      BY <3>1 DEF Clamp
    <3>3. /\ batch' = [batch EXCEPT !.motion = Clamp(@ + d)]
          /\ server' = [server EXCEPT !.behind = Clamp(@ + d)]
          /\ UNCHANGED <<host, stream, keys, gamepads, age, app>>
      BY <2>1 DEF MouseMoveRelative
    <3> QED BY <3>1, <3>2, <3>3 DEF BatchOK, ServerOK
  <2>2. ASSUME NEW p \in Position, MouseMoveAbsolute(p)
        PROVE  <1>1
    <3>1. batch \in [motion : Int, at : Position \cup {Nowhere}] /\ ServerOK(server)
      BY DEF Inv, BatchOK
    <3>2. /\ batch' = [batch EXCEPT !.at = p]
          /\ UNCHANGED <<host, server, stream, keys, gamepads, age, app>>
      BY <2>2 DEF MouseMoveAbsolute
    <3> QED BY <3>1, <3>2 DEF BatchOK
  <2> QED BY <2>1, <2>2
<1>2. HostOK(host)' /\ StreamOK(stream)' /\ AgeOK(age)' /\ Ended(host, stream, app)'
      /\ keys' \in SUBSET Key /\ gamepads' \in SUBSET Pad /\ app' \in SUBSET Event
  BY <1>1 DEF Inv, HostOK, StreamOK, AgeOK, Ended, EndInOrder, Told
<1>3. Early(host, server, stream, app)' /\ Late(host, server, stream)'
      /\ Remembered(host, server, keys, gamepads)'
  BY <1>1 DEF Inv, Early, Late, Remembered
<1>4. Conserved(host, server, stream, batch)' /\ Fresh(host, server, stream, age)'
  BY <1>1 DEF Inv, Conserved, Fresh
<1> QED BY <1>1, <1>2, <1>3, <1>4 DEF Inv, BatchOK, ServerOK

\* Giving up a connection that has not come about tells of nothing.
LEMMA DisconnectStep ==
  ASSUME Inv, Disconnect
  PROVE  Inv'
<1>1. /\ host' = [host EXCEPT !.peer = IF @ = "connected" THEN "disconnecting" ELSE "disconnected"]
      /\ UNCHANGED <<server, stream, batch, keys, gamepads, age, app>>
      /\ host.peer \in {"connecting", "connected"}
      /\ host \in [peer : Peer, configured : BOOLEAN] /\ host.configured
  BY DEF Disconnect, Inv, HostOK
<1>2. /\ host' \in [peer : Peer, configured : BOOLEAN] /\ host'.configured
      /\ host'.peer \in {"disconnecting", "disconnected"}
      /\ host'.peer = "disconnected" => host.peer = "connecting"
  BY <1>1 DEF Peer
<1>3. HostOK(host)' /\ ServerOK(server)' /\ StreamOK(stream)' /\ BatchOK(batch)' /\ AgeOK(age)'
      /\ keys' \in SUBSET Key /\ gamepads' \in SUBSET Pad /\ app' \in SUBSET Event
  BY <1>1, <1>2 DEF Inv, HostOK, ServerOK, StreamOK, BatchOK, AgeOK
<1>4. Early(host, server, stream, app)' /\ Late(host, server, stream)'
      /\ Remembered(host, server, keys, gamepads)' /\ Conserved(host, server, stream, batch)'
      /\ Fresh(host, server, stream, age)'
  BY <1>2 DEF Early, Late, Remembered, Conserved, Fresh
<1>5. Ended(host, stream, app)'
  <2>1. EndInOrder(app, stream.events)'
    BY <1>1 DEF Inv, Ended, EndInOrder
  <2>2. ASSUME host.peer = "connecting"
        PROVE  ~stream.connected /\ "Connect" \notin Told(app, stream.events)
    <3>1. stream.events = <<>> /\ app = {} /\ ~stream.connected
      BY <2>2 DEF Inv, Early
    <3> QED BY <3>1, Nothing DEF Told
  <2> QED BY <1>1, <1>2, <2>1, <2>2 DEF Ended, Told
<1> QED BY <1>3, <1>4, <1>5 DEF Inv

\* Polling moves the first event from the queue to what has been polled.
LEMMA PollOne ==
  ASSUME NEW a \in SUBSET Event, NEW es \in Seq(Event), es # <<>>, EndInOrder(a, es)
  PROVE  LET n == a \cup {Head(es)}
         IN /\ n \in SUBSET Event /\ Tail(es) \in Seq(Event)
            /\ Told(n, Tail(es)) = Told(a, es)
            /\ EndInOrder(n, Tail(es))
<1> DEFINE n == a \cup {Head(es)}
           ts == Tail(es)
<1>1. /\ Len(es) \in Nat \ {0} /\ ts \in Seq(Event) /\ Len(ts) = Len(es) - 1
      /\ Head(es) = es[1] /\ \A i \in 1..Len(ts) : ts[i] = es[i + 1]
      /\ DOMAIN es = 1..Len(es) /\ DOMAIN ts = 1..(Len(es) - 1)
      /\ es[1] \in Event
  BY HeadTailProperties, EmptySeq, LenProperties, ElementOfSeq
<1> HIDE DEF ts
<1>2. n = a \cup {es[1]} /\ n \in SUBSET Event
  BY <1>1
<1> HIDE DEF n
<1>3. Told(n, ts) = Told(a, es)
  <2>1. ASSUME NEW e \in Told(n, ts) PROVE e \in Told(a, es)
    <3>1. CASE e \in n
      BY <3>1, <1>1, <1>2 DEF Told
    <3>2. CASE e \notin n
      <4>1. PICK i \in 1..(Len(es) - 1) : e = ts[i]
        BY <3>2, <2>1, <1>1 DEF Told
      <4>2. e = es[i + 1] /\ i + 1 \in 1..Len(es)
        BY <4>1, <1>1
      <4> QED BY <4>2, <1>1 DEF Told
    <3> QED BY <3>1, <3>2
  <2>2. ASSUME NEW e \in Told(a, es) PROVE e \in Told(n, ts)
    <3>1. CASE e \in a
      BY <3>1, <1>2 DEF Told
    <3>2. CASE e \notin a
      <4>1. PICK i \in 1..Len(es) : e = es[i]
        BY <3>2, <2>2, <1>1 DEF Told
      <4>2. CASE i = 1
        BY <4>1, <4>2, <1>2 DEF Told
      <4>3. CASE i # 1
        <5>1. i - 1 \in 1..(Len(es) - 1) /\ (i - 1) + 1 = i
          BY <4>3, <1>1
        <5>2. ts[i - 1] = e
          BY <4>1, <5>1, <1>1
        <5> QED BY <5>1, <5>2, <1>1 DEF Told
      <4> QED BY <4>2, <4>3
    <3> QED BY <3>1, <3>2
  <2> QED BY <2>1, <2>2
<1>4. EndInOrder(n, ts)
  <2>1. "Termination" \in n => "Disconnect" \in n
    <3>1. es[1] = "Termination" => "Disconnect" \in a
      <4>1. 1 \in DOMAIN es /\ 1..(1 - 1) = {}
        BY <1>1
      <4> QED BY <4>1 DEF EndInOrder
    <3> QED BY <3>1, <1>2 DEF EndInOrder
  <2>2. ASSUME NEW i \in 1..(Len(es) - 1), ts[i] = "Termination", "Disconnect" \notin n
        PROVE  \E j \in 1..(i - 1) : ts[j] = "Disconnect"
    <3>1. i + 1 \in DOMAIN es /\ es[i + 1] = "Termination"
      BY <2>2, <1>1
    <3>2. PICK j \in 1..((i + 1) - 1) : es[j] = "Disconnect"
      BY <3>1, <2>2, <1>2 DEF EndInOrder
    <3>3. j # 1
      BY <3>2, <2>2, <1>2
    <3>4. j - 1 \in 1..(i - 1) /\ j - 1 \in 1..(Len(es) - 1) /\ (j - 1) + 1 = j
      BY <3>3, <1>1
    <3>5. ts[j - 1] = "Disconnect"
      BY <3>2, <3>4, <1>1
    <3> QED BY <3>4, <3>5
  <2> QED BY <2>1, <2>2, <1>1 DEF EndInOrder
<1> QED BY <1>1, <1>2, <1>3, <1>4 DEF n, ts

LEMMA PollEventStep ==
  ASSUME Inv, PollEvent
  PROVE  Inv'
<1> DEFINE n == app \cup {Head(stream.events)}
           ts == Tail(stream.events)
<1>1. /\ app' = n /\ stream' = [stream EXCEPT !.events = ts]
      /\ UNCHANGED <<host, server, batch, keys, gamepads, age>>
      /\ stream \in StreamType /\ stream.events # <<>> /\ app \in SUBSET Event
      /\ stream.events \in Seq(Event) /\ EndInOrder(app, stream.events)
  BY DEF PollEvent, Inv, StreamOK, StreamType, Ended
<1>2. /\ n \in SUBSET Event /\ ts \in Seq(Event)
      /\ Told(n, ts) = Told(app, stream.events)
      /\ EndInOrder(n, ts)
  BY <1>1, PollOne
<1> HIDE DEF n, ts
<1>3. /\ stream' \in StreamType /\ stream'.events = ts /\ stream'.ok = stream.ok
      /\ stream'.connected = stream.connected
  BY <1>1, <1>2 DEF StreamType
<1>4. HostOK(host)' /\ ServerOK(server)' /\ StreamOK(stream)' /\ BatchOK(batch)' /\ AgeOK(age)'
      /\ keys' \in SUBSET Key /\ gamepads' \in SUBSET Pad /\ app' \in SUBSET Event
  BY <1>1, <1>2, <1>3 DEF Inv, HostOK, ServerOK, StreamOK, StreamType, BatchOK, AgeOK
<1>5. Early(host, server, stream, app)' /\ Late(host, server, stream)'
      /\ Remembered(host, server, keys, gamepads)'
  BY <1>1, <1>3 DEF Inv, Early, Late, Remembered
<1>6. Conserved(host, server, stream, batch)' /\ Fresh(host, server, stream, age)'
  BY <1>1, <1>3 DEF Inv, Conserved, Fresh
<1>7. Ended(host, stream, app)'
  <2>1. Told(app', stream'.events) = Told(app, stream.events) /\ EndInOrder(app', stream'.events)
    BY <1>1, <1>2, <1>3
  <2> QED BY <1>1, <1>3, <2>1 DEF Inv, Ended
<1> QED BY <1>4, <1>5, <1>6, <1>7 DEF Inv

\* Time passes only before the ping of a connected peer is due.
LEMMA TickStep ==
  ASSUME Inv, Tick
  PROVE  Inv'
<1>1. /\ UNCHANGED <<host, stream, batch, keys, gamepads, app>>
      /\ age' = [age EXCEPT !.now = @ + 1]
      /\ server' = [server EXCEPT !.sinceping = Least(@ + 1, PingInterval + 1)]
      /\ Due > 0 \/ host.peer # "connected"
      /\ age \in [ping : 0..PingInterval, batch : Nat, now : Nat] /\ ServerOK(server)
      /\ PingInterval \in Nat \ {0} /\ HostInterval \in Nat \ {0}
  BY ControlAssumption DEF Tick, Inv, AgeOK
<1>2. /\ AgeOK(age') /\ age'.ping = age.ping /\ age'.now = age.now + 1
      /\ age.ping \in Nat /\ age.batch \in Nat /\ age.now \in Nat
  BY <1>1 DEF AgeOK
<1>3. /\ ServerOK(server') /\ server'.first = server.first /\ server'.keys = server.keys
      /\ server'.gamepads = server.gamepads /\ server'.lost = server.lost /\ server'.behind = server.behind
      /\ server'.sinceping <= server.sinceping + 1
      /\ server.sinceping \in Nat /\ server'.sinceping \in Nat
  <2>1. server.sinceping \in Nat
    BY <1>1 DEF ServerOK
  <2>2. Least(server.sinceping + 1, PingInterval + 1) \in Nat
        /\ Least(server.sinceping + 1, PingInterval + 1) <= server.sinceping + 1
    BY <1>1, <2>1 DEF Least
  <2> QED BY <1>1, <2>1, <2>2 DEF ServerOK
<1>4. Due > 0 => age.ping + age.now < PingInterval
  <2>1. ASSUME NEW x \in Int, NEW y \in Int, NEW z \in Int
        PROVE  Least(x, Least(y, z)) <= y
    BY DEF Least
  <2>2. PingInterval - age.ping - age.now \in Int /\ HostInterval - age.now \in Int
        /\ 1 - age.batch - age.now \in Int
    BY <1>1, <1>2
  <2>3. Due <= PingInterval - age.ping - age.now /\ Due \in Int
    BY <2>1, <2>2 DEF Due, Least
  <2> QED BY <2>2, <2>3, <1>1, <1>2
<1>5. HostOK(host)' /\ ServerOK(server)' /\ StreamOK(stream)' /\ BatchOK(batch)' /\ AgeOK(age)'
      /\ keys' \in SUBSET Key /\ gamepads' \in SUBSET Pad /\ app' \in SUBSET Event
  BY <1>1, <1>2, <1>3 DEF Inv, HostOK, ServerOK, StreamOK, BatchOK, AgeOK
<1>6. Early(host, server, stream, app)' /\ Late(host, server, stream)'
      /\ Remembered(host, server, keys, gamepads)' /\ Conserved(host, server, stream, batch)'
  BY <1>1, <1>3 DEF Inv, Early, Late, Remembered, Conserved
<1>7. Ended(host, stream, app)'
  BY <1>1 DEF Inv, Ended, EndInOrder, Told
<1>8. Fresh(host, server, stream, age)'
  BY <1>1, <1>2, <1>3, <1>4 DEF Inv, Fresh
<1> QED BY <1>5, <1>6, <1>7, <1>8 DEF Inv

LEMMA Initial == Init => Inv
<1> SUFFICES ASSUME Init PROVE Inv
  OBVIOUS
<1>1. HostOK(host) /\ BatchOK(batch) /\ AgeOK(age)
      /\ keys \in SUBSET Key /\ gamepads \in SUBSET Pad /\ app \in SUBSET Event
  BY ControlAssumption DEF Init, HostOK, Peer, BatchOK, AgeOK
<1>2. ServerOK(server) /\ StreamOK(stream)
  BY EmptySeq DEF Init, ServerOK, StreamOK, Waiting
<1>3. Early(host, server, stream, app) /\ Late(host, server, stream)
      /\ Remembered(host, server, keys, gamepads) /\ Conserved(host, server, stream, batch)
      /\ Fresh(host, server, stream, age)
  BY DEF Init, Early, Waiting, Late, Remembered, Conserved, Fresh
<1>4. Ended(host, stream, app)
  BY Nothing DEF Init, Ended, EndInOrder, Told
<1> QED BY <1>1, <1>2, <1>3, <1>4 DEF Inv

LEMMA Step == Inv /\ [Next]_vars => Inv'
<1> SUFFICES ASSUME Inv, [Next]_vars PROVE Inv'
  OBVIOUS
<1>1. CASE \/ \E d \in {-1, 1} : MouseMoveRelative(d)
           \/ \E p \in Position : MouseMoveAbsolute(p)
  BY <1>1, MouseStep
<1>2. CASE \E k \in Key, down \in BOOLEAN : Keyboard(k, down)
  BY <1>2, KeyboardStep
<1>3. CASE \E p \in Pad : ControllerConnect(p) \/ ControllerState(p) \/ ControllerDisconnect(p)
  BY <1>3, ControllerStep
<1>4. CASE SendRaw
  BY <1>4, SendRawStep
<1>5. CASE Disconnect
  BY <1>5, DisconnectStep
<1>6. CASE PollEvent
  BY <1>6, PollEventStep
<1>7. CASE HandleReceive
  BY <1>7, UpdateStep DEF HandleReceive
<1>8. CASE HandleTimeout
  BY <1>8, UpdateStep DEF HandleTimeout
<1>9. CASE Tick
  BY <1>9, TickStep
<1>10. CASE UNCHANGED vars
  BY <1>10 DEF vars, Inv, HostOK, ServerOK, StreamOK, BatchOK, AgeOK, Early, Late, Remembered,
    Conserved, Ended, EndInOrder, Told, Fresh
<1> QED BY <1>1, <1>2, <1>3, <1>4, <1>5, <1>6, <1>7, <1>8, <1>9, <1>10 DEF Next

-----------------------------------------------------------------------------

\* The invariant above holds in every reachable state.
THEOREM Invariant == Spec => []Inv
<1> QED BY Initial, Step, PTL DEF Spec

\* RequestIdr and StartB are the first packets a server gets, whatever the
\* application sends and whenever: do_update sends what was buffered with the
\* Connect, before any other packet can be sent.
THEOREM FirstPacketsFirst == Spec => []FirstPackets
<1>1. Inv => FirstPackets
  <2>1. IsPrefix(<<>>, FirstTwo) /\ IsPrefix(FirstTwo, FirstTwo)
    BY Nothing DEF IsPrefix, FirstTwo
  <2> QED BY <2>1 DEF Inv, ServerOK, FirstPackets, FirstTwo
<1> QED BY <1>1, Invariant, PTL

\* The keys the batcher remembers are the connected server's, and so are the gamepads
\* but for those whose disconnecting state was lost, for an application that gives
\* input only after the Connect event: what is sent to a connected peer never fails,
\* so a change is never only remembered.
THEOREM ServerStaysInStep ==
  ASSUME ~EarlyInput
  PROVE  Spec => []ServerInStep
<1>1. Inv => ServerInStep
  BY DEF Inv, Remembered, ServerInStep
<1> QED BY <1>1, Invariant, PTL

\* No motion is lost or sent twice: what the server has not heard of is in
\* the batch, through every flush, loss and failure.
THEOREM MotionIsConserved == Spec => []MotionConserved
<1>1. Inv => MotionConserved
  BY DEF Inv, Conserved, MotionConserved
<1> QED BY <1>1, Invariant, PTL

\* A connected server hears from the client once in a ping interval, if the
\* driver calls when poll_timeout says, however the intervals compare.
THEOREM PingsInTime == Spec => []PingInTime
<1>1. Inv => PingInTime
  <2> SUFFICES ASSUME Inv, host.peer = "connected", stream.ok
               PROVE  server.sinceping <= PingInterval
    BY DEF PingInTime
  <2>1. server.sinceping \in Nat /\ age.ping \in Nat /\ age.now \in Nat /\ PingInterval \in Nat
    BY ControlAssumption DEF Inv, ServerOK, AgeOK
  <2> QED BY <2>1 DEF Inv, Fresh
<1> QED BY <1>1, Invariant, PTL

\* A stream that can be discarded has told the application of its end, and of
\* a termination only after the disconnect.
THEOREM EndIsReported == Spec => []EndReported
<1>1. Inv => EndReported
  <2> SUFFICES ASSUME Inv PROVE EndReported
    OBVIOUS
  <2>1. stream.events = <<>> => Told(app, stream.events) = app
    BY Nothing DEF Told
  <2> QED BY <2>1 DEF Inv, Ended, EndInOrder, EndReported, CanDiscard
<1> QED BY <1>1, Invariant, PTL

=============================================================================
