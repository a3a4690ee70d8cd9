----------------------------- MODULE Handshake ------------------------------
(***************************************************************************)
(* What the setup of a stream promises host and application: the streams    *)
(* are set up one after the other, each is started as soon as the host has  *)
(* agreed to it and before it is asked for the next, and the application is *)
(* told it is connected once all are started and the host has accepted the  *)
(* client's description of the session.  The last stream is the one to       *)
(* control the host: of one that the client cannot control it is not        *)
(* started, and the setup does not survive its being granted.               *)
(***************************************************************************)
EXTENDS Naturals, Sequences

VARIABLES
  streams,    \* the streams of this session, in their order
  supported,  \* whether the client can control such a host
  offered,    \* the streams the host has agreed to
  started,    \* the streams the application has been handed
  announced,  \* whether the host has accepted the session
  outcome

vars == <<streams, supported, offered, started, announced, outcome>>

Init ==
  /\ streams \in { <<"audio", "video", "control">>, <<"audio", "video", "mic", "control">> }
  /\ supported \in BOOLEAN
  /\ offered = <<>> /\ started = <<>>
  /\ announced = FALSE
  /\ outcome = "running"

Offer ==
  /\ offered = started /\ Len(offered) < Len(streams)
  /\ offered' = Append(offered, streams[Len(offered) + 1])
  /\ UNCHANGED <<streams, supported, started, announced, outcome>>

Start ==
  /\ outcome = "running" /\ Len(offered) = Len(started) + 1
  /\ offered # streams \/ supported
  /\ started' = offered
  /\ UNCHANGED <<streams, supported, offered, announced, outcome>>

Announce ==
  /\ started = streams /\ ~announced
  /\ announced' = TRUE
  /\ UNCHANGED <<streams, supported, offered, started, outcome>>

Connect ==
  /\ outcome = "running" /\ announced
  /\ outcome' = "connected"
  /\ UNCHANGED <<streams, supported, offered, started, announced>>

Fail ==
  /\ outcome = "running"
  /\ outcome' = "failed"
  /\ UNCHANGED <<streams, supported, offered, started, announced>>

Panic ==
  /\ outcome = "running" /\ Len(offered) = Len(started) + 1
  /\ offered = streams /\ ~supported
  /\ outcome' = "panicked"
  /\ UNCHANGED <<streams, supported, offered, started, announced>>

Next == Offer \/ Start \/ Announce \/ Connect \/ Fail \/ Panic

Spec == Init /\ [][Next]_vars
=============================================================================
