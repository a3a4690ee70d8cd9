------------------------------ MODULE PinPairing ------------------------------
(***************************************************************************)
(* What pairing promises: a call of pair() ends once, and it ends well only *)
(* after the host has accepted its certificate, for which the user has to   *)
(* enter the PIN the call shows.                                            *)
(***************************************************************************)
CONSTANTS Attempt, Pin, None

VARIABLES
  pin,        \* the PIN each call shows
  entered,    \* the PIN entered at the host for it (None: not yet)
  accepted,   \* the calls whose certificate the host has accepted
  outcome     \* "open", "paired" or "failed"

vars == <<pin, entered, accepted, outcome>>

Init ==
  /\ pin \in [Attempt -> Pin]
  /\ entered = [a \in Attempt |-> None]
  /\ accepted = {}
  /\ outcome = [a \in Attempt |-> "open"]

Enter(a) ==
  /\ entered[a] = None
  /\ \E p \in Pin : entered' = [entered EXCEPT ![a] = p]
  /\ UNCHANGED <<pin, accepted, outcome>>

Accept(a) ==
  /\ entered[a] = pin[a]
  /\ accepted' = accepted \cup {a}
  /\ UNCHANGED <<pin, entered, outcome>>

Conclude(a) ==
  /\ outcome[a] = "open" /\ a \in accepted
  /\ outcome' = [outcome EXCEPT ![a] = "paired"]
  /\ UNCHANGED <<pin, entered, accepted>>

Fail(a) ==
  /\ outcome[a] = "open"
  /\ outcome' = [outcome EXCEPT ![a] = "failed"]
  /\ UNCHANGED <<pin, entered, accepted>>

Next == \E a \in Attempt : Enter(a) \/ Accept(a) \/ Conclude(a) \/ Fail(a)

Spec == Init /\ [][Next]_vars
=============================================================================
