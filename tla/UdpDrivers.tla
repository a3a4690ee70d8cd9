----------------------------- MODULE UdpDrivers ------------------------------
(***************************************************************************)
(* The two drivers of a stream, side by side: a behaviour is one of the     *)
(* threads of std/driver.rs or one of the future of tokio/driver.rs.        *)
(***************************************************************************)
EXTENDS SyncUdpDriver, TokioDriver

VARIABLE subject  \* which driver it is: "threads", "future"

DriverVars == <<subject, vars, TokioVars>>

\* The driver that is not the subject does nothing.
IdleThreads ==
  /\ pc = [t \in Thread |-> "new"] /\ stopped = FALSE
  /\ transmits = 0 /\ events = 0 /\ deadline = FALSE

IdleFuture == TokioInit /\ wanted = "none"

DriversInit ==
  \/ subject = "threads" /\ Init /\ IdleFuture
  \/ subject = "future" /\ IdleThreads /\ TokioInit

DriversNext ==
  \/ subject = "threads" /\ Next /\ UNCHANGED <<subject, TokioVars>>
  \/ subject = "future" /\ TokioNext /\ UNCHANGED <<subject, vars>>

\* Only the threads have liveness properties: each of them goes on.
DriversSpec == DriversInit /\ [][DriversNext]_DriverVars /\ Fairness
=============================================================================
