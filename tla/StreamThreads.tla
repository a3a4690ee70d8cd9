--------------------------- MODULE StreamThreads ----------------------------
(***************************************************************************)
(* The threads of a running MoonlightStream (std/mod.rs): for every stream *)
(* a thread that runs its driver, for those with events one that consumes  *)
(* them, one thread that joins them all, the caller of connect() and later *)
(* of stop().  Once a driver is stopped, its run() may return and its next *)
(* event be None; but neither has to happen, as a thread that waits inside *)
(* it may miss the notification (SyncUdpDriver looks inside it).           *)
(***************************************************************************)
EXTENDS Integers, Sequences

CONSTANTS
  Decoded,  \* the streams whose events go to a decoder: audio, video
  Silent,   \* the streams without events: the microphone, if there is one
  Codes     \* the termination reasons of the host other than 0

Control == "control"
Stream == Decoded \cup Silent \cup {Control}
Eventful == Decoded \cup {Control}

ASSUME StreamAssumption ==
  /\ Control \notin Decoded \cup Silent
  /\ Decoded \cap Silent = {}
  /\ Codes \subseteq Int \ {0}

VARIABLES
  driver_stopped,  \* the streams whose driver has been stopped
  run,             \* run[s]: running, failing (about to stop all), ended
  failed,          \* the streams whose run() returned an error
  consumer,        \* consumer[s]: looping, terminating (control), ended
  queue,           \* the events of the control stream not consumed yet
  stopped,         \* Inner.stopped
  error_code,      \* the local variable of the control event loop
  terminated,      \* history: the codes connection_terminated was called with
  joiner,          \* the thread that joins: joining, ended
  signal,          \* on_enet_connect holds a message
  connect,         \* the caller: waiting, returned, timeout, failed
  stop_called,     \* history: the application has called stop()
  link,            \* the enet link: connecting, up, down
  reason           \* history: the reason the host gave when it terminated

threads == <<run, failed, consumer, error_code, terminated, joiner>>
caller  == <<signal, connect, stop_called>>
network == <<queue, link, reason>>
flags   == <<driver_stopped, stopped>>
StreamVars == <<threads, caller, network, flags>>

ControlEvent == {<<"Connect">>, <<"Disconnect">>}
                  \cup { <<"Termination", c>> : c \in Codes \cup {0} }

TypeOK ==
  /\ driver_stopped \subseteq Stream
  /\ run \in [Stream -> {"running", "failing", "ended"}]
  /\ failed \subseteq Stream
  /\ consumer \in [Eventful -> {"looping", "terminating", "ended"}]
  /\ queue \in Seq(ControlEvent)
  /\ stopped \in BOOLEAN
  /\ error_code \in Codes \cup {0}
  /\ terminated \in Seq(Codes \cup {0})
  /\ joiner \in {"joining", "ended"}
  /\ signal \in BOOLEAN
  /\ connect \in {"waiting", "returned", "timeout", "failed"}
  /\ stop_called \in BOOLEAN
  /\ link \in {"connecting", "up", "down"}
  /\ reason \in Codes \cup {0}

\* The threads are spawned in this state.  The error code is told when none
\* arrives.
StreamInit ==
  /\ driver_stopped = {}
  /\ run = [s \in Stream |-> "running"]
  /\ failed = {}
  /\ consumer = [s \in Eventful |-> "looping"]
  /\ queue = <<>>
  /\ stopped = FALSE
  /\ error_code = 0
  /\ terminated = <<>>
  /\ joiner = "joining"
  /\ signal = FALSE
  /\ connect = "waiting"
  /\ stop_called = FALSE
  /\ link = "connecting"
  /\ reason = 0

\* Inner::stop
InnerStop == stopped' = TRUE /\ driver_stopped' = Stream

-----------------------------------------------------------------------------
(* The threads that run the drivers.                                       *)

RunEnds(s) ==
  /\ run[s] = "running" /\ s \in driver_stopped
  /\ run' = [run EXCEPT ![s] = "ended"]
  /\ UNCHANGED <<failed, consumer, error_code, terminated, joiner, caller, network, flags>>

\* A thread of the driver fails and stops it; run() returns the error.
RunFails(s) ==
  /\ run[s] = "running"
  /\ run' = [run EXCEPT ![s] = "failing"]
  /\ failed' = failed \cup {s}
  /\ driver_stopped' = driver_stopped \cup {s}
  /\ UNCHANGED <<consumer, error_code, terminated, joiner, caller, network, stopped>>

\* Variant: the error stays with its stream.
KeepError(s) ==
  /\ run[s] = "failing"
  /\ run' = [run EXCEPT ![s] = "ended"]
  /\ UNCHANGED <<failed, consumer, error_code, terminated, joiner, caller, network, flags>>

\* inspect_err(|_| self.stop())
PropagateError(s) ==
  /\ run[s] = "failing"
  /\ run' = [run EXCEPT ![s] = "ended"]
  /\ InnerStop
  /\ UNCHANGED <<failed, consumer, error_code, terminated, joiner, caller, network>>

-----------------------------------------------------------------------------
(* The threads that consume the events.                                    *)

\* The driver is stopped, the next event is None: the decoder is stopped, or
\* the listener is about to be told.
ConsumerEnds(s) ==
  /\ consumer[s] = "looping" /\ s \in driver_stopped
  /\ consumer' = [consumer EXCEPT ![s] = IF s = Control THEN "terminating" ELSE "ended"]
  /\ UNCHANGED <<run, failed, error_code, terminated, joiner, caller, network, flags>>

NextControlEvent ==
  /\ consumer[Control] = "looping" /\ Control \notin driver_stopped
  /\ queue # <<>>
  /\ queue' = Tail(queue)
  /\ UNCHANGED <<link, reason>>

\* The connection is passed on to connect(), a termination remembered.
ControlNews ==
  /\ NextControlEvent /\ Head(queue)[1] # "Disconnect"
  /\ signal' = (signal \/ Head(queue)[1] = "Connect")
  /\ error_code' = IF Head(queue)[1] = "Termination" THEN Head(queue)[2] ELSE error_code
  /\ UNCHANGED <<run, failed, consumer, terminated, joiner, flags, connect, stop_called>>

\* Variant: the other streams are stopped right here.
ControlDisconnectStopping ==
  /\ NextControlEvent /\ Head(queue)[1] = "Disconnect"
  /\ InnerStop
  /\ consumer' = [consumer EXCEPT ![Control] = "terminating"]
  /\ UNCHANGED <<run, failed, error_code, terminated, joiner, caller>>

\* The loop is left; the flag is set, but no driver is stopped.
ControlDisconnect ==
  /\ NextControlEvent /\ Head(queue)[1] = "Disconnect"
  /\ stopped' = TRUE
  /\ consumer' = [consumer EXCEPT ![Control] = "terminating"]
  /\ UNCHANGED <<run, failed, error_code, terminated, joiner, caller, driver_stopped>>

ConnectionTerminated ==
  /\ consumer[Control] = "terminating"
  /\ terminated' = Append(terminated, error_code)
  /\ consumer' = [consumer EXCEPT ![Control] = "ended"]
  /\ UNCHANGED <<run, failed, error_code, joiner, caller, network, flags>>

-----------------------------------------------------------------------------
(* The thread that joins, and the application.                             *)

\* Errors are returned as they are found; whoever had one has stopped all.
Join ==
  /\ joiner = "joining"
  /\ \A s \in Stream : run[s] = "ended"
  /\ \A s \in Eventful : consumer[s] = "ended"
  /\ joiner' = "ended"
  /\ IF failed = {} THEN InnerStop ELSE UNCHANGED flags
  /\ UNCHANGED <<run, failed, consumer, error_code, terminated, caller, network>>

ConnectReturns ==
  /\ connect = "waiting" /\ signal
  /\ connect' = "returned"
  /\ signal' = FALSE
  /\ UNCHANGED <<threads, network, flags, stop_called>>

\* Twenty seconds without a word of the control thread.
ConnectTimeout ==
  /\ connect = "waiting" /\ ~signal
  /\ connect' = "timeout"
  /\ UNCHANGED <<threads, network, flags, signal, stop_called>>

\* The sender lives as long as the joining thread.
ConnectFails ==
  /\ connect = "waiting" /\ ~signal /\ joiner = "ended"
  /\ connect' = "failed"
  /\ UNCHANGED <<threads, network, flags, signal, stop_called>>

Stop ==
  /\ connect = "returned"
  /\ stop_called' = TRUE
  /\ InnerStop
  /\ UNCHANGED <<threads, network, signal, connect>>

-----------------------------------------------------------------------------
(* The control stream's events: ControlStream::do_update.                  *)

LinkUp ==
  /\ link = "connecting"
  /\ link' = "up"
  /\ queue' = Append(queue, <<"Connect">>)
  /\ UNCHANGED <<threads, caller, flags, reason>>

\* The connection is lost, or was never made.
LinkLost ==
  /\ link # "down"
  /\ link' = "down"
  /\ queue' = Append(queue, <<"Disconnect">>)
  /\ UNCHANGED <<threads, caller, flags, reason>>

\* The host terminates: the stream disconnects at once, and says so before it
\* passes the packet on.
HostTerminates(code) ==
  /\ link = "up"
  /\ link' = "down"
  /\ reason' = code
  /\ queue' = queue \o <<<<"Disconnect">>, <<"Termination", code>>>>
  /\ UNCHANGED <<threads, caller, flags>>

-----------------------------------------------------------------------------

StreamNext ==
  \/ \E s \in Stream : RunEnds(s) \/ RunFails(s) \/ PropagateError(s)
  \/ \E s \in Eventful : ConsumerEnds(s)
  \/ ControlNews \/ ControlDisconnect
  \/ ConnectionTerminated
  \/ Join
  \/ ConnectReturns \/ ConnectTimeout \/ ConnectFails \/ Stop
  \/ LinkUp \/ LinkLost
  \/ \E code \in Codes \cup {0} : HostTerminates(code)

StreamSpec == StreamInit /\ [][StreamNext]_StreamVars

-----------------------------------------------------------------------------

\* When the threads have ended before the connection was made, one of them has
\* an error to report: the unreachable!() of connect() is.
FailureHasError == connect = "failed" => failed # {}

\* Every driver that has been stopped does what stop() is for: no thread is left
\* inside it.
NobodyInside ==
  \A s \in driver_stopped : run[s] = "ended" /\ (s \in Eventful => consumer[s] # "looping")

\* stop(), wherever it was called, and an error of any one stream end the threads
\* of all streams, on the condition that no thread stays inside a stopped driver
\* (one may that misses the notification of stop(), see StoppedConsumerReturns);
\* connect() does not go on waiting for them, whether they end or not.
AllEnd ==
  /\ (stop_called \/ failed # {}) ~> connect # "waiting"
  /\ []<>NobodyInside => ((stop_called \/ failed # {}) ~> joiner = "ended")

\* The error code of connection_terminated "will be 0 if the termination was
\* reported to be intentional from the server": a host that gave another
\* reason is not reported with 0, unless something else ended the stream.
ReasonReported ==
  reason # 0 /\ failed = {} /\ ~stop_called => terminated \in {<<>>, <<reason>>}
=============================================================================
