---------------------------- MODULE SyncUdpDriver ----------------------------
(***************************************************************************)
(* The threads that drive one stream (std/driver.rs): a mutex around the   *)
(* stream, one condition variable everybody waits on, and the stop flag,   *)
(* which is set and read outside the mutex.                                *)
(*                                                                         *)
(* The stream itself is what the UdpStream trait shows of it: how many     *)
(* transmits and events are queued and whether it wants a timeout.  Every  *)
(* call of one of its handlers may add some of each and change the wish.   *)
(*                                                                         *)
(* A step is what a thread does between two points where another thread    *)
(* can make a difference.  A critical section that neither reads the stop  *)
(* flag nor waits is one step.                                             *)
(***************************************************************************)
EXTENDS Integers

CONSTANTS
  MaxQueued,  \* bound: transmits queued, events queued
  Deadlines   \* the answers of poll_timeout: TRUE for Some, FALSE for None

ASSUME DriverAssumption ==
  /\ MaxQueued \in Nat \ {0}
  /\ Deadlines \in (SUBSET BOOLEAN) \ {{}}

\* blocking_send, blocking_recv, blocking_timeout, the thread that runs and
\* joins them, the loop over blocking_next_event and a caller of stop().
Looping == {"send", "timeout", "event"}
Worker  == {"send", "recv", "timeout"}
Thread  == Worker \cup {"run", "event", "stopper"}

VARIABLES
  pc,         \* where each thread is
  stopped,    \* the stop flag
  transmits,  \* transmits queued in the stream
  events,     \* events queued in the stream
  deadline    \* the stream wants a timeout

vars == <<pc, stopped, transmits, events, deadline>>

\* A thread of Looping
\*   lock     is about to lock the stream,
\*   locked   holds the lock, at the top of its loop,
\*   checked  holds the lock and has seen that the driver is not stopped,
\*   wait     is asleep on the condition variable, dozing with a timeout,
\*   expired  has to lock the stream again after its timeout.
\* Any thread may be storing the stop flag or notifying after it; a worker
\* does so when it has failed.

Init ==
  /\ pc = [t \in Thread |-> CASE t \in Worker -> "new"
                              [] t = "run"    -> "begin"
                              [] t = "event"  -> "lock"
                              [] OTHER        -> "idle"]
  /\ stopped = FALSE
  /\ transmits \in 0 .. MaxQueued
  /\ events = 0
  /\ deadline \in Deadlines

-----------------------------------------------------------------------------
(* The mutex and the condition variable.                                   *)

\* Nobody holds the lock, that is, nobody is inside its loop with it.
Free == \A t \in Looping : pc[t] \notin {"locked", "checked"}

Asleep(t) == pc[t] \in {"wait", "dozing"}

\* Variant: notify_one.
NotifyOne(t, p) ==
  IF \E u \in Thread : Asleep(u)
  THEN \E u \in Thread : Asleep(u) /\ pc' = [pc EXCEPT ![t] = p, ![u] = "lock"]
  ELSE pc' = [pc EXCEPT ![t] = p]

\* notify_all, with thread t going on at p: all who wait lock again.
NotifyAll(t, p) ==
  pc' = [u \in Thread |-> IF u = t THEN p ELSE IF Asleep(u) THEN "lock" ELSE pc[u]]

GoTo(t, p) == pc' = [pc EXCEPT ![t] = p]

\* What a handler of the stream may do to it.
Handle ==
  /\ transmits' \in transmits .. MaxQueued
  /\ events' \in events .. MaxQueued
  /\ deadline' \in Deadlines

StreamUnchanged == UNCHANGED <<transmits, events, deadline>>

\* A wait may return without a notification.
WakeSpuriously(t) ==
  /\ Asleep(t)
  /\ GoTo(t, "lock")
  /\ UNCHANGED stopped /\ StreamUnchanged

Lock(t) ==
  /\ pc[t] = "lock" /\ Free
  /\ GoTo(t, "locked")
  /\ UNCHANGED stopped /\ StreamUnchanged

\* The top of a loop: a stopped driver ends it.
Check(t) ==
  /\ pc[t] = "locked"
  /\ GoTo(t, IF stopped THEN "done" ELSE "checked")
  /\ UNCHANGED stopped /\ StreamUnchanged

-----------------------------------------------------------------------------
(* blocking_send                                                           *)

\* The stream is locked before the socket gets its write timeout, which may
\* fail.
SendStart ==
  /\ pc["send"] = "starting" /\ Free
  /\ GoTo("send", "locked") \/ GoTo("send", "storing")
  /\ UNCHANGED stopped /\ StreamUnchanged

SendPoll ==
  /\ pc["send"] = "checked"
  /\ IF transmits > 0
     THEN transmits' = transmits - 1 /\ GoTo("send", "sending")
     ELSE transmits' = transmits /\ GoTo("send", "wait")
  /\ UNCHANGED <<stopped, events, deadline>>

\* The datagram is sent; or the socket would block, the datagram is dropped
\* and the flag is looked at; or the socket fails.
SendTo ==
  /\ pc["send"] = "sending"
  /\ \/ GoTo("send", "lock")
     \/ stopped /\ GoTo("send", "done")
     \/ GoTo("send", "storing")
  /\ UNCHANGED stopped /\ StreamUnchanged

-----------------------------------------------------------------------------
(* blocking_recv                                                           *)

\* A datagram is read, or the socket fails.
RecvFrom ==
  /\ pc["recv"] = "receiving"
  /\ GoTo("recv", "received") \/ GoTo("recv", "storing")
  /\ UNCHANGED stopped /\ StreamUnchanged

\* Variant: after the read timeout the thread just reads again.
RecvTimeoutForever ==
  /\ pc["recv"] = "receiving"
  /\ GoTo("recv", "receiving")
  /\ UNCHANGED stopped /\ StreamUnchanged

\* The read times out, and the flag is looked at.
RecvTimeout ==
  /\ pc["recv"] = "receiving"
  /\ GoTo("recv", IF stopped THEN "done" ELSE "receiving")
  /\ UNCHANGED stopped /\ StreamUnchanged

RecvCheck ==
  /\ pc["recv"] = "received"
  /\ GoTo("recv", IF stopped THEN "done" ELSE "handling")
  /\ UNCHANGED stopped /\ StreamUnchanged

\* Variant: a datagram that was handled wakes nobody.
RecvHandleSilently ==
  /\ pc["recv"] = "handling" /\ Free
  /\ Handle
  /\ GoTo("recv", "receiving") \/ GoTo("recv", "storing")
  /\ UNCHANGED stopped

\* handle_receive under the lock, which is given up before the next read; an
\* error leaves the loop before anybody is notified.
RecvHandle ==
  /\ pc["recv"] = "handling" /\ Free
  /\ Handle
  /\ NotifyAll("recv", "receiving") \/ GoTo("recv", "storing")
  /\ UNCHANGED stopped

-----------------------------------------------------------------------------
(* blocking_timeout                                                        *)

TimeoutWait ==
  /\ pc["timeout"] = "checked"
  /\ GoTo("timeout", IF deadline THEN "dozing" ELSE "wait")
  /\ UNCHANGED stopped /\ StreamUnchanged

Expire ==
  /\ pc["timeout"] = "dozing"
  /\ GoTo("timeout", "expired")
  /\ UNCHANGED stopped /\ StreamUnchanged

\* The wait has locked the stream again and returns that it timed out.
TimeoutHandle ==
  /\ pc["timeout"] = "expired" /\ Free
  /\ Handle
  /\ NotifyAll("timeout", "locked") \/ GoTo("timeout", "storing")
  /\ UNCHANGED stopped

-----------------------------------------------------------------------------
(* blocking_next_event, stream_mut, stop and run                           *)

\* An event is returned, and the next one asked for; or the caller waits.
NextEvent ==
  /\ pc["event"] = "checked"
  /\ IF events > 0
     THEN events' = events - 1 /\ GoTo("event", "lock")
     ELSE events' = events /\ GoTo("event", "wait")
  /\ UNCHANGED <<stopped, transmits, deadline>>

StreamMut ==
  /\ Free
  /\ Handle
  /\ pc' = [t \in Thread |-> IF Asleep(t) THEN "lock" ELSE pc[t]]
  /\ UNCHANGED stopped

CallStop ==
  /\ pc["stopper"] = "idle"
  /\ GoTo("stopper", "storing")
  /\ UNCHANGED stopped /\ StreamUnchanged

\* stop() takes two steps and no lock.
StoreStopped(t) ==
  /\ pc[t] = "storing"
  /\ stopped' = TRUE
  /\ GoTo(t, "notifying")
  /\ StreamUnchanged

NotifyStopped(t) ==
  /\ pc[t] = "notifying"
  /\ NotifyAll(t, IF t \in Worker THEN "failed" ELSE IF t = "run" THEN "done" ELSE "idle")
  /\ UNCHANGED stopped /\ StreamUnchanged

RunBegin ==
  /\ pc["run"] = "begin"
  /\ pc' = IF stopped THEN [pc EXCEPT !["run"] = "done"]
           ELSE [pc EXCEPT !["run"] = "joining", !["recv"] = "receiving",
                           !["send"] = "starting", !["timeout"] = "lock"]
  /\ UNCHANGED stopped /\ StreamUnchanged

\* Variant: the timeout thread is not waited for.
RunJoinSocketThreads ==
  /\ pc["run"] = "joining"
  /\ \A t \in {"send", "recv"} : pc[t] \in {"failed", "done"}
  /\ GoTo("run", IF \E t \in Worker : pc[t] = "failed" THEN "done" ELSE "storing")
  /\ UNCHANGED stopped /\ StreamUnchanged

\* run() returns the errors of its workers, if there are any, at once.
RunJoin ==
  /\ pc["run"] = "joining"
  /\ \A t \in Worker : pc[t] \in {"failed", "done"}
  /\ GoTo("run", IF \E t \in Worker : pc[t] = "failed" THEN "done" ELSE "storing")
  /\ UNCHANGED stopped /\ StreamUnchanged

-----------------------------------------------------------------------------

Next ==
  \/ \E t \in Looping : WakeSpuriously(t) \/ Lock(t) \/ Check(t)
  \/ SendStart \/ SendPoll \/ SendTo
  \/ RecvFrom \/ RecvTimeout \/ RecvCheck \/ RecvHandle
  \/ TimeoutWait \/ Expire \/ TimeoutHandle
  \/ NextEvent
  \/ StreamMut
  \/ CallStop
  \/ \E t \in Thread : StoreStopped(t) \/ NotifyStopped(t)
  \/ RunBegin \/ RunJoin

\* What the code of each thread does next; no datagram has to come.
Sending   == Lock("send") \/ Check("send") \/ SendStart \/ SendPoll \/ SendTo
Receiving == RecvTimeout \/ RecvCheck \/ RecvHandle
TimingOut == Lock("timeout") \/ Check("timeout") \/ TimeoutWait \/ Expire \/ TimeoutHandle
Consuming == Lock("event") \/ Check("event") \/ NextEvent
Stopping(t) == StoreStopped(t) \/ NotifyStopped(t)

\* Every thread that can go on does, a mutex asked for again and again is got
\* in the end, and a wait with a timeout expires.  Nobody has to call stop or
\* stream_mut.
Fairness ==
  /\ SF_vars(Sending \/ Stopping("send"))
  /\ SF_vars(Receiving \/ Stopping("recv"))
  /\ SF_vars(TimingOut \/ Stopping("timeout"))
  /\ SF_vars(Consuming)
  /\ WF_vars(Stopping("stopper"))
  /\ WF_vars(RunBegin \/ RunJoin \/ Stopping("run"))

Spec == Init /\ [][Next]_vars

FairSpec == Spec /\ Fairness

-----------------------------------------------------------------------------

\* No wakeup is lost while the driver runs: a thread sleeps only while there
\* is nothing for it to do, whoever added work has notified it.  (After an
\* error the worker that failed is on its way to stop the driver.)
SleepersHaveNoWork ==
  (\A t \in Worker : pc[t] \notin {"storing", "notifying", "failed", "done"}) =>
    /\ pc["send"] = "wait" => transmits = 0
    /\ pc["event"] = "wait" => events = 0

\* run() comes back only when the driver is stopped and its threads have
\* ended, so nothing touches the socket afterwards.
RunEndsStopped ==
  pc["run"] = "done" =>
    stopped /\ \A t \in Worker : pc[t] \in {"new", "failed", "done"}

\* What is queued to be sent gets to the socket, and an event to its
\* consumer, unless the driver is stopped.
TransmitServed == (transmits > 0) ~> (pc["send"] = "sending" \/ stopped)

\* A stopped driver's receiving thread ends by its read timeout, and its
\* timeout thread by the timeout of the stream as long as that wants one,
\* without any notification.
StoppedTimedThreadsEnd ==
  /\ stopped ~> pc["recv"] \in {"new", "failed", "done"}
  /\ [](stopped => deadline) => (stopped ~> pc["timeout"] \in {"new", "failed", "done"})

\* blocking_next_event "returns None if the stream was stopped".
StoppedConsumerReturns == stopped ~> pc["event"] = "done"
=============================================================================
