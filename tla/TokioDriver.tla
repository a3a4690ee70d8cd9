----------------------------- MODULE TokioDriver -----------------------------
(***************************************************************************)
(* The future that drives one stream on tokio (tokio/driver.rs), in a task  *)
(* that polls it when one of its wakers was called.  A step is what poll()  *)
(* does between two points where the socket or the clock can make a         *)
(* difference.  The application drops the future while it sleeps, because   *)
(* another one of its select! was ready, and drives again; in between it    *)
(* may call stream_mut.                                                     *)
(*                                                                         *)
(* The stream is what UdpStream shows of it: each call of a handler may add *)
(* a transmit and an event, want another deadline, and fail.                *)
(***************************************************************************)
EXTENDS Naturals, Sequences

CONSTANTS
  MaxProduced,  \* bound: transmits the stream makes, numbered from 1
  MaxWaiting    \* bound: datagrams and events that wait, room in the socket

ASSUME TokioAssumption == MaxProduced \in Nat \ {0} /\ MaxWaiting \in Nat \ {0}

VARIABLES
  at,         \* where poll() is: idle (no future), write, event, read, timer, last, asleep
  woken,      \* a waker was called since poll() began
  wakers,     \* who would call one: "recv", "write", "timer"
  produced,   \* the transmits the stream has made
  queued,     \* those it still has
  transmit,   \* the one the driver has taken from it (0: none)
  written,    \* those the socket has taken
  events_queued,
  inbox,      \* datagrams in the socket
  room,       \* datagrams it would take
  ready,      \* what tokio believes of room
  wanted,     \* the stream's deadline: none, later, due
  sleep,      \* the timer of the future: later, due
  stale,      \* old_deadline is not the stream's deadline
  outcome     \* what drive() returned last

TokioVars == <<at, woken, wakers, produced, queued, transmit, written, events_queued, inbox,
               room, ready, wanted, sleep, stale, outcome>>

Deadline == {"none", "later", "due"}

TokioInit ==
  /\ at = "idle" /\ woken = FALSE /\ wakers = {}
  /\ produced = 0 /\ queued = << >> /\ transmit = 0 /\ written = << >>
  /\ events_queued = 0
  /\ inbox = 0 /\ room = MaxWaiting /\ ready = TRUE
  /\ wanted \in Deadline /\ sleep = "later" /\ stale = TRUE
  /\ outcome = "none"

ReturnEarly(what) ==
  /\ at' = "idle" /\ outcome' = what /\ wakers' = {}

-----------------------------------------------------------------------------
(* The application.                                                        *)

\* drive(): a stream without a deadline gets a timer of one second.
Drive ==
  /\ at = "idle"
  /\ at' = "write" /\ woken' = FALSE
  /\ sleep' = IF wanted = "none" THEN "later" ELSE wanted
  /\ stale' = (wanted = "none")
  /\ UNCHANGED <<wakers, produced, queued, transmit, written, events_queued, inbox, room, ready,
                 wanted, outcome>>

DropFuture ==
  /\ at = "asleep"
  /\ at' = "idle" /\ wakers' = {}
  /\ UNCHANGED <<woken, produced, queued, transmit, written, events_queued, inbox, room, ready,
                 wanted, sleep, stale, outcome>>

\* Whoever is given the stream may make it send and want another deadline.
Produce(more) ==
  /\ produced + more <= MaxProduced
  /\ produced' = produced + more
  /\ queued' = IF more = 1 THEN Append(queued, produced + 1) ELSE queued

StreamMutTokio ==
  /\ at = "idle"
  /\ \E more \in {0, 1}, deadline \in Deadline :
       Produce(more) /\ wanted' = deadline /\ stale' = TRUE
  /\ UNCHANGED <<at, woken, wakers, transmit, written, events_queued, inbox, room, ready, sleep, outcome>>

-----------------------------------------------------------------------------
(* DriveFuture::poll.                                                      *)

\* The task polls the future again if a waker was called.
PollAgain ==
  /\ at = "asleep" /\ woken
  /\ at' = "write" /\ woken' = FALSE
  /\ UNCHANGED <<wakers, produced, queued, transmit, written, events_queued, inbox, room, ready,
                 wanted, sleep, stale, outcome>>

Pending == IF transmit = 0 THEN queued ELSE <<transmit>> \o queued

\* Variant: the transmit is the future's, and goes with it.
TakeTransmitLocally ==
  /\ transmit' = 0
  /\ queued' = Tail(Pending)

\* The transmit is the driver's, in case the socket does not take it now.
TakeTransmit ==
  /\ transmit' = Head(Pending)
  /\ queued' = Tail(Pending)

Write ==
  /\ at = "write"
  /\ \/ /\ Pending = << >>
        /\ at' = "event"
        /\ UNCHANGED <<wakers, queued, transmit, written, room, ready, outcome>>
     \/ /\ Pending # << >> /\ ready /\ room > 0
        /\ written' = Append(written, Head(Pending))
        /\ room' = room - 1
        /\ transmit' = IF Tail(Pending) = << >> THEN 0 ELSE Head(Tail(Pending))
        /\ queued' = IF Tail(Pending) = << >> THEN << >> ELSE Tail(Tail(Pending))
        /\ at' = IF Tail(Pending) = << >> THEN "event" ELSE "write"
        /\ UNCHANGED <<wakers, ready, outcome>>
     \* WouldBlock: nothing is left that would call a waker.
     \/ /\ Pending # << >> /\ ready /\ room = 0
        /\ ready' = FALSE
        /\ TakeTransmit
        /\ at' = "event"
        /\ UNCHANGED <<wakers, written, room, outcome>>
     \/ /\ Pending # << >> /\ ~ready
        /\ wakers' = wakers \cup {"write"}
        /\ TakeTransmit
        /\ at' = "event"
        /\ UNCHANGED <<written, room, ready, outcome>>
     \/ /\ Pending # << >> /\ ready
        /\ ReturnEarly("socket error")
        /\ TakeTransmit
        /\ UNCHANGED <<written, room, ready>>
  /\ UNCHANGED <<woken, produced, events_queued, inbox, wanted, sleep, stale>>

EventFirst ==
  /\ at = "event"
  /\ IF events_queued > 0
     THEN events_queued' = events_queued - 1 /\ ReturnEarly("event")
     ELSE at' = "read" /\ UNCHANGED <<events_queued, wakers, outcome>>

PollEventTokio ==
  /\ EventFirst
  /\ UNCHANGED <<woken, produced, queued, transmit, written, inbox, room, ready, wanted, sleep, stale>>

\* A handler of the stream, and continue or ? after it.
HandleTokio ==
  /\ \E more, event \in {0, 1}, deadline \in Deadline :
       /\ Produce(more)
       /\ events_queued + event <= MaxWaiting
       /\ events_queued' = events_queued + event
       /\ wanted' = deadline /\ stale' = TRUE
  /\ \/ at' = "write" /\ UNCHANGED <<wakers, outcome>>
     \/ ReturnEarly("handler error")

Read ==
  /\ at = "read"
  /\ \/ inbox > 0 /\ inbox' = inbox - 1 /\ HandleTokio
     \/ /\ inbox = 0
        /\ at' = "timer" /\ wakers' = wakers \cup {"recv"}
        /\ UNCHANGED <<produced, queued, events_queued, inbox, wanted, stale, outcome>>
     \/ /\ ReturnEarly("socket error")
        /\ UNCHANGED <<produced, queued, events_queued, inbox, wanted, stale>>
  /\ UNCHANGED <<woken, transmit, written, room, ready, sleep>>

\* Variant: the timer goes on with the deadline it has.
TimerGoesOn == sleep

\* The timer is set anew when the stream has changed its mind.
TimerReset == IF stale THEN wanted ELSE sleep

Timer ==
  /\ at = "timer"
  /\ IF wanted = "none"
     THEN at' = "last" /\ UNCHANGED <<wakers, produced, queued, events_queued, wanted, sleep, stale, outcome>>
     ELSE /\ sleep' = TimerReset
          /\ IF TimerReset = "due"
             THEN HandleTokio
             ELSE /\ at' = "last" /\ stale' = FALSE /\ wakers' = wakers \cup {"timer"}
                  /\ UNCHANGED <<produced, queued, events_queued, wanted, outcome>>
  /\ UNCHANGED <<woken, transmit, written, inbox, room, ready>>

\* The loop is left; events are asked for again.
Last ==
  /\ at = "last"
  /\ IF events_queued > 0
     THEN events_queued' = events_queued - 1 /\ ReturnEarly("event")
     ELSE at' = "asleep" /\ UNCHANGED <<events_queued, wakers, outcome>>
  /\ UNCHANGED <<woken, produced, queued, transmit, written, inbox, room, ready, wanted, sleep, stale>>

-----------------------------------------------------------------------------
(* Socket and clock.                                                       *)

Wakes(who) ==
  /\ woken' = (woken \/ who \in wakers)
  /\ wakers' = wakers \ {who}

Arrive ==
  /\ inbox < MaxWaiting
  /\ inbox' = inbox + 1
  /\ Wakes("recv")
  /\ UNCHANGED <<at, produced, queued, transmit, written, events_queued, room, ready, wanted, sleep, stale, outcome>>

Drain ==
  /\ room < MaxWaiting
  /\ room' = room + 1 /\ ready' = TRUE
  /\ Wakes("write")
  /\ UNCHANGED <<at, produced, queued, transmit, written, events_queued, inbox, wanted, sleep, stale, outcome>>

\* The deadline comes, and the timer with it if it is set to that; or else the
\* time an out-of-date timer is set to.
TimePasses ==
  /\ \/ /\ wanted = "later" /\ wanted' = "due"
        /\ IF stale THEN UNCHANGED <<sleep, woken, wakers>> ELSE sleep' = "due" /\ Wakes("timer")
     \/ /\ stale /\ sleep = "later" /\ sleep' = "due"
        /\ Wakes("timer")
        /\ UNCHANGED wanted
  /\ UNCHANGED <<at, produced, queued, transmit, written, events_queued, inbox, room, ready, stale, outcome>>

TokioNext ==
  \/ Drive \/ DropFuture \/ StreamMutTokio
  \/ PollAgain \/ Write \/ PollEventTokio \/ Read \/ Timer \/ Last
  \/ Arrive \/ Drain \/ TimePasses

TokioSpec == TokioInit /\ [][TokioNext]_TokioVars

-----------------------------------------------------------------------------
(* Properties.                                                             *)

\* poll() leaves nothing that nobody will wake it for: no event, no datagram
\* and no deadline that has come.
AsleepForNothing ==
  at = "asleep" /\ ~woken => events_queued = 0 /\ inbox = 0 /\ wanted # "due"

\* Whatever makes poll() return, and whenever the future is dropped: the
\* transmits reach the socket in the order the stream made them, each once, and
\* those that have not are still there.
TransmitsKept ==
  written \o Pending = [n \in 1 .. produced |-> n]

=============================================================================
