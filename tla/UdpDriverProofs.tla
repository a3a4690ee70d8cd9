--------------------------- MODULE UdpDriverProofs ---------------------------
(***************************************************************************)
(* The two drivers of a stream.  The threads lose no wakeup while they run, *)
(* and run() returns only after its workers have ended, for every length of *)
(* the queues and every answer of poll_timeout.  The future sleeps only when *)
(* there is nothing for it to do, and whatever ends it loses, repeats and   *)
(* reorders no transmit, for any number of transmits, datagrams and events. *)
(***************************************************************************)
EXTENDS SyncUdpDriver, TokioDriver, SequenceTheorems, TLAPS

-----------------------------------------------------------------------------
(* The threads.                                                            *)

\* Enough of the type invariant for the proofs, and that run() finds its
\* workers not started: none of them has failed before.
Places ==
  /\ pc = [t \in Thread |-> pc[t]]
  /\ transmits \in Nat /\ events \in Nat
  /\ pc["run"] = "begin" => \A t \in Worker : pc[t] = "new"

Wakeups == Places /\ SleepersHaveNoWork

LEMMA WakeupsInit == Init => Wakeups
  BY DriverAssumption DEF Init, Wakeups, Places, SleepersHaveNoWork, Thread, Worker, Looping

\* After a worker has notified everybody, nobody sleeps.
LEMMA NotifiedAwake ==
  ASSUME Places, NEW t \in Worker, pc[t] # "new",
         NEW p \in {"receiving", "locked"}, NotifyAll(t, p)
  PROVE  /\ pc' = [u \in Thread |-> pc'[u]]
         /\ \A u \in Thread : pc'[u] # "wait"
         /\ pc'["run"] # "begin"
<1>1. pc["run"] # "begin"
  BY DEF Places
<1>2. pc' = [u \in Thread |-> IF u = t THEN p ELSE IF Asleep(u) THEN "lock" ELSE pc[u]]
  BY DEF NotifyAll
<1>3. t \in Thread /\ t # "run" /\ "run" \in Thread
  BY DEF Worker, Thread
<1>4. \A u \in Thread : pc'[u] # "wait"
  BY <1>2 DEF Asleep
<1> QED  BY <1>1, <1>2, <1>3, <1>4

\* One step per action; a thread that falls asleep has found its queue empty,
\* a thread that fills a queue wakes everybody or fails.
LEMMA WakeupsStep == Wakeups /\ [Next]_vars => Wakeups'
<1> SUFFICES ASSUME Wakeups, [Next]_vars PROVE Wakeups'
  OBVIOUS
<1> USE DEF Wakeups, Places, SleepersHaveNoWork, Thread, Worker, Looping
<1>1. ASSUME NEW t \in Looping, WakeSpuriously(t) \/ Lock(t) \/ Check(t) PROVE Wakeups'
  BY <1>1 DEF WakeSpuriously, Lock, Check, GoTo, StreamUnchanged, Asleep
<1>2. CASE SendStart \/ SendPoll \/ SendTo
  BY <1>2 DEF SendStart, SendPoll, SendTo, GoTo, StreamUnchanged
<1>3. CASE RecvFrom \/ RecvTimeout \/ RecvCheck
  BY <1>3 DEF RecvFrom, RecvTimeout, RecvCheck, GoTo, StreamUnchanged
<1>4. CASE RecvHandle
  <2>1. transmits' \in Nat /\ events' \in Nat
    BY <1>4, DriverAssumption DEF RecvHandle, Handle
  <2>2. CASE NotifyAll("recv", "receiving")
    <3>1. /\ "recv" \in Worker /\ pc["recv"] # "new"
          /\ "receiving" \in {"receiving", "locked"} /\ Places
      BY <1>4 DEF RecvHandle
    <3>2. /\ pc' = [u \in Thread |-> pc'[u]]
          /\ \A u \in Thread : pc'[u] # "wait"
          /\ pc'["run"] # "begin"
      <4> HIDE DEF Places, Worker, Thread
      <4> QED  BY <2>2, <3>1, NotifiedAwake
    <3>3. Places'
      BY <2>1, <3>2
    <3>4. SleepersHaveNoWork'
      BY <3>2
    <3> QED  BY <3>3, <3>4
  <2>3. CASE GoTo("recv", "storing")
    BY <1>4, <2>1, <2>3 DEF GoTo, RecvHandle
  <2> QED  BY <1>4, <2>2, <2>3 DEF RecvHandle
<1>5. CASE TimeoutWait \/ Expire
  BY <1>5 DEF TimeoutWait, Expire, GoTo, StreamUnchanged
<1>6. CASE TimeoutHandle
  <2>1. transmits' \in Nat /\ events' \in Nat
    BY <1>6, DriverAssumption DEF TimeoutHandle, Handle
  <2>2. CASE NotifyAll("timeout", "locked")
    <3>1. /\ "timeout" \in Worker /\ pc["timeout"] # "new"
          /\ "locked" \in {"receiving", "locked"} /\ Places
      BY <1>6 DEF TimeoutHandle
    <3>2. /\ pc' = [u \in Thread |-> pc'[u]]
          /\ \A u \in Thread : pc'[u] # "wait"
          /\ pc'["run"] # "begin"
      <4> HIDE DEF Places, Worker, Thread
      <4> QED  BY <2>2, <3>1, NotifiedAwake
    <3>3. Places'
      BY <2>1, <3>2
    <3>4. SleepersHaveNoWork'
      BY <3>2
    <3> QED  BY <3>3, <3>4
  <2>3. CASE GoTo("timeout", "storing")
    BY <1>6, <2>1, <2>3 DEF GoTo, TimeoutHandle
  <2> QED  BY <1>6, <2>2, <2>3 DEF TimeoutHandle
<1>7. CASE NextEvent
  BY <1>7 DEF NextEvent, GoTo
<1>8. CASE StreamMut
  <2>1. transmits' \in Nat /\ events' \in Nat
    BY <1>8, DriverAssumption DEF StreamMut, Handle
  <2> QED  BY <1>8, <2>1 DEF StreamMut, Asleep
<1>9. CASE CallStop
  BY <1>9 DEF CallStop, GoTo, StreamUnchanged
<1>10. ASSUME NEW t \in Thread, StoreStopped(t) \/ NotifyStopped(t) PROVE Wakeups'
  BY <1>10 DEF StoreStopped, NotifyStopped, GoTo, NotifyAll, Asleep, StreamUnchanged
<1>11. CASE RunBegin \/ RunJoin
  BY <1>11 DEF RunBegin, RunJoin, GoTo, StreamUnchanged
<1>12. CASE UNCHANGED vars
  BY <1>12 DEF vars
<1> QED  BY <1>1, <1>2, <1>3, <1>4, <1>5, <1>6, <1>7, <1>8, <1>9, <1>10, <1>11, <1>12 DEF Next

\* While the driver runs, a thread of it sleeps only when the queue it serves
\* is empty: no order of sends, receives, timeouts and calls of stream_mut
\* leaves work behind.
THEOREM NoLostWakeup == Spec => []SleepersHaveNoWork
<1>1. Wakeups => SleepersHaveNoWork
  BY DEF Wakeups
<1> QED  BY <1>1, WakeupsInit, WakeupsStep, PTL DEF Spec

-----------------------------------------------------------------------------

\* What run() has established at each of its steps: it spawns the workers
\* first, and goes on to stop() after the last of them has ended.
Joined ==
  /\ pc = [t \in Thread |-> pc[t]]
  /\ pc["run"] = "begin" => \A t \in Worker : pc[t] = "new"
  /\ pc["run"] \in {"storing", "notifying"} =>
       \A t \in Worker : pc[t] \in {"failed", "done"}
  /\ \A t \in Worker \cup {"run"} : pc[t] \in {"notifying", "failed"} => stopped
  /\ pc["run"] \notin {"lock", "wait", "dozing"}
  /\ RunEndsStopped

LEMMA JoinedInit == Init => Joined
  BY DEF Init, Joined, RunEndsStopped, Thread, Worker

LEMMA JoinedStep == Joined /\ [Next]_vars => Joined'
<1> SUFFICES ASSUME Joined, [Next]_vars PROVE Joined'
  OBVIOUS
<1> USE DEF Joined, RunEndsStopped, Thread, Worker, Looping
<1>1. ASSUME NEW t \in Looping, WakeSpuriously(t) \/ Lock(t) \/ Check(t) PROVE Joined'
  BY <1>1 DEF WakeSpuriously, Lock, Check, GoTo, Asleep
<1>2. CASE SendStart \/ SendPoll \/ SendTo
  BY <1>2 DEF SendStart, SendPoll, SendTo, GoTo
<1>3. CASE RecvFrom \/ RecvTimeout \/ RecvCheck \/ RecvHandle
  <2>1. CASE RecvFrom
    BY <2>1 DEF RecvFrom, GoTo
  <2>2. CASE RecvTimeout
    BY <2>2 DEF RecvTimeout, GoTo
  <2>3. CASE RecvCheck
    BY <2>3 DEF RecvCheck, GoTo
  <2>4. CASE RecvHandle
    BY <2>4 DEF RecvHandle, GoTo, NotifyAll, Asleep
  <2> QED  BY <1>3, <2>1, <2>2, <2>3, <2>4
<1>4. CASE TimeoutWait \/ Expire \/ TimeoutHandle
  BY <1>4 DEF TimeoutWait, Expire, TimeoutHandle, GoTo, NotifyAll, Asleep
<1>5. CASE NextEvent \/ StreamMut \/ CallStop
  BY <1>5 DEF NextEvent, StreamMut, CallStop, GoTo, Asleep
<1>6. ASSUME NEW t \in Thread, StoreStopped(t) PROVE Joined'
  BY <1>6 DEF StoreStopped, GoTo
<1>7. ASSUME NEW t \in Thread, NotifyStopped(t) PROVE Joined'
  BY <1>7 DEF NotifyStopped, NotifyAll, Asleep
<1>8. CASE RunBegin
  BY <1>8 DEF RunBegin
<1>9. CASE RunJoin
  BY <1>9 DEF RunJoin, GoTo
<1>10. CASE UNCHANGED vars
  BY <1>10 DEF vars
<1> QED  BY <1>1, <1>2, <1>3, <1>4, <1>5, <1>6, <1>7, <1>8, <1>9, <1>10 DEF Next

\* run() returns only when the driver is stopped and its three threads have
\* ended (or were never started).
THEOREM RunJoinsAll == Spec => []RunEndsStopped
<1>1. Joined => RunEndsStopped
  BY DEF Joined
<1> QED  BY <1>1, JoinedInit, JoinedStep, PTL DEF Spec

-----------------------------------------------------------------------------
(* Sequences.                                                              *)

Numbers == Nat \ {0}

\* The transmits the stream has made, in their order.
UpTo(m) == [n \in 1 .. m |-> n]

LEMMA JoinHeadTail ==
  ASSUME NEW S, NEW s \in Seq(S), s # << >>
  PROVE  <<Head(s)>> \o Tail(s) = s
<1>1. /\ Head(s) \in S /\ Tail(s) \in Seq(S) /\ Len(Tail(s)) = Len(s) - 1
      /\ \A i \in 1 .. Len(Tail(s)) : Tail(s)[i] = s[i + 1]
  BY HeadTailProperties
<1>2. <<Head(s)>> \in Seq(S) /\ Len(<<Head(s)>>) = 1 /\ <<Head(s)>>[1] = Head(s)
  BY <1>1
<1> DEFINE t == <<Head(s)>> \o Tail(s)
<1>3. /\ t \in Seq(S) /\ Len(t) = 1 + Len(Tail(s))
      /\ \A i \in 1 .. 1 + Len(Tail(s)) :
           t[i] = IF i <= 1 THEN <<Head(s)>>[i] ELSE Tail(s)[i - 1]
  BY <1>1, <1>2, ConcatProperties
<1>4. Len(s) \in Nat /\ s[1] = Head(s)
  BY LenProperties
<1>5. Len(t) = Len(s) /\ \A i \in 1 .. Len(t) : t[i] = s[i]
  BY <1>1, <1>2, <1>3, <1>4
<1> QED  BY <1>3, <1>5, SeqEqual

LEMMA MoveHead ==
  ASSUME NEW S, NEW w \in Seq(S), NEW s \in Seq(S), s # << >>
  PROVE  Append(w, Head(s)) \o Tail(s) = w \o s
<1>1. Head(s) \in S /\ Tail(s) \in Seq(S)
  BY HeadTailProperties
<1>2. <<Head(s)>> \in Seq(S) /\ Append(w, Head(s)) = w \o <<Head(s)>>
  BY <1>1, AppendIsConcat
<1>3. (w \o <<Head(s)>>) \o Tail(s) = w \o (<<Head(s)>> \o Tail(s))
  BY <1>1, <1>2, ConcatAssociative
<1> QED  BY <1>2, <1>3, JoinHeadTail

LEMMA AppendBehind ==
  ASSUME NEW S, NEW w \in Seq(S), NEW s \in Seq(S), NEW x \in S
  PROVE  w \o Append(s, x) = Append(w \o s, x)
<1>1. <<x>> \in Seq(S) /\ w \o s \in Seq(S)
  BY ConcatProperties
<1>2. Append(s, x) = s \o <<x>> /\ Append(w \o s, x) = (w \o s) \o <<x>>
  BY <1>1, AppendIsConcat
<1> QED  BY <1>1, <1>2, ConcatAssociative

LEMMA UpToNext ==
  ASSUME NEW m \in Nat
  PROVE  Append(UpTo(m), m + 1) = UpTo(m + 1)
<1>1. UpTo(m) \in Seq(Nat) /\ UpTo(m + 1) \in Seq(Nat)
      /\ Len(UpTo(m)) = m /\ Len(UpTo(m + 1)) = m + 1
  BY DEF UpTo
<1>2. /\ Append(UpTo(m), m + 1) \in Seq(Nat)
      /\ Len(Append(UpTo(m), m + 1)) = m + 1
      /\ \A i \in 1 .. m : Append(UpTo(m), m + 1)[i] = UpTo(m)[i]
      /\ Append(UpTo(m), m + 1)[m + 1] = m + 1
  BY <1>1, AppendProperties
<1>3. \A i \in 1 .. m + 1 : Append(UpTo(m), m + 1)[i] = UpTo(m + 1)[i]
  BY <1>2 DEF UpTo
<1> QED  BY <1>1, <1>2, <1>3, SeqEqual

-----------------------------------------------------------------------------
(* No transmit is lost.                                                    *)

Transmits ==
  /\ produced \in Nat
  /\ queued \in Seq(Numbers)
  /\ transmit \in Nat
  /\ written \in Seq(Numbers)

Kept == Transmits /\ TransmitsKept

LEMMA KeptInit == TokioInit => Kept
<1> SUFFICES ASSUME TokioInit PROVE Kept
  OBVIOUS
<1>1. << >> \in Seq(Numbers) /\ << >> \o << >> = << >>
  BY EmptySeq, ConcatEmptySeq
<1>2. UpTo(0) = << >>
  BY DEF UpTo
<1> QED  BY <1>1, <1>2 DEF TokioInit, Kept, Transmits, TransmitsKept, Pending, UpTo

LEMMA PendingType == Transmits => Pending \in Seq(Numbers)
<1> SUFFICES ASSUME Transmits PROVE Pending \in Seq(Numbers)
  OBVIOUS
<1>1. CASE transmit = 0
  BY <1>1 DEF Transmits, Pending
<1>2. CASE transmit # 0
  <2>1. <<transmit>> \in Seq(Numbers)
    BY <1>2 DEF Transmits, Numbers
  <2> QED  BY <1>2, <2>1, ConcatProperties DEF Transmits, Pending
<1> QED  BY <1>1, <1>2

\* A step that makes nothing and whose transmits are still all there.
LEMMA KeptSame ==
  ASSUME Kept, UNCHANGED <<produced, written>>, Transmits', Pending' = Pending
  PROVE  Kept'
  BY DEF Kept, TransmitsKept

LEMMA KeptUntouched ==
  ASSUME Kept, UNCHANGED <<produced, queued, transmit, written>>
  PROVE  Kept'
  BY DEF Kept, TransmitsKept, Transmits, Pending

LEMMA KeptTaken ==
  ASSUME Kept, Pending # << >>, TakeTransmit, UNCHANGED <<produced, written>>
  PROVE  Kept'
<1>1. Pending \in Seq(Numbers)
  BY PendingType DEF Kept
<1>2. Head(Pending) \in Numbers /\ Tail(Pending) \in Seq(Numbers)
      /\ <<Head(Pending)>> \o Tail(Pending) = Pending
  BY <1>1, HeadTailProperties, JoinHeadTail
<1>3. transmit' = Head(Pending) /\ queued' = Tail(Pending)
  BY DEF TakeTransmit
<1>4. Transmits'
  BY <1>2, <1>3 DEF Kept, Transmits, Numbers
<1>5. Pending' = Pending
  BY <1>2, <1>3 DEF Pending, Numbers
<1> QED  BY <1>4, <1>5, KeptSame

LEMMA KeptWritten ==
  ASSUME Kept, Pending # << >>, UNCHANGED produced,
         written' = Append(written, Head(Pending)),
         transmit' = (IF Tail(Pending) = << >> THEN 0 ELSE Head(Tail(Pending))),
         queued' = (IF Tail(Pending) = << >> THEN << >> ELSE Tail(Tail(Pending)))
  PROVE  Kept'
<1>1. Pending \in Seq(Numbers) /\ written \in Seq(Numbers)
  BY PendingType DEF Kept, Transmits
<1>2. Head(Pending) \in Numbers /\ Tail(Pending) \in Seq(Numbers)
  BY <1>1, HeadTailProperties
<1>3. Transmits' /\ Pending' = Tail(Pending)
  <2>1. written' \in Seq(Numbers)
    BY <1>1, <1>2, AppendProperties
  <2>2. CASE Tail(Pending) = << >>
    BY <2>1, <2>2, <1>2 DEF Kept, Transmits, Pending
  <2>3. CASE Tail(Pending) # << >>
    <3>1. Head(Tail(Pending)) \in Numbers /\ Tail(Tail(Pending)) \in Seq(Numbers)
          /\ <<Head(Tail(Pending))>> \o Tail(Tail(Pending)) = Tail(Pending)
      BY <1>2, <2>3, HeadTailProperties, JoinHeadTail
    <3>2. transmit' = Head(Tail(Pending)) /\ queued' = Tail(Tail(Pending))
      BY <2>3
    <3>3. Transmits'
      BY <2>1, <3>1, <3>2 DEF Kept, Transmits, Numbers
    <3>4. Pending' = Tail(Pending)
      BY <3>1, <3>2 DEF Pending, Numbers
    <3> QED  BY <3>3, <3>4
  <2> QED  BY <2>2, <2>3
<1>4. written' \o Pending' = written \o Pending
  BY <1>1, <1>3, MoveHead
<1> QED  BY <1>3, <1>4 DEF Kept, TransmitsKept

LEMMA KeptProduced ==
  ASSUME Kept, NEW more \in {0, 1}, Produce(more), UNCHANGED <<transmit, written>>
  PROVE  Kept'
<1>1. CASE more = 0
  <2>1. UNCHANGED <<produced, queued>>
    BY <1>1 DEF Produce, Kept, Transmits
  <2> QED  BY <2>1, KeptUntouched
<1>2. CASE more = 1
  <2>1. queued' = Append(queued, produced + 1) /\ produced' = produced + 1
    BY <1>2 DEF Produce
  <2>2. produced + 1 \in Numbers /\ queued \in Seq(Numbers) /\ written \in Seq(Numbers)
        /\ Pending \in Seq(Numbers)
    BY PendingType DEF Kept, Transmits, Numbers
  <2>3. queued' \in Seq(Numbers)
    BY <2>1, <2>2, AppendProperties
  <2>4. Transmits'
    BY <2>1, <2>2, <2>3 DEF Kept, Transmits
  <2>5. Pending' = Append(Pending, produced + 1)
    <3>1. CASE transmit = 0
      BY <2>1, <3>1 DEF Pending
    <3>2. CASE transmit # 0
      <4>1. <<transmit>> \in Seq(Numbers)
        BY <3>2 DEF Kept, Transmits, Numbers
      <4>2. <<transmit>> \o Append(queued, produced + 1) = Append(<<transmit>> \o queued, produced + 1)
        BY <2>2, <4>1, AppendBehind
      <4> QED  BY <2>1, <3>2, <4>2 DEF Pending
    <3> QED  BY <3>1, <3>2
  <2>6. written' \o Pending' = Append(written \o Pending, produced + 1)
    BY <2>2, <2>5, AppendBehind
  <2>7. written \o Pending = UpTo(produced)
    BY DEF Kept, TransmitsKept, UpTo
  <2>8. Append(UpTo(produced), produced + 1) = UpTo(produced + 1)
    BY UpToNext DEF Kept, Transmits
  <2>9. TransmitsKept'
    BY <2>1, <2>6, <2>7, <2>8 DEF TransmitsKept, UpTo
  <2> QED  BY <2>4, <2>9 DEF Kept
<1> QED  BY <1>1, <1>2

LEMMA KeptHandled ==
  ASSUME Kept, HandleTokio, UNCHANGED <<transmit, written>>
  PROVE  Kept'
<1>1. PICK more \in {0, 1} : Produce(more)
  BY DEF HandleTokio
<1> QED  BY <1>1, KeptProduced

\* Only Write, and what gives the stream to somebody, touch the transmits.
LEMMA KeptStep == Kept /\ [TokioNext]_TokioVars => Kept'
<1> SUFFICES ASSUME Kept, [TokioNext]_TokioVars PROVE Kept'
  OBVIOUS
<1>1. CASE Drive \/ DropFuture \/ PollAgain \/ PollEventTokio \/ Last
  BY <1>1, KeptUntouched DEF Drive, DropFuture, PollAgain, PollEventTokio, Last
<1>2. CASE Arrive \/ Drain \/ TimePasses
  BY <1>2, KeptUntouched DEF Arrive, Drain, TimePasses
<1>3. CASE StreamMutTokio
  BY <1>3, KeptProduced DEF StreamMutTokio
<1>4. CASE Write
  <2>1. UNCHANGED produced
    BY <1>4 DEF Write
  <2>2. \/ UNCHANGED <<queued, transmit, written>>
        \/ /\ Pending # << >>
           /\ written' = Append(written, Head(Pending))
           /\ transmit' = (IF Tail(Pending) = << >> THEN 0 ELSE Head(Tail(Pending)))
           /\ queued' = (IF Tail(Pending) = << >> THEN << >> ELSE Tail(Tail(Pending)))
        \/ Pending # << >> /\ TakeTransmit /\ UNCHANGED written
    BY <1>4 DEF Write
  <2> QED  BY <2>1, <2>2, KeptUntouched, KeptWritten, KeptTaken
<1>5. CASE Read
  BY <1>5, KeptUntouched, KeptHandled DEF Read
<1>6. CASE Timer
  BY <1>6, KeptUntouched, KeptHandled DEF Timer
<1>7. CASE UNCHANGED TokioVars
  BY <1>7, KeptUntouched DEF TokioVars
<1> QED  BY <1>1, <1>2, <1>3, <1>4, <1>5, <1>6, <1>7 DEF TokioNext

\* The transmits reach the socket in the order the stream made them, each once
\* (tokio/driver.rs, poll and the transmit StreamDriver keeps).
THEOREM TransmitsAreKept == TokioSpec => []TransmitsKept
<1>1. TokioSpec => []Kept
  BY KeptInit, KeptStep, PTL DEF TokioSpec
<1>2. Kept => TransmitsKept
  BY DEF Kept
<1> QED  BY <1>1, <1>2, PTL

-----------------------------------------------------------------------------
(* The future sleeps for nothing.                                          *)

Types ==
  /\ woken \in BOOLEAN /\ stale \in BOOLEAN
  /\ events_queued \in Nat /\ inbox \in Nat
  /\ wanted \in Deadline /\ sleep \in {"later", "due"}

\* Having read all there is, the future has left its waker with the socket.
SocketWatched ==
  at \in {"timer", "last", "asleep"} => woken \/ (inbox = 0 /\ "recv" \in wakers)

\* And with the timer, which is set to the deadline of the stream.
TimerWatched ==
  at \in {"last", "asleep"} =>
    woken \/ wanted = "none" \/ (wanted = "later" /\ ~stale /\ "timer" \in wakers)

TimerRight == ~stale /\ wanted # "none" => sleep = wanted

NoEventAsleep == at = "asleep" => events_queued = 0

Watched == Types /\ SocketWatched /\ TimerWatched /\ TimerRight /\ NoEventAsleep

LEMMA WatchedInit == TokioInit => Watched
<1> SUFFICES ASSUME TokioInit PROVE Watched
  OBVIOUS
<1>1. Types
  BY DEF TokioInit, Types, Deadline
<1>2. at = "idle" /\ stale
  BY DEF TokioInit
<1> QED
  BY <1>1, <1>2 DEF Watched, SocketWatched, TimerWatched, TimerRight, NoEventAsleep

LEMMA WatchedHandled ==
  ASSUME Watched, HandleTokio, sleep' \in {"later", "due"}, inbox' \in Nat, UNCHANGED woken
  PROVE  Watched'
<1>1. at' \in {"write", "idle"} /\ stale'
  BY DEF HandleTokio, ReturnEarly
<1>2. PICK event \in {0, 1}, wish \in Deadline :
        events_queued' = events_queued + event /\ wanted' = wish
  BY DEF HandleTokio
<1>3. stale' \in BOOLEAN /\ woken' \in BOOLEAN
  BY DEF HandleTokio, Watched, Types
<1>4. Types'
  BY <1>2, <1>3 DEF Watched, Types
<1> QED
  BY <1>1, <1>4 DEF Watched, SocketWatched, TimerWatched, TimerRight, NoEventAsleep

\* One step per action: what wakes the future is what its invariant waits for.
LEMMA WatchedStep == Watched /\ [TokioNext]_TokioVars => Watched'
<1> SUFFICES ASSUME Watched, [TokioNext]_TokioVars PROVE Watched'
  OBVIOUS
<1>1. CASE Drive \/ DropFuture \/ StreamMutTokio \/ PollAgain
  BY <1>1 DEF Drive, DropFuture, StreamMutTokio, PollAgain, Produce,
              Watched, Types, SocketWatched, TimerWatched, TimerRight, NoEventAsleep, Deadline
<1>2. CASE Write
  <2>1. at' \in {"write", "event", "idle"}
        /\ UNCHANGED <<woken, stale, events_queued, inbox, wanted, sleep>>
    BY <1>2 DEF Write, ReturnEarly
  <2> QED  BY <2>1 DEF Watched, Types, SocketWatched, TimerWatched, TimerRight, NoEventAsleep
<1>3. CASE PollEventTokio
  BY <1>3 DEF PollEventTokio, EventFirst, ReturnEarly,
              Watched, Types, SocketWatched, TimerWatched, TimerRight, NoEventAsleep
<1>4. CASE Read
  <2>1. UNCHANGED <<woken, sleep>>
    BY <1>4 DEF Read
  <2>2. CASE inbox > 0 /\ inbox' = inbox - 1 /\ HandleTokio
    BY <2>1, <2>2, WatchedHandled DEF Watched, Types
  <2>3. CASE ~(inbox > 0 /\ inbox' = inbox - 1 /\ HandleTokio)
    BY <1>4, <2>3 DEF Read, ReturnEarly,
              Watched, Types, SocketWatched, TimerWatched, TimerRight, NoEventAsleep
  <2> QED  BY <2>2, <2>3
<1>5. CASE Timer
  <2>1. CASE wanted = "none"
    BY <1>5, <2>1 DEF Timer, Watched, Types, SocketWatched, TimerWatched, TimerRight, NoEventAsleep
  <2>2. CASE wanted # "none" /\ TimerReset = "due"
    BY <1>5, <2>2, WatchedHandled DEF Timer, Watched, Types
  <2>3. CASE wanted # "none" /\ TimerReset # "due"
    BY <1>5, <2>3 DEF Timer, TimerReset, Deadline,
              Watched, Types, SocketWatched, TimerWatched, TimerRight, NoEventAsleep
  <2> QED  BY <2>1, <2>2, <2>3
<1>6. CASE Last
  BY <1>6 DEF Last, ReturnEarly,
              Watched, Types, SocketWatched, TimerWatched, TimerRight, NoEventAsleep
<1>7. CASE Arrive
  <2>1. /\ at' = at /\ stale' = stale /\ UNCHANGED <<events_queued, wanted, sleep>>
        /\ inbox' = inbox + 1 /\ wakers' = wakers \ {"recv"}
    BY <1>7 DEF Arrive, Wakes
  <2>2. (woken' <=> woken \/ "recv" \in wakers) /\ woken' \in BOOLEAN
    BY <1>7 DEF Arrive, Wakes
  <2>3. Types'
    BY <2>1, <2>2 DEF Watched, Types
  <2>4. SocketWatched' /\ TimerWatched'
    BY <2>1, <2>2 DEF Watched, SocketWatched, TimerWatched
  <2>5. TimerRight' /\ NoEventAsleep'
    BY <2>1 DEF Watched, TimerRight, NoEventAsleep
  <2> QED  BY <2>3, <2>4, <2>5 DEF Watched
<1>8. CASE Drain
  BY <1>8 DEF Drain, Wakes,
              Watched, Types, SocketWatched, TimerWatched, TimerRight, NoEventAsleep
<1>9. CASE TimePasses
  BY <1>9 DEF TimePasses, Wakes, Deadline,
              Watched, Types, SocketWatched, TimerWatched, TimerRight, NoEventAsleep
<1>10. CASE UNCHANGED TokioVars
  BY <1>10 DEF TokioVars, Watched, Types, SocketWatched, TimerWatched, TimerRight, NoEventAsleep
<1> QED
  BY <1>1, <1>2, <1>3, <1>4, <1>5, <1>6, <1>7, <1>8, <1>9, <1>10 DEF TokioNext

\* poll() leaves nothing that nobody will wake it for (tokio/driver.rs, poll).
THEOREM NeverAsleepForNothing == TokioSpec => []AsleepForNothing
<1>1. TokioSpec => []Watched
  BY WatchedInit, WatchedStep, PTL DEF TokioSpec
<1>2. Watched => AsleepForNothing
  BY DEF Watched, SocketWatched, TimerWatched, NoEventAsleep, AsleepForNothing
<1> QED  BY <1>1, <1>2, PTL
==============================================================================
