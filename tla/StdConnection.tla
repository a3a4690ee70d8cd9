---------------------------- MODULE StdConnection ----------------------------
(***************************************************************************)
(* MoonlightStream::connect of the blocking backend and the stream it       *)
(* leaves behind (std/mod.rs): the setup, and once it is connected the      *)
(* threads, for which connect() goes on to wait.  The asynchronous setup    *)
(* ends with its connection.                                                *)
(***************************************************************************)
EXTENDS StreamSetup, StreamThreads

VARIABLE spawned  \* the threads of the streams have been spawned

StdVars == <<spawned, vars, StreamVars>>

StdInit == Init /\ StreamInit /\ spawned = FALSE

SettingUp(Step) == ~spawned /\ Step /\ UNCHANGED <<spawned, StreamVars>>

\* The sockets of the streams are there; the setup and its last connection go.
\* (The threads are looked at for a stream with a microphone, which has them all.)
Spawn ==
  /\ ~spawned /\ result = "connected" /\ backend = "std" /\ mic
  /\ spawned' = TRUE
  /\ tcp' = NoConnection /\ rtsp' = NewRtsp
  /\ UNCHANGED <<given, state, audio_session, session_id, started, result, panicked, host,
                 StreamVars>>

Running(Step) == spawned /\ Step /\ UNCHANGED <<spawned, vars>>

StdNext == SettingUp(Next) \/ Spawn \/ Running(StreamNext)

\* connect() goes on, and the host ends every connection at last; every thread
\* goes on that has something to do.  Nothing has to fail, nobody has to call stop,
\* and nothing that waits inside a driver has to come back when it is stopped.
StdFairness ==
  /\ WF_StdVars(SettingUp(ClientStep)) /\ WF_StdVars(SettingUp(HostStep)) /\ WF_StdVars(Spawn)
  /\ WF_StdVars(Running(ControlNews \/ ControlDisconnect))
  /\ WF_StdVars(Running(ConnectionTerminated))
  /\ WF_StdVars(Running(Join))
  /\ WF_StdVars(Running(ConnectReturns \/ ConnectTimeout \/ ConnectFails))

StdSpec == StdInit /\ [][StdNext]_StdVars /\ StdFairness
=============================================================================
