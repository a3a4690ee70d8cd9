--------------------------- MODULE MoonlightHost ---------------------------
(***************************************************************************)
(* MoonlightHost (high/tokio.rs; high/std.rs is the same with blocking      *)
(* locks): tasks that share a host behind two locks, the client's mutex and *)
(* the cache's read-write lock.  A task works off the steps of its call;    *)
(* each step starts where the code waits for a lock or for an answer, and   *)
(* there the future may be dropped.  A read lock is never kept over such a  *)
(* point, so that reading is one step that no writer may be in.             *)
(*                                                                         *)
(* An identity stands for a client's certificate and key together with the  *)
(* certificate of the server it is paired with.                             *)
(***************************************************************************)
EXTENDS Naturals, Sequences

CONSTANTS Task, Identity, NoIdentity, Free

ASSUME HostAssumption == NoIdentity \notin Identity /\ Free \notin Task

VARIABLES
  client,      \* whose certificates the client in the mutex uses
  clientLock,  \* the task that holds the client's mutex
  cache,       \* what the host remembers
  cacheLock,   \* the task that holds the cache's lock for writing
  todo,        \* the steps each task has before it
  local,       \* what each task knows while it works off a call
  agreement,   \* what the calls so far left of the two identities
  panicked     \* whether an unreachable!() was reached

vars == <<client, clientLock, cache, cacheLock, todo, local, agreement, panicked>>

Update == <<"writeCache", "lockClient", "httpInfo", "secureInfo", "apps">>

\* Variant that trusts the cache.
StartStreamCached == <<"readInfo", "readGame", "lockClient", "launch", "readInfo">>

StartStream == Update \o <<"readInfo", "readGame", "lockClient", "launch", "readInfo">>

Steps ==
  [update       |-> Update,
   info         |-> <<"readInfo">>,
   app_list     |-> <<"appList">>,
   set_identity |-> <<"replaceClient", "setAuthenticated">> \o Update,
   pair         |-> <<"readInfo", "pairing", "authenticate", "takeClient">> \o Update,
   unpair       |-> <<"checkPaired", "readInfo", "lockClient", "unpair">>,
   start_stream |-> StartStream,
   cancel       |-> <<"checkPaired", "readInfo", "lockClient", "cancel">> \o Update
                      \o <<"readGame">>]

Call == DOMAIN Steps
IdentityCall == {"set_identity", "pair", "unpair"}

\* What a task keeps of its call: whether it changes the identity and to which,
\* and whether the server's state in the cache is of a time since it began (of
\* interest to the two calls that read the current game).
Resting == [call |-> "none", id |-> NoIdentity, recent |-> TRUE]

Init ==
  /\ client = NoIdentity /\ clientLock = Free
  /\ cache = [authenticated |-> NoIdentity, info |-> FALSE, apps |-> FALSE]
  /\ cacheLock = Free
  /\ todo = [t \in Task |-> <<>>]
  /\ local = [t \in Task |-> Resting]
  /\ agreement = "agree"
  /\ panicked = FALSE

-----------------------------------------------------------------------------

At(t, step) == todo[t] # <<>> /\ Head(todo[t]) = step

\* The task goes on with the given steps.
Continue(t, steps) ==
  /\ todo' = [todo EXCEPT ![t] = steps]
  /\ local' = IF steps = <<>> THEN [local EXCEPT ![t] = Resting] ELSE local

Proceed(t) == Continue(t, Tail(todo[t]))

Released(lock, t) == IF lock = t THEN Free ELSE lock

\* The call ends early: an error is returned, or the future is dropped.
\* Guards go with it.
Abort(t) ==
  /\ Continue(t, <<>>)
  /\ clientLock' = Released(clientLock, t)
  /\ cacheLock' = Released(cacheLock, t)

\* The server may take a request made with some certificates, never one made
\* with none.
Accepted == client # NoIdentity

\* A task calls one of the methods.  Two calls of set_identity may overlap
\* without harm, other calls that change the identity may not.
Begin(t) == \E call \in Call, id \in Identity \cup {NoIdentity} :
  /\ todo[t] = <<>>
  /\ call \in {"set_identity", "pair"} <=> id # NoIdentity
  /\ todo' = [todo EXCEPT ![t] = Steps[call]]
  /\ local' = [local EXCEPT ![t] =
       [call |-> IF call \in IdentityCall THEN call ELSE "other", id |-> id,
        recent |-> call \notin {"start_stream", "cancel"}]]
  /\ agreement' =
       IF \E u \in Task \ {t} : /\ {call, local[u].call} \subseteq IdentityCall
                                /\ {call, local[u].call} # {"set_identity"}
       THEN "mixed" ELSE agreement
  /\ UNCHANGED <<client, clientLock, cache, cacheLock, panicked>>

\* The caller drops the future at a point where it waits.
Cancel(t) ==
  /\ todo[t] # <<>>
  /\ Abort(t)
  /\ agreement' = IF local[t].call \in IdentityCall THEN "mixed" ELSE agreement
  /\ UNCHANGED <<client, cache, panicked>>

-----------------------------------------------------------------------------
\* update

WriteCache(t) ==
  /\ At(t, "writeCache") /\ cacheLock = Free
  /\ cacheLock' = t
  /\ Proceed(t)
  /\ UNCHANGED <<client, clientLock, cache, agreement, panicked>>

LockClient(t) ==
  /\ At(t, "lockClient") /\ clientLock = Free
  /\ clientLock' = t
  /\ Proceed(t)
  /\ UNCHANGED <<client, cache, cacheLock, agreement, panicked>>

\* A request gets no answer, or one that is an error.
RequestFails(t) ==
  /\ \E step \in {"httpInfo", "secureInfo", "apps", "launch", "cancel", "unpair"} : At(t, step)
  /\ At(t, "secureInfo") => cache.authenticated # NoIdentity
  /\ Abort(t)
  /\ UNCHANGED <<client, cache, agreement, panicked>>

\* The answer is put into the cache at once, for every task to see.
HttpInfo(t) ==
  /\ At(t, "httpInfo")
  /\ cache' = [cache EXCEPT !.info = TRUE]
  /\ todo' = [todo EXCEPT ![t] = Tail(@)]
  /\ local' = [u \in Task |-> [local[u] EXCEPT !.recent = TRUE]]
  /\ UNCHANGED <<client, clientLock, cacheLock, agreement, panicked>>

\* The update ends: both guards are dropped.
EndUpdate(t, rest) ==
  /\ Continue(t, rest)
  /\ clientLock' = Free /\ cacheLock' = Free

\* An authenticated client asks again, with its certificates; the others have
\* no list of apps.
SecureInfo(t) ==
  /\ At(t, "secureInfo")
  /\ IF cache.authenticated # NoIdentity
     THEN /\ Accepted
          /\ Proceed(t)
          /\ UNCHANGED <<clientLock, cache, cacheLock>>
     ELSE /\ cache' = [cache EXCEPT !.apps = FALSE]
          /\ EndUpdate(t, Tail(Tail(todo[t])))
  /\ UNCHANGED <<client, agreement, panicked>>

Apps(t) ==
  /\ At(t, "apps") /\ Accepted
  /\ cache' = [cache EXCEPT !.apps = TRUE]
  /\ EndUpdate(t, Tail(todo[t]))
  /\ UNCHANGED <<client, agreement, panicked>>

-----------------------------------------------------------------------------
\* Calls that read the cache

\* server_info_priv: from the cache, or after an update.
ReadInfo(t) ==
  /\ At(t, "readInfo") \/ At(t, "readGame")
  /\ cacheLock = Free
  /\ IF cache.info THEN Proceed(t) ELSE Continue(t, Update \o <<"infoAgain">> \o Tail(todo[t]))
  /\ UNCHANGED <<client, clientLock, cache, cacheLock, agreement, panicked>>

InfoAgain(t) ==
  /\ At(t, "infoAgain") /\ cacheLock = Free
  /\ Proceed(t)
  /\ panicked' = (panicked \/ ~cache.info)
  /\ UNCHANGED <<client, clientLock, cache, cacheLock, agreement>>

CheckPaired(t) ==
  /\ At(t, "checkPaired") /\ cacheLock = Free
  /\ IF cache.authenticated # NoIdentity THEN Proceed(t) ELSE Continue(t, <<>>)
  /\ UNCHANGED <<client, clientLock, cache, cacheLock, agreement, panicked>>

\* Variant that keeps its guard over the update.
AppListHolding(t) ==
  /\ At(t, "appList") /\ cacheLock = Free
  /\ IF cache.authenticated = NoIdentity \/ cache.apps
     THEN Continue(t, <<>>) /\ UNCHANGED cacheLock
     ELSE Continue(t, Update \o <<"appListAgain">>) /\ cacheLock' = t
  /\ UNCHANGED <<client, clientLock, cache, agreement, panicked>>

AppList(t) ==
  /\ At(t, "appList") /\ cacheLock = Free
  /\ IF cache.authenticated = NoIdentity \/ cache.apps THEN Continue(t, <<>>)
     ELSE Continue(t, Update \o <<"appListAgain">>)
  /\ UNCHANGED <<client, clientLock, cache, cacheLock, agreement, panicked>>

AppListAgain(t) ==
  /\ At(t, "appListAgain") /\ cacheLock = Free
  /\ Proceed(t)
  /\ panicked' = (panicked \/ ~cache.apps)
  /\ UNCHANGED <<client, clientLock, cache, cacheLock, agreement>>

-----------------------------------------------------------------------------
\* Calls that change the identity

\* Variant that lets the mutex go first.
ReplaceClientUnlocked(t) ==
  /\ At(t, "replaceClient") /\ clientLock = Free
  /\ client' = local[t].id
  /\ Proceed(t)
  /\ UNCHANGED <<clientLock, cache, cacheLock, agreement, panicked>>

\* set_identity keeps the client's mutex while it waits for the cache.
ReplaceClient(t) ==
  /\ At(t, "replaceClient") /\ clientLock = Free
  /\ clientLock' = t
  /\ client' = local[t].id
  /\ Proceed(t)
  /\ UNCHANGED <<cache, cacheLock, agreement, panicked>>

\* The identities agree again, unless calls were mixed.
Agreed == IF agreement = "mixed" THEN "mixed" ELSE "agree"

SetAuthenticated(t) ==
  /\ At(t, "setAuthenticated") /\ cacheLock = Free
  /\ cache' = [cache EXCEPT !.authenticated = local[t].id]
  /\ clientLock' = Released(clientLock, t)
  /\ agreement' = Agreed
  /\ Proceed(t)
  /\ UNCHANGED <<client, cacheLock, panicked>>

\* pair_impl exchanges its requests with a client of its own, and holds no
\* lock meanwhile.  When it fails the call ends.
Pairing(t) ==
  /\ At(t, "pairing")
  /\ Proceed(t) \/ Continue(t, <<>>)
  /\ UNCHANGED <<client, clientLock, cache, cacheLock, agreement, panicked>>

Authenticate(t) ==
  /\ At(t, "authenticate") /\ cacheLock = Free
  /\ cache' = [cache EXCEPT !.authenticated = local[t].id]
  /\ Proceed(t)
  /\ UNCHANGED <<client, clientLock, cacheLock, agreement, panicked>>

TakeClient(t) ==
  /\ At(t, "takeClient") /\ clientLock = Free
  /\ client' = local[t].id
  /\ agreement' = Agreed
  /\ Proceed(t)
  /\ UNCHANGED <<clientLock, cache, cacheLock, panicked>>

\* Variant that makes is_paired() true to its name.
UnpairForgetting(t) ==
  /\ At(t, "unpair") /\ Accepted /\ cacheLock = Free
  /\ client' = NoIdentity
  /\ cache' = [cache EXCEPT !.authenticated = NoIdentity]
  /\ clientLock' = Free
  /\ agreement' = IF agreement = "mixed" THEN "mixed" ELSE "unpaired"
  /\ Proceed(t)
  /\ UNCHANGED <<cacheLock, panicked>>

\* The server forgets the client, and the host its certificates.  The cache
\* still says that the host is paired.
Unpair(t) ==
  /\ At(t, "unpair") /\ Accepted
  /\ client' = NoIdentity
  /\ clientLock' = Free
  /\ agreement' = IF agreement = "mixed" THEN "mixed" ELSE "unpaired"
  /\ Proceed(t)
  /\ UNCHANGED <<cache, cacheLock, panicked>>

-----------------------------------------------------------------------------
\* Calls that start and end a game

\* /launch when the cache knew of no game, else /resume.
Launch(t) ==
  /\ At(t, "launch") /\ Accepted
  /\ clientLock' = Free
  /\ Proceed(t)
  /\ UNCHANGED <<client, cache, cacheLock, agreement, panicked>>

\* /cancel; when the server cancelled nothing, the call ends.
CancelGame(t) ==
  /\ At(t, "cancel") /\ Accepted
  /\ clientLock' = Free
  /\ \E cancelled \in BOOLEAN : Continue(t, IF cancelled THEN Tail(todo[t]) ELSE <<>>)
  /\ UNCHANGED <<client, cache, cacheLock, agreement, panicked>>

-----------------------------------------------------------------------------

Advance(t) ==
  \/ WriteCache(t) \/ LockClient(t) \/ HttpInfo(t) \/ SecureInfo(t) \/ Apps(t)
  \/ RequestFails(t) \/ ReadInfo(t) \/ InfoAgain(t) \/ CheckPaired(t)
  \/ AppList(t) \/ AppListAgain(t)
  \/ ReplaceClient(t) \/ SetAuthenticated(t)
  \/ Pairing(t) \/ Authenticate(t) \/ TakeClient(t) \/ Unpair(t)
  \/ Launch(t) \/ CancelGame(t)

Next ==
  \E t \in Task : Begin(t) \/ Cancel(t) \/ Advance(t)

Spec == Init /\ [][Next]_vars

\* A task that waits for a lock that others keep taking and releasing gets it
\* in the end, and each request is answered or fails.
FairSpec == Spec /\ \A t \in Task : SF_vars(Advance(t))

-----------------------------------------------------------------------------

\* The unreachable!() of app_list and of server_info_priv, after an update that
\* returned Ok, are: no other call takes away in between what the update put
\* into the cache.
UnreachableNotReached == ~panicked

\* Once the calls that change the identity have returned, requests are made
\* with the certificates the cache says the host is paired with: those two
\* are set under different locks.  Overlapping calls of set_identity do no
\* harm; pair and unpair must not overlap with each other or with
\* set_identity, and none of the three may be dropped half-way.  After unpair
\* the client has no certificates.
IdentitiesAgree ==
  (agreement # "mixed" /\ \A t \in Task : local[t].call \notin IdentityCall) =>
    client = IF agreement = "unpaired" THEN NoIdentity ELSE cache.authenticated

\* start_stream decides between launch and resume, and cancel whether the game
\* has ended, by an answer of the server that came in since the call began,
\* whatever updates of other tasks succeeded or failed half-way meanwhile.
GameReadIsRecent ==
  \A t \in Task : At(t, "readGame") => local[t].recent

\* set_identity waits for the cache with the client's mutex, while update waits
\* for the client's mutex with the cache.
Crossed ==
  \E s, u \in Task : /\ At(s, "setAuthenticated") /\ clientLock = s
                     /\ At(u, "lockClient") /\ cacheLock = u

\* Every call returns, unless set_identity meets an update: this is the only
\* way in which the two locks hold up a call.
CallsReturn == \A t \in Task : todo[t] # <<>> ~> todo[t] = <<>> \/ Crossed
=============================================================================
