------------------------- MODULE MoonlightHostProofs -------------------------
(***************************************************************************)
(* The host, for any number of tasks and identities: what the code takes    *)
(* for granted after an update is so, the identities of client and cache    *)
(* agree, start_stream and cancel decide by a recent answer, and the two    *)
(* locks hold each other up in one way only.                                *)
(***************************************************************************)
EXTENDS MoonlightHost, SequenceTheorems, TLAPS

\* The steps at which a task holds the client's mutex.
Holding ==
  {"httpInfo", "secureInfo", "apps", "launch", "cancel", "unpair", "setAuthenticated"}

Step == Holding \cup
  {"writeCache", "lockClient", "readInfo", "readGame", "infoAgain", "appList", "appListAgain",
   "checkPaired", "replaceClient", "pairing", "authenticate", "takeClient"}

\* What a step tells of the one right after it, and of the one right before.
Linked(a, b) ==
  /\ b \in {"httpInfo", "launch", "cancel", "unpair"} => a = "lockClient"
  /\ b = "secureInfo" <=> a = "httpInfo"
  /\ b = "apps" <=> a = "secureInfo"
  /\ b = "setAuthenticated" <=> a = "replaceClient"
  /\ b = "takeClient" <=> a = "authenticate"

\* The steps that are never the last of a call.
Opening == {"httpInfo", "secureInfo", "replaceClient", "authenticate"}

Orderly(s) ==
  /\ s \in Seq(Step)
  /\ \A i \in 1 .. Len(s) - 1 : Linked(s[i], s[i + 1])
  /\ s # <<>> => s[Len(s)] \notin Opening

\* Wherever the one step is, the other is before it.
Preceded(s, step, first) ==
  \A i \in 1 .. Len(s) : s[i] = step => \E j \in 1 .. i - 1 : s[j] = first

Has(s, steps) == \E i \in 1 .. Len(s) : s[i] \in steps

\* What a step relies on is in the cache, or a step that brings it is to come.
Provided(s, recent, c) ==
  /\ ~c.info => Preceded(s, "infoAgain", "httpInfo")
  /\ ~c.apps => Preceded(s, "appListAgain", "apps")
  /\ c.authenticated = NoIdentity => ~Has(s, {"appListAgain"})
  /\ ~recent => Preceded(s, "readGame", "httpInfo")

\* Only the calls that may change an identity do.
Allowed(s, call, id) ==
  /\ Has(s, {"replaceClient", "setAuthenticated"}) => call = "set_identity" /\ id \in Identity
  /\ Has(s, {"authenticate", "takeClient"}) => call = "pair" /\ id \in Identity
  /\ Has(s, {"unpair"}) => call = "unpair"

-----------------------------------------------------------------------------
(* The invariant.                                                          *)

Types ==
  /\ client \in Identity \cup {NoIdentity}
  /\ cache \in [authenticated : Identity \cup {NoIdentity}, info : BOOLEAN, apps : BOOLEAN]
  /\ todo = [t \in Task |-> todo[t]]
  /\ local \in [Task -> [call : IdentityCall \cup {"none", "other"},
                         id : Identity \cup {NoIdentity}, recent : BOOLEAN]]
  /\ agreement \in {"agree", "mixed", "unpaired"}

Fits(t) ==
  /\ Orderly(todo[t])
  /\ Provided(todo[t], local[t].recent, cache)
  /\ Allowed(todo[t], local[t].call, local[t].id)

\* A task at a step that needs the client's mutex has it.
Held(t) == \A step \in Holding : At(t, step) => clientLock = t

\* A call of set_identity has changed the client, one of pair the cache, and
\* the other of the two is still to come.
Replaced(t) == At(t, "setAuthenticated")
HalfPaired(t) == At(t, "takeClient")

\* Calls that change the identity and overlap are all of set_identity.
Alone ==
  \A t \in Task : \A u \in Task \ {t} :
    local[t].call \in IdentityCall /\ local[u].call \in IdentityCall =>
      local[t].call = "set_identity" /\ local[u].call = "set_identity"

Identities ==
  agreement # "mixed" =>
    /\ Alone
    /\ \A t \in Task : Replaced(t) => client = local[t].id
    /\ \A t \in Task : HalfPaired(t) => cache.authenticated = local[t].id
    /\ (\A t \in Task : ~Replaced(t) /\ ~HalfPaired(t)) =>
         client = IF agreement = "unpaired" THEN NoIdentity ELSE cache.authenticated

HostInv ==
  Types /\ (\A t \in Task : Fits(t) /\ Held(t)) /\ Identities /\ ~panicked

-----------------------------------------------------------------------------
(* Sequences of steps.                                                     *)

LEMMA TailIndex ==
  ASSUME NEW S, NEW s \in Seq(S), s # <<>>
  PROVE  /\ Tail(s) \in Seq(S) /\ Len(s) \in Nat \ {0} /\ Len(Tail(s)) = Len(s) - 1
         /\ \A i \in 1 .. Len(s) - 1 : Tail(s)[i] = s[i + 1]
         /\ Head(s) = s[1]
<1>1. Len(s) \in Nat \ {0}  BY EmptySeq
<1>2. Head(s) = s[1]  BY <1>1
<1>3. Tail(s) \in Seq(S) /\ Len(Tail(s)) = Len(s) - 1
  BY HeadTailProperties
<1>4. \A i \in 1 .. Len(s) - 1 : Tail(s)[i] = s[i + 1]
  BY <1>3, HeadTailProperties
<1> QED  BY <1>1, <1>2, <1>3, <1>4

LEMMA OrderlyTail ==
  ASSUME NEW s, Orderly(s), s # <<>>
  PROVE  /\ Orderly(Tail(s))
         /\ Head(s) \in Step
         /\ Head(s) \in Opening => Tail(s) # <<>>
         /\ Tail(s) # <<>> => Linked(Head(s), Head(Tail(s)))
<1>1. s \in Seq(Step)  BY DEF Orderly
<1>2. /\ Tail(s) \in Seq(Step) /\ Len(s) \in Nat \ {0} /\ Len(Tail(s)) = Len(s) - 1
      /\ \A i \in 1 .. Len(s) - 1 : Tail(s)[i] = s[i + 1]
      /\ Head(s) = s[1]
  BY <1>1, TailIndex
<1>3. Tail(s) # <<>> => Len(Tail(s)) \in Nat \ {0} /\ Head(Tail(s)) = Tail(s)[1]
  BY <1>2, TailIndex
<1>4. Tail(s) = <<>> => Len(s) = 1
  BY <1>2, EmptySeq
<1>5. Orderly(Tail(s))
  <2>1. \A i \in 1 .. Len(Tail(s)) - 1 : Linked(Tail(s)[i], Tail(s)[i + 1])
    BY <1>2 DEF Orderly
  <2>2. Tail(s) # <<>> => Tail(s)[Len(Tail(s))] \notin Opening
    BY <1>2, <1>3 DEF Orderly
  <2> QED  BY <1>2, <2>1, <2>2 DEF Orderly
<1>6. Head(s) \in Step  BY <1>1, <1>2, ElementOfSeq
<1>7. Head(s) \in Opening => Tail(s) # <<>>
  BY <1>2, <1>4 DEF Orderly
<1>8. Tail(s) # <<>> => Linked(Head(s), Head(Tail(s)))
  BY <1>2, <1>3 DEF Orderly
<1> QED  BY <1>5, <1>6, <1>7, <1>8

LEMMA PrecededTail ==
  ASSUME NEW s \in Seq(Step), s # <<>>, NEW step, NEW first,
         Preceded(s, step, first), Head(s) # first
  PROVE  Preceded(Tail(s), step, first)
<1>1. /\ Len(s) \in Nat \ {0} /\ Len(Tail(s)) = Len(s) - 1 /\ Head(s) = s[1]
      /\ \A i \in 1 .. Len(s) - 1 : Tail(s)[i] = s[i + 1]
  BY TailIndex
<1> SUFFICES ASSUME NEW i \in 1 .. Len(Tail(s)), Tail(s)[i] = step
             PROVE  \E j \in 1 .. i - 1 : Tail(s)[j] = first
  BY DEF Preceded
<1>2. i + 1 \in 1 .. Len(s) /\ s[i + 1] = step  BY <1>1
<1>3. PICK j \in 1 .. i : s[j] = first  BY <1>2 DEF Preceded
<1>4. j # 1  BY <1>1, <1>3
<1>5. j - 1 \in 1 .. i - 1 /\ Tail(s)[j - 1] = s[j]
  BY <1>1, <1>4
<1> QED  BY <1>3, <1>5

LEMMA HasTail ==
  ASSUME NEW s \in Seq(Step), s # <<>>, NEW steps, Has(Tail(s), steps)
  PROVE  Has(s, steps)
<1>1. /\ Len(s) \in Nat \ {0} /\ Len(Tail(s)) = Len(s) - 1
      /\ \A i \in 1 .. Len(s) - 1 : Tail(s)[i] = s[i + 1]
  BY TailIndex
<1>2. PICK i \in 1 .. Len(Tail(s)) : Tail(s)[i] \in steps  BY DEF Has
<1>3. i + 1 \in 1 .. Len(s) /\ s[i + 1] \in steps  BY <1>1, <1>2
<1> QED  BY <1>3 DEF Has

LEMMA HasHead ==
  ASSUME NEW s \in Seq(Step), s # <<>>, NEW steps, Head(s) \in steps
  PROVE  Has(s, steps)
  BY TailIndex DEF Has

\* A call that updates first.
LEMMA UpdateFirst ==
  ASSUME NEW s, Orderly(s), s # <<>> => Linked("apps", Head(s))
  PROVE  /\ Orderly(Update \o s) /\ Update \o s # <<>>
         /\ Head(Update \o s) = "writeCache"
         /\ \A step \in {"infoAgain", "appListAgain", "readGame"} :
              /\ Preceded(Update \o s, step, "httpInfo")
              /\ Preceded(Update \o s, step, "apps")
         /\ \A steps : Has(Update \o s, steps) =>
              Has(s, steps) \/ \E step \in steps : Has(Update, {step})
<1> DEFINE u == Update \o s
<1>1. s \in Seq(Step)  BY DEF Orderly
<1>2. Update \in Seq(Step) /\ Len(Update) = 5
  BY DEF Update, Step, Holding
<1>3. /\ u \in Seq(Step) /\ Len(u) = 5 + Len(s) /\ Len(s) \in Nat
      /\ \A i \in 1 .. Len(u) : u[i] = IF i <= 5 THEN Update[i] ELSE s[i - 5]
  <2>1. Len(s) \in Nat  BY <1>1, LenProperties
  <2>2. /\ u \in Seq(Step) /\ Len(u) = Len(Update) + Len(s)
        /\ \A i \in 1 .. Len(Update) + Len(s) :
             u[i] = IF i <= Len(Update) THEN Update[i] ELSE s[i - Len(Update)]
    BY <1>1, <1>2, ConcatProperties
  <2> HIDE DEF u
  <2> QED  BY <1>2, <2>1, <2>2
<1>4. /\ u[1] = "writeCache" /\ u[2] = "lockClient" /\ u[3] = "httpInfo"
      /\ u[4] = "secureInfo" /\ u[5] = "apps"
  BY <1>3 DEF Update
<1>5. s # <<>> => Head(s) = s[1] /\ Len(s) > 0
  BY <1>1, TailIndex
<1>6. s = <<>> => Len(s) = 0
  OBVIOUS
<1> HIDE DEF u
<1>7. Orderly(u)
  <2>1. \A i \in 1 .. Len(u) - 1 : Linked(u[i], u[i + 1])
    <3> SUFFICES ASSUME NEW i \in 1 .. Len(u) - 1 PROVE Linked(u[i], u[i + 1])
      OBVIOUS
    <3>1. CASE i < 5
      <4>1. i = 1 \/ i = 2 \/ i = 3 \/ i = 4  BY <3>1, <1>3
      <4> QED  BY <4>1, <1>4 DEF Linked
    <3>2. CASE i = 5
      <4>1. s # <<>> /\ u[6] = s[1]  BY <3>2, <1>3, <1>6
      <4> QED  BY <4>1, <3>2, <1>4, <1>5
    <3>3. CASE i > 5
      <4>1. u[i] = s[i - 5] /\ u[i + 1] = s[i - 4] /\ i - 5 \in 1 .. Len(s) - 1
        BY <3>3, <1>3
      <4>2. Linked(s[i - 5], s[(i - 5) + 1])  BY <4>1 DEF Orderly
      <4> QED  BY <4>1, <4>2
    <3> QED  BY <3>1, <3>2, <3>3
  <2>2. u[Len(u)] \notin Opening
    <3>1. CASE s = <<>>
      BY <3>1, <1>3, <1>4, <1>6 DEF Opening
    <3>2. CASE s # <<>>
      <4>1. u[Len(u)] = s[Len(s)]  BY <3>2, <1>3, <1>5
      <4> QED  BY <4>1, <3>2 DEF Orderly
    <3> QED  BY <3>1, <3>2
  <2> QED  BY <1>3, <2>1, <2>2 DEF Orderly
<1>8. \A step \in {"infoAgain", "appListAgain", "readGame"} :
        Preceded(u, step, "httpInfo") /\ Preceded(u, step, "apps")
  <2> SUFFICES ASSUME NEW step \in {"infoAgain", "appListAgain", "readGame"},
                      NEW i \in 1 .. Len(u), u[i] = step
               PROVE  /\ \E j \in 1 .. i - 1 : u[j] = "httpInfo"
                      /\ \E j \in 1 .. i - 1 : u[j] = "apps"
    BY DEF Preceded
  <2>1. i > 5
    <3>1. i # 1 /\ i # 2 /\ i # 3 /\ i # 4 /\ i # 5  BY <1>4
    <3> QED  BY <3>1, <1>3
  <2>2. 3 \in 1 .. i - 1 /\ 5 \in 1 .. i - 1  BY <2>1, <1>3
  <2> QED  BY <2>2, <1>4
<1>9. \A steps : Has(u, steps) => Has(s, steps) \/ \E step \in steps : Has(Update, {step})
  <2> SUFFICES ASSUME NEW steps, Has(u, steps)
               PROVE  Has(s, steps) \/ \E step \in steps : Has(Update, {step})
    OBVIOUS
  <2>1. PICK i \in 1 .. Len(u) : u[i] \in steps  BY DEF Has
  <2>2. CASE i <= 5
    <3>1. i \in 1 .. Len(Update) /\ Update[i] = u[i]  BY <2>2, <1>2, <1>3
    <3>2. Has(Update, {u[i]})  BY <3>1 DEF Has
    <3> QED  BY <2>1, <3>2
  <2>3. CASE i > 5
    <3>1. i - 5 \in 1 .. Len(s) /\ s[i - 5] \in steps  BY <2>1, <2>3, <1>3
    <3> QED  BY <3>1 DEF Has
  <2>4. i <= 5 \/ i > 5  BY <1>3
  <2> QED  BY <2>2, <2>3, <2>4
<1>10. u # <<>> /\ Head(u) = "writeCache"
  BY <1>3, <1>4, TailIndex, EmptySeq
<1> QED  BY <1>7, <1>8, <1>9, <1>10 DEF u

-----------------------------------------------------------------------------
(* What a call relies on, from one step to the next.                       *)

LEMMA NothingLeft ==
  ASSUME NEW recent, NEW c, NEW call, NEW id
  PROVE  Orderly(<<>>) /\ Provided(<<>>, recent, c) /\ Allowed(<<>>, call, id)
<1>1. <<>> \in Seq(Step) /\ Len(<<>>) = 0  BY EmptySeq
<1> QED  BY <1>1 DEF Orderly, Provided, Allowed, Preceded, Has

LEMMA NextProvided ==
  ASSUME NEW s, Orderly(s), s # <<>>, NEW recent, NEW c, Provided(s, recent, c),
         Head(s) \notin {"httpInfo", "apps"}
  PROVE  Provided(Tail(s), recent, c)
<1>1. s \in Seq(Step)  BY DEF Orderly
<1> QED  BY <1>1, PrecededTail, HasTail DEF Provided

LEMMA NextAllowed ==
  ASSUME NEW s, Orderly(s), s # <<>>, NEW call, NEW id, Allowed(s, call, id)
  PROVE  Allowed(Tail(s), call, id)
<1>1. s \in Seq(Step)  BY DEF Orderly
<1> QED  BY <1>1, HasTail DEF Allowed

\* After the answers of the server.
LEMMA InfoProvided ==
  ASSUME NEW s, Orderly(s), s # <<>>, NEW recent, NEW c, Provided(s, recent, c),
         Head(s) = "httpInfo"
  PROVE  Provided(Tail(s), TRUE, [c EXCEPT !.info = TRUE])
<1>1. s \in Seq(Step)  BY DEF Orderly
<1> QED  BY <1>1, PrecededTail, HasTail DEF Provided

LEMMA AppsProvided ==
  ASSUME NEW s, Orderly(s), s # <<>>, NEW recent, NEW c, Provided(s, recent, c),
         Head(s) = "apps"
  PROVE  Provided(Tail(s), recent, [c EXCEPT !.apps = TRUE])
<1>1. s \in Seq(Step)  BY DEF Orderly
<1> QED  BY <1>1, PrecededTail, HasTail DEF Provided

\* A cache that has lost nothing, but the list of apps before the pairing.
LEMMA StillProvided ==
  ASSUME NEW s, NEW recent, NEW more, recent => more, NEW c, NEW d, Provided(s, recent, c),
         c.info => d.info, d.authenticated = NoIdentity => c.authenticated = NoIdentity,
         c.apps => d.apps \/ c.authenticated = NoIdentity
  PROVE  Provided(s, more, d)
<1>1. ~Has(s, {"appListAgain"}) => Preceded(s, "appListAgain", "apps")
  BY DEF Has, Preceded
<1> QED  BY <1>1 DEF Provided

\* A call that updates first needs nothing of the cache but the identity.
LEMMA UpdateProvides ==
  ASSUME NEW s, Orderly(s), s # <<>> => Linked("apps", Head(s)), NEW recent, NEW c,
         c.authenticated = NoIdentity => ~Has(s, {"appListAgain"})
  PROVE  /\ Orderly(Update \o s) /\ Update \o s # <<>>
         /\ Head(Update \o s) = "writeCache"
         /\ Provided(Update \o s, recent, c)
         /\ \A call, id : Allowed(s, call, id) => Allowed(Update \o s, call, id)
<1>1. \A step \in {"appListAgain", "replaceClient", "setAuthenticated", "authenticate",
                   "takeClient", "unpair"} : ~Has(Update, {step})
  <2>1. Len(Update) = 5  BY DEF Update
  <2>2. \A i \in 1 .. 5 :
          Update[i] \in {"writeCache", "lockClient", "httpInfo", "secureInfo", "apps"}
    <3> SUFFICES ASSUME NEW i \in 1 .. 5
                 PROVE  Update[i] \in {"writeCache", "lockClient", "httpInfo", "secureInfo", "apps"}
      OBVIOUS
    <3>1. i = 1 \/ i = 2 \/ i = 3 \/ i = 4 \/ i = 5  OBVIOUS
    <3> QED  BY <3>1 DEF Update
  <2> QED  BY <2>1, <2>2 DEF Has
<1>2. \A steps : steps \subseteq {"appListAgain", "replaceClient", "setAuthenticated",
                                 "authenticate", "takeClient", "unpair"} =>
        (Has(Update \o s, steps) => Has(s, steps))
  BY <1>1, UpdateFirst
<1>3. Provided(Update \o s, recent, c)
  <2>1. ~Has(s, {"appListAgain"}) => ~Has(Update \o s, {"appListAgain"})  BY <1>2
  <2> QED  BY <2>1, UpdateFirst DEF Provided
<1>4. \A call, id : Allowed(s, call, id) => Allowed(Update \o s, call, id)
  <2>1. Has(Update \o s, {"replaceClient", "setAuthenticated"}) =>
          Has(s, {"replaceClient", "setAuthenticated"})  BY <1>2
  <2>2. Has(Update \o s, {"authenticate", "takeClient"}) =>
          Has(s, {"authenticate", "takeClient"})  BY <1>2
  <2>3. Has(Update \o s, {"unpair"}) => Has(s, {"unpair"})  BY <1>2
  <2> QED  BY <2>1, <2>2, <2>3 DEF Allowed
<1> QED  BY <1>3, <1>4, UpdateFirst

-----------------------------------------------------------------------------
(* The calls.                                                              *)

\* A call that updates after other steps.
LEMMA UpdateLast ==
  ASSUME NEW s \in Seq(Step)
  PROVE  /\ s \o Update \in Seq(Step) /\ Len(s \o Update) = Len(s) + 5
         /\ \A i \in 1 .. Len(s) : (s \o Update)[i] = s[i]
         /\ (s \o Update)[Len(s) + 1] = "writeCache"
         /\ (s \o Update)[Len(s) + 2] = "lockClient"
         /\ (s \o Update)[Len(s) + 3] = "httpInfo"
         /\ (s \o Update)[Len(s) + 4] = "secureInfo"
         /\ (s \o Update)[Len(s) + 5] = "apps"
<1> DEFINE u == s \o Update
<1>1. Update \in Seq(Step) /\ Len(Update) = 5 /\ Len(s) \in Nat
  BY LenProperties DEF Update, Step, Holding
<1>2. /\ u \in Seq(Step) /\ Len(u) = Len(s) + Len(Update)
      /\ \A i \in 1 .. Len(s) + Len(Update) :
           u[i] = IF i <= Len(s) THEN s[i] ELSE Update[i - Len(s)]
  BY <1>1, ConcatProperties
<1> HIDE DEF u
<1>3. /\ u \in Seq(Step) /\ Len(u) = Len(s) + 5
      /\ \A i \in 1 .. Len(s) + 5 : u[i] = IF i <= Len(s) THEN s[i] ELSE Update[i - Len(s)]
  BY <1>1, <1>2
<1>4. \A i \in 1 .. Len(s) : u[i] = s[i]  BY <1>1, <1>3
<1>5. \A k \in 1 .. 5 : u[Len(s) + k] = Update[k]
  <2> SUFFICES ASSUME NEW k \in 1 .. 5 PROVE u[Len(s) + k] = Update[k]
    OBVIOUS
  <2>1. Len(s) + k \in 1 .. Len(s) + 5 /\ ~(Len(s) + k <= Len(s)) /\ (Len(s) + k) - Len(s) = k
    BY <1>1
  <2> QED  BY <1>3, <2>1
<1> QED  BY <1>3, <1>4, <1>5 DEF u, Update

\* What a call has to be for it to begin.
Begins(s, call, id) ==
  /\ Orderly(s) /\ s # <<>>
  /\ Head(s) \notin Holding \cup {"takeClient"}
  /\ ~Has(s, {"infoAgain", "appListAgain"})
  /\ Preceded(s, "readGame", "httpInfo")
  /\ Allowed(s, IF call \in IdentityCall THEN call ELSE "other", id)

LEMMA UpdateBegins ==
  ASSUME NEW id  PROVE Begins(Steps.update, "update", id)
<1>1. Steps.update = Update  BY DEF Steps
<1>2. /\ Update \in Seq(Step) /\ Update # <<>> /\ Len(Update) = 5
      /\ Update[1] = "writeCache" /\ Update[2] = "lockClient" /\ Update[3] = "httpInfo"
      /\ Update[4] = "secureInfo" /\ Update[5] = "apps"
  BY DEF Update, Step, Holding
<1>3. \A i \in 1 .. 5 : i = 1 \/ i = 2 \/ i = 3 \/ i = 4 \/ i = 5  OBVIOUS
<1>4. Orderly(Update)
  BY <1>2, <1>3 DEF Orderly, Linked, Opening
<1>5. Head(Update) = "writeCache"  BY <1>2, TailIndex
<1> QED
  BY <1>1, <1>2, <1>3, <1>4, <1>5
     DEF Begins, Has, Preceded, Allowed, IdentityCall, Holding

LEMMA SetIdentityBegins ==
  ASSUME NEW id \in Identity  PROVE Begins(Steps.set_identity, "set_identity", id)
<1> DEFINE p == <<"replaceClient", "setAuthenticated">>
           s == p \o Update
<1>1. Steps.set_identity = s  BY DEF Steps
<1>2. p \in Seq(Step) /\ Len(p) = 2 /\ p[1] = "replaceClient" /\ p[2] = "setAuthenticated"
  BY DEF Step, Holding
<1> HIDE DEF p
<1>3. /\ s \in Seq(Step) /\ Len(s) = 7
      /\ s[1] = "replaceClient" /\ s[2] = "setAuthenticated" /\ s[3] = "writeCache"
      /\ s[4] = "lockClient" /\ s[5] = "httpInfo" /\ s[6] = "secureInfo" /\ s[7] = "apps"
  <2>1. /\ s \in Seq(Step) /\ Len(s) = Len(p) + 5 /\ \A i \in 1 .. Len(p) : s[i] = p[i]
        /\ s[Len(p) + 1] = "writeCache" /\ s[Len(p) + 2] = "lockClient" /\ s[Len(p) + 3] = "httpInfo"
        /\ s[Len(p) + 4] = "secureInfo" /\ s[Len(p) + 5] = "apps"
    BY <1>2, UpdateLast
  <2> HIDE DEF s
  <2> QED  BY <1>2, <2>1
<1> HIDE DEF s
<1>4. \A i \in 1 .. 7 : i = 1 \/ i = 2 \/ i = 3 \/ i = 4 \/ i = 5 \/ i = 6 \/ i = 7  OBVIOUS
<1>5. s # <<>> /\ Head(s) = "replaceClient"  BY <1>3, TailIndex, EmptySeq
<1>6. Orderly(s)
  BY <1>3, <1>4 DEF Orderly, Linked, Opening
<1> QED
  BY <1>1, <1>3, <1>4, <1>5, <1>6
     DEF Begins, Has, Preceded, Allowed, IdentityCall, Holding

LEMMA PairBegins ==
  ASSUME NEW id \in Identity  PROVE Begins(Steps.pair, "pair", id)
<1> DEFINE p == <<"readInfo", "pairing", "authenticate", "takeClient">>
           s == p \o Update
<1>1. Steps.pair = s  BY DEF Steps
<1>2. /\ p \in Seq(Step) /\ Len(p) = 4 /\ p[1] = "readInfo" /\ p[2] = "pairing"
      /\ p[3] = "authenticate" /\ p[4] = "takeClient"
  BY DEF Step, Holding
<1> HIDE DEF p
<1>3. /\ s \in Seq(Step) /\ Len(s) = 9 /\ s[1] = "readInfo" /\ s[2] = "pairing"
      /\ s[3] = "authenticate" /\ s[4] = "takeClient" /\ s[5] = "writeCache"
      /\ s[6] = "lockClient" /\ s[7] = "httpInfo" /\ s[8] = "secureInfo" /\ s[9] = "apps"
  <2>1. /\ s \in Seq(Step) /\ Len(s) = Len(p) + 5 /\ \A i \in 1 .. Len(p) : s[i] = p[i]
        /\ s[Len(p) + 1] = "writeCache" /\ s[Len(p) + 2] = "lockClient" /\ s[Len(p) + 3] = "httpInfo"
        /\ s[Len(p) + 4] = "secureInfo" /\ s[Len(p) + 5] = "apps"
    BY <1>2, UpdateLast
  <2> HIDE DEF s
  <2> QED  BY <1>2, <2>1
<1> HIDE DEF s
<1>4. \A i \in 1 .. 9 : \/ i = 1 \/ i = 2 \/ i = 3 \/ i = 4 \/ i = 5
                        \/ i = 6 \/ i = 7 \/ i = 8 \/ i = 9
  OBVIOUS
<1>5. s # <<>> /\ Head(s) = "readInfo"  BY <1>3, TailIndex, EmptySeq
<1>6. Orderly(s)
  BY <1>3, <1>4 DEF Orderly, Linked, Opening
<1> QED
  BY <1>1, <1>3, <1>4, <1>5, <1>6
     DEF Begins, Has, Preceded, Allowed, IdentityCall, Holding

LEMMA CancelBegins ==
  ASSUME NEW id  PROVE Begins(Steps.cancel, "cancel", id)
<1> DEFINE p == <<"checkPaired", "readInfo", "lockClient", "cancel">>
           u == p \o Update
           e == <<"readGame">>
           s == u \o e
<1>1. Steps.cancel = s  BY DEF Steps
<1>2. /\ p \in Seq(Step) /\ Len(p) = 4 /\ p[1] = "checkPaired" /\ p[2] = "readInfo"
      /\ p[3] = "lockClient" /\ p[4] = "cancel"
  BY DEF Step, Holding
<1>3. e \in Seq(Step) /\ Len(e) = 1 /\ e[1] = "readGame"
  BY DEF Step
<1> HIDE DEF p, e
<1>4. /\ u \in Seq(Step) /\ Len(u) = 9 /\ u[1] = "checkPaired" /\ u[2] = "readInfo"
      /\ u[3] = "lockClient" /\ u[4] = "cancel" /\ u[5] = "writeCache"
      /\ u[6] = "lockClient" /\ u[7] = "httpInfo" /\ u[8] = "secureInfo" /\ u[9] = "apps"
  <2>1. /\ u \in Seq(Step) /\ Len(u) = Len(p) + 5 /\ \A i \in 1 .. Len(p) : u[i] = p[i]
        /\ u[Len(p) + 1] = "writeCache" /\ u[Len(p) + 2] = "lockClient" /\ u[Len(p) + 3] = "httpInfo"
        /\ u[Len(p) + 4] = "secureInfo" /\ u[Len(p) + 5] = "apps"
    BY <1>2, UpdateLast
  <2> HIDE DEF u
  <2> QED  BY <1>2, <2>1
<1> HIDE DEF u
<1>5. /\ s \in Seq(Step) /\ Len(s) = 10
      /\ \A i \in 1 .. 10 : s[i] = IF i <= 9 THEN u[i] ELSE e[i - 9]
  <2>1. /\ s \in Seq(Step) /\ Len(s) = Len(u) + Len(e)
        /\ \A i \in 1 .. Len(u) + Len(e) : s[i] = IF i <= Len(u) THEN u[i] ELSE e[i - Len(u)]
    BY <1>3, <1>4, ConcatProperties
  <2> HIDE DEF s
  <2> QED  BY <1>3, <1>4, <2>1
<1> HIDE DEF s
<1>6. /\ s[1] = "checkPaired" /\ s[2] = "readInfo" /\ s[3] = "lockClient"
      /\ s[4] = "cancel" /\ s[5] = "writeCache" /\ s[6] = "lockClient"
      /\ s[7] = "httpInfo" /\ s[8] = "secureInfo" /\ s[9] = "apps" /\ s[10] = "readGame"
  BY <1>3, <1>4, <1>5
<1>7. \A i \in 1 .. 10 : \/ i = 1 \/ i = 2 \/ i = 3 \/ i = 4 \/ i = 5
                         \/ i = 6 \/ i = 7 \/ i = 8 \/ i = 9 \/ i = 10
  OBVIOUS
<1>8. s # <<>> /\ Head(s) = "checkPaired"
  <2>1. s # <<>>
    <3>1. Len(s) = 10  BY <1>5
    <3>2. Len(<<>>) = 0  BY EmptySeq
    <3> QED  BY <3>1, <3>2
  <2>2. Head(s) = s[1]  BY <1>5, <2>1, TailIndex
  <2> QED  BY <1>6, <2>1, <2>2
<1>9. Orderly(s)
  BY <1>5, <1>6, <1>7 DEF Orderly, Linked, Opening
<1>10. Preceded(s, "readGame", "httpInfo")
  <2>1. 7 \in 1 .. 10 - 1  OBVIOUS
  <2> QED  BY <1>5, <1>6, <1>7, <2>1 DEF Preceded
<1> QED
  BY <1>1, <1>5, <1>6, <1>7, <1>8, <1>9, <1>10
     DEF Begins, Has, Allowed, IdentityCall, Holding

LEMMA UnpairBegins ==
  ASSUME NEW id  PROVE Begins(Steps.unpair, "unpair", id)
<1> DEFINE s == <<"checkPaired", "readInfo", "lockClient", "unpair">>
<1>1. Steps.unpair = s  BY DEF Steps
<1>2. /\ s \in Seq(Step) /\ s # <<>> /\ Len(s) = 4 /\ s[1] = "checkPaired"
      /\ s[2] = "readInfo" /\ s[3] = "lockClient" /\ s[4] = "unpair"
  BY DEF Step, Holding
<1> HIDE DEF s
<1>3. \A i \in 1 .. 4 : i = 1 \/ i = 2 \/ i = 3 \/ i = 4  OBVIOUS
<1>4. Head(s) = "checkPaired"  BY <1>2, TailIndex
<1>5. Orderly(s)
  BY <1>2, <1>3 DEF Orderly, Linked, Opening
<1> QED
  BY <1>1, <1>2, <1>3, <1>4, <1>5
     DEF Begins, Has, Preceded, Allowed, IdentityCall, Holding

LEMMA StartStreamBegins ==
  ASSUME NEW id  PROVE Begins(Steps.start_stream, "start_stream", id)
<1> DEFINE s == <<"readInfo", "readGame", "lockClient", "launch", "readInfo">>
<1>1. Steps.start_stream = Update \o s  BY DEF Steps, StartStream
<1>2. /\ s \in Seq(Step) /\ s # <<>> /\ Len(s) = 5 /\ s[1] = "readInfo" /\ s[2] = "readGame"
      /\ s[3] = "lockClient" /\ s[4] = "launch" /\ s[5] = "readInfo"
  BY DEF Step, Holding
<1> HIDE DEF s
<1>3. \A i \in 1 .. 5 : i = 1 \/ i = 2 \/ i = 3 \/ i = 4 \/ i = 5  OBVIOUS
<1>4. Head(s) = "readInfo"  BY <1>2, TailIndex
<1>5. Orderly(s)
  BY <1>2, <1>3 DEF Orderly, Linked, Opening
<1>6. Linked("apps", Head(s))  BY <1>4 DEF Linked
<1>7. /\ ~Has(s, {"appListAgain"}) /\ ~Has(s, {"infoAgain", "appListAgain"})
      /\ Allowed(s, "other", id)
  BY <1>2, <1>3 DEF Has, Allowed
<1>8. ~Has(Update, {"infoAgain"}) /\ ~Has(Update, {"appListAgain"})
  BY UpdateBegins DEF Begins, Has, Steps
<1>9. ~Has(Update \o s, {"infoAgain", "appListAgain"})
  BY <1>5, <1>6, <1>7, <1>8, UpdateFirst
<1>10. Preceded(Update \o s, "readGame", "httpInfo")
  BY <1>5, <1>6, UpdateFirst
<1>11. Allowed(Update \o s, "other", id)
  BY <1>5, <1>6, <1>7, UpdateProvides
<1>12. /\ Orderly(Update \o s) /\ Update \o s # <<>> /\ Head(Update \o s) = "writeCache"
  BY <1>5, <1>6, UpdateFirst
<1> QED
  BY <1>1, <1>9, <1>10, <1>11, <1>12 DEF Begins, IdentityCall, Holding

LEMMA ReadBegins ==
  ASSUME NEW id
  PROVE  Begins(Steps.info, "info", id) /\ Begins(Steps.app_list, "app_list", id)
<1> SUFFICES ASSUME NEW step \in {"readInfo", "appList"}, NEW call \in {"info", "app_list"}
             PROVE  Begins(<<step>>, call, id)
  BY DEF Steps
<1>1. /\ <<step>> \in Seq(Step) /\ <<step>> # <<>> /\ Len(<<step>>) = 1
      /\ <<step>>[1] = step
  BY DEF Step
<1>2. Head(<<step>>) = step  BY <1>1, TailIndex
<1>3. Orderly(<<step>>)
  BY <1>1 DEF Orderly, Opening
<1> QED
  BY <1>1, <1>2, <1>3 DEF Begins, Has, Preceded, Allowed, IdentityCall, Holding

LEMMA CallBegins ==
  ASSUME NEW call \in Call, NEW id \in Identity \cup {NoIdentity},
         call \in {"set_identity", "pair"} <=> id # NoIdentity
  PROVE  Begins(Steps[call], call, id)
<1>1. call \in {"update", "info", "app_list", "set_identity", "pair", "unpair",
               "start_stream", "cancel"}
  BY DEF Call, Steps
<1>2. CASE call = "update"  BY <1>2, UpdateBegins
<1>3. CASE call \in {"info", "app_list"}  BY <1>3, ReadBegins
<1>4. CASE call = "set_identity"  BY <1>4, SetIdentityBegins
<1>5. CASE call = "pair"  BY <1>5, PairBegins
<1>6. CASE call = "unpair"  BY <1>6, UnpairBegins
<1>7. CASE call = "start_stream"  BY <1>7, StartStreamBegins
<1>8. CASE call = "cancel"  BY <1>8, CancelBegins
<1> QED  BY <1>1, <1>2, <1>3, <1>4, <1>5, <1>6, <1>7, <1>8

-----------------------------------------------------------------------------
(* The steps of a task.                                                    *)

LEMMA HostInvInit == Init => HostInv
<1> SUFFICES ASSUME Init PROVE HostInv
  OBVIOUS
<1>1. Types
  BY DEF Init, Types, Resting
<1>2. \A t \in Task : todo[t] = <<>> /\ local[t] = Resting
  BY DEF Init
<1>3. \A t \in Task : Fits(t)
  BY <1>2, NothingLeft DEF Fits
<1>4. \A t \in Task : Held(t)
  BY <1>2 DEF Held, At
<1>5. Identities
  BY <1>2 DEF Init, Identities, Alone, Replaced, HalfPaired, At, Resting, IdentityCall
<1> QED  BY <1>1, <1>3, <1>4, <1>5 DEF HostInv, Init

\* What is in the cache stays there, but for the list of apps before the pairing.
CacheKept ==
  /\ cache' \in [authenticated : Identity \cup {NoIdentity}, info : BOOLEAN, apps : BOOLEAN]
  /\ cache.info => cache'.info
  /\ cache'.authenticated = NoIdentity => cache.authenticated = NoIdentity
  /\ cache.apps => cache'.apps \/ cache.authenticated = NoIdentity

LEMMA Continued ==
  ASSUME Types, NEW t \in Task, NEW s, Continue(t, s)
  PROVE  /\ todo' = [u \in Task |-> todo'[u]]
         /\ todo'[t] = s
         /\ local'[t] = IF s = <<>> THEN Resting ELSE local[t]
         /\ \A u \in Task \ {t} : todo'[u] = todo[u] /\ local'[u] = local[u]
         /\ local' \in [Task -> [call : IdentityCall \cup {"none", "other"},
                                id : Identity \cup {NoIdentity}, recent : BOOLEAN]]
<1>1. Resting \in [call : IdentityCall \cup {"none", "other"},
                  id : Identity \cup {NoIdentity}, recent : BOOLEAN]
  BY DEF Resting
<1>2. todo' = [todo EXCEPT ![t] = s]  BY DEF Continue
<1>3. todo' = [u \in Task |-> todo'[u]]
  BY <1>2 DEF Types
<1>4. todo'[t] = s /\ \A u \in Task \ {t} : todo'[u] = todo[u]
  BY <1>2 DEF Types
<1> QED  BY <1>1, <1>3, <1>4 DEF Continue, Types

LEMMA ContinuedFits ==
  ASSUME Types, \A u \in Task : Fits(u), NEW t \in Task, NEW s, Continue(t, s), CacheKept,
         Orderly(s), Provided(s, local[t].recent, cache'),
         Allowed(s, local[t].call, local[t].id)
  PROVE  \A u \in Task : Fits(u)'
<1>1. \A u \in Task \ {t} : Fits(u)'
  BY Continued, StillProvided DEF Fits, CacheKept
<1>2. CASE s = <<>>
  <2>1. todo'[t] = <<>>  BY <1>2, Continued
  <2>2. Fits(t)'  BY <2>1, NothingLeft DEF Fits
  <2> QED  BY <1>1, <2>2
<1>3. CASE s # <<>>
  <2>1. todo'[t] = s /\ local'[t] = local[t]  BY <1>3, Continued
  <2>2. Fits(t)'  BY <2>1 DEF Fits
  <2> QED  BY <1>1, <2>2
<1> QED  BY <1>2, <1>3

\* The mutex is let go by its holder only, and taken only when it is free.
LEMMA StillHeld ==
  ASSUME \A u \in Task : Held(u), NEW t \in Task, NEW s, todo'[t] = s,
         \A u \in Task \ {t} : todo'[u] = todo[u],
         clientLock' = clientLock \/ clientLock = Free \/ clientLock = t,
         s # <<>> /\ Head(s) \in Holding => clientLock' = t
  PROVE  \A u \in Task : Held(u)'
<1>1. Held(t)'  BY DEF Held, At
<1>2. ASSUME NEW u \in Task \ {t} PROVE Held(u)'
  <2> SUFFICES ASSUME NEW step \in Holding, At(u, step)' PROVE clientLock' = u
    BY DEF Held
  <2>1. At(u, step)  BY DEF At
  <2>2. clientLock = u  BY <2>1 DEF Held
  <2> QED  BY <2>2, HostAssumption
<1> QED  BY <1>1, <1>2

\* A step that changes no identity.
LEMMA OrdinaryStep ==
  ASSUME HostInv, NEW t \in Task, NEW s, Continue(t, s),
         CacheKept, cache'.authenticated = cache.authenticated,
         client' = client, agreement' \in {agreement, "mixed"},
         agreement' # "mixed" => ~Replaced(t) /\ ~HalfPaired(t),
         Orderly(s), Provided(s, local[t].recent, cache'),
         Allowed(s, local[t].call, local[t].id),
         s # <<>> => Head(s) \notin {"setAuthenticated", "takeClient"},
         clientLock' = clientLock \/ clientLock = Free \/ clientLock = t,
         s # <<>> /\ Head(s) \in Holding => clientLock' = t,
         ~panicked'
  PROVE  HostInv'
<1>1. /\ todo'[t] = s
      /\ \A u \in Task \ {t} : todo'[u] = todo[u] /\ local'[u] = local[u]
      /\ local'[t] = IF s = <<>> THEN Resting ELSE local[t]
  BY Continued DEF HostInv
<1>2. Types'
  BY Continued DEF HostInv, Types, CacheKept
<1>3. \A u \in Task : Fits(u)'
  BY ContinuedFits DEF HostInv
<1>4. \A u \in Task : Held(u)'
  BY <1>1, StillHeld DEF HostInv
<1>5. Identities'
  <2> SUFFICES ASSUME agreement' # "mixed" PROVE Identities'
    BY DEF Identities
  <2>1. agreement' = agreement /\ agreement # "mixed"  OBVIOUS
  <2>2. \A u \in Task : (Replaced(u)' <=> Replaced(u)) /\ (HalfPaired(u)' <=> HalfPaired(u))
    BY <1>1 DEF Replaced, HalfPaired, At
  <2>3. \A u \in Task : Replaced(u) \/ HalfPaired(u) => u # t
    OBVIOUS
  <2>4. Alone'
    BY <1>1, <2>1 DEF HostInv, Identities, Alone, Resting, IdentityCall
  <2> QED
    BY <1>1, <2>1, <2>2, <2>3, <2>4 DEF HostInv, Identities
<1> QED  BY <1>2, <1>3, <1>4, <1>5 DEF HostInv

LEMMA CacheStays ==
  ASSUME Types, UNCHANGED cache
  PROVE  CacheKept
  BY DEF Types, CacheKept

\* The step a task is at, and the one after it.
LEMMA HeadAndNext ==
  ASSUME HostInv, NEW t \in Task, todo[t] # <<>>
  PROVE  /\ Orderly(todo[t]) /\ Orderly(Tail(todo[t]))
         /\ Allowed(Tail(todo[t]), local[t].call, local[t].id)
         /\ Tail(todo[t]) # <<>> => Linked(Head(todo[t]), Head(Tail(todo[t])))
         /\ Head(todo[t]) \in Opening => Tail(todo[t]) # <<>>
         /\ Head(todo[t]) \notin {"httpInfo", "apps"} =>
              Provided(Tail(todo[t]), local[t].recent, cache)
         /\ Head(todo[t]) \in Holding => clientLock = t
<1>1. Orderly(todo[t]) /\ Provided(todo[t], local[t].recent, cache)
      /\ Allowed(todo[t], local[t].call, local[t].id)
  BY DEF HostInv, Fits
<1>2. Head(todo[t]) \in Holding => clientLock = t
  BY DEF HostInv, Held, At
<1> QED  BY <1>1, <1>2, OrderlyTail, NextAllowed, NextProvided

\* The next step, when nothing is changed but the locks.
LEMMA ProceedStep ==
  ASSUME HostInv, NEW t \in Task, todo[t] # <<>>, Proceed(t),
         Head(todo[t]) \notin {"httpInfo", "apps", "replaceClient", "setAuthenticated",
                               "authenticate", "takeClient"},
         UNCHANGED <<client, cache, agreement>>, ~panicked',
         clientLock' = clientLock \/ clientLock = Free \/ clientLock = t,
         Head(todo[t]) \in {"lockClient", "secureInfo"} => clientLock' = t
  PROVE  HostInv'
<1>1. CacheKept  BY CacheStays DEF HostInv
<1>2. ~Replaced(t) /\ ~HalfPaired(t)  BY DEF Replaced, HalfPaired, At
<1>3. Continue(t, Tail(todo[t]))  BY DEF Proceed
<1>4. /\ Orderly(Tail(todo[t])) /\ Allowed(Tail(todo[t]), local[t].call, local[t].id)
      /\ Provided(Tail(todo[t]), local[t].recent, cache)
      /\ Tail(todo[t]) # <<>> => Linked(Head(todo[t]), Head(Tail(todo[t])))
  BY HeadAndNext
<1>5. Tail(todo[t]) # <<>> => Head(Tail(todo[t])) \notin {"setAuthenticated", "takeClient"}
  BY <1>4 DEF Linked
<1>6. Tail(todo[t]) # <<>> /\ Head(Tail(todo[t])) \in Holding => clientLock' = t
  BY <1>4 DEF Linked, Holding
<1>7. Provided(Tail(todo[t]), local[t].recent, cache')  BY <1>4
<1> QED  BY <1>1, <1>2, <1>3, <1>4, <1>5, <1>6, <1>7, OrdinaryStep

\* The end of a call that changes no identity any more.
LEMMA EndStep ==
  ASSUME HostInv, NEW t \in Task, Continue(t, <<>>), UNCHANGED <<client, cache>>, ~panicked',
         agreement' \in {agreement, "mixed"},
         agreement' # "mixed" => ~Replaced(t) /\ ~HalfPaired(t),
         clientLock' = clientLock \/ clientLock = t
  PROVE  HostInv'
<1>1. CacheKept  BY CacheStays DEF HostInv
<1> QED  BY <1>1, NothingLeft, OrdinaryStep

LEMMA WriteCacheStep ==
  ASSUME HostInv, NEW t \in Task, WriteCache(t)  PROVE HostInv'
  BY ProceedStep DEF WriteCache, At, HostInv

LEMMA LockClientStep ==
  ASSUME HostInv, NEW t \in Task, LockClient(t)  PROVE HostInv'
  BY ProceedStep DEF LockClient, At, HostInv

LEMMA RequestFailsStep ==
  ASSUME HostInv, NEW t \in Task, RequestFails(t)  PROVE HostInv'
<1>1. PICK step \in {"httpInfo", "secureInfo", "apps", "launch", "cancel", "unpair"} : At(t, step)
  BY DEF RequestFails
<1>2. ~Replaced(t) /\ ~HalfPaired(t)  BY <1>1 DEF Replaced, HalfPaired, At
<1> QED  BY <1>2, EndStep DEF RequestFails, Abort, Released, HostInv

LEMMA CancelStep ==
  ASSUME HostInv, NEW t \in Task, Cancel(t)  PROVE HostInv'
<1>1. local[t].call \notin IdentityCall => ~Replaced(t) /\ ~HalfPaired(t)
  <2>1. Orderly(todo[t]) /\ Allowed(todo[t], local[t].call, local[t].id)
    BY DEF HostInv, Fits
  <2>2. Replaced(t) => Has(todo[t], {"replaceClient", "setAuthenticated"})
    BY <2>1, HasHead DEF Replaced, At, Orderly
  <2>3. HalfPaired(t) => Has(todo[t], {"authenticate", "takeClient"})
    BY <2>1, HasHead DEF HalfPaired, At, Orderly
  <2> QED  BY <2>1, <2>2, <2>3 DEF Allowed, IdentityCall
<1>2. ~panicked' /\ Continue(t, <<>>) /\ UNCHANGED <<client, cache>>
  BY DEF Cancel, Abort, HostInv
<1>3. agreement' \in {agreement, "mixed"}
      /\ (agreement' # "mixed" => ~Replaced(t) /\ ~HalfPaired(t))
  BY <1>1 DEF Cancel
<1>4. clientLock' = clientLock \/ clientLock = t
  BY DEF Cancel, Abort, Released
<1> QED  BY <1>2, <1>3, <1>4, EndStep

LEMMA InfoAgainStep ==
  ASSUME HostInv, NEW t \in Task, InfoAgain(t)  PROVE HostInv'
<1>1. todo[t] # <<>> /\ Head(todo[t]) = "infoAgain"  BY DEF InfoAgain, At
<1>2. cache.info
  <2>1. Orderly(todo[t]) /\ Provided(todo[t], local[t].recent, cache)
    BY DEF HostInv, Fits
  <2>2. todo[t][1] = "infoAgain" /\ Len(todo[t]) \in Nat \ {0}
    BY <1>1, <2>1, TailIndex DEF Orderly
  <2>3. ~Preceded(todo[t], "infoAgain", "httpInfo")
    BY <2>2 DEF Preceded
  <2> QED  BY <2>1, <2>3 DEF Provided
<1>3. ~panicked'  BY <1>2 DEF InfoAgain, HostInv
<1> QED  BY <1>1, <1>3, ProceedStep DEF InfoAgain

LEMMA AppListAgainStep ==
  ASSUME HostInv, NEW t \in Task, AppListAgain(t)  PROVE HostInv'
<1>1. todo[t] # <<>> /\ Head(todo[t]) = "appListAgain"  BY DEF AppListAgain, At
<1>2. cache.apps
  <2>1. Orderly(todo[t]) /\ Provided(todo[t], local[t].recent, cache)
    BY DEF HostInv, Fits
  <2>2. todo[t][1] = "appListAgain" /\ Len(todo[t]) \in Nat \ {0}
    BY <1>1, <2>1, TailIndex DEF Orderly
  <2>3. ~Preceded(todo[t], "appListAgain", "apps")
    BY <2>2 DEF Preceded
  <2> QED  BY <2>1, <2>3 DEF Provided
<1>3. ~panicked'  BY <1>2 DEF AppListAgain, HostInv
<1> QED  BY <1>1, <1>3, ProceedStep DEF AppListAgain

LEMMA CheckPairedStep ==
  ASSUME HostInv, NEW t \in Task, CheckPaired(t)  PROVE HostInv'
<1>1. todo[t] # <<>> /\ Head(todo[t]) = "checkPaired"  BY DEF CheckPaired, At
<1>2. ~Replaced(t) /\ ~HalfPaired(t)  BY <1>1 DEF Replaced, HalfPaired, At
<1>3. CASE Proceed(t)  BY <1>1, <1>3, ProceedStep DEF CheckPaired, HostInv
<1>4. CASE Continue(t, <<>>)  BY <1>2, <1>4, EndStep DEF CheckPaired, HostInv
<1> QED  BY <1>3, <1>4 DEF CheckPaired

LEMMA PairingStep ==
  ASSUME HostInv, NEW t \in Task, Pairing(t)  PROVE HostInv'
<1>1. todo[t] # <<>> /\ Head(todo[t]) = "pairing"  BY DEF Pairing, At
<1>2. ~Replaced(t) /\ ~HalfPaired(t)  BY <1>1 DEF Replaced, HalfPaired, At
<1>3. CASE Proceed(t)  BY <1>1, <1>3, ProceedStep DEF Pairing, HostInv
<1>4. CASE Continue(t, <<>>)  BY <1>2, <1>4, EndStep DEF Pairing, HostInv
<1> QED  BY <1>3, <1>4 DEF Pairing

LEMMA LaunchStep ==
  ASSUME HostInv, NEW t \in Task, Launch(t)  PROVE HostInv'
<1>1. todo[t] # <<>> /\ Head(todo[t]) = "launch"  BY DEF Launch, At
<1>2. clientLock = t  BY <1>1, HeadAndNext DEF Holding
<1> QED  BY <1>1, <1>2, ProceedStep DEF Launch, HostInv

LEMMA CancelGameStep ==
  ASSUME HostInv, NEW t \in Task, CancelGame(t)  PROVE HostInv'
<1>1. todo[t] # <<>> /\ Head(todo[t]) = "cancel"  BY DEF CancelGame, At
<1>2. ~Replaced(t) /\ ~HalfPaired(t)  BY <1>1 DEF Replaced, HalfPaired, At
<1>3. clientLock = t  BY <1>1, HeadAndNext DEF Holding
<1>4. CASE Proceed(t)  BY <1>1, <1>3, <1>4, ProceedStep DEF CancelGame, HostInv
<1>5. CASE Continue(t, <<>>)  BY <1>2, <1>3, <1>5, EndStep DEF CancelGame, HostInv
<1>6. Proceed(t) \/ Continue(t, <<>>)  BY DEF CancelGame, Proceed
<1> QED  BY <1>4, <1>5, <1>6

LEMMA SecureInfoStep ==
  ASSUME HostInv, NEW t \in Task, SecureInfo(t)  PROVE HostInv'
<1> DEFINE rest == Tail(todo[t])
<1>1. todo[t] # <<>> /\ Head(todo[t]) = "secureInfo"  BY DEF SecureInfo, At
<1>2. clientLock = t  BY <1>1, HeadAndNext DEF Holding
<1>3. CASE cache.authenticated # NoIdentity
  BY <1>1, <1>2, <1>3, ProceedStep DEF SecureInfo, HostInv
<1>4. CASE cache.authenticated = NoIdentity
  <2>1. /\ Orderly(rest) /\ Allowed(rest, local[t].call, local[t].id)
        /\ Provided(rest, local[t].recent, cache)
        /\ rest # <<>> /\ Linked("secureInfo", Head(rest))
    BY <1>1, HeadAndNext DEF Opening
  <2>2. Head(rest) = "apps"  BY <2>1 DEF Linked
  <2>3. Continue(t, Tail(rest)) /\ clientLock' = Free /\ ~panicked'
        /\ cache' = [cache EXCEPT !.apps = FALSE] /\ UNCHANGED <<client, agreement>>
    BY <1>4 DEF SecureInfo, EndUpdate, HostInv
  <2>4. CacheKept
    BY <1>4, <2>3 DEF HostInv, Types, CacheKept
  <2>5. cache'.authenticated = cache.authenticated
    BY <2>3 DEF HostInv, Types
  <2> HIDE DEF rest
  <2>6. Provided(Tail(rest), local[t].recent, [cache EXCEPT !.apps = TRUE])
    BY <2>1, <2>2, AppsProvided
  <2>7. Provided(Tail(rest), local[t].recent, cache')
    <3>1. [cache EXCEPT !.apps = TRUE].info => cache'.info
      BY <2>3 DEF HostInv, Types
    <3>2. [cache EXCEPT !.apps = TRUE].authenticated = NoIdentity
      BY <1>4 DEF HostInv, Types
    <3> QED  BY <2>6, <3>1, <3>2, StillProvided
  <2>8. /\ Orderly(Tail(rest)) /\ Allowed(Tail(rest), local[t].call, local[t].id)
        /\ Tail(rest) # <<>> => Linked("apps", Head(Tail(rest)))
    BY <2>1, <2>2, OrderlyTail, NextAllowed
  <2>9. Tail(rest) # <<>> => Head(Tail(rest)) \notin Holding \cup {"takeClient"}
    BY <2>8 DEF Linked, Holding
  <2>10. ~Replaced(t) /\ ~HalfPaired(t)  BY <1>1 DEF Replaced, HalfPaired, At
  <2> QED
    BY <1>2, <2>3, <2>4, <2>5, <2>7, <2>8, <2>9, <2>10, OrdinaryStep DEF Holding
<1> QED  BY <1>3, <1>4

LEMMA AppsStep ==
  ASSUME HostInv, NEW t \in Task, Apps(t)  PROVE HostInv'
<1> DEFINE rest == Tail(todo[t])
<1>1. todo[t] # <<>> /\ Head(todo[t]) = "apps"  BY DEF Apps, At
<1>2. clientLock = t  BY <1>1, HeadAndNext DEF Holding
<1>3. /\ Orderly(rest) /\ Allowed(rest, local[t].call, local[t].id)
      /\ rest # <<>> => Linked("apps", Head(rest))
  BY <1>1, HeadAndNext
<1>4. rest # <<>> => Head(rest) \notin Holding \cup {"takeClient"}
  BY <1>3 DEF Linked, Holding
<1>5. Continue(t, rest) /\ clientLock' = Free /\ ~panicked'
      /\ cache' = [cache EXCEPT !.apps = TRUE] /\ UNCHANGED <<client, agreement>>
  BY DEF Apps, EndUpdate, HostInv
<1>6. CacheKept /\ cache'.authenticated = cache.authenticated
  BY <1>5 DEF HostInv, Types, CacheKept
<1>7. Provided(rest, local[t].recent, cache')
  BY <1>1, <1>5, AppsProvided DEF HostInv, Fits
<1>8. ~Replaced(t) /\ ~HalfPaired(t)  BY <1>1 DEF Replaced, HalfPaired, At
<1> HIDE DEF rest
<1> QED
  BY <1>2, <1>3, <1>4, <1>5, <1>6, <1>7, <1>8, OrdinaryStep DEF Holding

\* A call that finds the cache empty updates first.
LEMMA UpdateStep ==
  ASSUME HostInv, NEW t \in Task, NEW s, Continue(t, Update \o s),
         ~Replaced(t), ~HalfPaired(t), UNCHANGED <<client, cache, agreement, clientLock>>,
         ~panicked', Orderly(s), Allowed(s, local[t].call, local[t].id),
         s # <<>> => Linked("apps", Head(s)),
         cache.authenticated = NoIdentity => ~Has(s, {"appListAgain"})
  PROVE  HostInv'
<1>1. CacheKept  BY CacheStays DEF HostInv
<1>2. /\ Orderly(Update \o s) /\ Head(Update \o s) = "writeCache"
      /\ Provided(Update \o s, local[t].recent, cache)
      /\ Allowed(Update \o s, local[t].call, local[t].id)
  <2>1. /\ Orderly(Update \o s) /\ Head(Update \o s) = "writeCache"
        /\ Provided(Update \o s, local[t].recent, cache)
        /\ \A call, id : Allowed(s, call, id) => Allowed(Update \o s, call, id)
    BY UpdateProvides
  <2>2. Allowed(Update \o s, local[t].call, local[t].id)  BY <2>1
  <2> QED  BY <2>1, <2>2
<1>3. Head(Update \o s) \notin Holding \cup {"takeClient"}  BY <1>2 DEF Holding
<1>4. Provided(Update \o s, local[t].recent, cache')  BY <1>2
<1> QED  BY <1>1, <1>2, <1>3, <1>4, OrdinaryStep DEF Holding

LEMMA AgainBefore ==
  ASSUME NEW s, Orderly(s), NEW step \in {"infoAgain", "appListAgain"},
         s # <<>> => Linked(step, Head(s))
  PROVE  /\ Orderly(<<step>> \o s) /\ <<step>> \o s # <<>> /\ Head(<<step>> \o s) = step
         /\ \A steps : Has(<<step>> \o s, steps) => step \in steps \/ Has(s, steps)
<1> DEFINE u == <<step>> \o s
<1>1. s \in Seq(Step) /\ Len(s) \in Nat  BY LenProperties DEF Orderly
<1>2. <<step>> \in Seq(Step) /\ Len(<<step>>) = 1 /\ <<step>>[1] = step
  BY DEF Step
<1>3. /\ u \in Seq(Step) /\ Len(u) = Len(<<step>>) + Len(s)
      /\ \A i \in 1 .. Len(<<step>>) + Len(s) :
           u[i] = IF i <= Len(<<step>>) THEN <<step>>[i] ELSE s[i - Len(<<step>>)]
  BY <1>1, <1>2, ConcatProperties
<1> HIDE DEF u
<1>4. /\ u \in Seq(Step) /\ Len(u) = 1 + Len(s) /\ u[1] = step
      /\ \A i \in 2 .. 1 + Len(s) : u[i] = s[i - 1]
  BY <1>1, <1>2, <1>3
<1>5. u # <<>> /\ Head(u) = step
  <2>1. u # <<>>  BY <1>1, <1>4, EmptySeq
  <2> QED  BY <1>4, <2>1, TailIndex
<1>6. s # <<>> => Head(s) = s[1] /\ Len(s) > 0  BY <1>1, TailIndex
<1>7. s = <<>> => Len(s) = 0  BY EmptySeq
<1>8. \A i \in 1 .. Len(u) - 1 : Linked(u[i], u[i + 1])
  <2> SUFFICES ASSUME NEW i \in 1 .. Len(u) - 1 PROVE Linked(u[i], u[i + 1])
    OBVIOUS
  <2>1. CASE i = 1
    <3>1. s # <<>> /\ u[2] = s[1]  BY <2>1, <1>1, <1>4, <1>7
    <3> QED  BY <3>1, <2>1, <1>4, <1>6
  <2>2. CASE i > 1
    <3>1. u[i] = s[i - 1] /\ u[i + 1] = s[i] /\ i - 1 \in 1 .. Len(s) - 1
      BY <2>2, <1>1, <1>4
    <3>2. Linked(s[i - 1], s[(i - 1) + 1])  BY <3>1 DEF Orderly
    <3> QED  BY <3>1, <3>2
  <2> QED  BY <2>1, <2>2
<1>9. u[Len(u)] \notin Opening
  <2>1. CASE s = <<>>  BY <2>1, <1>4, <1>7 DEF Opening
  <2>2. CASE s # <<>>
    <3>1. u[Len(u)] = s[Len(s)]  BY <2>2, <1>1, <1>4, <1>6
    <3> QED  BY <3>1, <2>2 DEF Orderly
  <2> QED  BY <2>1, <2>2
<1>10. \A steps : Has(u, steps) => step \in steps \/ Has(s, steps)
  <2> SUFFICES ASSUME NEW steps, Has(u, steps) PROVE step \in steps \/ Has(s, steps)
    OBVIOUS
  <2>1. PICK i \in 1 .. Len(u) : u[i] \in steps  BY DEF Has
  <2>2. CASE i = 1  BY <2>1, <2>2, <1>4
  <2>3. CASE i > 1
    <3>1. i - 1 \in 1 .. Len(s) /\ s[i - 1] \in steps  BY <2>1, <2>3, <1>1, <1>4
    <3> QED  BY <3>1 DEF Has
  <2> QED  BY <2>2, <2>3
<1>11. Orderly(u)  BY <1>4, <1>8, <1>9 DEF Orderly
<1> QED  BY <1>5, <1>10, <1>11 DEF u

LEMMA ReadInfoStep ==
  ASSUME HostInv, NEW t \in Task, ReadInfo(t)  PROVE HostInv'
<1> DEFINE rest == Tail(todo[t])
           again == <<"infoAgain">> \o rest
<1>1. todo[t] # <<>> /\ Head(todo[t]) \in {"readInfo", "readGame"}  BY DEF ReadInfo, At
<1>2. CASE cache.info
  BY <1>1, <1>2, ProceedStep DEF ReadInfo, HostInv
<1>3. CASE ~cache.info
  <2>1. /\ Orderly(rest) /\ Allowed(rest, local[t].call, local[t].id)
        /\ Provided(rest, local[t].recent, cache)
        /\ rest # <<>> => Linked(Head(todo[t]), Head(rest))
    BY <1>1, HeadAndNext
  <2>2. rest # <<>> => Linked("infoAgain", Head(rest))
    BY <1>1, <2>1 DEF Linked
  <2>3. Linked("apps", "infoAgain")  BY DEF Linked
  <2>4. Continue(t, (Update \o <<"infoAgain">>) \o rest)
    BY <1>3 DEF ReadInfo
  <2>5. (Update \o <<"infoAgain">>) \o rest = Update \o again
    <3>1. Update \in Seq(Step) /\ <<"infoAgain">> \in Seq(Step)
      BY DEF Update, Step, Holding
    <3>2. rest \in Seq(Step)  BY <2>1 DEF Orderly
    <3> HIDE DEF rest
    <3> QED  BY <3>1, <3>2, ConcatAssociative
  <2>6. Continue(t, Update \o again)  BY <2>4, <2>5
  <2> HIDE DEF rest
  <2>7. /\ Orderly(again) /\ again # <<>> /\ Head(again) = "infoAgain"
        /\ \A steps : Has(again, steps) => "infoAgain" \in steps \/ Has(rest, steps)
    BY <2>1, <2>2, AgainBefore
  <2> HIDE DEF again
  <2>8. Allowed(again, local[t].call, local[t].id)
    <3>1. Has(again, {"replaceClient", "setAuthenticated"}) =>
            Has(rest, {"replaceClient", "setAuthenticated"})  BY <2>7
    <3>2. Has(again, {"authenticate", "takeClient"}) => Has(rest, {"authenticate", "takeClient"})
      BY <2>7
    <3>3. Has(again, {"unpair"}) => Has(rest, {"unpair"})  BY <2>7
    <3> QED  BY <2>1, <3>1, <3>2, <3>3 DEF Allowed
  <2>9. cache.authenticated = NoIdentity => ~Has(again, {"appListAgain"})
    <3>1. Has(again, {"appListAgain"}) => Has(rest, {"appListAgain"})  BY <2>7
    <3> QED  BY <2>1, <3>1 DEF Provided
  <2>10. ~Replaced(t) /\ ~HalfPaired(t)  BY <1>1 DEF Replaced, HalfPaired, At
  <2>11. ~panicked' /\ UNCHANGED <<client, cache, agreement, clientLock>>
    BY DEF ReadInfo, HostInv
  <2>12. again # <<>> => Linked("apps", Head(again))  BY <2>3, <2>7
  <2> QED  BY <2>6, <2>7, <2>8, <2>9, <2>10, <2>11, <2>12, UpdateStep
<1> QED  BY <1>2, <1>3

LEMMA AppListStep ==
  ASSUME HostInv, NEW t \in Task, AppList(t)  PROVE HostInv'
<1> DEFINE again == <<"appListAgain">>
<1>1. todo[t] # <<>> /\ Head(todo[t]) = "appList"  BY DEF AppList, At
<1>2. ~Replaced(t) /\ ~HalfPaired(t)  BY <1>1 DEF Replaced, HalfPaired, At
<1>3. ~panicked' /\ UNCHANGED <<client, cache, agreement, clientLock>>
  BY DEF AppList, HostInv
<1>4. CASE Continue(t, <<>>)  BY <1>2, <1>3, <1>4, EndStep
<1>5. CASE cache.authenticated # NoIdentity /\ Continue(t, Update \o again)
  <2>1. again \in Seq(Step) /\ again # <<>> /\ Len(again) = 1 /\ again[1] = "appListAgain"
    BY DEF Step
  <2> HIDE DEF again
  <2>2. Head(again) = "appListAgain"  BY <2>1, TailIndex
  <2>3. Orderly(again)  BY <2>1 DEF Orderly, Opening
  <2>4. Allowed(again, local[t].call, local[t].id)  BY <2>1 DEF Allowed, Has
  <2>5. Linked("apps", Head(again))  BY <2>2 DEF Linked
  <2> QED  BY <1>2, <1>3, <1>5, <2>3, <2>4, <2>5, UpdateStep
<1> QED  BY <1>4, <1>5 DEF AppList

LEMMA HttpInfoStep ==
  ASSUME HostInv, NEW t \in Task, HttpInfo(t)  PROVE HostInv'
<1> DEFINE rest == Tail(todo[t])
<1>1. todo[t] # <<>> /\ Head(todo[t]) = "httpInfo"  BY DEF HttpInfo, At
<1>2. /\ Orderly(rest) /\ Allowed(rest, local[t].call, local[t].id)
      /\ rest # <<>> /\ Linked("httpInfo", Head(rest)) /\ clientLock = t
  BY <1>1, HeadAndNext DEF Opening, Holding
<1>3. /\ todo' = [todo EXCEPT ![t] = rest] /\ ~panicked'
      /\ cache' = [cache EXCEPT !.info = TRUE]
      /\ local' = [u \in Task |-> [local[u] EXCEPT !.recent = TRUE]]
      /\ UNCHANGED <<client, clientLock, agreement>>
  BY DEF HttpInfo, HostInv
<1>4. Provided(rest, TRUE, cache')
  BY <1>1, <1>3, InfoProvided DEF HostInv, Fits
<1> HIDE DEF rest
<1>5. todo'[t] = rest /\ todo' = [u \in Task |-> todo'[u]]
      /\ \A u \in Task \ {t} : todo'[u] = todo[u]
  BY <1>3 DEF HostInv, Types
<1>6. \A u \in Task : /\ local'[u].call = local[u].call /\ local'[u].id = local[u].id
                      /\ local'[u].recent
  BY <1>3 DEF HostInv, Types
<1>7. CacheKept /\ cache'.authenticated = cache.authenticated
  BY <1>3 DEF HostInv, Types, CacheKept
<1>8. Types'
  <2>1. local' \in [Task -> [call : IdentityCall \cup {"none", "other"},
                            id : Identity \cup {NoIdentity}, recent : BOOLEAN]]
    BY <1>3 DEF HostInv, Types
  <2> QED  BY <1>3, <1>5, <1>7, <2>1 DEF HostInv, Types, CacheKept
<1>9. \A u \in Task : Fits(u)'
  <2>1. \A u \in Task : local'[u].recent = TRUE  BY <1>3 DEF HostInv, Types
  <2>2. Fits(t)'  BY <1>2, <1>4, <1>5, <1>6, <2>1 DEF Fits
  <2>3. ASSUME NEW u \in Task \ {t} PROVE Fits(u)'
    <3>1. Orderly(todo[u]) /\ Provided(todo[u], local[u].recent, cache)
          /\ Allowed(todo[u], local[u].call, local[u].id)
      BY DEF HostInv, Fits
    <3>2. Provided(todo[u], TRUE, cache')
      BY <1>7, <3>1, StillProvided DEF CacheKept
    <3> QED  BY <1>5, <1>6, <2>1, <3>1, <3>2 DEF Fits
  <2> QED  BY <2>2, <2>3
<1>10. \A u \in Task : Held(u)'
  BY <1>2, <1>3, <1>5, StillHeld DEF HostInv
<1>11. Identities'
  <2>1. Head(rest) \notin {"setAuthenticated", "takeClient"}  BY <1>2 DEF Linked
  <2>2. ~Replaced(t) /\ ~HalfPaired(t)  BY <1>1 DEF Replaced, HalfPaired, At
  <2>3. \A u \in Task : (Replaced(u)' <=> Replaced(u)) /\ (HalfPaired(u)' <=> HalfPaired(u))
    BY <1>5, <2>1, <2>2 DEF Replaced, HalfPaired, At
  <2>4. agreement # "mixed" => Alone'
    BY <1>6 DEF HostInv, Identities, Alone
  <2> QED  BY <1>3, <1>6, <1>7, <2>3, <2>4 DEF HostInv, Identities
<1> QED  BY <1>3, <1>8, <1>9, <1>10, <1>11 DEF HostInv

\* While no other call mixes with it, a task that is half-way is the only one.
LEMMA HalfWayAlone ==
  ASSUME HostInv, agreement # "mixed", NEW t \in Task, NEW u \in Task \ {t},
         local[t].call \in {"pair", "unpair"}
  PROVE  ~Replaced(u) /\ ~HalfPaired(u)
<1>1. local[u].call \notin IdentityCall
  BY DEF HostInv, Identities, Alone, IdentityCall
<1>2. Orderly(todo[u]) /\ Allowed(todo[u], local[u].call, local[u].id)
  BY DEF HostInv, Fits
<1>3. Replaced(u) => Has(todo[u], {"replaceClient", "setAuthenticated"})
  BY <1>2, HasHead DEF Replaced, At, Orderly
<1>4. HalfPaired(u) => Has(todo[u], {"authenticate", "takeClient"})
  BY <1>2, HasHead DEF HalfPaired, At, Orderly
<1> QED  BY <1>1, <1>2, <1>3, <1>4 DEF Allowed, IdentityCall

\* A call at a step that only its kind has.
LEMMA CallAt ==
  ASSUME HostInv, NEW t \in Task, todo[t] # <<>>
  PROVE  /\ Head(todo[t]) \in {"replaceClient", "setAuthenticated"} =>
              local[t].call = "set_identity" /\ local[t].id \in Identity
         /\ Head(todo[t]) \in {"authenticate", "takeClient"} =>
              local[t].call = "pair" /\ local[t].id \in Identity
         /\ Head(todo[t]) = "unpair" => local[t].call = "unpair"
<1>1. Orderly(todo[t]) /\ Allowed(todo[t], local[t].call, local[t].id)
  BY DEF HostInv, Fits
<1>2. Head(todo[t]) \in {"replaceClient", "setAuthenticated"} =>
        Has(todo[t], {"replaceClient", "setAuthenticated"})
  BY <1>1, HasHead DEF Orderly
<1>3. Head(todo[t]) \in {"authenticate", "takeClient"} =>
        Has(todo[t], {"authenticate", "takeClient"})
  BY <1>1, HasHead DEF Orderly
<1>4. Head(todo[t]) = "unpair" => Has(todo[t], {"unpair"})
  BY <1>1, HasHead DEF Orderly
<1> QED  BY <1>1, <1>2, <1>3, <1>4 DEF Allowed

LEMMA Proceeded ==
  ASSUME HostInv, NEW t \in Task, todo[t] # <<>>, Proceed(t)
  PROVE  /\ Replaced(t)' <=> Head(todo[t]) = "replaceClient"
         /\ HalfPaired(t)' <=> Head(todo[t]) = "authenticate"
         /\ Head(todo[t]) \in Opening => local'[t] = local[t]
         /\ \A u \in Task \ {t} : /\ Replaced(u)' <=> Replaced(u)
                                  /\ HalfPaired(u)' <=> HalfPaired(u)
                                  /\ local'[u] = local[u]
         /\ Alone => Alone'
<1> DEFINE rest == Tail(todo[t])
<1>1. /\ rest # <<>> => Linked(Head(todo[t]), Head(rest))
      /\ Head(todo[t]) \in Opening => rest # <<>>
  BY HeadAndNext
<1>2. /\ todo'[t] = rest
      /\ local'[t] = IF rest = <<>> THEN Resting ELSE local[t]
      /\ \A u \in Task \ {t} : todo'[u] = todo[u] /\ local'[u] = local[u]
  BY Continued DEF Proceed, HostInv
<1> HIDE DEF rest
<1>3. Alone => Alone'
  BY <1>2 DEF Alone, Resting, IdentityCall
<1>4. /\ Replaced(t)' <=> Head(todo[t]) = "replaceClient"
      /\ HalfPaired(t)' <=> Head(todo[t]) = "authenticate"
  BY <1>1, <1>2 DEF Replaced, HalfPaired, At, Linked, Opening
<1>5. \A u \in Task \ {t} : /\ Replaced(u)' <=> Replaced(u)
                            /\ HalfPaired(u)' <=> HalfPaired(u)
  BY <1>2 DEF Replaced, HalfPaired, At
<1> QED  BY <1>1, <1>2, <1>3, <1>4, <1>5

\* A step that changes an identity.
LEMMA IdentityStep ==
  ASSUME HostInv, NEW t \in Task, todo[t] # <<>>, Proceed(t),
         Head(todo[t]) \in {"replaceClient", "setAuthenticated", "authenticate", "takeClient",
                            "unpair"},
         client' \in Identity \cup {NoIdentity},
         cache' = cache \/ \E id \in Identity : cache' = [cache EXCEPT !.authenticated = id],
         agreement' \in {"agree", "mixed", "unpaired"},
         clientLock' = clientLock \/ clientLock = Free \/ clientLock = t,
         Head(todo[t]) = "replaceClient" => clientLock' = t,
         Identities', ~panicked'
  PROVE  HostInv'
<1> DEFINE rest == Tail(todo[t])
<1>1. /\ Orderly(rest) /\ Allowed(rest, local[t].call, local[t].id)
      /\ Provided(rest, local[t].recent, cache)
      /\ rest # <<>> => Linked(Head(todo[t]), Head(rest))
  BY HeadAndNext
<1>2. Continue(t, rest)  BY DEF Proceed
<1>3. CacheKept /\ (cache.apps => cache'.apps)
  BY HostAssumption DEF HostInv, Types, CacheKept
<1> HIDE DEF rest
<1>4. Provided(rest, local[t].recent, cache')
  BY <1>1, <1>3, StillProvided DEF CacheKept
<1>5. \A u \in Task : Fits(u)'
  BY <1>1, <1>2, <1>3, <1>4, ContinuedFits DEF HostInv
<1>6. todo'[t] = rest /\ \A u \in Task \ {t} : todo'[u] = todo[u]
  BY <1>2, Continued DEF HostInv
<1>7. rest # <<>> /\ Head(rest) \in Holding => clientLock' = t
  BY <1>1 DEF Linked, Holding
<1>8. \A u \in Task : Held(u)'
  BY <1>6, <1>7, StillHeld DEF HostInv
<1>9. Types'
  BY <1>2, <1>3, Continued DEF HostInv, Types, CacheKept
<1> QED  BY <1>5, <1>8, <1>9 DEF HostInv

LEMMA ReplaceClientStep ==
  ASSUME HostInv, NEW t \in Task, ReplaceClient(t)  PROVE HostInv'
<1>1. todo[t] # <<>> /\ Head(todo[t]) = "replaceClient"  BY DEF ReplaceClient, At
<1>2. local[t].call = "set_identity" /\ local[t].id \in Identity  BY <1>1, CallAt
<1>3. Proceed(t) /\ client' = local[t].id /\ clientLock = Free /\ clientLock' = t
      /\ UNCHANGED <<cache, agreement, panicked>>
  BY DEF ReplaceClient
<1>4. Identities'
  <2> SUFFICES ASSUME agreement' # "mixed" PROVE Identities'
    BY DEF Identities
  <2>1. \A u \in Task : ~Replaced(u)
    BY <1>3, HostAssumption DEF HostInv, Held, Replaced, Holding
  <2>2. Replaced(t)' /\ local'[t] = local[t]
        /\ \A u \in Task : Replaced(u)' => u = t
    BY <1>1, <1>3, <2>1, Proceeded DEF Opening, Replaced, At
  <2>3. \A u \in Task : HalfPaired(u)' => HalfPaired(u) /\ local'[u] = local[u]
    BY <1>1, <1>3, Proceeded
  <2>4. Alone'  BY <1>1, <1>3, Proceeded DEF HostInv, Identities
  <2> QED  BY <1>3, <2>2, <2>3, <2>4 DEF HostInv, Identities
<1> QED
  BY <1>1, <1>2, <1>3, <1>4, IdentityStep DEF HostInv, Types

LEMMA SetAuthenticatedStep ==
  ASSUME HostInv, NEW t \in Task, SetAuthenticated(t)  PROVE HostInv'
<1>1. todo[t] # <<>> /\ Head(todo[t]) = "setAuthenticated"  BY DEF SetAuthenticated, At
<1>2. local[t].call = "set_identity" /\ local[t].id \in Identity  BY <1>1, CallAt
<1>3. /\ Proceed(t) /\ cache' = [cache EXCEPT !.authenticated = local[t].id]
      /\ clientLock = t /\ UNCHANGED <<client, panicked>>
      /\ agreement' = IF agreement = "mixed" THEN "mixed" ELSE "agree"
  BY <1>1, HeadAndNext DEF SetAuthenticated, Agreed, Holding
<1>4. cache'.authenticated = local[t].id
  BY <1>3 DEF HostInv, Types
<1>5. Identities'
  <2> SUFFICES ASSUME agreement' # "mixed" PROVE Identities'
    BY DEF Identities
  <2>1. agreement # "mixed" /\ agreement' = "agree"  BY <1>3
  <2>2. client = local[t].id
    BY <1>1, <2>1 DEF HostInv, Identities, Replaced, At
  <2>3. \A u \in Task : ~HalfPaired(u)
    <3> SUFFICES ASSUME NEW u \in Task, HalfPaired(u) PROVE FALSE
      OBVIOUS
    <3>1. todo[u] # <<>> /\ Head(todo[u]) = "takeClient"  BY DEF HalfPaired, At
    <3>2. local[u].call = "pair"  BY <3>1, CallAt
    <3>3. u # t  BY <1>1, <3>1
    <3> QED  BY <1>2, <2>1, <3>2, <3>3 DEF HostInv, Identities, Alone, IdentityCall
  <2>4. \A u \in Task \ {t} : ~Replaced(u)
    BY <1>3 DEF HostInv, Held, Replaced, Holding
  <2>5. \A u \in Task : ~Replaced(u)' /\ ~HalfPaired(u)'
    BY <1>1, <1>3, <2>3, <2>4, Proceeded
  <2>6. Alone'  BY <1>1, <1>3, <2>1, Proceeded DEF HostInv, Identities
  <2> QED  BY <1>3, <1>4, <2>1, <2>2, <2>5, <2>6 DEF Identities
<1>6. clientLock' = clientLock \/ clientLock = Free \/ clientLock = t  BY <1>3
<1>7. agreement' \in {"agree", "mixed", "unpaired"} /\ ~panicked'
      /\ client' \in Identity \cup {NoIdentity}
  BY <1>3 DEF HostInv, Types
<1> QED
  BY <1>1, <1>2, <1>3, <1>5, <1>6, <1>7, IdentityStep

LEMMA AuthenticateStep ==
  ASSUME HostInv, NEW t \in Task, Authenticate(t)  PROVE HostInv'
<1>1. todo[t] # <<>> /\ Head(todo[t]) = "authenticate"  BY DEF Authenticate, At
<1>2. local[t].call = "pair" /\ local[t].id \in Identity  BY <1>1, CallAt
<1>3. /\ Proceed(t) /\ cache' = [cache EXCEPT !.authenticated = local[t].id]
      /\ UNCHANGED <<client, clientLock, agreement, panicked>>
  BY DEF Authenticate
<1>4. cache'.authenticated = local[t].id
  BY <1>3 DEF HostInv, Types
<1>5. Identities'
  <2> SUFFICES ASSUME agreement' # "mixed" PROVE Identities'
    BY DEF Identities
  <2>1. agreement # "mixed"  BY <1>3
  <2>2. \A u \in Task \ {t} : ~Replaced(u) /\ ~HalfPaired(u)
    BY <1>2, <2>1, HalfWayAlone
  <2>3. HalfPaired(t)' /\ ~Replaced(t)' /\ local'[t] = local[t]
    BY <1>1, <1>3, Proceeded DEF Opening
  <2>4. \A u \in Task \ {t} : ~Replaced(u)' /\ ~HalfPaired(u)'
    BY <1>1, <1>3, <2>2, Proceeded
  <2>5. Alone'  BY <1>1, <1>3, <2>1, Proceeded DEF HostInv, Identities
  <2> QED  BY <1>4, <2>3, <2>4, <2>5 DEF Identities
<1> QED
  BY <1>1, <1>2, <1>3, <1>5, IdentityStep DEF HostInv, Types

LEMMA TakeClientStep ==
  ASSUME HostInv, NEW t \in Task, TakeClient(t)  PROVE HostInv'
<1>1. todo[t] # <<>> /\ Head(todo[t]) = "takeClient"  BY DEF TakeClient, At
<1>2. local[t].call = "pair" /\ local[t].id \in Identity  BY <1>1, CallAt
<1>3. /\ Proceed(t) /\ client' = local[t].id
      /\ agreement' = IF agreement = "mixed" THEN "mixed" ELSE "agree"
      /\ UNCHANGED <<cache, clientLock, panicked>>
  BY DEF TakeClient, Agreed
<1>4. Identities'
  <2> SUFFICES ASSUME agreement' # "mixed" PROVE Identities'
    BY DEF Identities
  <2>1. agreement # "mixed" /\ agreement' = "agree"  BY <1>3
  <2>2. \A u \in Task \ {t} : ~Replaced(u) /\ ~HalfPaired(u)
    BY <1>2, <2>1, HalfWayAlone
  <2>3. cache.authenticated = local[t].id
    BY <1>1, <2>1 DEF HostInv, Identities, HalfPaired, At
  <2>4. \A u \in Task : ~Replaced(u)' /\ ~HalfPaired(u)'
    BY <1>1, <1>3, <2>2, Proceeded
  <2>5. Alone'  BY <1>1, <1>3, <2>1, Proceeded DEF HostInv, Identities
  <2> QED  BY <1>3, <2>1, <2>3, <2>4, <2>5 DEF Identities
<1>5. agreement' \in {"agree", "mixed", "unpaired"} /\ ~panicked'
      /\ client' \in Identity \cup {NoIdentity}
  BY <1>2, <1>3 DEF HostInv, Types
<1> QED
  BY <1>1, <1>3, <1>4, <1>5, IdentityStep

LEMMA UnpairStep ==
  ASSUME HostInv, NEW t \in Task, Unpair(t)  PROVE HostInv'
<1>1. todo[t] # <<>> /\ Head(todo[t]) = "unpair"  BY DEF Unpair, At
<1>2. local[t].call = "unpair"  BY <1>1, CallAt
<1>3. /\ Proceed(t) /\ client' = NoIdentity
      /\ agreement' = IF agreement = "mixed" THEN "mixed" ELSE "unpaired"
      /\ clientLock = t /\ UNCHANGED <<cache, panicked>>
  BY <1>1, HeadAndNext DEF Unpair, Holding
<1>4. Identities'
  <2> SUFFICES ASSUME agreement' # "mixed" PROVE Identities'
    BY DEF Identities
  <2>1. agreement # "mixed" /\ agreement' = "unpaired"  BY <1>3
  <2>2. \A u \in Task \ {t} : ~Replaced(u) /\ ~HalfPaired(u)
    BY <1>2, <2>1, HalfWayAlone
  <2>3. \A u \in Task : ~Replaced(u)' /\ ~HalfPaired(u)'
    BY <1>1, <1>3, <2>2, Proceeded
  <2>4. Alone'  BY <1>1, <1>3, <2>1, Proceeded DEF HostInv, Identities
  <2> QED  BY <1>3, <2>1, <2>3, <2>4 DEF Identities
<1>5. agreement' \in {"agree", "mixed", "unpaired"} /\ ~panicked'
  BY <1>3 DEF HostInv, Types
<1> QED
  BY <1>1, <1>3, <1>4, <1>5, IdentityStep

LEMMA BeginStep ==
  ASSUME HostInv, NEW t \in Task, Begin(t)  PROVE HostInv'
<1>1. PICK call \in Call, id \in Identity \cup {NoIdentity} :
        /\ todo[t] = <<>>
        /\ call \in {"set_identity", "pair"} <=> id # NoIdentity
        /\ todo' = [todo EXCEPT ![t] = Steps[call]]
        /\ local' = [local EXCEPT ![t] =
             [call |-> IF call \in IdentityCall THEN call ELSE "other", id |-> id,
              recent |-> call \notin {"start_stream", "cancel"}]]
        /\ agreement' =
             IF \E u \in Task \ {t} : /\ {call, local[u].call} \subseteq IdentityCall
                                      /\ {call, local[u].call} # {"set_identity"}
             THEN "mixed" ELSE agreement
        /\ UNCHANGED <<client, clientLock, cache, cacheLock, panicked>>
  BY DEF Begin
<1> DEFINE s == Steps[call]
<1>2. Begins(s, call, id)  BY <1>1, CallBegins
<1> HIDE DEF s
<1>3. /\ todo'[t] = s /\ todo' = [u \in Task |-> todo'[u]]
      /\ \A u \in Task \ {t} : todo'[u] = todo[u] /\ local'[u] = local[u]
      /\ local'[t].call = IF call \in IdentityCall THEN call ELSE "other"
      /\ local'[t].id = id
  BY <1>1 DEF HostInv, Types, s
<1>4. Types'
  <2>1. local' \in [Task -> [call : IdentityCall \cup {"none", "other"},
                            id : Identity \cup {NoIdentity}, recent : BOOLEAN]]
    BY <1>1 DEF HostInv, Types
  <2> QED  BY <1>1, <1>3, <2>1 DEF HostInv, Types
<1>5. CacheKept  BY <1>1, CacheStays DEF HostInv
<1>6. \A u \in Task \ {t} : Fits(u)'
  BY <1>3, <1>5, StillProvided DEF HostInv, Fits, CacheKept
<1>7. Fits(t)'
  <2>1. Preceded(s, "infoAgain", "httpInfo") /\ Preceded(s, "appListAgain", "apps")
        /\ ~Has(s, {"appListAgain"})
    BY <1>2 DEF Begins, Has, Preceded
  <2>2. Provided(s, local'[t].recent, cache')
    BY <1>2, <2>1 DEF Begins, Provided
  <2> QED  BY <1>2, <1>3, <2>2 DEF Begins, Fits
<1>8. \A u \in Task : Held(u)'
  <2>1. s # <<>> /\ Head(s) \in Holding => clientLock' = t
    BY <1>2 DEF Begins
  <2> QED  BY <1>1, <1>3, <2>1, StillHeld DEF HostInv
<1>9. Identities'
  <2> SUFFICES ASSUME agreement' # "mixed" PROVE Identities'
    BY DEF Identities
  <2>1. agreement' = agreement /\ agreement # "mixed"  BY <1>1
  <2>2. ~Replaced(t) /\ ~HalfPaired(t)  BY <1>1 DEF Replaced, HalfPaired, At
  <2>3. ~Replaced(t)' /\ ~HalfPaired(t)'
    BY <1>2, <1>3 DEF Begins, Replaced, HalfPaired, At, Holding
  <2>4. \A u \in Task \ {t} : (Replaced(u)' <=> Replaced(u)) /\ (HalfPaired(u)' <=> HalfPaired(u))
    BY <1>3 DEF Replaced, HalfPaired, At
  <2>5. \A u \in Task \ {t} :
          local'[t].call \in IdentityCall /\ local[u].call \in IdentityCall =>
            local'[t].call = "set_identity" /\ local[u].call = "set_identity"
    <3> SUFFICES ASSUME NEW u \in Task \ {t},
                        local'[t].call \in IdentityCall, local[u].call \in IdentityCall
                 PROVE  local'[t].call = "set_identity" /\ local[u].call = "set_identity"
      OBVIOUS
    <3>1. call \in IdentityCall /\ local'[t].call = call
      BY <1>3 DEF IdentityCall
    <3>2. {call, local[u].call} = {"set_identity"}
      BY <1>1, <3>1
    <3> QED  BY <3>1, <3>2
  <2>6. Alone'
    <3>1. Alone  BY <2>1 DEF HostInv, Identities
    <3> QED  BY <1>3, <2>5, <3>1 DEF Alone
  <2> QED
    BY <1>1, <1>3, <2>1, <2>2, <2>3, <2>4, <2>6 DEF HostInv, Identities
<1> QED
  BY <1>1, <1>4, <1>6, <1>7, <1>8, <1>9 DEF HostInv

LEMMA HostStep == HostInv /\ [Next]_vars => HostInv'
<1> SUFFICES ASSUME HostInv, [Next]_vars PROVE HostInv'
  OBVIOUS
<1>1. CASE UNCHANGED vars
  BY <1>1 DEF vars, HostInv, Types, Fits, Held, At, Identities, Alone, Replaced, HalfPaired
<1>2. ASSUME NEW t \in Task, Begin(t) \/ Cancel(t) \/ Advance(t) PROVE HostInv'
  <2>1. CASE Advance(t)
    BY <2>1, WriteCacheStep, LockClientStep, HttpInfoStep, SecureInfoStep, AppsStep,
       RequestFailsStep, ReadInfoStep, InfoAgainStep, CheckPairedStep, AppListStep,
       AppListAgainStep, ReplaceClientStep, SetAuthenticatedStep, PairingStep,
       AuthenticateStep, TakeClientStep, UnpairStep, LaunchStep, CancelGameStep
       DEF Advance
  <2> QED  BY <1>2, <2>1, BeginStep, CancelStep
<1> QED  BY <1>1, <1>2 DEF Next

LEMMA HostAlways == Spec => []HostInv
  BY HostInvInit, HostStep, PTL DEF Spec

-----------------------------------------------------------------------------

\* What app_list and server_info_priv take for granted after an update is in
\* the cache, whatever other calls have done since (high/tokio.rs, app_list and
\* server_info_priv): neither unreachable!() is.
THEOREM UpdatesAreKept == Spec => []UnreachableNotReached
<1>1. HostInv => UnreachableNotReached  BY DEF HostInv, UnreachableNotReached
<1> QED  BY <1>1, HostAlways, PTL

\* The certificates of the client and the identity in the cache, set one after
\* the other under different locks, agree when the calls that set them have
\* returned (set_identity, pair and unpair).
THEOREM IdentitiesComeToAgree == Spec => []IdentitiesAgree
<1>1. HostInv => IdentitiesAgree
  <2> SUFFICES ASSUME HostInv, agreement # "mixed",
                      \A t \in Task : local[t].call \notin IdentityCall
               PROVE  client = IF agreement = "unpaired" THEN NoIdentity ELSE cache.authenticated
    BY DEF IdentitiesAgree
  <2>1. \A t \in Task : ~Replaced(t) /\ ~HalfPaired(t)
    BY CallAt DEF Replaced, HalfPaired, At, IdentityCall
  <2> QED  BY <2>1 DEF HostInv, Identities
<1> QED  BY <1>1, HostAlways, PTL

\* start_stream and cancel read the current game from an answer that came after
\* they began.
THEOREM GameReadRecently == Spec => []GameReadIsRecent
<1>1. HostInv => GameReadIsRecent
  <2> SUFFICES ASSUME HostInv, NEW t \in Task, At(t, "readGame"), ~local[t].recent PROVE FALSE
    BY DEF GameReadIsRecent
  <2>1. Orderly(todo[t]) /\ Provided(todo[t], local[t].recent, cache)
    BY DEF HostInv, Fits
  <2>2. todo[t][1] = "readGame" /\ Len(todo[t]) \in Nat \ {0}
    BY <2>1, TailIndex DEF Orderly, At
  <2>3. ~Preceded(todo[t], "readGame", "httpInfo")
    BY <2>2 DEF Preceded
  <2> QED  BY <2>1, <2>3 DEF Provided
<1> QED  BY <1>1, HostAlways, PTL


-----------------------------------------------------------------------------
(* The two locks.                                                          *)

\* After the cache's lock comes the client's, and after that the requests for
\* which the two are held.
LocksUsed(s) ==
  \A i \in 1 .. Len(s) :
    /\ s[i] = "writeCache" => /\ i + 2 \in 1 .. Len(s)
                              /\ s[i + 1] = "lockClient" /\ s[i + 2] = "httpInfo"
    /\ s[i] = "lockClient" => /\ i + 1 \in 1 .. Len(s)
                              /\ s[i + 1] \in {"httpInfo", "launch", "cancel", "unpair"}

\* The steps before a task that holds the cache's lock.
Updating(s) ==
  /\ s # <<>>
  /\ \/ Head(s) \in {"httpInfo", "secureInfo", "apps"}
     \/ Head(s) = "lockClient" /\ Tail(s) # <<>> /\ Head(Tail(s)) = "httpInfo"

\* A lock that is taken belongs to a task that has something to do with it.
Locks ==
  /\ \A t \in Task : LocksUsed(todo[t])
  /\ clientLock # Free =>
       clientLock \in Task /\ \E step \in Holding : At(clientLock, step)
  /\ cacheLock # Free => cacheLock \in Task /\ Updating(todo[cacheLock])

WaitsForCache(t) ==
  /\ cacheLock # Free
  /\ \E step \in {"writeCache", "readInfo", "readGame", "infoAgain", "checkPaired", "appList",
                  "appListAgain", "setAuthenticated", "authenticate"} : At(t, step)

WaitsForClient(t) ==
  /\ clientLock # Free
  /\ \E step \in {"lockClient", "replaceClient", "takeClient"} : At(t, step)

Waits(t) == WaitsForCache(t) \/ WaitsForClient(t)

\* Whoever waits for a lock waits for a task that holds one and waits for none
\* itself, unless set_identity has met an update.
WaitsEnd ==
  Crossed \/ \A t \in Task : Waits(t) =>
    \E u \in Task : u \in {clientLock, cacheLock} /\ todo[u] # <<>> /\ ~Waits(u)

LEMMA LocksUsedTail ==
  ASSUME NEW s \in Seq(Step), s # <<>>, LocksUsed(s)
  PROVE  /\ LocksUsed(Tail(s))
         /\ Head(s) = "writeCache" => Updating(Tail(s))
         /\ Head(s) = "lockClient" =>
              Tail(s) # <<>> /\ Head(Tail(s)) \in {"httpInfo", "launch", "cancel", "unpair"}
<1> DEFINE r == Tail(s)
<1>1. /\ r \in Seq(Step) /\ Len(s) \in Nat \ {0} /\ Len(r) = Len(s) - 1 /\ Head(s) = s[1]
      /\ \A i \in 1 .. Len(s) - 1 : r[i] = s[i + 1]
  BY TailIndex
<1> HIDE DEF r
<1>2. r # <<>> => Len(r) \in Nat \ {0} /\ Len(Tail(r)) = Len(r) - 1 /\ Tail(r) \in Seq(Step)
                  /\ Head(r) = r[1] /\ \A i \in 1 .. Len(r) - 1 : Tail(r)[i] = r[i + 1]
  BY <1>1, TailIndex
<1>3. r = <<>> => Len(s) = 1
  BY <1>1, EmptySeq
<1>4. LocksUsed(r)
  <2> SUFFICES ASSUME NEW i \in 1 .. Len(r)
               PROVE  /\ r[i] = "writeCache" => /\ i + 2 \in 1 .. Len(r)
                                                /\ r[i + 1] = "lockClient" /\ r[i + 2] = "httpInfo"
                      /\ r[i] = "lockClient" => /\ i + 1 \in 1 .. Len(r)
                                                /\ r[i + 1] \in {"httpInfo", "launch", "cancel", "unpair"}
    BY DEF LocksUsed
  <2>1. i \in 1 .. Len(s) - 1 /\ i + 1 \in 1 .. Len(s) /\ r[i] = s[i + 1]
    BY <1>1
  <2>2. s[i + 1] = "writeCache" => /\ (i + 1) + 2 \in 1 .. Len(s)
                                   /\ s[(i + 1) + 1] = "lockClient" /\ s[(i + 1) + 2] = "httpInfo"
    BY <2>1 DEF LocksUsed
  <2>3. s[i + 1] = "lockClient" => /\ (i + 1) + 1 \in 1 .. Len(s)
                                   /\ s[(i + 1) + 1] \in {"httpInfo", "launch", "cancel", "unpair"}
    BY <2>1 DEF LocksUsed
  <2>4. \A j \in 1 .. Len(s) - 1 : r[j] = s[j + 1]
    BY <1>1
  <2>5. CASE s[i + 1] = "writeCache"
    <3>1. i + 1 \in 1 .. Len(s) - 1 /\ i + 2 \in 1 .. Len(s) - 1
      BY <1>1, <2>1, <2>2, <2>5
    <3>2. r[i + 1] = s[(i + 1) + 1] /\ r[i + 2] = s[(i + 1) + 2]
      BY <2>4, <3>1
    <3> QED  BY <1>1, <2>1, <2>2, <2>5, <3>1, <3>2
  <2>6. CASE s[i + 1] = "lockClient"
    <3>1. i + 1 \in 1 .. Len(s) - 1
      BY <1>1, <2>1, <2>3, <2>6
    <3>2. r[i + 1] = s[(i + 1) + 1]
      BY <2>4, <3>1
    <3> QED  BY <1>1, <2>1, <2>3, <2>6, <3>1, <3>2
  <2> QED  BY <2>1, <2>5, <2>6
<1>5. ASSUME Head(s) = "lockClient"
      PROVE  r # <<>> /\ Head(r) \in {"httpInfo", "launch", "cancel", "unpair"}
  <2>1. 1 + 1 \in 1 .. Len(s) /\ s[1 + 1] \in {"httpInfo", "launch", "cancel", "unpair"}
    BY <1>1, <1>5 DEF LocksUsed
  <2>2. r # <<>> /\ r[1] = s[1 + 1]
    BY <1>1, <1>3, <2>1
  <2> QED  BY <1>2, <2>1, <2>2
<1>6. ASSUME Head(s) = "writeCache" PROVE Updating(r)
  <2>1. 1 + 2 \in 1 .. Len(s) /\ s[1 + 1] = "lockClient" /\ s[1 + 2] = "httpInfo"
    BY <1>1, <1>6 DEF LocksUsed
  <2>2. r # <<>> /\ r[1] = s[1 + 1] /\ r[2] = s[1 + 2] /\ Len(r) >= 2
    BY <1>1, <1>3, <2>1
  <2>3. Head(r) = "lockClient" /\ Len(Tail(r)) >= 1 /\ Tail(r)[1] = "httpInfo" /\ Tail(r) \in Seq(Step)
    BY <1>2, <2>1, <2>2
  <2>4. Tail(r) # <<>> /\ Head(Tail(r)) = Tail(r)[1]
    <3>1. Tail(r) # <<>>
      <4> SUFFICES ASSUME Tail(r) = <<>> PROVE FALSE
        OBVIOUS
      <4>1. Len(Tail(r)) = 0  BY ONLY Tail(r) = <<>>, EmptySeq
      <4> QED  BY <2>3, <4>1
    <3> QED  BY <2>3, <3>1, TailIndex
  <2> QED  BY <2>2, <2>3, <2>4 DEF Updating
<1> QED  BY <1>4, <1>5, <1>6 DEF r

LEMMA LocksUsedConcat ==
  ASSUME NEW p \in Seq(Step), NEW q \in Seq(Step), LocksUsed(p), LocksUsed(q)
  PROVE  p \o q \in Seq(Step) /\ LocksUsed(p \o q)
<1> DEFINE s == p \o q
<1>1. /\ s \in Seq(Step) /\ Len(s) = Len(p) + Len(q) /\ Len(p) \in Nat /\ Len(q) \in Nat
      /\ \A i \in 1 .. Len(p) + Len(q) : s[i] = IF i <= Len(p) THEN p[i] ELSE q[i - Len(p)]
  BY ConcatProperties, LenProperties
<1> HIDE DEF s
<1>2. LocksUsed(s)
  <2> SUFFICES ASSUME NEW i \in 1 .. Len(s)
               PROVE  /\ s[i] = "writeCache" => /\ i + 2 \in 1 .. Len(s)
                                                /\ s[i + 1] = "lockClient" /\ s[i + 2] = "httpInfo"
                      /\ s[i] = "lockClient" => /\ i + 1 \in 1 .. Len(s)
                                                /\ s[i + 1] \in {"httpInfo", "launch", "cancel", "unpair"}
    BY DEF LocksUsed
  <2>1. CASE i <= Len(p)
    <3>1. i \in 1 .. Len(p) /\ s[i] = p[i]
      BY <1>1, <2>1
    <3>2. \A j \in 1 .. Len(p) : j \in 1 .. Len(s) /\ s[j] = p[j]
      BY <1>1
    <3> QED  BY <3>1, <3>2 DEF LocksUsed
  <2>2. CASE ~(i <= Len(p))
    <3> DEFINE k == i - Len(p)
    <3>1. k \in 1 .. Len(q) /\ s[i] = q[k] /\ i = Len(p) + k
      BY <1>1, <2>2
    <3> HIDE DEF k
    <3>2. \A j \in 1 .. Len(q) : Len(p) + j \in 1 .. Len(s) /\ s[Len(p) + j] = q[j]
      <4> SUFFICES ASSUME NEW j \in 1 .. Len(q)
                   PROVE  Len(p) + j \in 1 .. Len(s) /\ s[Len(p) + j] = q[j]
        OBVIOUS
      <4>1. /\ Len(p) + j \in 1 .. Len(p) + Len(q) /\ ~(Len(p) + j <= Len(p))
            /\ (Len(p) + j) - Len(p) = j
        BY <1>1
      <4> QED  BY <1>1, <4>1
    <3>3. i + 1 = Len(p) + (k + 1) /\ i + 2 = Len(p) + (k + 2)
      BY <1>1, <3>1
    <3>4. s[i] = "writeCache" => /\ i + 2 \in 1 .. Len(s)
                                 /\ s[i + 1] = "lockClient" /\ s[i + 2] = "httpInfo"
      <4> SUFFICES ASSUME s[i] = "writeCache"
                   PROVE  /\ i + 2 \in 1 .. Len(s)
                          /\ s[i + 1] = "lockClient" /\ s[i + 2] = "httpInfo"
        OBVIOUS
      <4>1. k + 2 \in 1 .. Len(q) /\ q[k + 1] = "lockClient" /\ q[k + 2] = "httpInfo"
        BY <3>1 DEF LocksUsed
      <4>2. k + 1 \in 1 .. Len(q)
        BY <1>1, <3>1, <4>1
      <4> QED  BY <3>2, <3>3, <4>1, <4>2
    <3>5. s[i] = "lockClient" => /\ i + 1 \in 1 .. Len(s)
                                 /\ s[i + 1] \in {"httpInfo", "launch", "cancel", "unpair"}
      <4> SUFFICES ASSUME s[i] = "lockClient"
                   PROVE  /\ i + 1 \in 1 .. Len(s)
                          /\ s[i + 1] \in {"httpInfo", "launch", "cancel", "unpair"}
        OBVIOUS
      <4>1. k + 1 \in 1 .. Len(q) /\ q[k + 1] \in {"httpInfo", "launch", "cancel", "unpair"}
        BY <3>1 DEF LocksUsed
      <4> QED  BY <3>2, <3>3, <4>1
    <3> QED  BY <3>4, <3>5
  <2> QED  BY <2>1, <2>2
<1> QED  BY <1>1, <1>2 DEF s

\* The parts of which calls are made.
LEMMA LocksUsedParts ==
  /\ <<>> \in Seq(Step) /\ LocksUsed(<<>>)
  /\ Update \in Seq(Step) /\ LocksUsed(Update)
  /\ \A a \in Step \ {"writeCache", "lockClient"} :
       <<a>> \in Seq(Step) /\ LocksUsed(<<a>>)
<1>1. <<>> \in Seq(Step) /\ LocksUsed(<<>>)
  <2>1. <<>> \in Seq(Step) /\ Len(<<>>) = 0  BY EmptySeq
  <2> QED  BY <2>1 DEF LocksUsed
<1>2. Update \in Seq(Step) /\ LocksUsed(Update)
  <2>1. /\ Update \in Seq(Step) /\ Len(Update) = 5
        /\ Update[1] = "writeCache" /\ Update[2] = "lockClient" /\ Update[3] = "httpInfo"
        /\ Update[4] = "secureInfo" /\ Update[5] = "apps"
    BY DEF Update, Step, Holding
  <2>2. \A i \in 1 .. 5 : i = 1 \/ i = 2 \/ i = 3 \/ i = 4 \/ i = 5  OBVIOUS
  <2> QED  BY <2>1, <2>2 DEF LocksUsed
<1>3. ASSUME NEW a \in Step \ {"writeCache", "lockClient"}
      PROVE  <<a>> \in Seq(Step) /\ LocksUsed(<<a>>)
  <2>1. <<a>> \in Seq(Step) /\ Len(<<a>>) = 1 /\ <<a>>[1] = a  OBVIOUS
  <2> QED  BY <2>1 DEF LocksUsed
<1> QED  BY <1>1, <1>2, <1>3

LEMMA LocksUsedBefore ==
  /\ <<"replaceClient", "setAuthenticated">> \in Seq(Step)
  /\ LocksUsed(<<"replaceClient", "setAuthenticated">>)
  /\ <<"readInfo", "pairing", "authenticate", "takeClient">> \in Seq(Step)
  /\ LocksUsed(<<"readInfo", "pairing", "authenticate", "takeClient">>)
  /\ \A a \in {"unpair", "cancel"} :
       /\ <<"checkPaired", "readInfo", "lockClient", a>> \in Seq(Step)
       /\ LocksUsed(<<"checkPaired", "readInfo", "lockClient", a>>)
  /\ <<"readInfo", "readGame", "lockClient", "launch", "readInfo">> \in Seq(Step)
  /\ LocksUsed(<<"readInfo", "readGame", "lockClient", "launch", "readInfo">>)
<1>1. /\ <<"replaceClient", "setAuthenticated">> \in Seq(Step)
      /\ LocksUsed(<<"replaceClient", "setAuthenticated">>)
  <2> DEFINE s == <<"replaceClient", "setAuthenticated">>
  <2>1. s \in Seq(Step) /\ Len(s) = 2 /\ s[1] = "replaceClient" /\ s[2] = "setAuthenticated"
    BY DEF Step, Holding
  <2> HIDE DEF s
  <2>2. \A i \in 1 .. 2 : i = 1 \/ i = 2  OBVIOUS
  <2>3. LocksUsed(s)  BY <2>1, <2>2 DEF LocksUsed
  <2> QED  BY <2>1, <2>3 DEF s
<1>2. /\ <<"readInfo", "pairing", "authenticate", "takeClient">> \in Seq(Step)
      /\ LocksUsed(<<"readInfo", "pairing", "authenticate", "takeClient">>)
  <2> DEFINE s == <<"readInfo", "pairing", "authenticate", "takeClient">>
  <2>1. /\ s \in Seq(Step) /\ Len(s) = 4 /\ s[1] = "readInfo" /\ s[2] = "pairing"
        /\ s[3] = "authenticate" /\ s[4] = "takeClient"
    BY DEF Step, Holding
  <2> HIDE DEF s
  <2>2. \A i \in 1 .. 4 : i = 1 \/ i = 2 \/ i = 3 \/ i = 4  OBVIOUS
  <2>3. LocksUsed(s)  BY <2>1, <2>2 DEF LocksUsed
  <2> QED  BY <2>1, <2>3 DEF s
<1>3. ASSUME NEW a \in {"unpair", "cancel"}
      PROVE  /\ <<"checkPaired", "readInfo", "lockClient", a>> \in Seq(Step)
             /\ LocksUsed(<<"checkPaired", "readInfo", "lockClient", a>>)
  <2> DEFINE s == <<"checkPaired", "readInfo", "lockClient", a>>
  <2>1. /\ s \in Seq(Step) /\ Len(s) = 4 /\ s[1] = "checkPaired" /\ s[2] = "readInfo"
        /\ s[3] = "lockClient" /\ s[4] = a
    BY DEF Step, Holding
  <2> HIDE DEF s
  <2>2. \A i \in 1 .. 4 : i = 1 \/ i = 2 \/ i = 3 \/ i = 4  OBVIOUS
  <2>3. LocksUsed(s)  BY <2>1, <2>2 DEF LocksUsed
  <2> QED  BY <2>1, <2>3 DEF s
<1>4. /\ <<"readInfo", "readGame", "lockClient", "launch", "readInfo">> \in Seq(Step)
      /\ LocksUsed(<<"readInfo", "readGame", "lockClient", "launch", "readInfo">>)
  <2> DEFINE s == <<"readInfo", "readGame", "lockClient", "launch", "readInfo">>
  <2>1. /\ s \in Seq(Step) /\ Len(s) = 5 /\ s[1] = "readInfo" /\ s[2] = "readGame"
        /\ s[3] = "lockClient" /\ s[4] = "launch" /\ s[5] = "readInfo"
    BY DEF Step, Holding
  <2> HIDE DEF s
  <2>2. \A i \in 1 .. 5 : i = 1 \/ i = 2 \/ i = 3 \/ i = 4 \/ i = 5  OBVIOUS
  <2>3. LocksUsed(s)  BY <2>1, <2>2 DEF LocksUsed
  <2> QED  BY <2>1, <2>3 DEF s
<1> QED  BY <1>1, <1>2, <1>3, <1>4

LEMMA CallsUseLocks ==
  ASSUME NEW call \in Call  PROVE LocksUsed(Steps[call])
<1>1. call \in {"update", "info", "app_list", "set_identity", "pair", "unpair",
               "start_stream", "cancel"}
  BY DEF Call, Steps
<1>2. CASE call = "update"
  <2>1. Steps[call] = Update  BY <1>2 DEF Steps
  <2> QED  BY <2>1, LocksUsedParts
<1>3. CASE call = "info"
  <2>1. Steps[call] = <<"readInfo">>  BY <1>3 DEF Steps
  <2> QED  BY <2>1, LocksUsedParts DEF Step
<1>4. CASE call = "app_list"
  <2>1. Steps[call] = <<"appList">>  BY <1>4 DEF Steps
  <2> QED  BY <2>1, LocksUsedParts DEF Step
<1>5. CASE call = "set_identity"
  <2>1. Steps[call] = <<"replaceClient", "setAuthenticated">> \o Update  BY <1>5 DEF Steps
  <2> QED  BY <2>1, LocksUsedParts, LocksUsedBefore, LocksUsedConcat
<1>6. CASE call = "pair"
  <2>1. Steps[call] = <<"readInfo", "pairing", "authenticate", "takeClient">> \o Update
    BY <1>6 DEF Steps
  <2> QED  BY <2>1, LocksUsedParts, LocksUsedBefore, LocksUsedConcat
<1>7. CASE call = "unpair"
  <2>1. Steps[call] = <<"checkPaired", "readInfo", "lockClient", "unpair">>
    BY <1>7 DEF Steps
  <2> QED  BY <2>1, LocksUsedBefore
<1>8. CASE call = "start_stream"
  <2>1. Steps[call] = Update \o <<"readInfo", "readGame", "lockClient", "launch", "readInfo">>
    BY <1>8 DEF Steps, StartStream
  <2> QED  BY <2>1, LocksUsedParts, LocksUsedBefore, LocksUsedConcat
<1>9. CASE call = "cancel"
  <2> DEFINE p == <<"checkPaired", "readInfo", "lockClient", "cancel">>
  <2>1. Steps[call] = p \o Update \o <<"readGame">>  BY <1>9 DEF Steps
  <2>2. p \in Seq(Step) /\ LocksUsed(p)  BY LocksUsedBefore
  <2> HIDE DEF p
  <2>3. p \o Update \in Seq(Step) /\ LocksUsed(p \o Update)
    BY <2>2, LocksUsedParts, LocksUsedConcat
  <2>4. <<"readGame">> \in Seq(Step) /\ LocksUsed(<<"readGame">>)
    BY LocksUsedParts DEF Step
  <2> QED  BY <2>1, <2>3, <2>4, LocksUsedConcat
<1> QED  BY <1>1, <1>2, <1>3, <1>4, <1>5, <1>6, <1>7, <1>8, <1>9

\* A step of a task that gives each lock it then has something to do.
LEMMA LocksStep ==
  ASSUME Types, Locks, NEW t \in Task, NEW s,
         todo' = [todo EXCEPT ![t] = s], LocksUsed(s),
         clientLock' # Free =>
           IF clientLock' = t THEN s # <<>> /\ Head(s) \in Holding ELSE clientLock' = clientLock,
         cacheLock' # Free =>
           IF cacheLock' = t THEN Updating(s) ELSE cacheLock' = cacheLock
  PROVE  Locks'
<1>1. todo'[t] = s /\ \A u \in Task \ {t} : todo'[u] = todo[u]
  BY DEF Types
<1>2. \A u \in Task : LocksUsed(todo'[u])
  BY <1>1 DEF Locks
<1>3. clientLock' # Free =>
        clientLock' \in Task /\ \E step \in Holding : At(clientLock, step)'
  <2> SUFFICES ASSUME clientLock' # Free
               PROVE  clientLock' \in Task /\ \E step \in Holding : At(clientLock, step)'
    OBVIOUS
  <2>1. CASE clientLock' = t
    BY <1>1, <2>1 DEF At
  <2>2. CASE clientLock' # t
    <3>1. clientLock' = clientLock /\ clientLock \in Task  BY <2>2 DEF Locks
    <3>2. PICK step \in Holding : At(clientLock, step)  BY <3>1 DEF Locks
    <3>3. At(clientLock, step)'  BY <1>1, <2>2, <3>1, <3>2 DEF At
    <3> QED  BY <3>1, <3>3
  <2> QED  BY <2>1, <2>2
<1>4. cacheLock' # Free => cacheLock' \in Task /\ Updating(todo'[cacheLock'])
  <2> SUFFICES ASSUME cacheLock' # Free
               PROVE  cacheLock' \in Task /\ Updating(todo'[cacheLock'])
    OBVIOUS
  <2>1. CASE cacheLock' = t
    BY <1>1, <2>1
  <2>2. CASE cacheLock' # t
    <3>1. cacheLock' = cacheLock /\ cacheLock \in Task  BY <2>2 DEF Locks
    <3>2. todo'[cacheLock'] = todo[cacheLock]  BY <1>1, <2>2, <3>1
    <3> QED  BY <3>1, <3>2 DEF Locks
  <2> QED  BY <2>1, <2>2
<1> QED  BY <1>2, <1>3, <1>4 DEF Locks

\* Which task has neither lock, by the step it is at.
LEMMA HasNoLock ==
  ASSUME Locks, NEW t \in Task
  PROVE  /\ todo[t] = <<>> \/ Head(todo[t]) \notin Holding => clientLock # t
         /\ todo[t] = <<>> \/ Head(todo[t]) \notin {"httpInfo", "secureInfo", "apps", "lockClient"}
              => cacheLock # t
BY HostAssumption DEF Locks, At, Updating

\* The steps that are left are as they should be, whatever step is done.
LEMMA RestUsesLocks ==
  ASSUME HostInv, Locks, NEW t \in Task, todo[t] # <<>>
  PROVE  /\ todo[t] \in Seq(Step) /\ Tail(todo[t]) \in Seq(Step)
         /\ LocksUsed(todo[t]) /\ LocksUsed(Tail(todo[t])) /\ LocksUsed(<<>>)
         /\ Head(todo[t]) = "writeCache" => Updating(Tail(todo[t]))
         /\ Head(todo[t]) = "lockClient" =>
              Tail(todo[t]) # <<>> /\ Head(Tail(todo[t])) \in {"httpInfo", "launch", "cancel", "unpair"}
<1>1. todo[t] \in Seq(Step) /\ LocksUsed(todo[t])
  BY DEF HostInv, Fits, Orderly, Locks
<1>2. Tail(todo[t]) \in Seq(Step)
  BY <1>1, TailIndex
<1> QED  BY <1>1, <1>2, LocksUsedTail, LocksUsedParts

\* A step of a task that has no lock, and takes none.
LEMMA StepWithoutLock ==
  ASSUME HostInv, Locks, NEW t \in Task, NEW s, todo' = [todo EXCEPT ![t] = s], LocksUsed(s),
         UNCHANGED <<clientLock, cacheLock>>,
         todo[t] = <<>> \/ Head(todo[t]) \notin Holding \cup {"lockClient"}
  PROVE  Locks'
<1>1. clientLock # t /\ cacheLock # t
  BY HasNoLock DEF Holding
<1> QED  BY <1>1, LocksStep DEF HostInv

LEMMA EndGivesUpLocks ==
  ASSUME HostInv, Locks, NEW t \in Task, Abort(t)
  PROVE  Locks'
<1>1. todo' = [todo EXCEPT ![t] = <<>>] /\ LocksUsed(<<>>)
  BY LocksUsedParts DEF Abort, Continue
<1>2. clientLock' # Free => clientLock' # t /\ clientLock' = clientLock
  BY DEF Abort, Released
<1>3. cacheLock' # Free => cacheLock' # t /\ cacheLock' = cacheLock
  BY DEF Abort, Released
<1> QED  BY <1>1, <1>2, <1>3, LocksStep DEF HostInv

LEMMA UpdateLocks ==
  ASSUME HostInv, Locks, NEW t \in Task,
         WriteCache(t) \/ LockClient(t) \/ HttpInfo(t) \/ SecureInfo(t) \/ Apps(t)
  PROVE  Locks'
<1>1. todo[t] # <<>>
  BY DEF WriteCache, LockClient, HttpInfo, SecureInfo, Apps, At
<1> DEFINE r == Tail(todo[t])
<1>2. /\ LocksUsed(r) /\ r \in Seq(Step)
      /\ Head(todo[t]) = "writeCache" => Updating(r)
      /\ Head(todo[t]) = "lockClient" =>
           r # <<>> /\ Head(r) \in {"httpInfo", "launch", "cancel", "unpair"}
  BY <1>1, RestUsesLocks
<1>3. /\ r # <<>> => Linked(Head(todo[t]), Head(r))
      /\ Head(todo[t]) \in Opening => r # <<>>
  BY <1>1, HeadAndNext
<1>4. Types  BY DEF HostInv
<1>5. ASSUME WriteCache(t) PROVE Locks'
  <2>1. todo' = [todo EXCEPT ![t] = r] /\ clientLock' = clientLock /\ cacheLock' = t
        /\ Head(todo[t]) = "writeCache"
    BY <1>5 DEF WriteCache, Proceed, Continue, At
  <2>2. clientLock # t  BY <2>1, HasNoLock DEF Holding
  <2> QED  BY <1>2, <1>4, <2>1, <2>2, LocksStep
<1>6. ASSUME LockClient(t) PROVE Locks'
  <2>1. todo' = [todo EXCEPT ![t] = r] /\ clientLock' = t /\ cacheLock' = cacheLock
        /\ Head(todo[t]) = "lockClient"
    BY <1>6 DEF LockClient, Proceed, Continue, At
  <2>2. r # <<>> /\ Head(r) \in Holding  BY <1>2, <2>1 DEF Holding
  <2>3. cacheLock = t => Updating(r)
    <3> SUFFICES ASSUME cacheLock = t PROVE Updating(r)
      OBVIOUS
    <3>1. Updating(todo[t])  BY HostAssumption DEF Locks
    <3> QED  BY <2>1, <3>1 DEF Updating
  <2> QED  BY <1>2, <1>4, <2>1, <2>2, <2>3, LocksStep
<1>7. ASSUME HttpInfo(t) PROVE Locks'
  <2>1. todo' = [todo EXCEPT ![t] = r] /\ UNCHANGED <<clientLock, cacheLock>>
        /\ Head(todo[t]) = "httpInfo"
    BY <1>7 DEF HttpInfo, At
  <2>2. r # <<>> /\ Head(r) = "secureInfo"  BY <1>3, <2>1 DEF Linked, Opening
  <2>3. Head(r) \in Holding /\ Updating(r)  BY <2>2 DEF Holding, Updating
  <2> QED  BY <1>2, <1>4, <2>1, <2>2, <2>3, LocksStep
<1>8. ASSUME SecureInfo(t) PROVE Locks'
  <2>1. Head(todo[t]) = "secureInfo"  BY <1>8 DEF SecureInfo, At
  <2>2. r # <<>> /\ Head(r) = "apps"  BY <1>3, <2>1 DEF Linked, Opening
  <2>3. Head(r) \in Holding /\ Updating(r)  BY <2>2 DEF Holding, Updating
  <2>4. CASE cache.authenticated # NoIdentity
    <3>1. todo' = [todo EXCEPT ![t] = r] /\ UNCHANGED <<clientLock, cacheLock>>
      BY <1>8, <2>4 DEF SecureInfo, Proceed, Continue
    <3> QED  BY <1>2, <1>4, <2>2, <2>3, <3>1, LocksStep
  <2>5. CASE cache.authenticated = NoIdentity
    <3>1. todo' = [todo EXCEPT ![t] = Tail(r)] /\ clientLock' = Free /\ cacheLock' = Free
      BY <1>8, <2>5 DEF SecureInfo, EndUpdate, Continue
    <3>2. LocksUsed(Tail(r))
      <4> HIDE DEF r
      <4> QED  BY <1>2, <2>2, LocksUsedTail
    <3> HIDE DEF r
    <3> QED  BY <1>4, <3>1, <3>2, LocksStep
  <2> QED  BY <2>4, <2>5
<1>9. ASSUME Apps(t) PROVE Locks'
  <2>1. todo' = [todo EXCEPT ![t] = r] /\ clientLock' = Free /\ cacheLock' = Free
    BY <1>9 DEF Apps, EndUpdate, Continue
  <2> QED  BY <1>2, <1>4, <2>1, LocksStep
<1> QED  BY <1>5, <1>6, <1>7, <1>8, <1>9

LEMMA ReadersLocks ==
  ASSUME HostInv, Locks, NEW t \in Task,
         \/ ReadInfo(t) \/ InfoAgain(t) \/ CheckPaired(t) \/ AppList(t) \/ AppListAgain(t)
         \/ Pairing(t) \/ Authenticate(t) \/ TakeClient(t)
  PROVE  Locks'
<1>1. /\ todo[t] # <<>>
      /\ Head(todo[t]) \in {"readInfo", "readGame", "infoAgain", "checkPaired", "appList",
                            "appListAgain", "pairing", "authenticate", "takeClient"}
  BY DEF ReadInfo, InfoAgain, CheckPaired, AppList, AppListAgain, Pairing, Authenticate,
         TakeClient, At
<1>2. Head(todo[t]) \notin Holding \cup {"lockClient"}
  BY <1>1 DEF Holding
<1>3. UNCHANGED <<clientLock, cacheLock>>
  BY DEF ReadInfo, InfoAgain, CheckPaired, AppList, AppListAgain, Pairing, Authenticate, TakeClient
<1>4. \E s : /\ todo' = [todo EXCEPT ![t] = s]
             /\ \/ s = <<>> \/ s = Tail(todo[t]) \/ s = Update \o <<"infoAgain">> \o Tail(todo[t])
                \/ s = Update \o <<"appListAgain">>
  BY DEF ReadInfo, InfoAgain, CheckPaired, AppList, AppListAgain, Pairing, Authenticate,
         TakeClient, Proceed, Continue
<1>5. PICK s : /\ todo' = [todo EXCEPT ![t] = s]
               /\ \/ s = <<>> \/ s = Tail(todo[t]) \/ s = Update \o <<"infoAgain">> \o Tail(todo[t])
                  \/ s = Update \o <<"appListAgain">>
  BY <1>4
<1>6. LocksUsed(s)
  <2>1. LocksUsed(<<>>) /\ Tail(todo[t]) \in Seq(Step) /\ LocksUsed(Tail(todo[t]))
    BY <1>1, RestUsesLocks
  <2>2. \A a \in {"infoAgain", "appListAgain"} :
          Update \o <<a>> \in Seq(Step) /\ LocksUsed(Update \o <<a>>)
    BY LocksUsedParts, LocksUsedConcat DEF Step
  <2>3. LocksUsed(Update \o <<"infoAgain">> \o Tail(todo[t]))
    BY <2>1, <2>2, LocksUsedConcat
  <2> QED  BY <1>5, <2>1, <2>2, <2>3
<1> QED  BY <1>2, <1>3, <1>5, <1>6, StepWithoutLock

LEMMA IdentityLocks ==
  ASSUME HostInv, Locks, NEW t \in Task, ReplaceClient(t) \/ SetAuthenticated(t)
  PROVE  Locks'
<1>1. /\ todo[t] # <<>> /\ Types
      /\ todo' = [todo EXCEPT ![t] = Tail(todo[t])]
  BY DEF ReplaceClient, SetAuthenticated, At, Proceed, Continue, HostInv
<1>2. LocksUsed(Tail(todo[t]))
  BY <1>1, RestUsesLocks
<1>3. ASSUME ReplaceClient(t) PROVE Locks'
  <2>1. Head(todo[t]) = "replaceClient" /\ clientLock' = t /\ cacheLock' = cacheLock
    BY <1>3 DEF ReplaceClient, At
  <2>2. Tail(todo[t]) # <<>> /\ Head(Tail(todo[t])) = "setAuthenticated"
    BY <1>1, <2>1, HeadAndNext DEF Linked, Opening
  <2>3. cacheLock # t  BY <2>1, HasNoLock
  <2> QED  BY <1>1, <1>2, <2>1, <2>2, <2>3, LocksStep DEF Holding
<1>4. ASSUME SetAuthenticated(t) PROVE Locks'
  <2>1. /\ cacheLock' = Free
        /\ clientLock' # Free => clientLock' # t /\ clientLock' = clientLock
    BY <1>4 DEF SetAuthenticated, Released
  <2> QED  BY <1>1, <1>2, <2>1, LocksStep
<1> QED  BY <1>3, <1>4

LEMMA RequestLocks ==
  ASSUME HostInv, Locks, NEW t \in Task, Unpair(t) \/ Launch(t) \/ CancelGame(t)
  PROVE  Locks'
<1>1. /\ todo[t] # <<>> /\ Head(todo[t]) \in {"unpair", "launch", "cancel"}
      /\ clientLock' = Free /\ cacheLock' = cacheLock /\ Types
  BY DEF Unpair, Launch, CancelGame, At, HostInv
<1>2. cacheLock # t
  BY <1>1, HasNoLock
<1>3. PICK s : todo' = [todo EXCEPT ![t] = s] /\ s \in {<<>>, Tail(todo[t])}
  BY DEF Unpair, Launch, CancelGame, Proceed, Continue
<1>4. LocksUsed(s)
  BY <1>1, <1>3, RestUsesLocks
<1> QED  BY <1>1, <1>2, <1>3, <1>4, LocksStep

LEMMA BeginLocks ==
  ASSUME HostInv, Locks, NEW t \in Task, Begin(t)
  PROVE  Locks'
<1>1. PICK call \in Call : todo[t] = <<>> /\ todo' = [todo EXCEPT ![t] = Steps[call]]
  BY DEF Begin
<1>2. UNCHANGED <<clientLock, cacheLock>>
  BY DEF Begin
<1> QED  BY <1>1, <1>2, CallsUseLocks, StepWithoutLock

LEMMA LocksKept == HostInv /\ Locks /\ [Next]_vars => Locks'
<1> SUFFICES ASSUME HostInv, Locks, [Next]_vars PROVE Locks'
  OBVIOUS
<1>1. CASE UNCHANGED vars
  BY <1>1 DEF vars, Locks, At
<1>2. ASSUME NEW t \in Task, Begin(t) \/ Cancel(t) \/ RequestFails(t) PROVE Locks'
  BY <1>2, BeginLocks, EndGivesUpLocks DEF Cancel, RequestFails
<1>3. ASSUME NEW t \in Task, Advance(t), ~RequestFails(t) PROVE Locks'
  BY <1>3, UpdateLocks, ReadersLocks, IdentityLocks, RequestLocks DEF Advance
<1> QED  BY <1>1, <1>2, <1>3 DEF Next

LEMMA LocksFirst == Init => Locks
BY LocksUsedParts DEF Init, Locks

LEMMA LocksUncross == Locks => WaitsEnd
<1> SUFFICES ASSUME Locks, ~Crossed, NEW t \in Task, Waits(t)
             PROVE  \E u \in Task : u \in {clientLock, cacheLock} /\ todo[u] # <<>> /\ ~Waits(u)
  BY DEF WaitsEnd
<1>1. cacheLock # Free =>
        /\ cacheLock \in Task /\ todo[cacheLock] # <<>>
        /\ Head(todo[cacheLock]) \in {"httpInfo", "secureInfo", "apps", "lockClient"}
  BY DEF Locks, Updating
<1>2. clientLock # Free =>
        clientLock \in Task /\ todo[clientLock] # <<>> /\ Head(todo[clientLock]) \in Holding
  BY DEF Locks, At
<1>3. ASSUME NEW u \in Task, Head(todo[u]) \in {"httpInfo", "secureInfo", "apps"} PROVE ~Waits(u)
  BY <1>3 DEF Waits, WaitsForCache, WaitsForClient, At
<1>4. CASE clientLock = Free
  <2>1. cacheLock # Free  BY <1>4 DEF Waits, WaitsForCache, WaitsForClient
  <2>2. ~Waits(cacheLock)
    BY <1>1, <1>4, <2>1 DEF Waits, WaitsForCache, WaitsForClient, At
  <2> QED  BY <1>1, <2>1, <2>2
<1>5. CASE clientLock # Free /\ Waits(clientLock)
  <2>1. At(clientLock, "setAuthenticated") /\ cacheLock # Free
    BY <1>2, <1>5 DEF Waits, WaitsForCache, WaitsForClient, At, Holding
  <2>2. ~At(cacheLock, "lockClient")
    BY <1>1, <1>2, <1>5, <2>1 DEF Crossed
  <2>3. Head(todo[cacheLock]) \in {"httpInfo", "secureInfo", "apps"}
    BY <1>1, <2>1, <2>2 DEF At
  <2> QED  BY <1>1, <1>3, <2>1, <2>3
<1>6. CASE clientLock # Free /\ ~Waits(clientLock)
  BY <1>2, <1>6
<1> QED  BY <1>4, <1>5, <1>6

\* The host's locks hold up no call for ever but in one way: while no call of
\* set_identity has met an update, whoever waits for the client's mutex or the
\* cache's lock waits for a task that has one of the two, waits for neither,
\* and so has only its own request before it.
THEOREM OnlyCrossedLocksBlock == Spec => []WaitsEnd
<1>1. Init => HostInv /\ Locks
  BY HostInvInit, LocksFirst
<1>2. HostInv /\ Locks /\ [Next]_vars => (HostInv /\ Locks)'
  BY HostStep, LocksKept
<1> QED  BY <1>1, <1>2, LocksUncross, PTL DEF Spec

=============================================================================
