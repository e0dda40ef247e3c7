------------------------------- MODULE KvLock -------------------------------
(***************************************************************************)
(* The config store of internal/kvsrv: KVServer, the Clerk that repeats a  *)
(* call until it is answered, and the Lock built on versioned puts, which  *)
(* the shard controllers take around every change of the configuration.    *)
(*                                                                         *)
(* The model follows one key, the lock's.  A client is a Lock with its     *)
(* Clerk; pc says where in Acquire or Release it is, and in the *Get,      *)
(* *Put and *Check states a call of its Clerk is under way.  A call that   *)
(* fails may have been lost, executed with its reply lost, or still be on  *)
(* its way: delayed holds the puts their clients no longer wait for, which *)
(* the server may execute at any later time.  A delayed get does nothing.  *)
(***************************************************************************)
EXTENDS Integers

CONSTANTS
  Client,     \* the locks' clientIDs
  Free,       \* the empty string
  MaxVersion  \* bound: no Acquire starts at a version from it on

ASSUME ClientAssumption == Free \notin Client
ASSUME VersionAssumption == MaxVersion \in Nat

VARIABLES
  store,    \* value and version of the lock's key; version 0: there is no key
  pc,       \* where each client is in lock.go
  seen,     \* the version a client's Put carries
  attempt,  \* how often that Put was sent, as far as the Clerk can tell
  reply,    \* what the call under way was answered
  delayed,  \* puts their clients have given up waiting for
  applied   \* history: whether a client's Put has taken effect

callVars == <<seen, attempt, reply>>
vars     == <<store, pc, callVars, delayed, applied>>

GetStates   == {"AcquireGet", "AcquireCheck", "ReleaseGet", "ReleaseCheck"}
PutStates   == {"AcquirePut", "ReleasePut"}
OtherStates == {"Idle", "Held", "Crashed"}
Trying      == {"AcquireGet", "AcquirePut", "AcquireCheck"}

Answer(err, value, version) == [err |-> err, value |-> value, version |-> version]
NoReply == Answer("none", Free, 0)

Put == [by : Client, value : Client \cup {Free}, version : Nat]

\* The put a client in one of the PutStates is calling.
PutOf(c) == [by |-> c, value |-> IF pc[c] = "AcquirePut" THEN c ELSE Free, version |-> seen[c]]

Init ==
  /\ store = [value |-> Free, version |-> 0]
  /\ pc = [c \in Client |-> "Idle"]
  /\ seen = [c \in Client |-> 0]
  /\ attempt = [c \in Client |-> "first"]
  /\ reply = [c \in Client |-> NoReply]
  /\ delayed = {}
  /\ applied = [c \in Client |-> FALSE]

-----------------------------------------------------------------------------
\* The server (server.go)

ServeGet(c) ==
  /\ pc[c] \in GetStates /\ reply[c] = NoReply
  /\ reply' = [reply EXCEPT ![c] =
       Answer(IF store.version = 0 THEN "ErrNoKey" ELSE "OK", store.value, store.version)]
  /\ UNCHANGED <<store, pc, seen, attempt, delayed, applied>>

\* Mutant: the version is looked at only to tell whether the key must be new.
PutErr_AnyVersion(put) ==
  IF put.version = 0 /\ store.version # 0 THEN "ErrVersion" ELSE "OK"

\* A key that does not exist counts as one of version 0.
PutErr(put) ==
  IF put.version = store.version THEN "OK"
  ELSE IF store.version = 0 THEN "ErrNoKey" ELSE "ErrVersion"

Install(put) ==
  IF PutErr(put) = "OK"
  THEN /\ store' = [value |-> put.value, version |-> store.version + 1]
       /\ applied' = [applied EXCEPT ![put.by] =
            @ \/ (pc[put.by] \in PutStates /\ PutOf(put.by) = put)]
  ELSE UNCHANGED <<store, applied>>

ServePut(c) ==
  /\ pc[c] \in PutStates /\ reply[c] = NoReply
  /\ Install(PutOf(c))
  /\ reply' = [reply EXCEPT ![c] = Answer(PutErr(PutOf(c)), Free, 0)]
  /\ UNCHANGED <<pc, seen, attempt, delayed>>

ServeDelayed(put) ==
  /\ Install(put)
  /\ delayed' = delayed \ {put}
  /\ UNCHANGED <<pc, callVars>>

-----------------------------------------------------------------------------
\* The Clerk (client.go) and the transport under it

\* The put a client stops waiting for may still be on its way.
Abandon(c) ==
  \/ UNCHANGED delayed
  \/ pc[c] \in PutStates /\ reply[c] = NoReply /\ delayed' = delayed \cup {PutOf(c)}

\* A call has failed and is made again.  The transport of the daemons repeats it
\* once by itself (redialed); only after that does the Clerk know (retried).
Resend(c) ==
  /\ pc[c] \in PutStates \/ (pc[c] \in GetStates /\ reply[c] # NoReply)
  /\ Abandon(c)
  /\ reply' = [reply EXCEPT ![c] = NoReply]
  /\ \/ pc[c] \in GetStates /\ UNCHANGED attempt
     \/ pc[c] \in PutStates /\ attempt' = [attempt EXCEPT ![c] = "retried"]
     \/ /\ pc[c] \in PutStates /\ attempt[c] = "first"
        /\ attempt' = [attempt EXCEPT ![c] = "redialed"]
  /\ UNCHANGED <<store, pc, seen, applied>>

\* Mutant: the Clerk forgets that it has sent the put before.
Result_NotMaybe(c) == reply[c].err

\* What Clerk.Put returns.
Result(c) ==
  IF reply[c].err = "ErrVersion" /\ attempt[c] = "retried" THEN "ErrMaybe" ELSE reply[c].err

\* Mutant: the last reply is still there when the next call is made.
Begin_KeepReply(c, state, version) ==
  /\ pc' = [pc EXCEPT ![c] = state]
  /\ seen' = [seen EXCEPT ![c] = version]
  /\ attempt' = [attempt EXCEPT ![c] = "first"]
  /\ applied' = [applied EXCEPT ![c] = FALSE]
  /\ UNCHANGED <<store, reply, delayed>>

\* The client goes on with a new call, or with none.
Begin(c, state, version) ==
  /\ pc' = [pc EXCEPT ![c] = state]
  /\ seen' = [seen EXCEPT ![c] = version]
  /\ attempt' = [attempt EXCEPT ![c] = "first"]
  /\ reply' = [reply EXCEPT ![c] = NoReply]
  /\ applied' = [applied EXCEPT ![c] = FALSE]
  /\ UNCHANGED <<store, delayed>>

-----------------------------------------------------------------------------
\* The lock (lock.go)

Answered(c, state) == pc[c] = state /\ reply[c] # NoReply

\* OK or ErrMaybe: the put may have taken effect.
MayBeDone(c) == Result(c) \in {"OK", "ErrMaybe"}

\* Mutant: a client does not recognise a lock it already has.
Mine_Ignored(c) == FALSE

Mine(c) == reply[c].err = "OK" /\ reply[c].value = c

AcquireStart(c) ==
  /\ pc[c] = "Idle" /\ store.version < MaxVersion
  /\ Begin(c, "AcquireGet", 0)

AcquireGot(c) ==
  /\ Answered(c, "AcquireGet")
  /\ \/ Mine(c) /\ Begin(c, "Held", 0)
     \/ ~Mine(c) /\ reply[c].value = Free /\ Begin(c, "AcquirePut", reply[c].version)
     \/ ~Mine(c) /\ reply[c].value # Free /\ Begin(c, "AcquireGet", 0)

AcquirePutDone(c) ==
  /\ Answered(c, "AcquirePut")
  /\ Begin(c, IF MayBeDone(c) THEN "AcquireCheck" ELSE "AcquireGet", 0)

AcquireChecked(c) ==
  /\ Answered(c, "AcquireCheck")
  /\ Begin(c, IF reply[c].value = c THEN "Held" ELSE "AcquireGet", 0)

ReleaseStart(c) == pc[c] = "Held" /\ Begin(c, "ReleaseGet", 0)

ReleaseGot(c) ==
  /\ Answered(c, "ReleaseGet")
  /\ \/ reply[c].value = c /\ Begin(c, "ReleasePut", reply[c].version)
     \/ reply[c].value # c /\ Begin(c, "Idle", 0)

ReleasePutDone(c) ==
  /\ Answered(c, "ReleasePut")
  /\ Begin(c, IF MayBeDone(c) THEN "ReleaseCheck" ELSE "ReleaseGet", 0)

ReleaseChecked(c) ==
  /\ Answered(c, "ReleaseCheck")
  /\ Begin(c, IF reply[c].value = Free THEN "Idle" ELSE "ReleaseGet", 0)

\* The client's process dies; its next one has a clientID of its own.
Crash(c) ==
  /\ pc[c] # "Crashed"
  /\ Abandon(c)
  /\ pc' = [pc EXCEPT ![c] = "Crashed"]
  /\ seen' = [seen EXCEPT ![c] = 0]
  /\ attempt' = [attempt EXCEPT ![c] = "first"]
  /\ reply' = [reply EXCEPT ![c] = NoReply]
  /\ applied' = [applied EXCEPT ![c] = FALSE]
  /\ UNCHANGED store

-----------------------------------------------------------------------------
Serve(c) == ServeGet(c) \/ ServePut(c)

\* The client takes the answer of its call.
Proceed(c) ==
  \/ AcquireGot(c) \/ AcquirePutDone(c) \/ AcquireChecked(c)
  \/ ReleaseGot(c) \/ ReleasePutDone(c) \/ ReleaseChecked(c)

Next ==
  \/ \E c \in Client :
       \/ AcquireStart(c) \/ ReleaseStart(c) \/ Proceed(c)
       \/ Serve(c) \/ Resend(c) \/ Crash(c)
  \/ \E put \in delayed : ServeDelayed(put)

Spec == Init /\ [][Next]_vars

\* The server serves, a call made again and again is answered some day, and who
\* has the lock releases it (defer lock.Release()) unless it crashes.
Fairness == \A c \in Client : WF_vars(Serve(c)) /\ SF_vars(Proceed(c)) /\ WF_vars(ReleaseStart(c))

LiveSpec == Spec /\ Fairness

-----------------------------------------------------------------------------
\* Types, and the fields of a call only while there is one.
TypeOK ==
  /\ store \in [value : Client \cup {Free}, version : Nat]
  /\ pc \in [Client -> GetStates \cup PutStates \cup OtherStates]
  /\ seen \in [Client -> Nat]
  /\ attempt \in [Client -> {"first", "redialed", "retried"}]
  /\ reply \in [Client -> [err : {"none", "OK", "ErrNoKey", "ErrVersion"},
                           value : Client \cup {Free}, version : Nat]]
  /\ delayed \subseteq Put
  /\ applied \in [Client -> BOOLEAN]
  /\ \A c \in Client :
       /\ pc[c] \in OtherStates => reply[c] = NoReply
       /\ pc[c] \notin PutStates => attempt[c] = "first" /\ ~applied[c]

\* A put on its way was made for the state it will find or for an earlier one, and
\* in the first case it takes a free lock or gives up its sender's.
Fits(put) ==
  /\ put.version <= store.version
  /\ put.version = store.version =>
       store.value = IF put.value = put.by THEN Free ELSE put.by

\* What the mutual exclusion of the lock rests on, inductively: a put that will
\* still take effect is the one its client is calling, or its client is dead; a
\* client that has read its own name has the lock.
LockInv ==
  /\ \A c \in Client : pc[c] = "Held" => store.value = c
  /\ \A c \in Client : pc[c] \in GetStates /\ reply[c] # NoReply =>
       /\ reply[c].version <= store.version
       /\ reply[c].version = store.version => reply[c].value = store.value
       /\ reply[c].value = c => reply[c].version = store.version
  /\ \A c \in Client : pc[c] \in PutStates =>
       IF reply[c] = NoReply THEN Fits(PutOf(c)) ELSE seen[c] < store.version
  /\ \A put \in delayed :
       /\ put.value \in {put.by, Free} /\ Fits(put)
       /\ \/ put.version < store.version
          \/ pc[put.by] = "Crashed"
          \/ pc[put.by] \in PutStates /\ reply[put.by] = NoReply /\ PutOf(put.by) = put

\* The lock keeps its promise: no delayed or repeated put, of whomever, takes the
\* lock from its holder, and Acquire returns to the holder only.
mutex == INSTANCE Mutex WITH holder <- store.value,
                             inside <- {c \in Client : pc[c] = "Held"}
ImplementsMutex == mutex!Spec

\* Clerk.Put answers OK only for a put that took effect, and ErrVersion only for
\* one that did not and never will (client.go:38), as long as the transport has not
\* repeated the call by itself: then a put that took effect may be called refused.
AnswersTrue ==
  \A c \in Client : pc[c] \in PutStates /\ reply[c] # NoReply =>
    /\ Result(c) = "OK" => applied[c]
    /\ Result(c) = "ErrVersion" /\ attempt[c] # "redialed" =>
         ~applied[c] /\ PutOf(c) \notin delayed

\* A client that tries gets the lock or another one does (lock.go, Acquire: spins
\* until it succeeds), unless someone crashes: there is no lease, and a client that
\* dies with the lock, or with its put on the way, keeps the others out for ever.
LockProgress ==
  \A c \in Client : pc[c] \in Trying ~> \E d \in Client : pc[d] \in {"Held", "Crashed"}
=============================================================================
