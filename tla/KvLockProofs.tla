---------------------------- MODULE KvLockProofs ----------------------------
(***************************************************************************)
(* The lock of internal/kvsrv is a lock: proofs about KvLock for every set *)
(* of clients and every bound on the versions.                             *)
(***************************************************************************)
EXTENDS KvLock, TLAPS

USE ClientAssumption

States  == GetStates \cup PutStates \cup OtherStates
Errs    == {"none", "OK", "ErrNoKey", "ErrVersion"}
Values  == Client \cup {Free}
Replies == [err : Errs, value : Values, version : Nat]

LEMMA NoReplyType == NoReply \in Replies
  BY DEF NoReply, Answer, Replies, Errs, Values

\* A put is a put, and never of a version the key has not reached (server.go).
LEMMA PutOfType ==
  ASSUME TypeOK, NEW c \in Client
  PROVE  /\ PutOf(c) \in Put
         /\ PutOf(c).by = c /\ PutOf(c).version = seen[c]
         /\ PutOf(c).value = IF pc[c] = "AcquirePut" THEN c ELSE Free
  BY DEF TypeOK, PutOf, Put

LEMMA PutErrType == ASSUME NEW put PROVE PutErr(put) \in Errs \ {"none"}
  BY DEF PutErr, Errs

-----------------------------------------------------------------------------
\* Type correctness

LEMMA BeginTypes ==
  ASSUME TypeOK, NEW c \in Client, NEW state \in GetStates \cup PutStates \cup {"Idle", "Held"},
         NEW version \in Nat, Begin(c, state, version)
  PROVE  TypeOK'
<1>1. reply' \in [Client -> Replies]
  BY NoReplyType DEF TypeOK, Begin, Replies, Errs, Values
<1>2. pc' \in [Client -> States] /\ seen' \in [Client -> Nat]
  BY DEF TypeOK, Begin, States, OtherStates
<1>3. /\ attempt' \in [Client -> {"first", "redialed", "retried"}]
      /\ applied' \in [Client -> BOOLEAN]
  BY DEF TypeOK, Begin
<1>4. store' \in [value : Values, version : Nat] /\ delayed' \subseteq Put
  BY DEF TypeOK, Begin, Values
<1>5. ASSUME NEW d \in Client
      PROVE  /\ pc'[d] \in OtherStates => reply'[d] = NoReply
             /\ pc'[d] \notin PutStates => attempt'[d] = "first" /\ ~applied'[d]
  BY DEF TypeOK, Begin
<1> QED BY <1>1, <1>2, <1>3, <1>4, <1>5 DEF TypeOK, States, Values, Replies, Errs

LEMMA InstallTypes ==
  ASSUME TypeOK, NEW put \in Put, Install(put)
  PROVE  /\ store' \in [value : Values, version : Nat]
         /\ applied' \in [Client -> BOOLEAN]
         /\ \A c \in Client : pc[c] \notin PutStates => applied'[c] = applied[c]
<1>1. CASE PutErr(put) = "OK"
  <2>1. store' \in [value : Values, version : Nat]
    BY <1>1 DEF TypeOK, Install, Put, Values
  <2>2. DEFINE now == applied[put.by] \/ (pc[put.by] \in PutStates /\ PutOf(put.by) = put)
  <2>3. applied' = [applied EXCEPT ![put.by] = now] /\ now \in BOOLEAN
    BY <1>1 DEF TypeOK, Install
  <2>4. ASSUME NEW c \in Client, pc[c] \notin PutStates
        PROVE  applied'[c] = applied[c]
    <3>1. CASE c = put.by
      BY <2>3, <2>4, <3>1 DEF TypeOK
    <3>2. CASE c # put.by
      BY <2>3, <3>2 DEF TypeOK
    <3> QED BY <3>1, <3>2
  <2>5. applied' \in [Client -> BOOLEAN]
    BY <2>3 DEF TypeOK
  <2> QED BY <2>1, <2>4, <2>5
<1>2. CASE PutErr(put) # "OK"
  BY <1>2 DEF TypeOK, Install, Values
<1> QED BY <1>1, <1>2

LEMMA AbandonTypes ==
  ASSUME TypeOK, NEW c \in Client, Abandon(c)
  PROVE  delayed' \subseteq Put
  BY PutOfType DEF Abandon, TypeOK

LEMMA ServeGetTypes ==
  ASSUME TypeOK, NEW c \in Client, ServeGet(c) PROVE TypeOK'
<1>1. Answer(IF store.version = 0 THEN "ErrNoKey" ELSE "OK", store.value, store.version) \in Replies
  BY DEF TypeOK, Answer, Replies, Errs, Values
<1>2. reply' \in [Client -> Replies]
  BY <1>1 DEF ServeGet, TypeOK, Replies, Errs, Values
<1>3. \A d \in Client : pc[d] \in OtherStates => reply'[d] = NoReply
  BY DEF ServeGet, TypeOK, GetStates, OtherStates
<1> QED BY <1>2, <1>3 DEF ServeGet, TypeOK, Replies, Errs, Values

LEMMA ServePutTypes ==
  ASSUME TypeOK, NEW c \in Client, ServePut(c) PROVE TypeOK'
<1>1. Answer(PutErr(PutOf(c)), Free, 0) \in Replies
  BY PutErrType DEF Answer, Replies, Errs, Values
<1>2. reply' \in [Client -> Replies]
  BY <1>1 DEF ServePut, TypeOK, Replies, Errs, Values
<1>3. \A d \in Client : pc[d] \in OtherStates => reply'[d] = NoReply
  BY DEF ServePut, TypeOK, PutStates, OtherStates
<1>4. /\ store' \in [value : Values, version : Nat]
      /\ applied' \in [Client -> BOOLEAN]
      /\ \A d \in Client : pc[d] \notin PutStates => applied'[d] = applied[d]
  BY InstallTypes, PutOfType DEF ServePut
<1> QED BY <1>2, <1>3, <1>4 DEF ServePut, TypeOK, Replies, Errs, Values

LEMMA ServeDelayedTypes ==
  ASSUME TypeOK, NEW put \in delayed, ServeDelayed(put) PROVE TypeOK'
<1>1. put \in Put
  BY DEF TypeOK
<1>2. /\ store' \in [value : Values, version : Nat]
      /\ applied' \in [Client -> BOOLEAN]
      /\ \A d \in Client : pc[d] \notin PutStates => applied'[d] = applied[d]
  BY <1>1, InstallTypes DEF ServeDelayed
<1> QED BY <1>2 DEF ServeDelayed, TypeOK, callVars, Values

LEMMA ResendTypes ==
  ASSUME TypeOK, NEW c \in Client, Resend(c) PROVE TypeOK'
<1>1. delayed' \subseteq Put
  BY AbandonTypes DEF Resend
<1>2. reply' \in [Client -> Replies] /\ reply' = [reply EXCEPT ![c] = NoReply]
  BY NoReplyType DEF Resend, TypeOK, Replies, Errs, Values
<1>3. /\ attempt' \in [Client -> {"first", "redialed", "retried"}]
      /\ \A d \in Client : pc[d] \notin PutStates => attempt'[d] = attempt[d]
  BY DEF Resend, TypeOK
<1> QED BY <1>1, <1>2, <1>3 DEF Resend, TypeOK, Replies, Errs, Values

LEMMA CrashTypes ==
  ASSUME TypeOK, NEW c \in Client, Crash(c) PROVE TypeOK'
<1>1. delayed' \subseteq Put
  BY AbandonTypes DEF Crash
<1>2. reply' \in [Client -> Replies] /\ reply' = [reply EXCEPT ![c] = NoReply]
  BY NoReplyType DEF Crash, TypeOK, Replies, Errs, Values
<1>3. pc' \in [Client -> States] /\ seen' \in [Client -> Nat]
  BY DEF Crash, TypeOK, States, OtherStates
<1>4. ASSUME NEW d \in Client
      PROVE  /\ pc'[d] \in OtherStates => reply'[d] = NoReply
             /\ pc'[d] \notin PutStates => attempt'[d] = "first" /\ ~applied'[d]
  BY DEF TypeOK, Crash
<1>5. /\ attempt' \in [Client -> {"first", "redialed", "retried"}]
      /\ applied' \in [Client -> BOOLEAN]
  BY DEF TypeOK, Crash
<1>6. store' = store
  BY DEF Crash
<1> QED BY <1>1, <1>2, <1>3, <1>4, <1>5, <1>6 DEF TypeOK, States, Replies, Errs, Values

\* What the steps of lock.go do: one of the clients begins its next call, a put with
\* the version it has just read.
Moves(c, state, version) ==
  /\ Begin(c, state, version)
  /\ state \in GetStates \cup PutStates \cup {"Idle", "Held"} /\ version \in Nat
  /\ \/ state \notin PutStates
     \/ /\ pc[c] \in GetStates /\ reply[c] # NoReply /\ version = reply[c].version
        /\ reply[c].value = IF state = "AcquirePut" THEN Free ELSE c
  /\ state = "Held" => pc[c] \in GetStates /\ reply[c] # NoReply /\ reply[c].value = c
  /\ pc[c] # "Crashed" /\ (pc[c] \in PutStates => reply[c] # NoReply)

LEMMA LockSteps ==
  ASSUME TypeOK, NEW c \in Client, AcquireStart(c) \/ ReleaseStart(c) \/ Proceed(c)
  PROVE  \E state, version : Moves(c, state, version)
<1> USE DEF Moves, GetStates, PutStates, Answered
<1>0. reply[c].version \in Nat /\ 0 \in Nat
  BY DEF TypeOK
<1>1. CASE AcquireStart(c)
  <2> Moves(c, "AcquireGet", 0)
    BY <1>1, <1>0 DEF AcquireStart
  <2> QED OBVIOUS
<1>2. CASE ReleaseStart(c)
  <2> Moves(c, "ReleaseGet", 0)
    BY <1>2, <1>0 DEF ReleaseStart
  <2> QED OBVIOUS
<1>3. CASE AcquireGot(c)
  <2>1. CASE Mine(c) /\ Begin(c, "Held", 0)
    <3> Moves(c, "Held", 0)
      BY <1>3, <2>1, <1>0 DEF AcquireGot, Mine
    <3> QED OBVIOUS
  <2>2. CASE ~Mine(c) /\ reply[c].value = Free /\ Begin(c, "AcquirePut", reply[c].version)
    <3> Moves(c, "AcquirePut", reply[c].version)
      BY <1>3, <2>2, <1>0 DEF AcquireGot
    <3> QED OBVIOUS
  <2>3. CASE ~Mine(c) /\ reply[c].value # Free /\ Begin(c, "AcquireGet", 0)
    <3> Moves(c, "AcquireGet", 0)
      BY <1>3, <2>3, <1>0 DEF AcquireGot
    <3> QED OBVIOUS
  <2> QED BY <1>3, <2>1, <2>2, <2>3 DEF AcquireGot
<1>4. CASE AcquirePutDone(c)
  <2> Moves(c, IF MayBeDone(c) THEN "AcquireCheck" ELSE "AcquireGet", 0)
    BY <1>4, <1>0 DEF AcquirePutDone
  <2> QED OBVIOUS
<1>5. CASE AcquireChecked(c)
  <2> Moves(c, IF reply[c].value = c THEN "Held" ELSE "AcquireGet", 0)
    BY <1>5, <1>0 DEF AcquireChecked
  <2> QED OBVIOUS
<1>6. CASE ReleaseGot(c)
  <2>1. CASE reply[c].value = c /\ Begin(c, "ReleasePut", reply[c].version)
    <3> Moves(c, "ReleasePut", reply[c].version)
      BY <1>6, <2>1, <1>0 DEF ReleaseGot
    <3> QED OBVIOUS
  <2>2. CASE reply[c].value # c /\ Begin(c, "Idle", 0)
    <3> Moves(c, "Idle", 0)
      BY <1>6, <2>2, <1>0 DEF ReleaseGot
    <3> QED OBVIOUS
  <2> QED BY <1>6, <2>1, <2>2 DEF ReleaseGot
<1>7. CASE ReleasePutDone(c)
  <2> Moves(c, IF MayBeDone(c) THEN "ReleaseCheck" ELSE "ReleaseGet", 0)
    BY <1>7, <1>0 DEF ReleasePutDone
  <2> QED OBVIOUS
<1>8. CASE ReleaseChecked(c)
  <2> Moves(c, IF reply[c].value = Free THEN "Idle" ELSE "ReleaseGet", 0)
    BY <1>8, <1>0 DEF ReleaseChecked
  <2> QED OBVIOUS
<1> QED BY <1>1, <1>2, <1>3, <1>4, <1>5, <1>6, <1>7, <1>8 DEF Proceed

\* Every variable keeps its type, and a client has the fields of a call only
\* while there is one (TypeOK).
THEOREM TypeCorrect == Spec => []TypeOK
<1>1. Init => TypeOK
  BY NoReplyType DEF Init, TypeOK, OtherStates, PutStates, Replies, Errs, Values
<1>2. TypeOK /\ [Next]_vars => TypeOK'
  <2> SUFFICES ASSUME TypeOK, [Next]_vars PROVE TypeOK'
    OBVIOUS
  <2>1. CASE \E c \in Client : AcquireStart(c) \/ ReleaseStart(c) \/ Proceed(c)
    BY <2>1, LockSteps, BeginTypes DEF Moves
  <2>2. CASE \E c \in Client : Serve(c)
    BY <2>2, ServeGetTypes, ServePutTypes DEF Serve
  <2>3. CASE \E c \in Client : Resend(c)
    BY <2>3, ResendTypes
  <2>4. CASE \E c \in Client : Crash(c)
    BY <2>4, CrashTypes
  <2>5. CASE \E put \in delayed : ServeDelayed(put)
    BY <2>5, ServeDelayedTypes
  <2>6. CASE UNCHANGED vars
    BY <2>6 DEF TypeOK, vars, callVars
  <2> QED BY <2>1, <2>2, <2>3, <2>4, <2>5, <2>6 DEF Next
<1> QED BY <1>1, <1>2, PTL DEF Spec

-----------------------------------------------------------------------------
\* Mutual exclusion

\* A put that is executed moves the version past every put and every reading made
\* so far; one that fails changes nothing.
LEMMA InstallMoves ==
  ASSUME TypeOK, NEW put \in Put, Install(put)
  PROVE  \/ /\ put.version = store.version
            /\ store' = [value |-> put.value, version |-> store.version + 1]
         \/ put.version # store.version /\ store' = store
  BY DEF Install, PutErr

\* Who holds the lock has no put on its way that would still take effect, so no
\* put takes the lock from it.
LEMMA HolderKeeps ==
  ASSUME TypeOK, LockInv, NEW put \in Put, Install(put),
         \/ \E d \in Client : pc[d] \in PutStates /\ reply[d] = NoReply /\ put = PutOf(d)
         \/ put \in delayed,
         NEW c \in Client, pc[c] \notin PutStates \cup {"Crashed"}, store.value = c
  PROVE  store' = store
<1> SUFFICES ASSUME put.version = store.version PROVE FALSE
  BY InstallMoves
<1>1. Fits(put) /\ put.value \in {put.by, Free} /\ put.by \in Client
  BY PutOfType DEF LockInv, Put, PutStates
<1>2. put.by = c
  BY <1>1 DEF Fits
<1>3. CASE put \in delayed
  BY <1>2, <1>3 DEF LockInv, TypeOK, Put
<1>4. CASE \E d \in Client : pc[d] \in PutStates /\ reply[d] = NoReply /\ put = PutOf(d)
  BY <1>2, <1>4, PutOfType
<1> QED BY <1>3, <1>4

\* The parts of LockInv that a served put leaves to be shown.
LEMMA InstallKeeps ==
  ASSUME TypeOK, LockInv, NEW put \in Put, Install(put), UNCHANGED pc,
         \/ \E d \in Client : pc[d] \in PutStates /\ reply[d] = NoReply /\ put = PutOf(d)
         \/ put \in delayed
  PROVE  /\ \A c \in Client : pc[c] = "Held" => store'.value = c
         /\ \A c \in Client : pc[c] \in GetStates /\ reply[c] # NoReply =>
              /\ reply[c].version <= store'.version
              /\ reply[c].version = store'.version => reply[c].value = store'.value
              /\ reply[c].value = c => reply[c].version = store'.version
         /\ \A p \in Put : Fits(p) => Fits(p)'
         /\ store'.version >= store.version
<1>1. \/ store' = store
      \/ store'.version = store.version + 1
  BY InstallMoves DEF TypeOK
<1>2. store.version \in Nat /\ store'.version >= store.version
  BY <1>1 DEF TypeOK
<1>3. ASSUME NEW c \in Client, pc[c] = "Held" PROVE store'.value = c
  BY <1>3, HolderKeeps DEF LockInv, PutStates
<1>4. ASSUME NEW c \in Client, pc[c] \in GetStates, reply[c] # NoReply
      PROVE  /\ reply[c].version <= store'.version
             /\ reply[c].version = store'.version => reply[c].value = store'.value
             /\ reply[c].value = c => reply[c].version = store'.version
  <2>1. reply[c].version \in Nat /\ reply[c].version <= store.version
    BY <1>4 DEF LockInv, TypeOK
  <2>2. CASE store' = store
    BY <1>4, <2>2 DEF LockInv
  <2>3. CASE store' # store
    <3>1. store'.version = store.version + 1
      BY <1>1, <2>3
    <3>2. reply[c].value # c
      <4> SUFFICES ASSUME reply[c].value = c PROVE FALSE
        OBVIOUS
      <4>1. store.value = c
        BY <1>4 DEF LockInv
      <4> QED BY <1>4, <4>1, <2>3, HolderKeeps DEF GetStates, PutStates
    <3> QED BY <1>2, <2>1, <3>1, <3>2
  <2> QED BY <2>2, <2>3
<1>5. ASSUME NEW p \in Put, Fits(p) PROVE Fits(p)'
  <2>1. p.version \in Nat
    BY DEF Put
  <2> QED BY <1>1, <1>2, <1>5, <2>1 DEF Fits
<1> QED BY <1>2, <1>3, <1>4, <1>5

LEMMA ServeGetKeeps ==
  ASSUME TypeOK, LockInv, NEW c \in Client, ServeGet(c) PROVE LockInv'
<1> DEFINE ans == Answer(IF store.version = 0 THEN "ErrNoKey" ELSE "OK", store.value, store.version)
<1>1. reply' = [reply EXCEPT ![c] = ans] /\ pc[c] \in GetStates
  BY DEF ServeGet
<1>2. ans.value = store.value /\ ans.version = store.version /\ store.version \in Nat
  BY DEF Answer, TypeOK
<1>3. UNCHANGED <<store, pc, seen, delayed>>
  BY DEF ServeGet
<1>4. \A d \in Client : pc[d] \in PutStates => reply'[d] = reply[d] /\ PutOf(d)' = PutOf(d)
  BY <1>1, <1>3 DEF TypeOK, GetStates, PutStates, PutOf
<1>5. ASSUME NEW d \in Client, pc[d] \in GetStates, reply'[d] # NoReply
      PROVE  /\ reply'[d].version <= store.version
             /\ reply'[d].version = store.version => reply'[d].value = store.value
             /\ reply'[d].value = d => reply'[d].version = store.version
  <2>1. CASE d = c
    BY <1>1, <1>2, <2>1 DEF TypeOK
  <2>2. CASE d # c
    BY <1>1, <1>5, <2>2 DEF TypeOK, LockInv
  <2> QED BY <2>1, <2>2
<1>6. \A p : Fits(p)' <=> Fits(p)
  BY <1>3 DEF Fits
<1>7. \A p \in delayed : p.by \in Client
  BY DEF TypeOK, Put
<1> QED BY <1>3, <1>4, <1>5, <1>6, <1>7 DEF LockInv

LEMMA ServePutKeeps ==
  ASSUME TypeOK, LockInv, NEW c \in Client, ServePut(c) PROVE LockInv'
<1> DEFINE put == PutOf(c)
<1>1. /\ put \in Put /\ put.by = c /\ put.version = seen[c]
      /\ pc[c] \in PutStates /\ reply[c] = NoReply /\ Install(put)
      /\ UNCHANGED <<pc, seen, attempt, delayed>>
  BY PutOfType DEF ServePut
<1>2. reply' = [reply EXCEPT ![c] = Answer(PutErr(put), Free, 0)] /\ reply'[c] # NoReply
  <2>1. reply' = [reply EXCEPT ![c] = Answer(PutErr(put), Free, 0)]
    BY DEF ServePut
  <2>2. Answer(PutErr(put), Free, 0) # NoReply
    BY PutErrType DEF Answer, NoReply
  <2> QED BY <2>1, <2>2 DEF TypeOK
<1>3. \A d \in Client : d # c => reply'[d] = reply[d] /\ PutOf(d)' = PutOf(d)
  BY <1>1, <1>2 DEF TypeOK, PutOf
<1>4. /\ \A d \in Client : pc[d] = "Held" => store'.value = d
      /\ \A d \in Client : pc[d] \in GetStates /\ reply[d] # NoReply =>
           /\ reply[d].version <= store'.version
           /\ reply[d].version = store'.version => reply[d].value = store'.value
           /\ reply[d].value = d => reply[d].version = store'.version
      /\ \A p \in Put : Fits(p) => Fits(p)'
      /\ store'.version >= store.version
  <2>1. UNCHANGED pc
    BY <1>1
  <2> QED BY <1>1, <2>1, InstallKeeps
<1>5. store.version \in Nat /\ store'.version \in Nat /\ \A d \in Client : seen[d] \in Nat
  BY <1>1, InstallTypes DEF TypeOK
<1>6. seen[c] < store'.version
  <2>1. Fits(put)
    BY <1>1 DEF LockInv
  <2> QED BY <1>1, <1>5, <2>1, InstallMoves DEF Fits
<1>7. ASSUME NEW d \in Client, pc[d] \in GetStates, reply'[d] # NoReply
      PROVE  /\ reply'[d].version <= store'.version
             /\ reply'[d].version = store'.version => reply'[d].value = store'.value
             /\ reply'[d].value = d => reply'[d].version = store'.version
  <2>1. d # c
    BY <1>1, <1>7 DEF GetStates, PutStates
  <2> QED BY <1>3, <1>4, <1>7, <2>1
<1>8. ASSUME NEW d \in Client, pc[d] \in PutStates
      PROVE  IF reply'[d] = NoReply THEN Fits(PutOf(d))' ELSE seen[d] < store'.version
  <2>1. CASE d = c
    BY <1>2, <1>6, <2>1
  <2>2. CASE d # c
    <3>1. IF reply[d] = NoReply THEN Fits(PutOf(d)) ELSE seen[d] < store.version
      BY <1>8 DEF LockInv
    <3>2. Fits(PutOf(d)) => Fits(PutOf(d))'
      <4>1. PutOf(d)' = PutOf(d) /\ PutOf(d) \in Put
        BY <1>3, <2>2, PutOfType
      <4> QED BY <4>1, <1>4 DEF Fits
    <3> QED BY <1>3, <1>4, <1>5, <2>2, <3>1, <3>2
  <2> QED BY <2>1, <2>2
<1>9. ASSUME NEW p \in delayed
      PROVE  /\ p.value \in {p.by, Free} /\ Fits(p)'
             /\ \/ p.version < store'.version
                \/ pc[p.by] = "Crashed"
                \/ pc[p.by] \in PutStates /\ reply'[p.by] = NoReply /\ PutOf(p.by)' = p
  <2>1. p \in Put /\ p.by \in Client /\ p.version \in Nat
    BY DEF TypeOK, Put
  <2>2. p.value \in {p.by, Free} /\ Fits(p)'
    BY <1>4, <2>1 DEF LockInv
  <2>3. CASE p.version < store.version
    BY <1>4, <1>5, <2>1, <2>2, <2>3
  <2>4. CASE pc[p.by] = "Crashed"
    BY <2>2, <2>4
  <2>5. CASE pc[p.by] \in PutStates /\ reply[p.by] = NoReply /\ PutOf(p.by) = p
    <3>1. CASE p.by = c
      BY <1>1, <1>6, <2>2, <2>5, <3>1
    <3>2. CASE p.by # c
      BY <1>3, <2>1, <2>2, <2>5, <3>2
    <3> QED BY <3>1, <3>2
  <2> QED BY <2>3, <2>4, <2>5 DEF LockInv
<1> QED BY <1>1, <1>4, <1>7, <1>8, <1>9 DEF LockInv

LEMMA ServeDelayedKeeps ==
  ASSUME TypeOK, LockInv, NEW put \in delayed, ServeDelayed(put) PROVE LockInv'
<1>1. /\ put \in Put /\ Install(put) /\ delayed' \subseteq delayed
      /\ UNCHANGED <<pc, seen, attempt, reply>>
  BY DEF ServeDelayed, TypeOK, callVars
<1>2. /\ \A d \in Client : pc[d] = "Held" => store'.value = d
      /\ \A d \in Client : pc[d] \in GetStates /\ reply[d] # NoReply =>
           /\ reply[d].version <= store'.version
           /\ reply[d].version = store'.version => reply[d].value = store'.value
           /\ reply[d].value = d => reply[d].version = store'.version
      /\ \A p \in Put : Fits(p) => Fits(p)'
      /\ store'.version >= store.version
  <2>1. UNCHANGED pc
    BY <1>1
  <2> QED BY <1>1, <2>1, InstallKeeps
<1>3. store.version \in Nat /\ store'.version \in Nat
  BY <1>1, InstallTypes DEF TypeOK
<1>4. \A d \in Client : PutOf(d)' = PutOf(d)
  BY <1>1 DEF PutOf
<1>5. ASSUME NEW d \in Client, pc[d] \in PutStates
      PROVE  IF reply[d] = NoReply THEN Fits(PutOf(d))' ELSE seen[d] < store'.version
  <2>1. IF reply[d] = NoReply THEN Fits(PutOf(d)) ELSE seen[d] < store.version
    BY <1>5 DEF LockInv
  <2>2. Fits(PutOf(d)) => Fits(PutOf(d))'
    <3>1. PutOf(d)' = PutOf(d) /\ PutOf(d) \in Put
      BY <1>4, PutOfType
    <3> QED BY <3>1, <1>2 DEF Fits
  <2>3. seen[d] \in Nat
    BY DEF TypeOK
  <2> QED BY <1>2, <1>3, <2>1, <2>2, <2>3
<1>6. ASSUME NEW p \in delayed
      PROVE  /\ p.value \in {p.by, Free} /\ Fits(p)'
             /\ \/ p.version < store'.version
                \/ pc[p.by] = "Crashed"
                \/ pc[p.by] \in PutStates /\ reply[p.by] = NoReply /\ PutOf(p.by)' = p
  <2>1. p \in Put /\ p.by \in Client /\ p.version \in Nat
    BY DEF TypeOK, Put
  <2> QED BY <1>2, <1>3, <1>4, <2>1 DEF LockInv
<1> QED BY <1>1, <1>2, <1>5, <1>6 DEF LockInv

\* A put given up by its client is as good as it was when the client called it.
LEMMA AbandonKeeps ==
  ASSUME TypeOK, LockInv, NEW c \in Client, Abandon(c), NEW p \in delayed'
  PROVE  /\ p \in Put /\ p.value \in {p.by, Free} /\ Fits(p)
         /\ \/ p.version < store.version
            \/ pc[p.by] = "Crashed"
            \/ pc[p.by] \in PutStates /\ reply[p.by] = NoReply /\ PutOf(p.by) = p
<1>1. CASE p \in delayed
  BY <1>1 DEF LockInv, TypeOK
<1>2. CASE p \notin delayed
  <2>1. pc[c] \in PutStates /\ reply[c] = NoReply /\ p = PutOf(c)
    BY <1>2 DEF Abandon
  <2>2. Fits(p)
    BY <2>1 DEF LockInv
  <2> QED BY <2>1, <2>2, PutOfType
<1> QED BY <1>1, <1>2

LEMMA ResendKeeps ==
  ASSUME TypeOK, LockInv, NEW c \in Client, Resend(c) PROVE LockInv'
<1>1. /\ UNCHANGED <<store, pc, seen>> /\ Abandon(c)
      /\ reply' = [reply EXCEPT ![c] = NoReply]
  BY DEF Resend
<1>2. \A d \in Client : PutOf(d)' = PutOf(d)
  BY <1>1 DEF PutOf
<1>3. \A p : Fits(p)' <=> Fits(p)
  BY <1>1 DEF Fits
<1>4. \A d \in Client : reply'[d] = reply[d] \/ (d = c /\ reply'[d] = NoReply)
  BY <1>1 DEF TypeOK
<1>5. store.version \in Nat /\ seen[c] \in Nat
  BY DEF TypeOK
<1>6. pc[c] \in PutStates => Fits(PutOf(c))
  BY <1>5, PutOfType DEF LockInv, Fits
<1>7. ASSUME NEW d \in Client, pc[d] \in PutStates
      PROVE  IF reply'[d] = NoReply THEN Fits(PutOf(d))' ELSE seen[d] < store.version
  <2>1. Fits(PutOf(d))' <=> Fits(PutOf(d))
    BY <1>1, <1>2 DEF Fits
  <2> QED BY <1>4, <1>6, <1>7, <2>1 DEF LockInv
<1>8. ASSUME NEW p \in delayed'
      PROVE  /\ p.value \in {p.by, Free} /\ Fits(p)'
             /\ \/ p.version < store.version
                \/ pc[p.by] = "Crashed"
                \/ pc[p.by] \in PutStates /\ reply'[p.by] = NoReply /\ PutOf(p.by)' = p
  <2>1. p.by \in Client
    BY <1>1, AbandonKeeps DEF Put
  <2> QED BY <1>1, <1>2, <1>3, <1>4, <2>1, AbandonKeeps
<1>9. ASSUME NEW d \in Client, pc[d] \in GetStates, reply'[d] # NoReply
      PROVE  /\ reply'[d].version <= store.version
             /\ reply'[d].version = store.version => reply'[d].value = store.value
             /\ reply'[d].value = d => reply'[d].version = store.version
  BY <1>4, <1>9 DEF LockInv
<1> QED BY <1>1, <1>7, <1>8, <1>9 DEF LockInv

LEMMA CrashKeeps ==
  ASSUME TypeOK, LockInv, NEW c \in Client, Crash(c) PROVE LockInv'
<1>1. /\ UNCHANGED store /\ Abandon(c)
      /\ \A d \in Client : IF d = c THEN pc'[d] = "Crashed"
           ELSE pc'[d] = pc[d] /\ seen'[d] = seen[d] /\ reply'[d] = reply[d]
  BY DEF Crash, TypeOK
<1>2. \A d \in Client : d # c => PutOf(d)' = PutOf(d)
  BY <1>1 DEF PutOf
<1>3. \A p : Fits(p)' <=> Fits(p)
  BY <1>1 DEF Fits
<1>4. ASSUME NEW d \in Client, pc'[d] \in PutStates
      PROVE  IF reply'[d] = NoReply THEN Fits(PutOf(d))' ELSE seen'[d] < store.version
  <2>1. d # c
    BY <1>1, <1>4 DEF PutStates
  <2>2. Fits(PutOf(d))' <=> Fits(PutOf(d))
    BY <1>1, <1>2, <2>1 DEF Fits
  <2> QED BY <1>1, <1>4, <2>1, <2>2 DEF LockInv
<1>5. ASSUME NEW p \in delayed'
      PROVE  /\ p.value \in {p.by, Free} /\ Fits(p)'
             /\ \/ p.version < store.version
                \/ pc'[p.by] = "Crashed"
                \/ pc'[p.by] \in PutStates /\ reply'[p.by] = NoReply /\ PutOf(p.by)' = p
  <2>1. p.by \in Client
    BY <1>1, AbandonKeeps DEF Put
  <2> QED BY <1>1, <1>2, <1>3, <2>1, AbandonKeeps
<1>6. ASSUME NEW d \in Client, pc'[d] \in GetStates, reply'[d] # NoReply
      PROVE  /\ reply'[d].version <= store.version
             /\ reply'[d].version = store.version => reply'[d].value = store.value
             /\ reply'[d].value = d => reply'[d].version = store.version
  BY <1>1, <1>6 DEF LockInv, GetStates
<1>7. \A d \in Client : pc'[d] = "Held" => store.value = d
  BY <1>1 DEF LockInv
<1> QED BY <1>1, <1>4, <1>5, <1>6, <1>7 DEF LockInv

LEMMA MovesKeeps ==
  ASSUME TypeOK, LockInv, NEW c \in Client, NEW state, NEW version, Moves(c, state, version)
  PROVE  LockInv'
<1>1. /\ UNCHANGED <<store, delayed>>
      /\ \A d \in Client :
           IF d = c THEN pc'[d] = state /\ seen'[d] = version /\ reply'[d] = NoReply
           ELSE pc'[d] = pc[d] /\ seen'[d] = seen[d] /\ reply'[d] = reply[d]
  BY DEF Moves, Begin, TypeOK
<1>2. \A d \in Client : d # c => PutOf(d)' = PutOf(d)
  BY <1>1 DEF PutOf
<1>3. \A p : Fits(p)' <=> Fits(p)
  BY <1>1 DEF Fits
<1>4. state \in PutStates => Fits(PutOf(c)')
  <2> SUFFICES ASSUME state \in PutStates PROVE Fits(PutOf(c)')
    OBVIOUS
  <2>1. PutOf(c)' = [by |-> c, value |-> IF state = "AcquirePut" THEN c ELSE Free,
                     version |-> version]
    BY <1>1 DEF PutOf
  <2>2. /\ pc[c] \in GetStates /\ reply[c] # NoReply /\ version = reply[c].version
        /\ reply[c].value = IF state = "AcquirePut" THEN Free ELSE c
    BY DEF Moves
  <2>3. /\ version <= store.version
        /\ version = store.version => reply[c].value = store.value
    BY <2>2 DEF LockInv
  <2>4. c # Free
    OBVIOUS
  <2> QED BY <2>1, <2>2, <2>3, <2>4 DEF Fits
<1>5. ASSUME NEW d \in Client, pc'[d] \in PutStates
      PROVE  IF reply'[d] = NoReply THEN Fits(PutOf(d))' ELSE seen'[d] < store.version
  <2>1. CASE d = c
    <3>1. Fits(PutOf(d))' <=> Fits(PutOf(c)')
      BY <1>1, <2>1 DEF Fits
    <3> QED BY <1>1, <1>4, <1>5, <2>1, <3>1
  <2>2. CASE d # c
    <3>1. Fits(PutOf(d))' <=> Fits(PutOf(d))
      BY <1>1, <1>2, <2>2 DEF Fits
    <3> QED BY <1>1, <1>5, <2>2, <3>1 DEF LockInv
  <2> QED BY <2>1, <2>2
<1>6. ASSUME NEW p \in delayed
      PROVE  /\ p.value \in {p.by, Free} /\ Fits(p)'
             /\ \/ p.version < store.version
                \/ pc'[p.by] = "Crashed"
                \/ pc'[p.by] \in PutStates /\ reply'[p.by] = NoReply /\ PutOf(p.by)' = p
  <2>1. p.by \in Client
    BY DEF TypeOK, Put
  <2>2. p.value \in {p.by, Free} /\ Fits(p)'
    BY <1>3 DEF LockInv
  <2>3. CASE p.by = c
    <3>1. ~(pc[c] \in PutStates /\ reply[c] = NoReply) /\ pc[c] # "Crashed"
      BY DEF Moves
    <3> QED BY <2>2, <2>3, <3>1 DEF LockInv
  <2>4. CASE p.by # c
    BY <1>1, <1>2, <2>1, <2>2, <2>4 DEF LockInv
  <2> QED BY <2>3, <2>4
<1>7. ASSUME NEW d \in Client, pc'[d] \in GetStates, reply'[d] # NoReply
      PROVE  /\ reply'[d].version <= store.version
             /\ reply'[d].version = store.version => reply'[d].value = store.value
             /\ reply'[d].value = d => reply'[d].version = store.version
  BY <1>1, <1>7 DEF LockInv
<1>8. ASSUME NEW d \in Client, pc'[d] = "Held" PROVE store.value = d
  <2>1. CASE d = c
    BY <1>1, <1>8, <2>1 DEF Moves, LockInv
  <2>2. CASE d # c
    BY <1>1, <1>8, <2>2 DEF LockInv
  <2> QED BY <2>1, <2>2
<1> QED BY <1>1, <1>5, <1>6, <1>7, <1>8 DEF LockInv

\* Puts on their way fit, and a holder has the lock (LockInv): the inductive
\* invariant behind mutual exclusion.
THEOREM LockSafe == Spec => []LockInv
<1>1. Init => LockInv
  BY DEF Init, LockInv, GetStates, PutStates
<1>2. TypeOK /\ LockInv /\ [Next]_vars => LockInv'
  <2> SUFFICES ASSUME TypeOK, LockInv, [Next]_vars PROVE LockInv'
    OBVIOUS
  <2>1. CASE \E c \in Client : AcquireStart(c) \/ ReleaseStart(c) \/ Proceed(c)
    BY <2>1, LockSteps, MovesKeeps
  <2>2. CASE \E c \in Client : Serve(c)
    BY <2>2, ServeGetKeeps, ServePutKeeps DEF Serve
  <2>3. CASE \E c \in Client : Resend(c)
    BY <2>3, ResendKeeps
  <2>4. CASE \E c \in Client : Crash(c)
    BY <2>4, CrashKeeps
  <2>5. CASE \E put \in delayed : ServeDelayed(put)
    BY <2>5, ServeDelayedKeeps
  <2>6. CASE UNCHANGED vars
    <3>1. UNCHANGED <<store, pc, seen, reply, delayed>>
      BY <2>6 DEF vars, callVars
    <3>2. \A c : PutOf(c)' = PutOf(c)
      BY <3>1 DEF PutOf
    <3>3. \A p : Fits(p)' <=> Fits(p)
      BY <3>1 DEF Fits
    <3>4. \A c : Fits(PutOf(c))' <=> Fits(PutOf(c))
      BY <3>1, <3>2 DEF Fits
    <3> QED BY <3>1, <3>2, <3>3, <3>4 DEF LockInv
  <2> QED BY <2>1, <2>2, <2>3, <2>4, <2>5, <2>6 DEF Next
<1> QED BY <1>1, <1>2, TypeCorrect, PTL DEF Spec

-----------------------------------------------------------------------------
\* Refinement of Mutex

Inside     == {c \in Client : pc[c] = "Held"}
MutexStep  == mutex!Next \/ (store'.value = store.value /\ Inside' = Inside)

\* A served put takes a free lock for its client, or gives its client's up.
LEMMA InstallRefines ==
  ASSUME TypeOK, LockInv, NEW put \in Put, Install(put), UNCHANGED pc,
         \/ \E d \in Client : pc[d] \in PutStates /\ reply[d] = NoReply /\ put = PutOf(d)
         \/ put \in delayed
  PROVE  MutexStep
<1>1. Inside' = Inside
  BY DEF Inside
<1>2. CASE store' = store
  BY <1>1, <1>2 DEF MutexStep
<1>3. CASE store' # store
  <2>1. store'.value = put.value /\ put.version = store.version
    BY <1>3, InstallMoves
  <2>2. put.by \in Client /\ put.value \in {put.by, Free} /\ Fits(put)
    BY PutOfType DEF LockInv, Put, PutStates
  <2>3. CASE put.value = put.by
    <3>1. mutex!Take(put.by)
      BY <1>1, <2>1, <2>2, <2>3 DEF Fits, mutex!Take, Inside
    <3> QED BY <2>2, <3>1 DEF MutexStep, mutex!Next
  <2>4. CASE put.value = Free
    <3>1. store.value = put.by
      BY <2>1, <2>2, <2>4 DEF Fits
    <3>2. put.by \notin Inside
      BY <1>3, <2>2, <3>1, HolderKeeps DEF Inside, PutStates
    <3>3. mutex!Give(put.by)
      BY <1>1, <2>1, <2>4, <3>1, <3>2 DEF mutex!Give, Inside
    <3> QED BY <2>2, <3>3 DEF MutexStep, mutex!Next
  <2> QED BY <2>2, <2>3, <2>4
<1> QED BY <1>2, <1>3

\* A client enters after it has read its own name, and leaves when it likes.
LEMMA MovesRefine ==
  ASSUME TypeOK, LockInv, NEW c \in Client, NEW state, NEW version, Moves(c, state, version)
  PROVE  MutexStep
<1>1. UNCHANGED store /\ pc' = [pc EXCEPT ![c] = state]
  BY DEF Moves, Begin
<1>2. CASE state = "Held"
  <2>1. store.value = c
    BY <1>2 DEF Moves, LockInv
  <2>2. Inside' = Inside \cup {c}
    BY <1>1, <1>2 DEF Inside, TypeOK
  <2>3. mutex!Enter(c)
    BY <1>1, <2>1, <2>2 DEF mutex!Enter, Inside
  <2> QED BY <2>3 DEF MutexStep, mutex!Next
<1>3. CASE state # "Held"
  <2>1. Inside' = Inside \ {c}
    BY <1>1, <1>3 DEF Inside, TypeOK
  <2>2. CASE c \in Inside
    <3>1. mutex!Leave(c)
      BY <1>1, <2>1, <2>2 DEF mutex!Leave, Inside
    <3> QED BY <3>1 DEF MutexStep, mutex!Next
  <2>3. CASE c \notin Inside
    BY <1>1, <2>1, <2>3 DEF MutexStep
  <2> QED BY <2>2, <2>3
<1> QED BY <1>2, <1>3

LEMMA CrashRefines ==
  ASSUME TypeOK, NEW c \in Client, Crash(c)
  PROVE  MutexStep
<1>1. UNCHANGED store /\ Inside' = Inside \ {c}
  BY DEF Crash, Inside, TypeOK
<1>2. CASE c \in Inside
  <2>1. mutex!Leave(c)
    BY <1>1, <1>2 DEF mutex!Leave, Inside
  <2> QED BY <2>1 DEF MutexStep, mutex!Next
<1>3. CASE c \notin Inside
  BY <1>1, <1>3 DEF MutexStep
<1> QED BY <1>2, <1>3

\* The lock of lock.go is a lock, whatever is lost, repeated or delayed and whoever
\* crashes: one holder, replaced by nobody, and only the holder inside.
THEOREM LockIsMutex == Spec => ImplementsMutex
<1>1. Init => mutex!Init
  BY DEF Init, mutex!Init
<1>2. TypeOK /\ LockInv /\ [Next]_vars => MutexStep
  <2> SUFFICES ASSUME TypeOK, LockInv, [Next]_vars PROVE MutexStep
    OBVIOUS
  <2>1. CASE \E c \in Client : AcquireStart(c) \/ ReleaseStart(c) \/ Proceed(c)
    BY <2>1, LockSteps, MovesRefine
  <2>2. CASE \E c \in Client : Serve(c)
    <3> PICK c \in Client : Serve(c)
      BY <2>2
    <3>1. CASE ServeGet(c)
      BY <3>1 DEF ServeGet, MutexStep, Inside
    <3>2. CASE ServePut(c)
      BY <3>2, PutOfType, InstallRefines DEF ServePut
    <3> QED BY <3>1, <3>2 DEF Serve
  <2>3. CASE \E c \in Client : Resend(c)
    BY <2>3 DEF Resend, MutexStep, Inside
  <2>4. CASE \E c \in Client : Crash(c)
    BY <2>4, CrashRefines
  <2>5. CASE \E put \in delayed : ServeDelayed(put)
    <3> PICK put \in delayed : ServeDelayed(put)
      BY <2>5
    <3>1. put \in Put /\ Install(put) /\ UNCHANGED pc
      BY DEF ServeDelayed, TypeOK
    <3> QED BY <3>1, InstallRefines
  <2>6. CASE UNCHANGED vars
    BY <2>6 DEF vars, MutexStep, Inside
  <2> QED BY <2>1, <2>2, <2>3, <2>4, <2>5, <2>6 DEF Next
<1>3. MutexStep => [mutex!Next]_<<store.value, {c \in Client : pc[c] = "Held"}>>
  BY DEF MutexStep, Inside
<1> QED BY <1>1, <1>2, <1>3, TypeCorrect, LockSafe, PTL DEF Spec, ImplementsMutex, mutex!Spec

-----------------------------------------------------------------------------
\* What Clerk.Put reports

\* All puts that c has given up were made for versions lower than n.
Behind(c, n) == \A put \in delayed : put.by = c => put.version < n

\* A client that calls its put for the first time has no copy of it on its way, and
\* the put has taken effect exactly if the answer says so.
Truthful(c) ==
  /\ pc[c] \in GetStates /\ reply[c] # NoReply => Behind(c, reply[c].version)
  /\ pc[c] \in PutStates =>
       /\ reply[c].err = "OK" => applied[c]
       /\ attempt[c] = "first" => Behind(c, seen[c]) /\ (reply[c].err # "OK" => ~applied[c])

TruthInv == \A c \in Client : Truthful(c)

\* Executing a put tells of that put only.
LEMMA InstallTells ==
  ASSUME TypeOK, NEW put \in Put, Install(put), NEW c \in Client
  PROVE  /\ applied[c] => applied'[c]
         /\ put # PutOf(c) \/ PutErr(put) # "OK" => applied'[c] = applied[c]
         /\ put = PutOf(c) /\ pc[c] \in PutStates /\ PutErr(put) = "OK" => applied'[c]
<1> DEFINE now == applied[put.by] \/ (pc[put.by] \in PutStates /\ PutOf(put.by) = put)
<1>1. CASE PutErr(put) # "OK"
  BY <1>1 DEF Install
<1>2. CASE PutErr(put) = "OK"
  <2>1. applied' = [applied EXCEPT ![put.by] = now] /\ put.by \in Client
    BY <1>2 DEF Install, Put, TypeOK
  <2>2. c # put.by => applied'[c] = applied[c] /\ put # PutOf(c)
    BY <2>1, PutOfType DEF TypeOK
  <2>3. c = put.by => applied'[c] = now
    BY <2>1 DEF TypeOK
  <2>4. applied[c] \in BOOLEAN
    BY DEF TypeOK
  <2> QED BY <1>2, <2>2, <2>3, <2>4
<1> QED BY <1>1, <1>2

LEMMA ServeGetTells ==
  ASSUME TypeOK, LockInv, TruthInv, NEW c \in Client, ServeGet(c) PROVE TruthInv'
<1>1. /\ pc[c] \in GetStates /\ pc[c] \notin PutStates /\ pc[c] # "Crashed"
      /\ UNCHANGED <<store, pc, seen, attempt, delayed, applied>>
  BY DEF ServeGet, GetStates, PutStates
<1>2. /\ reply'[c].version = store.version
      /\ \A d \in Client : d # c => reply'[d] = reply[d]
  BY DEF ServeGet, TypeOK, Answer
<1>3. Behind(c, store.version)
  BY <1>1 DEF Behind, LockInv
<1> SUFFICES ASSUME NEW d \in Client PROVE Truthful(d)'
  BY DEF TruthInv
<1>4. CASE d = c
  BY <1>1, <1>2, <1>3, <1>4 DEF Truthful, Behind
<1>5. CASE d # c
  BY <1>1, <1>2, <1>5 DEF TruthInv, Truthful, Behind
<1> QED BY <1>4, <1>5

LEMMA ServePutTells ==
  ASSUME TypeOK, TruthInv, NEW c \in Client, ServePut(c) PROVE TruthInv'
<1>1. /\ pc[c] \in PutStates /\ pc[c] \notin GetStates /\ reply[c] = NoReply
      /\ Install(PutOf(c)) /\ UNCHANGED <<pc, seen, attempt, delayed>>
  BY DEF ServePut, GetStates, PutStates
<1>2. /\ reply'[c].err = PutErr(PutOf(c))
      /\ \A d \in Client : d # c => reply'[d] = reply[d] /\ PutOf(d) # PutOf(c)
  BY PutOfType DEF ServePut, TypeOK, Answer
<1>3. PutOf(c) \in Put
  BY PutOfType
<1> SUFFICES ASSUME NEW d \in Client PROVE Truthful(d)'
  BY DEF TruthInv
<1>4. CASE d = c
  <2>1. reply[c].err # "OK"
    BY <1>1 DEF NoReply, Answer
  <2>2. PutErr(PutOf(c)) = "OK" => applied'[c]
    BY <1>1, <1>3, InstallTells
  <2>3. PutErr(PutOf(c)) # "OK" => applied'[c] = applied[c]
    BY <1>1, <1>3, InstallTells
  <2> QED BY <1>1, <1>2, <1>4, <2>1, <2>2, <2>3 DEF TruthInv, Truthful, Behind
<1>5. CASE d # c
  <2>1. applied'[d] = applied[d]
    BY <1>1, <1>2, <1>3, <1>5, InstallTells
  <2> QED BY <1>1, <1>2, <1>5, <2>1 DEF TruthInv, Truthful, Behind
<1> QED BY <1>4, <1>5

\* A copy that is late is no client's first call.
LEMMA ServeDelayedTells ==
  ASSUME TypeOK, TruthInv, NEW put \in delayed, ServeDelayed(put) PROVE TruthInv'
<1>1. /\ Install(put) /\ put \in Put /\ delayed' \subseteq delayed
      /\ UNCHANGED <<pc, seen, attempt, reply>>
  BY DEF ServeDelayed, callVars, TypeOK
<1> SUFFICES ASSUME NEW d \in Client PROVE Truthful(d)'
  BY DEF TruthInv
<1>2. applied[d] => applied'[d]
  BY <1>1, InstallTells
<1>3. ASSUME pc[d] \in PutStates, attempt[d] = "first" PROVE applied'[d] = applied[d]
  <2>1. Behind(d, seen[d]) /\ seen[d] \in Nat
    BY <1>3 DEF TruthInv, Truthful, TypeOK
  <2>2. put # PutOf(d)
    BY <2>1, PutOfType DEF Behind
  <2> QED BY <1>1, <2>2, InstallTells
<1> QED BY <1>1, <1>2, <1>3 DEF TruthInv, Truthful, Behind

\* What a client gives up is its own put, of the version it has read.
LEMMA ResendTells ==
  ASSUME TypeOK, TruthInv, NEW c \in Client, Resend(c) PROVE TruthInv'
<1>1. /\ UNCHANGED <<store, pc, seen, applied>>
      /\ \A put \in delayed' : put \in delayed \/ put.by = c
      /\ pc[c] \in PutStates => attempt'[c] # "first"
      /\ reply'[c] = NoReply
      /\ \A d \in Client : d # c => reply'[d] = reply[d] /\ attempt'[d] = attempt[d]
  BY PutOfType DEF Resend, Abandon, TypeOK, GetStates, PutStates
<1>2. NoReply.err # "OK"
  BY DEF NoReply, Answer
<1> SUFFICES ASSUME NEW d \in Client PROVE Truthful(d)'
  BY DEF TruthInv
<1>3. CASE d = c
  BY <1>1, <1>2, <1>3 DEF Truthful
<1>4. CASE d # c
  BY <1>1, <1>4 DEF TruthInv, Truthful, Behind
<1> QED BY <1>3, <1>4

LEMMA CrashTells ==
  ASSUME TypeOK, TruthInv, NEW c \in Client, Crash(c) PROVE TruthInv'
<1>1. /\ \A put \in delayed' : put \in delayed \/ put.by = c
      /\ pc'[c] = "Crashed"
      /\ \A d \in Client : d # c => /\ pc'[d] = pc[d] /\ reply'[d] = reply[d] /\ seen'[d] = seen[d]
                                    /\ attempt'[d] = attempt[d] /\ applied'[d] = applied[d]
  BY PutOfType DEF Crash, Abandon, TypeOK
<1> SUFFICES ASSUME NEW d \in Client PROVE Truthful(d)'
  BY DEF TruthInv
<1>2. CASE d = c
  BY <1>1, <1>2 DEF Truthful, GetStates, PutStates
<1>3. CASE d # c
  BY <1>1, <1>3 DEF TruthInv, Truthful, Behind
<1> QED BY <1>2, <1>3

LEMMA MovesTell ==
  ASSUME TypeOK, TruthInv, NEW c \in Client, NEW state, NEW version, Moves(c, state, version)
  PROVE  TruthInv'
<1>1. /\ UNCHANGED delayed
      /\ pc'[c] = state /\ seen'[c] = version /\ reply'[c] = NoReply /\ ~applied'[c]
      /\ \A d \in Client : d # c => /\ pc'[d] = pc[d] /\ reply'[d] = reply[d] /\ seen'[d] = seen[d]
                                    /\ attempt'[d] = attempt[d] /\ applied'[d] = applied[d]
  BY DEF Moves, Begin, TypeOK
<1>2. NoReply.err # "OK"
  BY DEF NoReply, Answer
<1> SUFFICES ASSUME NEW d \in Client PROVE Truthful(d)'
  BY DEF TruthInv
<1>3. CASE d = c
  <2>1. state \in PutStates => Behind(c, version)
    BY DEF Moves, TruthInv, Truthful
  <2> QED BY <1>1, <1>2, <1>3, <2>1 DEF Truthful, Behind
<1>4. CASE d # c
  BY <1>1, <1>4 DEF TruthInv, Truthful, Behind
<1> QED BY <1>3, <1>4

\* Clerk.Put answers OK only for a put that took effect and, unless the transport has
\* repeated it, ErrVersion only for one that did not and never will (AnswersTrue,
\* client.go): a client's readings go beyond every put it has given up before.
THEOREM AnswersAreTrue == Spec => []AnswersTrue
<1>1. Init => TruthInv
  <2> SUFFICES ASSUME Init, NEW c \in Client PROVE Truthful(c)
    BY DEF TruthInv
  <2>1. pc[c] = "Idle"
    BY DEF Init
  <2> QED BY <2>1 DEF Truthful, GetStates, PutStates
<1>2. TypeOK /\ LockInv /\ TruthInv /\ [Next]_vars => TruthInv'
  <2> SUFFICES ASSUME TypeOK, LockInv, TruthInv, [Next]_vars PROVE TruthInv'
    OBVIOUS
  <2>1. CASE \E c \in Client : AcquireStart(c) \/ ReleaseStart(c) \/ Proceed(c)
    BY <2>1, LockSteps, MovesTell
  <2>2. CASE \E c \in Client : Serve(c)
    BY <2>2, ServeGetTells, ServePutTells DEF Serve
  <2>3. CASE \E c \in Client : Resend(c)
    BY <2>3, ResendTells
  <2>4. CASE \E c \in Client : Crash(c)
    BY <2>4, CrashTells
  <2>5. CASE \E put \in delayed : ServeDelayed(put)
    BY <2>5, ServeDelayedTells
  <2>6. CASE UNCHANGED vars
    BY <2>6 DEF vars, callVars, TruthInv, Truthful, Behind
  <2> QED BY <2>1, <2>2, <2>3, <2>4, <2>5, <2>6 DEF Next
<1>3. TypeOK /\ TruthInv => AnswersTrue
  <2> SUFFICES ASSUME TypeOK, TruthInv, NEW c \in Client, pc[c] \in PutStates, reply[c] # NoReply
               PROVE  /\ Result(c) = "OK" => applied[c]
                      /\ Result(c) = "ErrVersion" /\ attempt[c] # "redialed" =>
                           ~applied[c] /\ PutOf(c) \notin delayed
    BY DEF AnswersTrue
  <2>1. Truthful(c) /\ seen[c] \in Nat /\ attempt[c] \in {"first", "redialed", "retried"}
    BY DEF TruthInv, TypeOK
  <2>2. Result(c) = "OK" => applied[c]
    BY <2>1 DEF Truthful, Result
  <2>3. ASSUME Result(c) = "ErrVersion", attempt[c] # "redialed"
        PROVE  ~applied[c] /\ PutOf(c) \notin delayed
    <3>1. attempt[c] = "first" /\ reply[c].err = "ErrVersion"
      BY <2>1, <2>3 DEF Result
    <3> QED BY <2>1, <3>1, PutOfType DEF Truthful, Behind
  <2> QED BY <2>2, <2>3
<1> QED BY <1>1, <1>2, <1>3, TypeCorrect, LockSafe, PTL DEF Spec
=============================================================================
