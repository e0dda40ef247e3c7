------------------------------ MODULE RSMProofs ------------------------------
(***************************************************************************)
(* For any number of callers and any length of log: who gets an answer     *)
(* from Submit gets its own, and who gets an error has lost its leader.    *)
(* The invariant follows the operations through the channel: they come     *)
(* out in the order of the log, and what stands in the log under the index *)
(* of a caller whose term still lasts is the caller's.                     *)
(***************************************************************************)
EXTENDS RSM, TLAPS

\* Nothing is on its way to the reader that the peer has not taken.
Taken ==
  /\ \A k \in 1 .. Len(sending) : sending[k].at <= copied
  /\ \A k \in 1 .. Len(applyCh) : applyCh[k].at <= copied
  /\ inHand <= copied /\ lastApplied <= copied

\* Commands follow what is lower, snapshots may be behind.
Order ==
  /\ \A k, l \in 1 .. Len(applyCh) :
       k < l /\ applyCh[l].valid = "command" => applyCh[k].at < applyCh[l].at
  /\ \A k, l \in 1 .. Len(sending) :
       k < l /\ sending[l].valid = "command" => sending[k].at < sending[l].at
  /\ \A k \in 1 .. Len(applyCh), l \in 1 .. Len(sending) :
       sending[l].valid = "command" => applyCh[k].at < sending[l].at

\* What comes is after what was executed.
Ahead ==
  /\ \A k \in 1 .. Len(applyCh) :
       applyCh[k].valid = "command" => lastApplied < applyCh[k].at /\ inHand < applyCh[k].at
  /\ \A k \in 1 .. Len(sending) :
       sending[k].valid = "command" => lastApplied < sending[k].at /\ inHand < sending[k].at
  /\ reader = "Answer" => lastApplied < inHand
  /\ reader # "Answer" => inHand <= lastApplied

InSubmit(c) == pc[c] \in {"Register", "Wait"}

\* A snapshot covers the operations of deposed callers only.
Outdated(s) == \A c \in Caller : InSubmit(c) /\ index[c] <= s => started[c] < term

Snapshots ==
  /\ Outdated(pending)
  /\ \A k \in 1 .. Len(sending) : sending[k].valid = "snapshot" => Outdated(sending[k].at)
  /\ \A k \in 1 .. Len(applyCh) : applyCh[k].valid = "snapshot" => Outdated(applyCh[k].at)

\* As long as a caller's term lasts its operation is where Start has put it.
InPlace ==
  \A c \in Caller : InSubmit(c) /\ started[c] = term =>
    leader /\ index[c] <= Len(log) /\ log[index[c]] = [term |-> term, by |-> c]

\* What is in a caller's channel.
Mail ==
  \A c \in Caller : ch[c] # NoEntry =>
    /\ pc[c] \in {"Wait", "Return"}
    /\ ch[c] = Woken /\ pc[c] = "Wait" => started[c] < term
    /\ ch[c] # Woken => index[c] <= lastApplied /\ ch[c] = log[index[c]]

\* What Submit returns.
Results ==
  \A c \in Caller : pc[c] = "Return" =>
    /\ outcome[c] = Woken => started[c] < term
    /\ outcome[c] # Woken =>
         outcome[c] = [term |-> started[c], by |-> c] /\ index[c] <= lastApplied /\ log[index[c]] = outcome[c]

IInv == TypeOK /\ Taken /\ Order /\ Ahead /\ Snapshots /\ InPlace /\ Mail /\ Results

-----------------------------------------------------------------------------
\* The types in a form that arithmetic can use.
LEMMA Sizes ==
  ASSUME TypeOK
  PROVE  /\ term \in Nat /\ commit \in Nat /\ copied \in Nat /\ included \in Nat /\ pending \in Nat
         /\ lastApplied \in Nat /\ inHand \in Nat /\ Len(log) \in Nat /\ MaxLog \in Nat /\ MaxTerm \in Nat
         /\ term <= MaxTerm /\ commit <= Len(log) /\ Len(log) <= MaxLog
         /\ included <= copied /\ copied <= commit /\ pending <= included /\ lastApplied <= commit
         /\ \A c \in Caller : index[c] \in Nat /\ started[c] \in Nat /\ started[c] <= term
BY BoundAssumption DEF TypeOK, PeerTypes, CallerTypes

LEMMA Messages ==
  ASSUME TypeOK
  PROVE  /\ \A k \in 1 .. Len(sending) : sending[k] \in Message
         /\ \A k \in 1 .. Len(applyCh) : applyCh[k] \in Message
         /\ Len(sending) \in Nat /\ Len(applyCh) \in Nat
         /\ sending \in Seq(Message) /\ applyCh \in Seq(Message)
BY DEF TypeOK, PeerTypes

LEMMA InitInv == Init => IInv
<1> SUFFICES ASSUME Init PROVE IInv  OBVIOUS
<1> USE BoundAssumption, ChannelAssumption DEF Init
<1>1. PeerTypes
  <2>1. leader \in BOOLEAN /\ (leader => term > 0)  OBVIOUS
  <2>2. Len(log) = 0 /\ Len(applyCh) <= ChannelSize /\ log \in Seq(Entry)  OBVIOUS
  <2>3. sending \in Seq(Message) /\ applyCh \in Seq(Message)  OBVIOUS
  <2>4. term \in 0 .. MaxTerm /\ commit \in 0 .. Len(log) /\ included \in 0 .. commit
        /\ copied \in included .. commit /\ pending \in 0 .. included
    BY <2>2
  <2>5. Len(log) <= MaxLog  BY <2>2
  <2> HIDE DEF Init
  <2> QED  BY <2>1, <2>2, <2>3, <2>4, <2>5 DEF PeerTypes
<1>2. CallerTypes
  <2>1. lastApplied \in 0 .. commit /\ reader \in {"Receive", "Answer", "Compact"} /\ inHand \in 0 .. commit
    OBVIOUS
  <2>2. notify \in [Index -> Caller \cup {Nobody}]  OBVIOUS
  <2>3. 0 \in 0 .. MaxLog /\ 0 \in 0 .. term  OBVIOUS
  <2>4. index \in [Caller -> 0 .. MaxLog] /\ started \in [Caller -> 0 .. term]  BY <2>3
  <2>5. ch \in [Caller -> Entry \cup {NoEntry, Woken}] /\ outcome \in [Caller -> Entry \cup {NoEntry, Woken}]
    OBVIOUS
  <2>6. pc \in [Caller -> {"Idle", "Register", "Wait", "Return"}] /\ raced \subseteq Caller  OBVIOUS
  <2> HIDE DEF Init
  <2> QED  BY <2>1, <2>2, <2>4, <2>5, <2>6 DEF CallerTypes
<1>3. TypeOK  BY <1>1, <1>2 DEF TypeOK, Nobody, Index
<1>4. Taken /\ Order /\ Ahead  BY DEF Taken, Order, Ahead
<1>5. Snapshots /\ InPlace /\ Mail /\ Results
  BY DEF Snapshots, Outdated, InSubmit, InPlace, Mail, Results
<1> QED  BY <1>3, <1>4, <1>5 DEF IInv

-----------------------------------------------------------------------------
\* A term begins (BecomeLeader, HigherTerm).
LEMMA TermInv == ASSUME IInv, BecomeLeader \/ HigherTerm PROVE IInv'
<1> USE DEF IInv
<1>1. /\ term' = term + 1 /\ leader' \in BOOLEAN /\ term < MaxTerm /\ term' > 0
      /\ UNCHANGED <<log, commit, included, copied, pending, sending, applyCh, lastApplied, reader, inHand,
                     notify, ch, pc, index, started, outcome, raced>>
  <2>1. /\ term' = term + 1 /\ term < MaxTerm
        /\ UNCHANGED <<log, commit, included, copied, pending, sending, applyCh, lastApplied, reader, inHand,
                       notify, ch, pc, index, started, outcome, raced>>
    BY DEF BecomeLeader, HigherTerm, applierVars, readerVars, callerVars
  <2>2. leader' \in BOOLEAN  BY DEF BecomeLeader, HigherTerm
  <2>3. term \in Nat  BY Sizes
  <2> QED  BY <2>1, <2>2, <2>3
<1>2. \A c \in Caller : started[c] < term' /\ started[c] \in Nat /\ term' \in Nat  BY <1>1, Sizes
<1>3. TypeOK'
  <2>1. term' \in 0 .. MaxTerm  BY <1>1, Sizes
  <2>2. started' \in [Caller -> 0 .. term']  BY <1>1, <1>2 DEF TypeOK, CallerTypes
  <2>3. PeerTypes'  BY <1>1, <2>1 DEF TypeOK, PeerTypes
  <2>4. CallerTypes'  BY <1>1, <2>2 DEF TypeOK, CallerTypes
  <2> QED  BY <1>1, <2>3, <2>4 DEF TypeOK
<1>4. Taken' /\ Order' /\ Ahead'  BY <1>1 DEF Taken, Order, Ahead
<1>5. Snapshots'  BY <1>1, <1>2 DEF Snapshots, Outdated, InSubmit
<1>6. InPlace'
  <2>1. \A c \in Caller : started'[c] # term'  BY <1>1, <1>2
  <2> QED  BY <2>1 DEF InPlace
<1>7. Mail' /\ Results'  BY <1>1, <1>2 DEF Mail, Results
<1> QED  BY <1>3, <1>4, <1>5, <1>6, <1>7

\* The log behind what is committed is replaced by another leader.
LEMMA ReplaceInv == ASSUME IInv, Replace PROVE IInv'
<1> USE DEF IInv
<1>1. /\ ~leader /\ term > 0
      /\ UNCHANGED <<term, leader, commit, included, copied, pending, sending, applyCh, lastApplied, reader,
                     inHand, notify, ch, pc, index, started, outcome, raced>>
  BY DEF Replace, applierVars, readerVars, callerVars
<1>2. PICK i \in commit + 1 .. Len(log) + 1, e \in Entry :
        i <= MaxLog /\ log' = Append(SubSeq(log, 1, i - 1), e)
  BY DEF Replace, Kept
<1>3. log \in Seq(Entry) /\ e \in Entry
  BY <1>2 DEF TypeOK, PeerTypes
<1>4. i \in Nat /\ commit < i /\ i <= Len(log) + 1  BY <1>2, Sizes
<1>5. log' \in Seq(Entry) /\ Len(log') = i /\ \A n \in 1 .. i - 1 : log'[n] = log[n]
  BY <1>2, <1>3, <1>4, Sizes
<1>6. \A n \in 1 .. lastApplied : log'[n] = log[n]  BY <1>4, <1>5, Sizes
<1>7. TypeOK'
  <2>1. Len(log') <= MaxLog /\ commit' \in 0 .. Len(log')  BY <1>1, <1>2, <1>4, <1>5, Sizes
  <2>2. PeerTypes'  BY <1>1, <1>5, <2>1 DEF TypeOK, PeerTypes
  <2>3. CallerTypes'  BY <1>1 DEF TypeOK, CallerTypes
  <2> QED  BY <1>1, <2>2, <2>3 DEF TypeOK
<1>8. Taken' /\ Order' /\ Ahead' /\ Snapshots'
  BY <1>1 DEF Taken, Order, Ahead, Snapshots, Outdated, InSubmit
<1>9. InPlace'  BY <1>1 DEF InPlace, InSubmit
<1>10. \A c \in Caller : pc[c] # "Idle" => index[c] >= 1  BY DEF TypeOK, Index
<1>11. Mail'
  <2> SUFFICES ASSUME NEW c \in Caller, ch[c] # NoEntry
               PROVE  /\ pc[c] \in {"Wait", "Return"}
                      /\ ch[c] = Woken /\ pc[c] = "Wait" => started[c] < term
                      /\ ch[c] # Woken => index[c] <= lastApplied /\ ch[c] = log'[index[c]]
    BY <1>1 DEF Mail
  <2>1. /\ pc[c] \in {"Wait", "Return"} /\ (ch[c] = Woken /\ pc[c] = "Wait" => started[c] < term)
        /\ ch[c] # Woken => index[c] <= lastApplied /\ ch[c] = log[index[c]]
    BY DEF Mail
  <2>2. index[c] \in Nat /\ index[c] >= 1 /\ lastApplied \in Nat  BY <2>1, <1>10, Sizes
  <2>3. index[c] <= lastApplied => log'[index[c]] = log[index[c]]  BY <2>2, <1>6
  <2> QED  BY <2>1, <2>3
<1>12. Results'
  <2> SUFFICES ASSUME NEW c \in Caller, pc[c] = "Return"
               PROVE  /\ outcome[c] = Woken => started[c] < term
                      /\ outcome[c] # Woken =>
                           /\ outcome[c] = [term |-> started[c], by |-> c]
                           /\ index[c] <= lastApplied /\ log'[index[c]] = outcome[c]
    BY <1>1 DEF Results
  <2>1. /\ outcome[c] = Woken => started[c] < term
        /\ outcome[c] # Woken =>
             outcome[c] = [term |-> started[c], by |-> c] /\ index[c] <= lastApplied /\ log[index[c]] = outcome[c]
    BY DEF Results
  <2>2. index[c] \in Nat /\ index[c] >= 1 /\ lastApplied \in Nat  BY <1>10, Sizes
  <2>3. index[c] <= lastApplied => log'[index[c]] = log[index[c]]  BY <2>2, <1>6
  <2> QED  BY <2>1, <2>3
<1> QED  BY <1>7, <1>8, <1>9, <1>11, <1>12

\* Commit, and a snapshot from the leader.
LEMMA CommitInv == ASSUME IInv, Commit PROVE IInv'
<1> USE DEF IInv
<1>1. UNCHANGED <<term, leader, log, included, copied, pending, sending, applyCh, lastApplied, reader,
                  inHand, notify, ch, pc, index, started, outcome, raced>>
  BY DEF Commit, applierVars, readerVars, callerVars
<1>2. commit' \in Nat /\ commit < commit' /\ commit' <= Len(log)  BY Sizes DEF Commit
<1>3. TypeOK'
  <2>1. /\ commit' \in 0 .. Len(log') /\ included' \in 0 .. commit' /\ copied' \in included' .. commit'
        /\ lastApplied' \in 0 .. commit' /\ inHand' \in 0 .. commit'
    BY <1>1, <1>2, Sizes DEF TypeOK, CallerTypes
  <2>2. PeerTypes'  BY <1>1, <2>1 DEF TypeOK, PeerTypes
  <2>3. CallerTypes'  BY <1>1, <2>1 DEF TypeOK, CallerTypes
  <2> QED  BY <1>1, <2>2, <2>3 DEF TypeOK
<1>4. Taken' /\ Order' /\ Ahead'  BY <1>1 DEF Taken, Order, Ahead
<1>5. Snapshots' /\ InPlace'  BY <1>1 DEF Snapshots, Outdated, InSubmit, InPlace
<1>6. Mail' /\ Results'  BY <1>1 DEF Mail, Results
<1> QED  BY <1>3, <1>4, <1>5, <1>6

LEMMA InstallInv == ASSUME IInv, NEW i \in Index, InstallSnapshot(i) PROVE IInv'
<1> USE DEF IInv
<1>1. /\ ~leader /\ included' = i /\ pending' = i
      /\ UNCHANGED <<term, leader, log, sending, applyCh, lastApplied, reader, inHand, notify, ch, pc, index,
                     started, outcome, raced>>
  BY DEF InstallSnapshot, readerVars, callerVars
<1>2. /\ i \in Nat /\ i <= Len(log) /\ included < i
      /\ commit' \in Nat /\ commit <= commit' /\ i <= commit' /\ commit' <= Len(log)
      /\ copied' \in Nat /\ copied <= copied' /\ i <= copied' /\ copied' <= commit'
  <2>1. /\ commit \in Nat /\ copied \in Nat /\ included \in Nat /\ Len(log) \in Nat
        /\ copied <= commit /\ commit <= Len(log)
    BY Sizes
  <2>2. i \in included + 1 .. Len(log)  BY DEF InstallSnapshot
  <2>3. i \in Nat /\ included < i /\ i <= Len(log)  BY <2>1, <2>2
  <2>4. commit' = (IF commit < i THEN i ELSE commit) /\ copied' = (IF copied < i THEN i ELSE copied)
    BY DEF InstallSnapshot
  <2> QED  BY <2>1, <2>3, <2>4
<1>3. TypeOK'
  <2>1. /\ commit' \in 0 .. Len(log') /\ included' \in 0 .. commit' /\ copied' \in included' .. commit'
        /\ pending' \in 0 .. included' /\ lastApplied' \in 0 .. commit' /\ inHand' \in 0 .. commit'
    <3>1. /\ lastApplied \in Nat /\ lastApplied <= commit /\ commit \in Nat
          /\ inHand \in Nat /\ inHand <= commit
      BY Sizes DEF TypeOK, CallerTypes
    <3>2. lastApplied <= commit' /\ inHand <= commit'  BY <1>2, <3>1
    <3> QED  BY <1>1, <1>2, <3>1, <3>2
  <2>2. PeerTypes'  BY <1>1, <2>1 DEF TypeOK, PeerTypes
  <2>3. CallerTypes'  BY <1>1, <2>1 DEF TypeOK, CallerTypes
  <2> QED  BY <1>1, <2>2, <2>3 DEF TypeOK
<1>4. Taken'
  <2>1. \A k \in 1 .. Len(sending) : sending[k].at \in Nat  BY Messages DEF Message, Index
  <2>2. \A k \in 1 .. Len(applyCh) : applyCh[k].at \in Nat  BY Messages DEF Message, Index
  <2>3. copied \in Nat /\ inHand \in Nat /\ lastApplied \in Nat  BY Sizes
  <2>4. \A n \in Nat : n <= copied => n <= copied'  BY <1>2, <2>3
  <2> QED  BY <1>1, <2>1, <2>2, <2>3, <2>4 DEF Taken
<1>5. Order' /\ Ahead' /\ InPlace' /\ Mail' /\ Results'
  BY <1>1 DEF Order, Ahead, InPlace, InSubmit, Mail, Results
<1>6. \A c \in Caller : InSubmit(c) => started[c] < term
  <2>1. \A c \in Caller : started[c] \in Nat /\ started[c] <= term /\ term \in Nat  BY Sizes
  <2>2. \A c \in Caller : InSubmit(c) => started[c] # term  BY <1>1 DEF InPlace
  <2> QED  BY <2>1, <2>2
<1>7. Snapshots'  BY <1>1, <1>6 DEF Snapshots, Outdated, InSubmit
<1> QED  BY <1>3, <1>4, <1>5, <1>7

-----------------------------------------------------------------------------
\* The applier takes what is next (Take).
LEMMA TakeInv == ASSUME IInv, Take PROVE IInv'
<1> USE DEF IInv
<1>1. /\ sending = <<>> /\ Len(sending) = 0
      /\ UNCHANGED <<term, leader, log, commit, included, applyCh, lastApplied, reader, inHand,
                     notify, ch, pc, index, started, outcome, raced>>
  BY DEF Take, peerVars, readerVars, callerVars
<1>2. CallerTypes' /\ InPlace' /\ Mail' /\ Results'
  BY <1>1 DEF TypeOK, CallerTypes, InPlace, InSubmit, Mail, Results
<1>3. /\ copied \in Nat /\ commit \in Nat /\ copied <= commit /\ pending \in Nat /\ pending <= included
      /\ included <= copied /\ commit <= MaxLog /\ included \in Nat /\ MaxLog \in Nat
      /\ lastApplied \in Nat /\ inHand \in Nat
  BY Sizes
<1>4. \A k \in 1 .. Len(applyCh) : applyCh[k] \in Message /\ applyCh[k].at \in Nat /\ applyCh[k].at <= copied
  BY Messages DEF Message, Index, Taken
<1>5. CASE /\ pending # 0 /\ sending' = <<Snapshot(pending)>> /\ pending' = 0 /\ UNCHANGED copied
  <2>1. Len(sending') = 1 /\ sending'[1] = Snapshot(pending)  BY <1>5
  <2>2. Snapshot(pending) \in Message  BY <1>3, <1>5 DEF Snapshot, Message, Index
  <2>3. PeerTypes'  BY <1>1, <1>3, <1>5, <2>2 DEF TypeOK, PeerTypes
  <2>4. TypeOK'  BY <1>1, <1>2, <2>3 DEF TypeOK
  <2>5. Taken'  BY <1>1, <1>3, <1>5, <2>1 DEF Taken, Snapshot
  <2>6. Order'  BY <1>1, <2>1 DEF Order, Snapshot
  <2>7. Ahead'  BY <1>1, <2>1 DEF Ahead, Snapshot
  <2>8. Snapshots'
    <3>1. PICK n \in Nat : n = pending  BY <1>3
    <3>2. Outdated(n)  BY <3>1 DEF Snapshots
    <3>3. Outdated(n)'  BY <1>1, <3>2 DEF Outdated, InSubmit
    <3>4. Outdated(0)'
      <4>1. \A c \in Caller : InSubmit(c) => index[c] \in Nat /\ index[c] >= 1
        BY DEF TypeOK, InSubmit, Index
      <4> QED  BY <1>1, <4>1 DEF Outdated, InSubmit
    <3>5. pending' = 0 /\ \A k \in 1 .. Len(sending') : sending'[k].at = n  BY <1>5, <2>1, <3>1 DEF Snapshot
    <3>6. Outdated(pending)'  BY <3>4, <3>5 DEF Outdated, InSubmit
    <3>7. \A k \in 1 .. Len(sending') : sending'[k].valid = "snapshot" => Outdated(sending[k].at)'
      BY <3>3, <3>5 DEF Outdated, InSubmit
    <3>8. \A k \in 1 .. Len(applyCh') : applyCh'[k].valid = "snapshot" => Outdated(applyCh[k].at)'
      BY <1>1 DEF Snapshots, Outdated, InSubmit
    <3> QED  BY <3>6, <3>7, <3>8 DEF Snapshots
  <2> QED  BY <1>2, <2>4, <2>5, <2>6, <2>7, <2>8
<1>6. CASE /\ pending = 0 /\ copied < commit /\ copied' = commit /\ UNCHANGED pending
           /\ sending' = [i \in 1 .. commit - copied |-> Op(copied + i)]
  <2>1. Len(sending') = commit - copied /\ \A k \in 1 .. commit - copied : sending'[k] = Op(copied + k)
    BY <1>3, <1>6
  <2>2. \A k \in 1 .. commit - copied : copied + k \in Index /\ copied < copied + k /\ copied + k <= commit
    BY <1>3 DEF Index
  <2>3. \A k \in 1 .. commit - copied : Op(copied + k) \in Message  BY <2>2 DEF Op, Message
  <2>4. sending' \in Seq(Message)
    <3>1. commit - copied \in Nat  BY <1>3
    <3>2. sending' \in [1 .. commit - copied -> Message]  BY <1>6, <2>3
    <3> QED  BY <3>1, <3>2
  <2>5. PeerTypes'
    <3>1. copied' \in included' .. commit' /\ pending' \in 0 .. included'  BY <1>1, <1>3, <1>6
    <3> QED  BY <1>1, <1>6, <2>4, <3>1 DEF TypeOK, PeerTypes
  <2>6. TypeOK'  BY <1>1, <1>2, <2>5 DEF TypeOK
  <2>7. \A k \in 1 .. Len(sending') :
          sending'[k].valid = "command" /\ sending'[k].at = copied + k /\ k \in 1 .. commit - copied
    BY <2>1 DEF Op
  <2>8. Taken'
    <3>1. \A k \in 1 .. Len(applyCh) : applyCh[k].at <= commit  BY <1>3, <1>4
    <3>2. inHand <= commit /\ lastApplied <= commit  BY <1>3 DEF Taken
    <3> QED  BY <1>1, <1>6, <2>2, <2>7, <3>1, <3>2 DEF Taken
  <2>9. Order'
    <3>1. \A k, l \in 1 .. Len(sending') : k < l => sending'[k].at < sending'[l].at  BY <1>3, <2>7
    <3>2. ASSUME NEW k \in 1 .. Len(applyCh), NEW l \in 1 .. Len(sending') PROVE applyCh[k].at < sending'[l].at
      <4>1. applyCh[k].at \in Nat /\ applyCh[k].at <= copied  BY <1>4
      <4>2. sending'[l].at = copied + l /\ l \in 1 .. commit - copied  BY <2>7
      <4> QED  BY <1>3, <4>1, <4>2
    <3> QED  BY <1>1, <3>1, <3>2 DEF Order
  <2>10. Ahead'
    <3>1. \A k \in 1 .. Len(sending') : lastApplied < sending'[k].at /\ inHand < sending'[k].at
      BY <1>3, <2>2, <2>7 DEF Taken
    <3> QED  BY <1>1, <3>1 DEF Ahead
  <2>11. Snapshots'
    <3>1. \A k \in 1 .. Len(sending') : sending'[k].valid # "snapshot"  BY <2>7
    <3> QED  BY <1>1, <1>6, <3>1 DEF Snapshots, Outdated, InSubmit
  <2> QED  BY <1>2, <2>6, <2>8, <2>9, <2>10, <2>11
<1>7. \/ /\ pending # 0 /\ sending' = <<Snapshot(pending)>> /\ pending' = 0 /\ UNCHANGED copied
      \/ /\ pending = 0 /\ copied < commit /\ copied' = commit /\ UNCHANGED pending
         /\ sending' = [i \in 1 .. commit - copied |-> Op(copied + i)]
  <2>1. (IF copied < included THEN included + 1 ELSE copied + 1) = copied + 1  BY <1>3
  <2>2. commit - (copied + 1) + 1 = commit - copied /\ \A i \in 1 .. commit - copied : copied + 1 + i - 1 = copied + i
    BY <1>3
  <2> QED  BY <2>1, <2>2 DEF Take
<1> QED  BY <1>5, <1>6, <1>7

\* A message goes into the channel (Send).
LEMMA SendInv == ASSUME IInv, Send PROVE IInv'
<1> USE DEF IInv
<1>1. /\ sending # <<>> /\ Len(applyCh) < ChannelSize
      /\ applyCh' = Append(applyCh, Head(sending)) /\ sending' = Tail(sending)
      /\ UNCHANGED <<term, leader, log, commit, included, copied, pending, lastApplied, reader, inHand,
                     notify, ch, pc, index, started, outcome, raced>>
  BY DEF Send, peerVars, readerVars, callerVars
<1> DEFINE m == Len(applyCh)
<1> DEFINE n == Len(sending)
<1>2. n \in Nat /\ n >= 1 /\ m \in Nat /\ sending \in Seq(Message) /\ applyCh \in Seq(Message)
  BY <1>1, Messages
<1>3. /\ Len(applyCh') = m + 1 /\ applyCh'[m + 1] = sending[1] /\ \A k \in 1 .. m : applyCh'[k] = applyCh[k]
      /\ Len(sending') = n - 1 /\ \A k \in 1 .. n - 1 : sending'[k] = sending[k + 1]
      /\ applyCh' \in Seq(Message) /\ sending' \in Seq(Message) /\ Head(sending) = sending[1]
  BY <1>1, <1>2
<1>4. \A k \in 1 .. m + 1 : k \in 1 .. m \/ k = m + 1  BY <1>2
<1>5. \A k \in 1 .. n - 1 : k + 1 \in 1 .. n  BY <1>2
<1>6. 1 \in 1 .. n  BY <1>2
<1>7. TypeOK'
  <2>1. Len(applyCh') <= ChannelSize  BY <1>1, <1>2, <1>3, ChannelAssumption
  <2>2. PeerTypes'  BY <1>1, <1>3, <2>1 DEF TypeOK, PeerTypes
  <2>3. CallerTypes'  BY <1>1 DEF TypeOK, CallerTypes
  <2> QED  BY <1>1, <2>2, <2>3 DEF TypeOK
<1>8. Taken'  BY <1>1, <1>3, <1>4, <1>5, <1>6 DEF Taken
<1>9. Order'
  <2>1. \A k, l \in 1 .. m + 1 : k < l /\ applyCh'[l].valid = "command" => applyCh'[k].at < applyCh'[l].at
    <3> SUFFICES ASSUME NEW k \in 1 .. m + 1, NEW l \in 1 .. m + 1, k < l, applyCh'[l].valid = "command"
                 PROVE  applyCh'[k].at < applyCh'[l].at
      OBVIOUS
    <3>1. k \in 1 .. m  BY <1>2
    <3>2. CASE l \in 1 .. m  BY <1>3, <3>1, <3>2 DEF Order
    <3>3. CASE l = m + 1  BY <1>3, <1>6, <3>1, <3>3 DEF Order
    <3> QED  BY <1>4, <3>2, <3>3
  <2>2. \A k, l \in 1 .. n - 1 : k < l /\ sending'[l].valid = "command" => sending'[k].at < sending'[l].at
    <3> SUFFICES ASSUME NEW k \in 1 .. n - 1, NEW l \in 1 .. n - 1, k < l, sending'[l].valid = "command"
                 PROVE  sending'[k].at < sending'[l].at
      OBVIOUS
    <3>1. k + 1 \in 1 .. n /\ l + 1 \in 1 .. n /\ k + 1 < l + 1  BY <1>2
    <3>2. sending'[k] = sending[k + 1] /\ sending'[l] = sending[l + 1]  BY <1>3
    <3> QED  BY <3>1, <3>2 DEF Order
  <2>3. \A k \in 1 .. m + 1, l \in 1 .. n - 1 : sending'[l].valid = "command" => applyCh'[k].at < sending'[l].at
    <3> SUFFICES ASSUME NEW k \in 1 .. m + 1, NEW l \in 1 .. n - 1, sending'[l].valid = "command"
                 PROVE  applyCh'[k].at < sending'[l].at
      OBVIOUS
    <3>1. l + 1 \in 1 .. n /\ 1 < l + 1 /\ sending'[l] = sending[l + 1]  BY <1>2, <1>3
    <3>2. CASE k \in 1 .. m  BY <1>3, <3>1, <3>2 DEF Order
    <3>3. CASE k = m + 1  BY <1>3, <1>6, <3>1, <3>3 DEF Order
    <3> QED  BY <1>4, <3>2, <3>3
  <2> QED  BY <1>3, <2>1, <2>2, <2>3 DEF Order
<1>10. Ahead'  BY <1>1, <1>3, <1>4, <1>5, <1>6 DEF Ahead
<1>11. Snapshots'
  <2>1. \A x : Outdated(x) => Outdated(x)'  BY <1>1 DEF Outdated, InSubmit
  <2>2. Outdated(pending)'  BY <1>1 DEF Snapshots, Outdated, InSubmit
  <2>3. ASSUME NEW k \in 1 .. m + 1, applyCh'[k].valid = "snapshot" PROVE Outdated(applyCh[k].at)'
    <3>1. PICK x : x = applyCh'[k].at  OBVIOUS
    <3>2. Outdated(x)  BY <1>3, <1>4, <1>6, <2>3, <3>1 DEF Snapshots
    <3>3. Outdated(x)'  BY <2>1, <3>2
    <3> QED  BY <3>1, <3>3 DEF Outdated, InSubmit
  <2>4. ASSUME NEW k \in 1 .. n - 1, sending'[k].valid = "snapshot" PROVE Outdated(sending[k].at)'
    <3>1. PICK x : x = sending'[k].at  OBVIOUS
    <3>2. Outdated(x)  BY <1>3, <1>5, <2>4, <3>1 DEF Snapshots
    <3>3. Outdated(x)'  BY <2>1, <3>2
    <3> QED  BY <3>1, <3>3 DEF Outdated, InSubmit
  <2> QED  BY <1>3, <2>2, <2>3, <2>4 DEF Snapshots
<1>12. InPlace' /\ Mail' /\ Results'  BY <1>1 DEF InPlace, InSubmit, Mail, Results
<1> QED  BY <1>7, <1>8, <1>9, <1>10, <1>11, <1>12

-----------------------------------------------------------------------------
\* The reader takes the first message.
LEMMA PopEffect ==
  ASSUME IInv, applyCh # <<>>, applyCh' = Tail(applyCh),
         UNCHANGED <<term, leader, log, commit, included, copied, pending, sending>>
  PROVE  /\ Head(applyCh) = applyCh[1] /\ 1 \in 1 .. Len(applyCh) /\ applyCh[1] \in Message
         /\ \A k \in 1 .. Len(applyCh') : k + 1 \in 1 .. Len(applyCh) /\ 1 < k + 1 /\ applyCh'[k] = applyCh[k + 1]
         /\ PeerTypes' /\ Order'
<1> USE DEF IInv
<1> DEFINE m == Len(applyCh)
<1>1. m \in Nat /\ m >= 1 /\ applyCh \in Seq(Message)  BY Messages
<1>2. /\ Len(applyCh') = m - 1 /\ \A k \in 1 .. m - 1 : applyCh'[k] = applyCh[k + 1]
      /\ applyCh' \in Seq(Message) /\ Head(applyCh) = applyCh[1]
  BY <1>1
<1>3. 1 \in 1 .. m /\ applyCh[1] \in Message  BY <1>1
<1>4. \A k \in 1 .. m - 1 : k + 1 \in 1 .. m /\ 1 < k + 1  BY <1>1
<1>5. PeerTypes'
  <2>1. Len(applyCh) <= ChannelSize  BY DEF TypeOK, PeerTypes
  <2>2. Len(applyCh') <= ChannelSize  BY <1>1, <1>2, <2>1, ChannelAssumption
  <2> QED  BY <1>2, <2>2 DEF TypeOK, PeerTypes
<1>6. Order'
  <2>1. \A k, l \in 1 .. m - 1 : k < l /\ applyCh'[l].valid = "command" => applyCh'[k].at < applyCh'[l].at
    <3> SUFFICES ASSUME NEW k \in 1 .. m - 1, NEW l \in 1 .. m - 1, k < l, applyCh'[l].valid = "command"
                 PROVE  applyCh'[k].at < applyCh'[l].at
      OBVIOUS
    <3>1. k + 1 \in 1 .. m /\ l + 1 \in 1 .. m /\ k + 1 < l + 1  BY <1>1
    <3>2. applyCh'[k] = applyCh[k + 1] /\ applyCh'[l] = applyCh[l + 1]  BY <1>2
    <3> QED  BY <3>1, <3>2 DEF Order
  <2>2. \A k \in 1 .. m - 1, l \in 1 .. Len(sending) : sending[l].valid = "command" => applyCh'[k].at < sending[l].at
    BY <1>2, <1>4 DEF Order
  <2> QED  BY <1>2, <2>1, <2>2 DEF Order
<1> QED  BY <1>2, <1>3, <1>4, <1>5, <1>6

LEMMA ExecuteInv == ASSUME IInv, Execute PROVE IInv'
<1> USE DEF IInv
<1>1. /\ reader = "Receive" /\ applyCh # <<>> /\ Head(applyCh).valid = "command"
      /\ reader' = "Answer" /\ inHand' = Head(applyCh).at /\ applyCh' = Tail(applyCh)
      /\ UNCHANGED <<term, leader, log, commit, included, copied, pending, sending, lastApplied,
                     notify, ch, pc, index, started, outcome, raced>>
  BY DEF Execute, peerVars, applierVars, callerVars
<1>2. /\ Head(applyCh) = applyCh[1] /\ 1 \in 1 .. Len(applyCh) /\ applyCh[1] \in Message
      /\ \A k \in 1 .. Len(applyCh') : k + 1 \in 1 .. Len(applyCh) /\ 1 < k + 1 /\ applyCh'[k] = applyCh[k + 1]
      /\ PeerTypes' /\ Order'
  BY <1>1, PopEffect
<1>3. inHand' = applyCh[1].at /\ applyCh[1].valid = "command"  BY <1>1, <1>2
<1>4. inHand' \in Nat /\ inHand' <= copied /\ copied <= commit /\ copied \in Nat /\ commit \in Nat
  BY <1>2, <1>3, Sizes DEF Message, Index, Taken
<1>5. TypeOK'
  <2>1. inHand' \in 0 .. commit'  BY <1>1, <1>4
  <2>2. CallerTypes'  BY <1>1, <2>1 DEF TypeOK, CallerTypes
  <2> QED  BY <1>1, <1>2, <2>2 DEF TypeOK
<1>6. Taken'  BY <1>1, <1>2, <1>4 DEF Taken
<1>7. Ahead'
  <2>1. lastApplied < inHand'  BY <1>2, <1>3 DEF Ahead
  <2>2. ASSUME NEW k \in 1 .. Len(applyCh'), applyCh'[k].valid = "command"
        PROVE  lastApplied < applyCh'[k].at /\ inHand' < applyCh'[k].at
    <3>1. k + 1 \in 1 .. Len(applyCh) /\ 1 < k + 1 /\ applyCh'[k] = applyCh[k + 1]  BY <1>2
    <3> QED  BY <1>2, <1>3, <2>2, <3>1 DEF Ahead, Order
  <2>3. \A k \in 1 .. Len(sending) : sending[k].valid = "command" => lastApplied < sending[k].at /\ inHand' < sending[k].at
    BY <1>2, <1>3 DEF Ahead, Order
  <2> QED  BY <1>1, <2>1, <2>2, <2>3 DEF Ahead
<1>8. Snapshots'
  <2>1. \A k \in 1 .. Len(applyCh') : applyCh'[k].valid = "snapshot" =>
          \A c \in Caller : InSubmit(c) /\ index[c] <= applyCh'[k].at => started[c] < term
    BY <1>2 DEF Snapshots, Outdated
  <2> QED  BY <1>1, <2>1 DEF Snapshots, Outdated, InSubmit
<1>9. InPlace' /\ Mail' /\ Results'  BY <1>1 DEF InPlace, InSubmit, Mail, Results
<1> QED  BY <1>2, <1>5, <1>6, <1>7, <1>8, <1>9

LEMMA AnswerInv == ASSUME IInv, Answer PROVE IInv'
<1> USE DEF IInv
<1>1. /\ reader = "Answer" /\ lastApplied' = inHand /\ reader' \in {"Receive", "Compact"}
      /\ ch' = [c \in Caller |-> IF notify[inHand] = c /\ ch[c] = NoEntry THEN log[inHand] ELSE ch[c]]
      /\ UNCHANGED <<term, leader, log, commit, included, copied, pending, sending, applyCh, inHand,
                     notify, pc, index, started, outcome, raced>>
  BY DEF Answer, Deliver, Waits, peerVars, applierVars, callerVars
<1>2. /\ lastApplied \in Nat /\ inHand \in Nat /\ lastApplied < inHand /\ inHand <= copied /\ copied <= commit
      /\ commit <= Len(log) /\ commit \in Nat /\ Len(log) \in Nat /\ Len(log) <= MaxLog /\ copied \in Nat
      /\ MaxLog \in Nat
  BY <1>1, Sizes DEF Ahead, Taken
<1>3. inHand \in 1 .. Len(log) /\ inHand \in Index /\ inHand \in 0 .. commit  BY <1>2 DEF Index
<1>4. log[inHand] \in Entry  BY <1>3 DEF TypeOK, PeerTypes
<1>5. log[inHand] # Woken /\ log[inHand] # NoEntry  BY <1>4, BoundAssumption DEF Entry, Woken, NoEntry
<1>6. TypeOK'
  <2>1. ch' \in [Caller -> Entry \cup {NoEntry, Woken}]  BY <1>1, <1>4 DEF TypeOK, CallerTypes
  <2>2. PeerTypes'  BY <1>1 DEF TypeOK, PeerTypes
  <2>3. CallerTypes'  BY <1>1, <1>3, <2>1 DEF TypeOK, CallerTypes
  <2> QED  BY <1>1, <2>2, <2>3 DEF TypeOK
<1>7. Taken' /\ Order' /\ Snapshots' /\ InPlace'
  BY <1>1, <1>2 DEF Taken, Order, Snapshots, Outdated, InSubmit, InPlace
<1>8. Ahead'  BY <1>1, <1>2 DEF Ahead
<1>9. \A c \in Caller : index[c] \in Nat  BY Sizes
<1>10. Mail'
  <2> SUFFICES ASSUME NEW c \in Caller, ch'[c] # NoEntry
               PROVE  /\ pc[c] \in {"Wait", "Return"}
                      /\ ch'[c] = Woken /\ pc[c] = "Wait" => started[c] < term
                      /\ ch'[c] # Woken => index[c] <= inHand /\ ch'[c] = log[index[c]]
    BY <1>1 DEF Mail
  <2>1. CASE notify[inHand] = c /\ ch[c] = NoEntry
    <3>1. ch'[c] = log[inHand]  BY <1>1, <2>1
    <3>2. c # Nobody  BY CallerAssumption DEF Nobody
    <3>3. pc[c] \in {"Wait", "Return"} /\ index[c] = inHand  BY <1>3, <2>1, <3>2 DEF TypeOK
    <3> QED  BY <1>2, <1>5, <3>1, <3>3
  <2>2. CASE ~(notify[inHand] = c /\ ch[c] = NoEntry)
    <3>1. ch'[c] = ch[c]  BY <1>1, <2>2
    <3> QED  BY <1>2, <1>9, <3>1 DEF Mail
  <2> QED  BY <2>1, <2>2
<1>11. Results'
  <2>1. \A c \in Caller : index[c] <= lastApplied => index[c] <= inHand  BY <1>2, <1>9
  <2> QED  BY <1>1, <2>1 DEF Results
<1> QED  BY <1>6, <1>7, <1>8, <1>10, <1>11

LEMMA CompactInv == ASSUME IInv, Compact PROVE IInv'
<1> USE DEF IInv
<1>1. /\ reader = "Compact" /\ included' = (IF inHand > included THEN inHand ELSE included) /\ reader' = "Receive"
      /\ UNCHANGED <<term, leader, log, commit, copied, pending, sending, applyCh, lastApplied, inHand,
                     notify, ch, pc, index, started, outcome, raced>>
  BY DEF Compact, peerVars, callerVars
<1>2. /\ included' \in Nat /\ included <= included' /\ included' <= copied /\ pending <= included'
      /\ copied <= commit /\ copied \in Nat /\ commit \in Nat /\ pending \in Nat
  <2>1. /\ inHand \in Nat /\ included \in Nat /\ copied \in Nat /\ pending \in Nat /\ included <= copied
        /\ pending <= included /\ copied <= commit /\ commit \in Nat
    BY Sizes
  <2>2. inHand <= copied  BY DEF Taken
  <2> QED  BY <1>1, <2>1, <2>2
<1>3. TypeOK'
  <2>1. included' \in 0 .. commit' /\ copied' \in included' .. commit' /\ pending' \in 0 .. included'
    BY <1>1, <1>2
  <2>2. PeerTypes'  BY <1>1, <2>1 DEF TypeOK, PeerTypes
  <2>3. CallerTypes'  BY <1>1 DEF TypeOK, CallerTypes
  <2> QED  BY <1>1, <2>2, <2>3 DEF TypeOK
<1>4. Taken' /\ Order' /\ Ahead'  BY <1>1 DEF Taken, Order, Ahead
<1>5. Snapshots' /\ InPlace' /\ Mail' /\ Results'
  BY <1>1 DEF Snapshots, Outdated, InSubmit, InPlace, Mail, Results
<1> QED  BY <1>3, <1>4, <1>5

\* A snapshot: whoever waits for what it covers is deposed.
LEMMA RestoreInv == ASSUME IInv, Restore PROVE IInv'
<1> USE DEF IInv
<1> DEFINE woken(c) == ch[c] = NoEntry /\ \E i \in Index : i <= applyCh[1].at /\ notify[i] = c
<1>1. /\ reader = "Receive" /\ applyCh # <<>> /\ Head(applyCh).valid = "snapshot" /\ applyCh' = Tail(applyCh)
      /\ UNCHANGED <<term, leader, log, commit, included, copied, pending, sending, reader, inHand,
                     notify, pc, index, started, outcome, raced>>
  BY DEF Restore, peerVars, applierVars, callerVars
<1>2. /\ Head(applyCh) = applyCh[1] /\ 1 \in 1 .. Len(applyCh) /\ applyCh[1] \in Message
      /\ \A k \in 1 .. Len(applyCh') : k + 1 \in 1 .. Len(applyCh) /\ 1 < k + 1 /\ applyCh'[k] = applyCh[k + 1]
      /\ PeerTypes' /\ Order'
  BY <1>1, PopEffect
<1>3. \/ UNCHANGED <<lastApplied, ch>>
      \/ /\ applyCh[1].at > lastApplied /\ lastApplied' = applyCh[1].at
         /\ ch' = [c \in Caller |-> IF woken(c) THEN Woken ELSE ch[c]]
  BY <1>2 DEF Restore, Covers
<1>4. /\ applyCh[1].at \in Nat /\ applyCh[1].at <= copied /\ copied <= commit /\ copied \in Nat /\ commit \in Nat
      /\ lastApplied \in Nat /\ lastApplied <= copied
  BY <1>2, Sizes DEF Message, Index, Taken
<1>5. lastApplied' \in Nat /\ lastApplied <= lastApplied' /\ lastApplied' <= copied  BY <1>3, <1>4
<1>6. \A c \in Caller : ch'[c] = ch[c] \/ (ch'[c] = Woken /\ woken(c))
  BY <1>3 DEF TypeOK, CallerTypes
<1>7. TypeOK'
  <2>1. ch' \in [Caller -> Entry \cup {NoEntry, Woken}]  BY <1>3 DEF TypeOK, CallerTypes
  <2>2. lastApplied' \in 0 .. commit'  BY <1>1, <1>4, <1>5
  <2>3. CallerTypes'  BY <1>1, <2>1, <2>2 DEF TypeOK, CallerTypes
  <2> QED  BY <1>1, <1>2, <2>3 DEF TypeOK
<1>8. Taken'  BY <1>1, <1>2, <1>5 DEF Taken
<1>9. Ahead'
  <2>1. ASSUME NEW k \in 1 .. Len(applyCh'), applyCh'[k].valid = "command"
        PROVE  lastApplied' < applyCh'[k].at /\ inHand < applyCh'[k].at
    <3>1. k + 1 \in 1 .. Len(applyCh) /\ 1 < k + 1 /\ applyCh'[k] = applyCh[k + 1]  BY <1>2
    <3>2. applyCh[1].at < applyCh[k + 1].at  BY <1>2, <2>1, <3>1 DEF Order
    <3>3. lastApplied < applyCh[k + 1].at /\ inHand < applyCh[k + 1].at  BY <2>1, <3>1 DEF Ahead
    <3> QED  BY <1>3, <3>1, <3>2, <3>3
  <2>2. ASSUME NEW k \in 1 .. Len(sending), sending[k].valid = "command"
        PROVE  lastApplied' < sending[k].at /\ inHand < sending[k].at
    <3>1. applyCh[1].at < sending[k].at  BY <1>2, <2>2 DEF Order
    <3>2. lastApplied < sending[k].at /\ inHand < sending[k].at  BY <2>2 DEF Ahead
    <3> QED  BY <1>3, <3>1, <3>2
  <2>3. inHand <= lastApplied'
    <3>1. inHand <= lastApplied /\ inHand \in Nat  BY <1>1, Sizes DEF Ahead
    <3> QED  BY <1>4, <1>5, <3>1
  <2> QED  BY <1>1, <2>1, <2>2, <2>3 DEF Ahead
<1>10. Snapshots'
  <2>1. \A k \in 1 .. Len(applyCh') : applyCh'[k].valid = "snapshot" =>
          \A c \in Caller : InSubmit(c) /\ index[c] <= applyCh'[k].at => started[c] < term
    BY <1>2 DEF Snapshots, Outdated
  <2> QED  BY <1>1, <2>1 DEF Snapshots, Outdated, InSubmit
<1>11. InPlace'  BY <1>1 DEF InPlace, InSubmit
<1>12. \A c \in Caller : index[c] <= lastApplied => index[c] <= lastApplied'
  <2>1. \A c \in Caller : index[c] \in Nat  BY Sizes
  <2> QED  BY <1>4, <1>5, <2>1
<1>13. Mail'
  <2> SUFFICES ASSUME NEW c \in Caller, ch'[c] # NoEntry
               PROVE  /\ pc[c] \in {"Wait", "Return"}
                      /\ ch'[c] = Woken /\ pc[c] = "Wait" => started[c] < term
                      /\ ch'[c] # Woken => index[c] <= lastApplied' /\ ch'[c] = log[index[c]]
    BY <1>1 DEF Mail
  <2>1. CASE ch'[c] = ch[c]  BY <1>12, <2>1 DEF Mail
  <2>2. CASE ch'[c] = Woken /\ woken(c)
    <3>1. PICK i \in Index : i <= applyCh[1].at /\ notify[i] = c  BY <2>2
    <3>2. c # Nobody  BY CallerAssumption DEF Nobody
    <3>3. pc[c] \in {"Wait", "Return"} /\ index[c] = i  BY <3>1, <3>2 DEF TypeOK
    <3>4. pc[c] = "Wait" => started[c] < term
      BY <1>1, <1>2, <3>1, <3>3 DEF Snapshots, Outdated, InSubmit
    <3> QED  BY <2>2, <3>3, <3>4
  <2> QED  BY <1>6, <2>1, <2>2
<1>14. Results'  BY <1>1, <1>12 DEF Results
<1> QED  BY <1>2, <1>7, <1>8, <1>9, <1>10, <1>11, <1>13, <1>14

-----------------------------------------------------------------------------
\* Callers.
LEMMA StartInv == ASSUME IInv, NEW c \in Caller, Start(c) PROVE IInv'
<1> USE DEF IInv
<1>1. /\ pc[c] = "Idle" /\ leader /\ Len(log) < MaxLog
      /\ log' = Append(log, [term |-> term, by |-> c])
      /\ pc' = [pc EXCEPT ![c] = "Register"]
      /\ index' = [index EXCEPT ![c] = Len(log) + 1]
      /\ started' = [started EXCEPT ![c] = term]
      /\ UNCHANGED <<term, leader, commit, included, copied, pending, sending, applyCh, lastApplied, reader,
                     inHand, notify, ch, outcome, raced>>
  BY DEF Start, applierVars, readerVars
<1>2. /\ commit \in Nat /\ Len(log) \in Nat /\ commit <= Len(log) /\ copied \in Nat /\ copied <= commit
      /\ MaxLog \in Nat /\ term \in Nat /\ lastApplied \in Nat /\ lastApplied <= commit /\ pending \in Nat
      /\ pending <= copied
  BY Sizes
<1>3. term >= 1
  <2>1. leader => term > 0  BY DEF TypeOK, PeerTypes
  <2> QED  BY <1>1, <1>2, <2>1
<1>4. [term |-> term, by |-> c] \in Entry  BY <1>2, <1>3, Sizes DEF Entry
<1>5. /\ log' \in Seq(Entry) /\ Len(log') = Len(log) + 1 /\ log'[Len(log) + 1] = [term |-> term, by |-> c]
      /\ \A n \in 1 .. Len(log) : log'[n] = log[n]
  BY <1>1, <1>4 DEF TypeOK, PeerTypes
<1>6. Len(log) + 1 \in Index /\ Len(log) + 1 \in 0 .. MaxLog  BY <1>1, <1>2 DEF Index
<1>7. /\ pc'[c] = "Register" /\ index'[c] = Len(log) + 1 /\ started'[c] = term
      /\ \A d \in Caller \ {c} : pc'[d] = pc[d] /\ index'[d] = index[d] /\ started'[d] = started[d]
  BY <1>1 DEF TypeOK, CallerTypes
<1>8. TypeOK'
  <2>1. index' \in [Caller -> 0 .. MaxLog] /\ started' \in [Caller -> 0 .. term']
        /\ pc' \in [Caller -> {"Idle", "Register", "Wait", "Return"}]
    BY <1>1, <1>2, <1>6 DEF TypeOK, CallerTypes
  <2>2. PeerTypes'
    <3>1. Len(log') <= MaxLog /\ commit \in 0 .. Len(log')  BY <1>1, <1>2, <1>5
    <3> QED  BY <1>1, <1>5, <3>1 DEF TypeOK, PeerTypes
  <2>3. CallerTypes'  BY <1>1, <2>1 DEF TypeOK, CallerTypes
  <2>4. \A d \in Caller : pc'[d] # "Idle" <=> index'[d] \in Index  BY <1>6, <1>7 DEF TypeOK
  <2>5. \A i \in Index : notify[i] # Nobody => pc'[notify[i]] \in {"Wait", "Return"} /\ index'[notify[i]] = i
    <3> SUFFICES ASSUME NEW i \in Index, notify[i] # Nobody
                 PROVE  pc'[notify[i]] \in {"Wait", "Return"} /\ index'[notify[i]] = i
      OBVIOUS
    <3>1. pc[notify[i]] \in {"Wait", "Return"} /\ index[notify[i]] = i /\ notify[i] \in Caller
      BY DEF TypeOK, CallerTypes
    <3> QED  BY <1>1, <1>7, <3>1
  <2> QED  BY <1>1, <2>2, <2>3, <2>4, <2>5 DEF TypeOK
<1>9. Taken' /\ Order' /\ Ahead'  BY <1>1 DEF Taken, Order, Ahead
<1>10. Snapshots'
  <2>1. ASSUME NEW s \in Nat, s <= copied, Outdated(s) PROVE Outdated(s)'
    <3> SUFFICES ASSUME NEW d \in Caller, InSubmit(d)', index'[d] <= s PROVE started'[d] < term
      BY <1>1 DEF Outdated
    <3>1. d # c  BY <1>2, <1>7, <2>1
    <3> QED  BY <1>7, <2>1, <3>1 DEF Outdated, InSubmit
  <2>2. Outdated(pending)'
    <3>1. PICK s \in Nat : s = pending  BY <1>2
    <3>2. Outdated(s)'  BY <1>2, <2>1, <3>1 DEF Snapshots
    <3> QED  BY <1>1, <3>1, <3>2 DEF Outdated, InSubmit
  <2>3. ASSUME NEW k \in 1 .. Len(sending), sending[k].valid = "snapshot" PROVE Outdated(sending[k].at)'
    <3>1. PICK s \in Nat : s = sending[k].at  BY Messages DEF Message, Index
    <3>2. Outdated(s)'  BY <2>1, <2>3, <3>1 DEF Snapshots, Taken
    <3> QED  BY <1>1, <3>1, <3>2 DEF Outdated, InSubmit
  <2>4. ASSUME NEW k \in 1 .. Len(applyCh), applyCh[k].valid = "snapshot" PROVE Outdated(applyCh[k].at)'
    <3>1. PICK s \in Nat : s = applyCh[k].at  BY Messages DEF Message, Index
    <3>2. Outdated(s)'  BY <2>1, <2>4, <3>1 DEF Snapshots, Taken
    <3> QED  BY <1>1, <3>1, <3>2 DEF Outdated, InSubmit
  <2> QED  BY <1>1, <2>2, <2>3, <2>4 DEF Snapshots
<1>11. \A d \in Caller : pc[d] # "Idle" => index[d] \in Nat /\ index[d] >= 1  BY DEF TypeOK, Index
<1>12. InPlace'
  <2> SUFFICES ASSUME NEW d \in Caller, InSubmit(d)', started'[d] = term
               PROVE  index'[d] <= Len(log') /\ log'[index'[d]] = [term |-> term, by |-> d]
    BY <1>1 DEF InPlace
  <2>1. CASE d = c  BY <1>2, <1>5, <1>7, <2>1
  <2>2. CASE d # c
    <3>1. InSubmit(d) /\ started[d] = term /\ index'[d] = index[d]  BY <1>7, <2>2 DEF InSubmit
    <3>2. index[d] <= Len(log) /\ log[index[d]] = [term |-> term, by |-> d]  BY <3>1 DEF InPlace
    <3>3. index[d] \in 1 .. Len(log)  BY <1>2, <1>11, <3>1, <3>2 DEF InSubmit
    <3> QED  BY <1>2, <1>5, <3>1, <3>2, <3>3
  <2> QED  BY <2>1, <2>2
<1>13. \A d \in Caller : pc[d] # "Idle" /\ index[d] <= lastApplied => log'[index[d]] = log[index[d]]
  BY <1>2, <1>5, <1>11
<1>14. Mail'
  <2> SUFFICES ASSUME NEW d \in Caller, ch[d] # NoEntry
               PROVE  /\ pc'[d] \in {"Wait", "Return"}
                      /\ ch[d] = Woken /\ pc'[d] = "Wait" => started'[d] < term
                      /\ ch[d] # Woken => index'[d] <= lastApplied /\ ch[d] = log'[index'[d]]
    BY <1>1 DEF Mail
  <2>1. pc[d] \in {"Wait", "Return"}  BY DEF Mail
  <2>2. d # c  BY <1>1, <2>1
  <2> QED  BY <1>7, <1>13, <2>1, <2>2 DEF Mail
<1>15. Results'
  <2> SUFFICES ASSUME NEW d \in Caller, pc'[d] = "Return"
               PROVE  /\ outcome[d] = Woken => started'[d] < term
                      /\ outcome[d] # Woken =>
                           /\ outcome[d] = [term |-> started'[d], by |-> d]
                           /\ index'[d] <= lastApplied /\ log'[index'[d]] = outcome[d]
    BY <1>1 DEF Results
  <2>1. d # c /\ pc[d] = "Return"  BY <1>7
  <2> QED  BY <1>7, <1>13, <2>1 DEF Results
<1> QED  BY <1>8, <1>9, <1>10, <1>12, <1>14, <1>15

LEMMA RegisterInv == ASSUME IInv, NEW c \in Caller, Register(c) PROVE IInv'
<1> USE DEF IInv
<1>1. /\ pc[c] = "Register"
      /\ notify' = [notify EXCEPT ![index[c]] = c]
      /\ pc' = [pc EXCEPT ![c] = "Wait"]
      /\ UNCHANGED <<term, leader, log, commit, included, copied, pending, sending, applyCh, lastApplied, reader,
                     inHand, ch, index, started, outcome>>
  BY DEF Register, peerVars, applierVars, readerVars
<1>2. pc'[c] = "Wait" /\ \A d \in Caller \ {c} : pc'[d] = pc[d]  BY <1>1 DEF TypeOK, CallerTypes
<1>3. \A d \in Caller : InSubmit(d)' <=> InSubmit(d)  BY <1>1, <1>2 DEF InSubmit
<1>4. index[c] \in Index  BY <1>1 DEF TypeOK
<1>5. TypeOK'
  <2>1. raced' \subseteq Caller
    <3>1. notify[index[c]] \in Caller \cup {Nobody}  BY <1>4 DEF TypeOK, CallerTypes
    <3>2. raced \subseteq Caller  BY DEF TypeOK, CallerTypes
    <3> QED  BY <3>1, <3>2 DEF Register
  <2>2. notify' \in [Index -> Caller \cup {Nobody}] /\ pc' \in [Caller -> {"Idle", "Register", "Wait", "Return"}]
    BY <1>1, <1>4 DEF TypeOK, CallerTypes
  <2>3. PeerTypes'  BY <1>1 DEF TypeOK, PeerTypes
  <2>4. CallerTypes'  BY <1>1, <2>1, <2>2 DEF TypeOK, CallerTypes
  <2>5. \A d \in Caller : pc'[d] # "Idle" <=> index[d] \in Index  BY <1>1, <1>2 DEF TypeOK
  <2>6. ASSUME NEW i \in Index, notify'[i] # Nobody
        PROVE  pc'[notify'[i]] \in {"Wait", "Return"} /\ index[notify'[i]] = i
    <3>1. CASE i = index[c]
      <4>1. notify'[i] = c  BY <1>1, <3>1 DEF TypeOK, CallerTypes
      <4> QED  BY <1>2, <3>1, <4>1
    <3>2. CASE i # index[c]
      <4>1. notify'[i] = notify[i]  BY <1>1, <3>2 DEF TypeOK, CallerTypes
      <4>2. pc[notify[i]] \in {"Wait", "Return"} /\ index[notify[i]] = i /\ notify[i] \in Caller
        BY <2>6, <4>1 DEF TypeOK, CallerTypes
      <4> QED  BY <1>1, <1>2, <4>1, <4>2
    <3> QED  BY <3>1, <3>2
  <2> QED  BY <1>1, <2>3, <2>4, <2>5, <2>6 DEF TypeOK
<1>6. Taken' /\ Order' /\ Ahead'  BY <1>1 DEF Taken, Order, Ahead
<1>7. Snapshots' /\ InPlace'  BY <1>1, <1>3 DEF Snapshots, Outdated, InPlace
<1>8. Mail' /\ Results'  BY <1>1, <1>2 DEF Mail, Results
<1> QED  BY <1>5, <1>6, <1>7, <1>8

\* Submit's loop ends (Receive, Tick): the caller is no longer waiting.
LEMMA EndEffect ==
  ASSUME IInv, NEW c \in Caller, pc[c] = "Wait",
         pc' = [pc EXCEPT ![c] = "Return"],
         NEW result \in {Woken, [term |-> started[c], by |-> c]},
         outcome' = [outcome EXCEPT ![c] = result],
         result = Woken => started[c] < term,
         result # Woken => index[c] <= lastApplied /\ log[index[c]] = result,
         result \in Entry \cup {NoEntry, Woken},
         ch' \in [Caller -> Entry \cup {NoEntry, Woken}], \A d \in Caller : ch'[d] \in {ch[d], NoEntry},
         UNCHANGED <<term, leader, log, commit, included, copied, pending, sending, applyCh, lastApplied, reader,
                     inHand, notify, index, started, raced>>
  PROVE  IInv'
<1> USE DEF IInv
<1>1. pc'[c] = "Return" /\ outcome'[c] = result
      /\ \A d \in Caller \ {c} : pc'[d] = pc[d] /\ outcome'[d] = outcome[d]
  BY DEF TypeOK, CallerTypes
<1>2. \A d \in Caller : InSubmit(d)' => InSubmit(d)  BY <1>1 DEF InSubmit
<1>3. TypeOK'
  <2>1. pc' \in [Caller -> {"Idle", "Register", "Wait", "Return"}]
        /\ outcome' \in [Caller -> Entry \cup {NoEntry, Woken}]
    BY DEF TypeOK, CallerTypes
  <2>2. PeerTypes'  BY DEF TypeOK, PeerTypes
  <2>3. CallerTypes'  BY <2>1 DEF TypeOK, CallerTypes
  <2>4. \A d \in Caller : pc'[d] # "Idle" <=> index[d] \in Index  BY <1>1 DEF TypeOK
  <2>5. ASSUME NEW i \in Index, notify[i] # Nobody
        PROVE  pc'[notify[i]] \in {"Wait", "Return"} /\ index[notify[i]] = i
    <3>1. pc[notify[i]] \in {"Wait", "Return"} /\ index[notify[i]] = i /\ notify[i] \in Caller
      BY <2>5 DEF TypeOK, CallerTypes
    <3> QED  BY <1>1, <3>1
  <2> QED  BY <2>2, <2>3, <2>4, <2>5 DEF TypeOK
<1>4. Taken' /\ Order' /\ Ahead'  BY DEF Taken, Order, Ahead
<1>5. Snapshots' /\ InPlace'  BY <1>2 DEF Snapshots, Outdated, InPlace
<1>6. Mail'
  <2> SUFFICES ASSUME NEW d \in Caller, ch'[d] # NoEntry
               PROVE  /\ pc'[d] \in {"Wait", "Return"}
                      /\ ch'[d] = Woken /\ pc'[d] = "Wait" => started[d] < term
                      /\ ch'[d] # Woken => index[d] <= lastApplied /\ ch'[d] = log[index[d]]
    BY DEF Mail
  <2>1. ch'[d] = ch[d]  OBVIOUS
  <2> QED  BY <1>1, <2>1 DEF Mail
<1>7. Results'
  <2> SUFFICES ASSUME NEW d \in Caller, pc'[d] = "Return"
               PROVE  /\ outcome'[d] = Woken => started[d] < term
                      /\ outcome'[d] # Woken =>
                           /\ outcome'[d] = [term |-> started[d], by |-> d]
                           /\ index[d] <= lastApplied /\ log[index[d]] = outcome'[d]
    BY DEF Results
  <2>1. CASE d = c  BY <1>1, <2>1
  <2>2. CASE d # c  BY <1>1, <2>2 DEF Results
  <2> QED  BY <2>1, <2>2
<1> QED  BY <1>3, <1>4, <1>5, <1>6, <1>7

LEMMA ReceiveInv == ASSUME IInv, NEW c \in Caller, Receive(c) PROVE IInv'
<1> USE DEF IInv
<1>1. /\ pc[c] = "Wait" /\ ch[c] # NoEntry
      /\ outcome' = [outcome EXCEPT ![c] = IF Own(c, ch[c]) THEN ch[c] ELSE Woken]
      /\ ch' = [ch EXCEPT ![c] = NoEntry] /\ pc' = [pc EXCEPT ![c] = "Return"]
      /\ UNCHANGED <<term, leader, log, commit, included, copied, pending, sending, applyCh, lastApplied, reader,
                     inHand, notify, index, started, raced>>
  BY DEF Receive, peerVars, applierVars, readerVars
<1>2. PICK result : result = IF Own(c, ch[c]) THEN ch[c] ELSE Woken  OBVIOUS
<1>3. /\ ch' \in [Caller -> Entry \cup {NoEntry, Woken}] /\ ch[c] \in Entry \cup {NoEntry, Woken}
      /\ \A d \in Caller : ch'[d] \in {ch[d], NoEntry}
  BY <1>1 DEF TypeOK, CallerTypes
<1>4. CASE Own(c, ch[c])
  <2>1. result = ch[c] /\ result = [term |-> started[c], by |-> c]  BY <1>2, <1>4 DEF Own
  <2>2. result # Woken
    <3>1. started[c] \in Nat  BY Sizes
    <3> QED  BY <2>1, <3>1 DEF Woken
  <2>3. index[c] <= lastApplied /\ log[index[c]] = result  BY <1>1, <2>1, <2>2 DEF Mail
  <2> QED  BY <1>1, <1>2, <1>3, <2>1, <2>2, <2>3, EndEffect
<1>5. CASE ~Own(c, ch[c])
  <2>1. result = Woken  BY <1>2, <1>5
  <2>2. started[c] < term
    <3>1. CASE ch[c] = Woken  BY <1>1, <3>1 DEF Mail
    <3>2. CASE ch[c] # Woken
      <4>1. log[index[c]] # [term |-> started[c], by |-> c]  BY <1>1, <1>5, <3>2 DEF Mail, Own
      <4>2. started[c] # term  BY <1>1, <4>1 DEF InPlace, InSubmit
      <4>3. started[c] \in Nat /\ term \in Nat /\ started[c] <= term  BY Sizes
      <4> QED  BY <4>2, <4>3
    <3> QED  BY <3>1, <3>2
  <2> QED  BY <1>1, <1>2, <1>3, <2>1, <2>2, EndEffect
<1> QED  BY <1>4, <1>5

LEMMA TickInv == ASSUME IInv, NEW c \in Caller, Tick(c) PROVE IInv'
<1> USE DEF IInv
<1>1. /\ pc[c] = "Wait" /\ Deposed(c)
      /\ outcome' = [outcome EXCEPT ![c] = Woken] /\ pc' = [pc EXCEPT ![c] = "Return"]
      /\ UNCHANGED <<term, leader, log, commit, included, copied, pending, sending, applyCh, lastApplied, reader,
                     inHand, notify, ch, index, started, raced>>
  BY DEF Tick, peerVars, applierVars, readerVars
<1>2. started[c] < term
  <2>1. started[c] # term  BY <1>1 DEF Deposed, InPlace, InSubmit
  <2>2. started[c] \in Nat /\ term \in Nat /\ started[c] <= term  BY Sizes
  <2> QED  BY <2>1, <2>2
<1>3. ch' \in [Caller -> Entry \cup {NoEntry, Woken}] /\ \A d \in Caller : ch'[d] \in {ch[d], NoEntry}
  BY <1>1 DEF TypeOK, CallerTypes
<1> QED  BY <1>1, <1>2, <1>3, EndEffect

LEMMA ReturnInv == ASSUME IInv, NEW c \in Caller, Return(c) PROVE IInv'
<1> USE DEF IInv
<1>1. /\ pc[c] = "Return"
      /\ notify' = [notify EXCEPT ![index[c]] = Nobody]
      /\ pc' = [pc EXCEPT ![c] = "Idle"]
      /\ index' = [index EXCEPT ![c] = 0]
      /\ started' = [started EXCEPT ![c] = 0]
      /\ ch' = [ch EXCEPT ![c] = NoEntry]
      /\ outcome' = [outcome EXCEPT ![c] = NoEntry]
      /\ UNCHANGED <<term, leader, log, commit, included, copied, pending, sending, applyCh, lastApplied, reader,
                     inHand>>
  BY DEF Return, peerVars, applierVars, readerVars
<1>2. /\ pc'[c] = "Idle" /\ index'[c] = 0 /\ ch'[c] = NoEntry
      /\ \A d \in Caller \ {c} : /\ pc'[d] = pc[d] /\ index'[d] = index[d] /\ started'[d] = started[d]
                                 /\ ch'[d] = ch[d] /\ outcome'[d] = outcome[d]
  BY <1>1 DEF TypeOK, CallerTypes
<1>3. \A d \in Caller : InSubmit(d)' => d # c /\ InSubmit(d)  BY <1>2 DEF InSubmit
<1>4. index[c] \in Index /\ term \in Nat /\ MaxLog \in Nat  BY <1>1, Sizes DEF TypeOK
<1>5. TypeOK'
  <2>1. raced' \subseteq Caller
    <3>1. notify[index[c]] \in Caller \cup {Nobody}  BY <1>4 DEF TypeOK, CallerTypes
    <3>2. raced \subseteq Caller  BY DEF TypeOK, CallerTypes
    <3> QED  BY <3>1, <3>2 DEF Return
  <2>2. /\ notify' \in [Index -> Caller \cup {Nobody}] /\ pc' \in [Caller -> {"Idle", "Register", "Wait", "Return"}]
        /\ index' \in [Caller -> 0 .. MaxLog] /\ started' \in [Caller -> 0 .. term']
        /\ ch' \in [Caller -> Entry \cup {NoEntry, Woken}] /\ outcome' \in [Caller -> Entry \cup {NoEntry, Woken}]
    BY <1>1, <1>4 DEF TypeOK, CallerTypes
  <2>3. PeerTypes'  BY <1>1 DEF TypeOK, PeerTypes
  <2>4. CallerTypes'  BY <1>1, <2>1, <2>2 DEF TypeOK, CallerTypes
  <2>5. \A d \in Caller : pc'[d] # "Idle" <=> index'[d] \in Index  BY <1>2 DEF TypeOK, Index
  <2>6. ASSUME NEW i \in Index, notify'[i] # Nobody
        PROVE  pc'[notify'[i]] \in {"Wait", "Return"} /\ index'[notify'[i]] = i
    <3>1. i # index[c] /\ notify'[i] = notify[i]  BY <1>1, <2>6 DEF TypeOK, CallerTypes
    <3>2. pc[notify[i]] \in {"Wait", "Return"} /\ index[notify[i]] = i /\ notify[i] \in Caller
      BY <2>6, <3>1 DEF TypeOK, CallerTypes
    <3>3. notify[i] # c  BY <3>1, <3>2
    <3> QED  BY <1>2, <3>1, <3>2, <3>3
  <2> QED  BY <1>1, <2>3, <2>4, <2>5, <2>6 DEF TypeOK
<1>6. Taken' /\ Order' /\ Ahead'  BY <1>1 DEF Taken, Order, Ahead
<1>7. Snapshots'
  <2>1. \A d \in Caller : InSubmit(d)' => InSubmit(d) /\ index'[d] = index[d] /\ started'[d] = started[d]
    BY <1>2, <1>3
  <2> QED  BY <1>1, <2>1 DEF Snapshots, Outdated
<1>8. InPlace'  BY <1>1, <1>2, <1>3 DEF InPlace
<1>9. Mail' /\ Results'  BY <1>1, <1>2 DEF Mail, Results
<1> QED  BY <1>5, <1>6, <1>7, <1>8, <1>9

-----------------------------------------------------------------------------
LEMMA NextInv == IInv /\ [Next]_vars => IInv'
<1> SUFFICES ASSUME IInv, [Next]_vars PROVE IInv'  OBVIOUS
<1>1. CASE UNCHANGED vars
  <2>1. UNCHANGED <<term, leader, log, commit, included, copied, pending, sending, applyCh, lastApplied, reader,
                    inHand, notify, ch, pc, index, started, outcome, raced>>
    BY <1>1 DEF vars, peerVars, applierVars, readerVars, callerVars
  <2>2. TypeOK'  BY <2>1 DEF IInv, TypeOK, PeerTypes, CallerTypes
  <2>3. Taken' /\ Order' /\ Ahead'  BY <2>1 DEF IInv, Taken, Order, Ahead
  <2>4. Snapshots' /\ InPlace' /\ Mail' /\ Results'
    BY <2>1 DEF IInv, Snapshots, Outdated, InSubmit, InPlace, Mail, Results
  <2> QED  BY <2>2, <2>3, <2>4 DEF IInv
<1>2. CASE Peer  BY <1>2, TermInv, ReplaceInv, CommitInv, InstallInv DEF Peer
<1>3. CASE Applier  BY <1>3, TakeInv, SendInv DEF Applier
<1>4. CASE Reader  BY <1>4, ExecuteInv, AnswerInv, CompactInv, RestoreInv DEF Reader
<1>5. ASSUME NEW c \in Caller, Start(c) \/ CallerStep(c) PROVE IInv'
  BY <1>5, StartInv, RegisterInv, ReceiveInv, TickInv, ReturnInv DEF CallerStep
<1> QED  BY <1>1, <1>2, <1>3, <1>4, <1>5 DEF Next

\* The invariant of Submit, reader and applier.
THEOREM CallsInOrder == Spec => []IInv
BY InitInv, NextInv, PTL DEF Spec

\* The types, and no channel outlives its Submit under another's index.
THEOREM TypeCorrect == Spec => []TypeOK
<1>1. IInv => TypeOK  BY DEF IInv
<1> QED  BY <1>1, CallsInOrder, PTL

\* Who is answered has its own operation's answer (the id in SubResult).
THEOREM AnswersOwned == Spec => []AnswerIsOwn
<1>1. IInv => AnswerIsOwn  BY DEF IInv, Results, AnswerIsOwn
<1> QED  BY <1>1, CallsInOrder, PTL

\* Submit returns an error only when the leadership is lost (rsm.go:52).
THEOREM ErrorsAreDepositions == Spec => []ErrorMeansDeposed
<1>1. IInv => ErrorMeansDeposed  BY DEF IInv, Results, ErrorMeansDeposed
<1> QED  BY <1>1, CallsInOrder, PTL
-----------------------------------------------------------------------------
(***************************************************************************)
(* Submit loses a wake-up in the ways that raced records and in no other.  *)
(* The invariant follows the operation of a caller whose term lasts from   *)
(* the log through applier, channel and reader to the caller's channel.    *)
(***************************************************************************)
\* The operation at i has been executed, is still to be taken, or is on its way.
Due(i) ==
  \/ i > copied \/ i <= lastApplied
  \/ reader = "Answer" /\ inHand = i
  \/ \E k \in 1 .. Len(applyCh) : applyCh[k] = Op(i)
  \/ \E k \in 1 .. Len(sending) : sending[k] = Op(i)

\* No operation of a caller whose term lasts is skipped.
NoneSkipped == \A c \in Caller : InSubmit(c) /\ started[c] = term => Due(index[c])

Hopes(c) == pc[c] = "Wait" /\ ch[c] = NoEntry /\ started[c] = term /\ c \notin raced

\* Whoever waits, and was not overtaken, is registered for what is still to come.
Attended == \A c \in Caller : Hopes(c) => lastApplied < index[c] /\ notify[index[c]] = c

WInv == NoneSkipped /\ Attended

LEMMA InitAttended == Init => WInv
BY DEF Init, WInv, NoneSkipped, Attended, InSubmit, Hopes

-----------------------------------------------------------------------------
\* A term begins, and no caller's lasts.
LEMMA TermAttends == ASSUME IInv, BecomeLeader \/ HigherTerm PROVE WInv'
<1>1. term' = term + 1 /\ UNCHANGED started
  BY DEF BecomeLeader, HigherTerm, callerVars
<1>2. \A c \in Caller : started'[c] # term'
  BY <1>1, Sizes DEF IInv
<1> QED  BY <1>2 DEF WInv, NoneSkipped, Attended, Hopes

\* Another leader's message: no caller's term lasts.
LEMMA FollowerAttends ==
  ASSUME IInv, ~leader, UNCHANGED <<term, pc, started>> PROVE WInv'
<1>1. \A c \in Caller : ~(InSubmit(c) /\ started[c] = term)
  BY DEF IInv, InPlace
<1> QED  BY <1>1 DEF WInv, NoneSkipped, Attended, Hopes, InSubmit

\* Steps that move no message and touch no caller.
LEMMA IdleAttends ==
  ASSUME WInv, UNCHANGED <<term, copied, sending, applyCh, lastApplied, inHand, notify, ch, pc, index, started, raced>>,
         reader = "Answer" <=> reader' = "Answer"
  PROVE  WInv'
BY DEF WInv, NoneSkipped, Attended, Hopes, InSubmit, Due

\* The applier takes everything up to commitIndex, in order.
LEMMA TakeAttends == ASSUME IInv, WInv, Take PROVE WInv'
<1>1. /\ sending = <<>>
      /\ UNCHANGED <<term, applyCh, lastApplied, reader, inHand, notify, ch, pc, index, started, raced>>
  BY DEF Take, peerVars, readerVars, callerVars
<1>2. Attended'
  BY <1>1 DEF WInv, Attended, Hopes
<1>3. copied \in Nat /\ commit \in Nat /\ included <= copied /\ included \in Nat
  BY Sizes DEF IInv
<1>4. \A k \in 1 .. Len(sending) : FALSE
  BY <1>1
<1> SUFFICES ASSUME NEW i \in Nat, Due(i) PROVE Due(i)'
  <2>1. \A c \in Caller : index[c] \in Nat  BY Sizes DEF IInv
  <2>2. ASSUME NEW c \in Caller, InSubmit(c)', started'[c] = term' PROVE Due(index[c])'
    <3>1. Due(index[c])  BY <1>1, <2>2 DEF WInv, NoneSkipped, InSubmit
    <3>2. PICK i \in Nat : i = index[c]  BY <2>1
    <3>3. Due(i)  BY <3>1, <3>2
    <3>4. Due(i)'  BY <3>3
    <3> QED  BY <3>2, <3>4, <1>1 DEF Due
  <2> QED  BY <1>1, <1>2, <2>2 DEF WInv, NoneSkipped
<1>5. CASE UNCHANGED copied
  BY <1>1, <1>4, <1>5 DEF Due
<1>6. CASE copied' = commit /\ sending' = [k \in 1 .. commit - copied |-> Op(copied + k)]
  <2>1. CASE i > copied /\ i <= commit
    <3>1. i - copied \in 1 .. commit - copied /\ copied + (i - copied) = i  BY <1>3, <2>1
    <3>2. Len(sending') = commit - copied  BY <1>3, <1>6, <3>1
    <3>3. sending'[i - copied] = Op(i)  BY <1>6, <3>1
    <3> QED  BY <3>1, <3>2, <3>3 DEF Due
  <2>2. CASE i > commit
    BY <1>6, <2>2 DEF Due
  <2>3. CASE i <= copied
    BY <1>1, <1>3, <1>4, <2>3 DEF Due
  <2> QED  BY <1>3, <2>1, <2>2, <2>3
<1>7. \/ UNCHANGED copied
      \/ copied' = commit /\ sending' = [k \in 1 .. commit - copied |-> Op(copied + k)]
  <2>1. (IF copied < included THEN included + 1 ELSE copied + 1) = copied + 1  BY <1>3
  <2>2. commit - (copied + 1) + 1 = commit - copied /\ \A k \in 1 .. commit - copied : copied + 1 + k - 1 = copied + k
    BY <1>3
  <2> QED  BY <2>1, <2>2 DEF Take
<1> QED  BY <1>5, <1>6, <1>7

LEMMA SendAttends == ASSUME IInv, WInv, Send PROVE WInv'
<1>1. /\ sending # <<>> /\ applyCh' = Append(applyCh, Head(sending)) /\ sending' = Tail(sending)
      /\ UNCHANGED <<term, copied, lastApplied, reader, inHand, notify, ch, pc, index, started, raced>>
  BY DEF Send, peerVars, readerVars, callerVars
<1>2. Attended'
  BY <1>1 DEF WInv, Attended, Hopes
<1> DEFINE m == Len(applyCh)
<1> DEFINE n == Len(sending)
<1>3. n \in Nat /\ n >= 1 /\ m \in Nat /\ sending \in Seq(Message) /\ applyCh \in Seq(Message)
  BY <1>1, Messages DEF IInv
<1>4. /\ Len(applyCh') = m + 1 /\ applyCh'[m + 1] = sending[1] /\ \A k \in 1 .. m : applyCh'[k] = applyCh[k]
      /\ Len(sending') = n - 1 /\ \A k \in 1 .. n - 1 : sending'[k] = sending[k + 1]
  BY <1>1, <1>3
<1>5. ASSUME NEW i, Due(i)
      PROVE  \/ i > copied \/ i <= lastApplied \/ (reader = "Answer" /\ inHand = i)
             \/ \E k \in 1 .. Len(applyCh') : applyCh'[k] = Op(i)
             \/ \E k \in 1 .. Len(sending') : sending'[k] = Op(i)
  <2>1. ASSUME NEW k \in 1 .. m, applyCh[k] = Op(i) PROVE k \in 1 .. m + 1 /\ applyCh'[k] = Op(i)
    BY <1>3, <1>4, <2>1
  <2>2. ASSUME sending[1] = Op(i) PROVE m + 1 \in 1 .. m + 1 /\ applyCh'[m + 1] = Op(i)
    BY <1>3, <1>4, <2>2
  <2>3. ASSUME NEW k \in 1 .. n, k # 1, sending[k] = Op(i) PROVE k - 1 \in 1 .. n - 1 /\ sending'[k - 1] = Op(i)
    <3>1. k - 1 \in 1 .. n - 1 /\ (k - 1) + 1 = k  BY <1>3, <2>3
    <3> QED  BY <1>4, <2>3, <3>1
  <2> QED  BY <1>4, <1>5, <2>1, <2>2, <2>3 DEF Due
<1>6. NoneSkipped'
  BY <1>1, <1>5 DEF WInv, NoneSkipped, InSubmit, Due
<1> QED  BY <1>2, <1>6 DEF WInv

-----------------------------------------------------------------------------
\* The first message leaves the channel, and everything else stays there.
LEMMA PopKeeps ==
  ASSUME IInv, applyCh # <<>>, applyCh' = Tail(applyCh), NEW i, NEW k \in 1 .. Len(applyCh), applyCh[k] = Op(i)
  PROVE  Head(applyCh) = Op(i) \/ \E l \in 1 .. Len(applyCh') : applyCh'[l] = Op(i)
<1>1. applyCh \in Seq(Message) /\ Len(applyCh) \in Nat
  BY Messages DEF IInv
<1>2. CASE k = 1
  BY <1>1, <1>2
<1>3. CASE k # 1
  <2>1. k - 1 \in 1 .. Len(applyCh') /\ applyCh'[k - 1] = applyCh[k]  BY <1>1, <1>3
  <2> QED  BY <2>1
<1> QED  BY <1>2, <1>3

LEMMA ExecuteAttends == ASSUME IInv, WInv, Execute PROVE WInv'
<1>1. /\ reader = "Receive" /\ applyCh # <<>> /\ applyCh' = Tail(applyCh)
      /\ reader' = "Answer" /\ inHand' = Head(applyCh).at
      /\ UNCHANGED <<term, copied, sending, lastApplied, notify, ch, pc, index, started, raced>>
  BY DEF Execute, peerVars, applierVars, callerVars
<1>2. Attended'
  BY <1>1 DEF WInv, Attended, Hopes
<1>3. ASSUME NEW i, Due(i)
      PROVE  \/ i > copied \/ i <= lastApplied \/ inHand' = i
             \/ \E k \in 1 .. Len(applyCh') : applyCh'[k] = Op(i)
             \/ \E k \in 1 .. Len(sending) : sending[k] = Op(i)
  <2>1. Head(applyCh) = Op(i) => inHand' = i  BY <1>1 DEF Op
  <2> QED  BY <1>1, <1>3, <2>1, PopKeeps DEF Due
<1>4. NoneSkipped'
  BY <1>1, <1>3 DEF WInv, NoneSkipped, InSubmit, Due
<1> QED  BY <1>2, <1>4 DEF WInv

\* What was executed before the operation in hand was answered before.
LEMMA AnswerAttends == ASSUME IInv, WInv, Answer PROVE WInv'
<1>1. /\ reader = "Answer" /\ lastApplied' = inHand /\ reader' # "Answer"
      /\ ch' = [c \in Caller |-> IF notify[inHand] = c /\ ch[c] = NoEntry THEN log[inHand] ELSE ch[c]]
      /\ UNCHANGED <<term, copied, sending, applyCh, inHand, notify, pc, index, started, raced>>
  BY DEF Answer, Deliver, Waits, peerVars, applierVars, callerVars
<1>2. /\ lastApplied \in Nat /\ inHand \in Nat /\ lastApplied < inHand /\ inHand <= copied /\ copied <= commit
      /\ commit <= Len(log) /\ copied \in Nat /\ commit \in Nat /\ Len(log) \in Nat
      /\ \A c \in Caller : index[c] \in Nat
  BY <1>1, Sizes DEF IInv, Ahead, Taken
<1>3. log[inHand] # NoEntry
  <2>1. inHand \in 1 .. Len(log)  BY <1>2
  <2>2. log[inHand] \in Entry  BY <2>1 DEF IInv, TypeOK, PeerTypes
  <2> QED  BY <2>2, BoundAssumption DEF Entry, NoEntry
<1>4. NoneSkipped'
  <2> SUFFICES ASSUME NEW c \in Caller, InSubmit(c), started[c] = term PROVE Due(index[c])'
    BY <1>1 DEF NoneSkipped, InSubmit
  <2>1. Due(index[c])  BY DEF WInv, NoneSkipped
  <2>2. index[c] <= lastApplied \/ inHand = index[c] => index[c] <= inHand  BY <1>2
  <2> QED  BY <1>1, <2>1, <2>2 DEF Due
<1>5. Attended'
  <2> SUFFICES ASSUME NEW c \in Caller, Hopes(c)' PROVE inHand < index[c] /\ notify[index[c]] = c
    BY <1>1 DEF Attended
  <2>1. ch[c] = NoEntry /\ notify[inHand] # c  BY <1>1, <1>3 DEF Hopes
  <2>2. Hopes(c)  BY <1>1, <2>1 DEF Hopes
  <2>3. lastApplied < index[c] /\ notify[index[c]] = c  BY <2>2 DEF WInv, Attended
  <2>4. index[c] # inHand  BY <2>1, <2>3
  <2>5. Due(index[c])  BY <2>2 DEF WInv, NoneSkipped, Hopes, InSubmit
  <2>6. index[c] > copied \/ inHand < index[c]
    <3>1. \A k \in 1 .. Len(applyCh) : applyCh[k] = Op(index[c]) => inHand < index[c]
      BY DEF IInv, Ahead, Op
    <3>2. \A k \in 1 .. Len(sending) : sending[k] = Op(index[c]) => inHand < index[c]
      BY DEF IInv, Ahead, Op
    <3> QED  BY <1>2, <2>3, <2>4, <2>5, <3>1, <3>2 DEF Due
  <2> QED  BY <1>2, <2>3, <2>6
<1> QED  BY <1>4, <1>5 DEF WInv

\* A snapshot covers nothing that a caller whose term lasts waits for.
LEMMA RestoreAttends == ASSUME IInv, WInv, Restore PROVE WInv'
<1>1. /\ reader = "Receive" /\ applyCh # <<>> /\ applyCh' = Tail(applyCh) /\ Head(applyCh).valid = "snapshot"
      /\ UNCHANGED <<term, copied, sending, reader, inHand, notify, pc, index, started, raced>>
  BY DEF Restore, peerVars, applierVars, callerVars
<1>2. /\ Head(applyCh) = applyCh[1] /\ 1 \in 1 .. Len(applyCh) /\ applyCh[1] \in Message
  <2>1. applyCh \in Seq(Message) /\ Len(applyCh) \in Nat  BY Messages DEF IInv
  <2> QED  BY <1>1, <2>1
<1>3. /\ lastApplied' = lastApplied \/ (lastApplied < lastApplied' /\ lastApplied' = applyCh[1].at)
      /\ \A c \in Caller : ch'[c] = NoEntry => ch[c] = NoEntry
  <2>1. Woken # NoEntry  BY DEF Woken, NoEntry
  <2> QED  BY <1>2, <2>1 DEF Restore
<1>4. lastApplied \in Nat /\ applyCh[1].at \in Nat /\ \A c \in Caller : index[c] \in Nat
  BY <1>2, Sizes DEF IInv, Message, Index
<1>5. NoneSkipped'
  <2> SUFFICES ASSUME NEW c \in Caller, InSubmit(c), started[c] = term PROVE Due(index[c])'
    BY <1>1 DEF NoneSkipped, InSubmit
  <2>1. Due(index[c])  BY DEF WInv, NoneSkipped
  <2>2. index[c] <= lastApplied => index[c] <= lastApplied'  BY <1>3, <1>4
  <2>3. Head(applyCh) # Op(index[c])  BY <1>1 DEF Op
  <2> QED  BY <1>1, <2>1, <2>2, <2>3, PopKeeps DEF Due
<1>6. Attended'
  <2> SUFFICES ASSUME NEW c \in Caller, Hopes(c)' PROVE lastApplied' < index[c] /\ notify[index[c]] = c
    BY <1>1 DEF Attended
  <2>1. Hopes(c)  BY <1>1, <1>3 DEF Hopes
  <2>2. lastApplied < index[c] /\ notify[index[c]] = c  BY <2>1 DEF WInv, Attended
  <2>3. InSubmit(c) /\ started[c] = term /\ term \in Nat  BY <2>1, Sizes DEF IInv, Hopes, InSubmit
  <2>4. ~(index[c] <= applyCh[1].at)  BY <1>1, <1>2, <2>3 DEF IInv, Snapshots, Outdated
  <2> QED  BY <1>3, <1>4, <2>2, <2>4
<1> QED  BY <1>5, <1>6 DEF WInv

-----------------------------------------------------------------------------
\* A new operation is behind everything that was taken.
LEMMA StartAttends == ASSUME IInv, WInv, NEW c \in Caller, Start(c) PROVE WInv'
<1>1. /\ pc' = [pc EXCEPT ![c] = "Register"] /\ index' = [index EXCEPT ![c] = Len(log) + 1]
      /\ started' = [started EXCEPT ![c] = term]
      /\ UNCHANGED <<term, copied, sending, applyCh, lastApplied, reader, inHand, notify, ch, raced>>
  BY DEF Start, applierVars, readerVars
<1>2. /\ pc'[c] = "Register" /\ index'[c] = Len(log) + 1
      /\ \A d \in Caller \ {c} : pc'[d] = pc[d] /\ index'[d] = index[d] /\ started'[d] = started[d]
  BY <1>1 DEF IInv, TypeOK, CallerTypes
<1>3. index'[c] > copied'
  BY <1>1, <1>2, Sizes DEF IInv
<1>4. NoneSkipped'
  <2> SUFFICES ASSUME NEW d \in Caller, InSubmit(d)', started'[d] = term' PROVE Due(index[d])'
    BY DEF NoneSkipped
  <2>1. CASE d = c  BY <1>3, <2>1 DEF Due
  <2>2. CASE d # c
    <3>1. Due(index[d])  BY <1>1, <1>2, <2>2 DEF WInv, NoneSkipped, InSubmit
    <3> QED  BY <1>1, <1>2, <2>2, <3>1 DEF Due
  <2> QED  BY <2>1, <2>2
<1>5. Attended'
  BY <1>1, <1>2 DEF WInv, Attended, Hopes
<1> QED  BY <1>4, <1>5 DEF WInv

\* Who registers in time has the index; whom it replaces is overtaken.
LEMMA RegisterAttends == ASSUME IInv, WInv, NEW c \in Caller, Register(c) PROVE WInv'
<1>1. /\ pc[c] = "Register" /\ notify' = [notify EXCEPT ![index[c]] = c] /\ pc' = [pc EXCEPT ![c] = "Wait"]
      /\ raced' = (raced \cup {notify[index[c]]} \cup {k \in {c} : lastApplied >= index[k]}) \ {Nobody}
      /\ UNCHANGED <<term, copied, sending, applyCh, lastApplied, reader, inHand, ch, index, started>>
  BY DEF Register, peerVars, applierVars, readerVars
<1>2. pc'[c] = "Wait" /\ \A d \in Caller \ {c} : pc'[d] = pc[d]
  BY <1>1 DEF IInv, TypeOK, CallerTypes
<1>3. index[c] \in Index /\ notify \in [Index -> Caller \cup {Nobody}]
  BY <1>1 DEF IInv, TypeOK, CallerTypes
<1>4. NoneSkipped'
  BY <1>1, <1>2 DEF WInv, NoneSkipped, InSubmit, Due
<1>5. Attended'
  <2> SUFFICES ASSUME NEW d \in Caller, Hopes(d)' PROVE lastApplied < index[d] /\ notify'[index[d]] = d
    BY <1>1 DEF Attended
  <2>1. d # Nobody  BY CallerAssumption DEF Nobody
  <2>2. CASE d = c
    <3>1. ~(lastApplied >= index[c])  BY <1>1, <2>1, <2>2 DEF Hopes
    <3>2. lastApplied \in Nat /\ index[c] \in Nat  BY Sizes DEF IInv
    <3> QED  BY <1>1, <1>3, <2>2, <3>1, <3>2
  <2>3. CASE d # c
    <3>1. Hopes(d) /\ notify[index[c]] # d  BY <1>1, <1>2, <2>1, <2>3 DEF Hopes
    <3>2. lastApplied < index[d] /\ notify[index[d]] = d  BY <3>1 DEF WInv, Attended
    <3>3. index[d] # index[c]  BY <3>1, <3>2
    <3> QED  BY <1>1, <1>3, <3>2, <3>3
  <2> QED  BY <2>2, <2>3
<1> QED  BY <1>4, <1>5 DEF WInv

LEMMA EndAttends == ASSUME IInv, WInv, NEW c \in Caller, Receive(c) \/ Tick(c) PROVE WInv'
<1>1. /\ pc' = [pc EXCEPT ![c] = "Return"]
      /\ UNCHANGED <<term, copied, sending, applyCh, lastApplied, reader, inHand, notify, index, started, raced>>
  BY DEF Receive, Tick, peerVars, applierVars, readerVars
<1>2. /\ pc'[c] = "Return" /\ \A d \in Caller \ {c} : pc'[d] = pc[d] /\ ch'[d] = ch[d]
  BY <1>1 DEF Receive, Tick, IInv, TypeOK, CallerTypes
<1>3. NoneSkipped'
  BY <1>1, <1>2 DEF WInv, NoneSkipped, InSubmit, Due
<1>4. Attended'
  BY <1>1, <1>2 DEF WInv, Attended, Hopes
<1> QED  BY <1>3, <1>4 DEF WInv

\* Whose channel is deleted is overtaken.
LEMMA ReturnAttends == ASSUME IInv, WInv, NEW c \in Caller, Return(c) PROVE WInv'
<1>1. /\ pc[c] = "Return" /\ notify' = [notify EXCEPT ![index[c]] = Nobody]
      /\ raced' = (raced \cup {notify[index[c]]}) \ {c, Nobody}
      /\ pc' = [pc EXCEPT ![c] = "Idle"] /\ index' = [index EXCEPT ![c] = 0]
      /\ started' = [started EXCEPT ![c] = 0] /\ ch' = [ch EXCEPT ![c] = NoEntry]
      /\ UNCHANGED <<term, copied, sending, applyCh, lastApplied, reader, inHand>>
  BY DEF Return, peerVars, applierVars, readerVars
<1>2. /\ pc'[c] = "Idle"
      /\ \A d \in Caller \ {c} : pc'[d] = pc[d] /\ index'[d] = index[d] /\ started'[d] = started[d] /\ ch'[d] = ch[d]
  BY <1>1 DEF IInv, TypeOK, CallerTypes
<1>3. index[c] \in Index /\ notify \in [Index -> Caller \cup {Nobody}]
  BY <1>1 DEF IInv, TypeOK, CallerTypes
<1>4. NoneSkipped'
  BY <1>1, <1>2 DEF WInv, NoneSkipped, InSubmit, Due
<1>5. Attended'
  <2> SUFFICES ASSUME NEW d \in Caller, Hopes(d)' PROVE lastApplied < index'[d] /\ notify'[index'[d]] = d
    BY <1>1 DEF Attended
  <2>1. d # Nobody /\ d # c  BY <1>2, CallerAssumption DEF Nobody, Hopes
  <2>2. Hopes(d) /\ notify[index[c]] # d  BY <1>1, <1>2, <2>1 DEF Hopes
  <2>3. lastApplied < index[d] /\ notify[index[d]] = d  BY <2>2 DEF WInv, Attended
  <2>4. index[d] # index[c]  BY <2>2, <2>3
  <2> QED  BY <1>1, <1>2, <1>3, <2>1, <2>3, <2>4
<1> QED  BY <1>4, <1>5 DEF WInv

-----------------------------------------------------------------------------
LEMMA NextAttends == IInv /\ WInv /\ [Next]_vars => WInv'
<1> SUFFICES ASSUME IInv, WInv, [Next]_vars PROVE WInv'  OBVIOUS
<1>1. CASE UNCHANGED vars
  BY <1>1, IdleAttends DEF vars, peerVars, applierVars, readerVars, callerVars
<1>2. CASE Peer
  <2>1. CASE Replace  BY <2>1, FollowerAttends DEF Replace, callerVars
  <2>2. CASE Commit  BY <2>2, IdleAttends DEF Commit, applierVars, readerVars, callerVars
  <2>3. CASE \E i \in Index : InstallSnapshot(i)  BY <2>3, FollowerAttends DEF InstallSnapshot, callerVars
  <2> QED  BY <1>2, <2>1, <2>2, <2>3, TermAttends DEF Peer
<1>3. CASE Applier  BY <1>3, TakeAttends, SendAttends DEF Applier
<1>4. CASE Reader
  <2>1. CASE Compact
    BY <2>1, IdleAttends DEF Compact, peerVars, callerVars
  <2> QED  BY <1>4, <2>1, ExecuteAttends, AnswerAttends, RestoreAttends DEF Reader
<1>5. ASSUME NEW c \in Caller, Start(c) \/ CallerStep(c) PROVE WInv'
  BY <1>5, StartAttends, RegisterAttends, EndAttends, ReturnAttends DEF CallerStep
<1> QED  BY <1>1, <1>2, <1>3, <1>4, <1>5 DEF Next

\* Whoever waits in vain has been overtaken between Start and its registration, or by
\* another Submit of the same index (rsm.go, Submit): there is no other way.
THEOREM WakeupsLostByRacesOnly == Spec => []NoOtherLostWakeup
<1>1. IInv /\ WInv => NoOtherLostWakeup
  <2> SUFFICES ASSUME IInv, WInv, NEW c \in Caller, Hopes(c)
               PROVE  ~(lastApplied >= index[c] \/ notify[index[c]] # c)
    BY DEF NoOtherLostWakeup, Hopes, Deposed
  <2>1. lastApplied < index[c] /\ notify[index[c]] = c  BY DEF WInv, Attended
  <2> QED  BY <2>1, Sizes DEF IInv
<1> QED  BY <1>1, InitAttended, NextAttends, CallsInOrder, PTL DEF Spec
=============================================================================
