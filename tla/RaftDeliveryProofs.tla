------------------------- MODULE RaftDeliveryProofs -------------------------
(***************************************************************************)
(* What the state machines above module Raft execute, for any group and    *)
(* any bounds.                                                             *)
(*                                                                         *)
(* The applyCh of a peer is a path from smIndex to lastApplied.  Each      *)
(* command in it has a higher index than all that comes before it, so no   *)
(* state machine goes back (DeliveryInOrder); and none is skipped          *)
(* (Connected), unless a peer was restarted from a snapshot, which no one  *)
(* hands to the new state machine.  What is on the path is what leaders    *)
(* have committed (Queued, Faithful), where each operation is once (Once). *)
(***************************************************************************)
EXTENDS RaftCommitProofs

\* Message j is behind smIndex and everything before it in the channel.
Fresh(s, j) ==
  /\ applyCh[s][j].index > smIndex[s]
  /\ \A i \in 1 .. j - 1 : applyCh[s][i].index < applyCh[s][j].index

InOrder(s) ==
  /\ lastIncludedIndex[s] <= lastApplied[s] /\ smIndex[s] <= lastApplied[s]
  /\ pendingSnapshot[s].valid => pendingSnapshot[s].index <= lastIncludedIndex[s]
  /\ \A j \in 1 .. Len(applyCh[s]) :
       /\ applyCh[s][j].index <= lastApplied[s]
       /\ ~applyCh[s][j].snap => Fresh(s, j)

DeliveryInOrder == \A s \in Server : InOrder(s)

-----------------------------------------------------------------------------
\* What a step may do to the delivery at s

Rests(s) ==
  /\ applyCh'[s] = applyCh[s] /\ sm'[s] = sm[s] /\ smIndex'[s] = smIndex[s]
  /\ lastApplied'[s] = lastApplied[s] /\ pendingSnapshot'[s] = pendingSnapshot[s]
  /\ lastIncludedIndex'[s] = lastIncludedIndex[s] /\ snapshot'[s] = snapshot[s]

\* Peer s installs a snapshot, which waits for the applier.
Installs(s) ==
  /\ applyCh'[s] = applyCh[s] /\ sm'[s] = sm[s] /\ smIndex'[s] = smIndex[s]
  /\ \E m \in SnapshotCalls :
       /\ m.index > lastIncludedIndex[s] /\ lastIncludedIndex'[s] = m.index
       /\ snapshot'[s] = m.data /\ lastApplied'[s] = Larger(lastApplied[s], m.index)
       /\ pendingSnapshot'[s] = [valid |-> TRUE, index |-> m.index, data |-> m.data]

\* The channel goes on with n messages more.
Longer(s, n) ==
  /\ n \in Nat /\ Len(applyCh'[s]) = Len(applyCh[s]) + n
  /\ \A j \in 1 .. Len(applyCh[s]) : applyCh'[s][j] = applyCh[s][j]
  /\ sm'[s] = sm[s] /\ smIndex'[s] = smIndex[s]
  /\ lastIncludedIndex'[s] = lastIncludedIndex[s] /\ snapshot'[s] = snapshot[s]

HandsSnapshot(s) ==
  /\ Longer(s, 1) /\ pendingSnapshot[s].valid /\ ~pendingSnapshot'[s].valid
  /\ applyCh'[s][Len(applyCh[s]) + 1] =
       Apply(TRUE, pendingSnapshot[s].index, pendingSnapshot[s].data)
  /\ lastApplied'[s] = lastApplied[s]

HandsCommands(s) ==
  /\ Longer(s, commitIndex[s] - lastApplied[s])
  /\ ~pendingSnapshot[s].valid /\ pendingSnapshot'[s] = pendingSnapshot[s]
  /\ commitIndex[s] > lastApplied[s] /\ lastApplied'[s] = commitIndex[s]
  /\ \A k \in 1 .. commitIndex[s] - lastApplied[s] :
       applyCh'[s][Len(applyCh[s]) + k] =
         Apply(FALSE, lastApplied[s] + k, <<LogEntry(s, lastApplied[s] + k).cmd>>)

\* The reader takes the first message off.
Takes1(s) ==
  /\ Len(applyCh[s]) > 0 /\ Len(applyCh'[s]) = Len(applyCh[s]) - 1
  /\ \A j \in 1 .. Len(applyCh[s]) - 1 : applyCh'[s][j] = applyCh[s][j + 1]
  /\ lastApplied'[s] = lastApplied[s] /\ pendingSnapshot'[s] = pendingSnapshot[s]

Executes(s) ==
  /\ Takes1(s) /\ ~applyCh[s][1].snap
  /\ sm'[s] = sm[s] \o applyCh[s][1].cmds /\ smIndex'[s] = applyCh[s][1].index
  /\ \/ lastIncludedIndex'[s] = lastIncludedIndex[s] /\ snapshot'[s] = snapshot[s]
     \/ lastIncludedIndex'[s] = smIndex'[s] /\ smIndex'[s] > lastIncludedIndex[s]
        /\ snapshot'[s] = sm'[s]

RestoresOrNot(s) ==
  /\ Takes1(s) /\ applyCh[s][1].snap
  /\ \/ /\ applyCh[s][1].index > smIndex[s]
        /\ sm'[s] = applyCh[s][1].cmds /\ smIndex'[s] = applyCh[s][1].index
     \/ applyCh[s][1].index <= smIndex[s] /\ sm'[s] = sm[s] /\ smIndex'[s] = smIndex[s]
  /\ lastIncludedIndex'[s] = lastIncludedIndex[s] /\ snapshot'[s] = snapshot[s]

StartsOver(s) ==
  /\ Restart(s) /\ Len(applyCh'[s]) = 0 /\ ~pendingSnapshot'[s].valid
  /\ sm'[s] = <<>> /\ smIndex'[s] = 0 /\ lastApplied'[s] = lastIncludedIndex[s]
  /\ lastIncludedIndex'[s] = lastIncludedIndex[s] /\ snapshot'[s] = snapshot[s]

Delivers(s) ==
  \/ Rests(s) \/ Installs(s) \/ HandsSnapshot(s) \/ HandsCommands(s)
  \/ Executes(s) \/ RestoresOrNot(s) \/ StartsOver(s)

DeliveryActions ==
  \/ UNCHANGED <<applyCh, sm, smIndex, lastApplied, pendingSnapshot, lastIncludedIndex, snapshot>>
  \/ \E m \in Received("InstallSnapshot") : HandleInstallSnapshot(m)
  \/ \E s \in Server : \/ ApplierSnapshot(s) \/ ApplierCommands(s)
                       \/ ReaderCommand(s) \/ ReaderSnapshot(s) \/ Restart(s)

LEMMA DeliveryActs == [Next]_vars => DeliveryActions
  <1>1. SUFFICES ASSUME [Next]_vars PROVE DeliveryActions
    OBVIOUS
  <1>2. CASE UNCHANGED vars
    BY <1>2 DEF vars, logVars, commitVars, rsmVars, DeliveryActions
  <1>3. CASE DeliveryNext
    BY <1>3 DEF DeliveryNext, DeliveryActions
  <1>4. CASE ConsensusNext
    <2>1. ASSUME NEW s \in Server,
                 \/ StartElection(s) \/ \E cmd \in Command : Start(s, cmd)
                 \/ \E p \in Server : SendAppendEntries(s, p) \/ SendSnapshot(s, p)
          PROVE  DeliveryActions
      BY <2>1 DEF StartElection, Start, SendAppendEntries, SendSnapshot, logVars, commitVars,
         rsmVars, DeliveryActions
    <2>2. ASSUME NEW m, HandleRequestVote(m) \/ HandleVoteReply(m) \/ HandleAppendReply(m)
                        \/ HandleSnapshotReply(m) \/ HandleAppendEntries(m) \/ Lose(m)
          PROVE  DeliveryActions
      BY <2>2 DEF HandleRequestVote, HandleVoteReply, HandleAppendReply, HandleSnapshotReply,
         HandleAppendEntries, Lose, persistentVars, logVars, commitVars, rsmVars, DeliveryActions
    <2>3. QED BY <1>4, <2>1, <2>2 DEF ConsensusNext, DeliveryActions
  <1>5. QED BY <1>1, <1>2, <1>3, <1>4 DEF Next

LEMMA DeliveryTypes ==
  ASSUME TypeOK, NEW s \in Server
  PROVE  /\ applyCh \in [Server -> Seq(Applied)] /\ applyCh[s] \in Seq(Applied)
         /\ Len(applyCh[s]) \in Nat
         /\ \A j \in 1 .. Len(applyCh[s]) :
              /\ applyCh[s][j].snap \in BOOLEAN /\ applyCh[s][j].index \in Nat
              /\ applyCh[s][j].cmds \in Seq(Command)
         /\ sm \in [Server -> Seq(Command)] /\ sm[s] \in Seq(Command)
         /\ smIndex \in [Server -> Nat] /\ smIndex[s] \in Nat
         /\ lastApplied \in [Server -> Nat] /\ lastApplied[s] \in Nat
         /\ commitIndex \in [Server -> Nat] /\ commitIndex[s] \in Nat
         /\ lastIncludedIndex \in [Server -> Nat] /\ lastIncludedIndex[s] \in Nat
         /\ snapshot \in [Server -> Seq(Command)] /\ snapshot[s] \in Seq(Command)
         /\ pendingSnapshot \in [Server -> [valid : BOOLEAN, index : Nat, data : Seq(Command)]]
         /\ pendingSnapshot[s].valid \in BOOLEAN /\ pendingSnapshot[s].index \in Nat
         /\ pendingSnapshot[s].data \in Seq(Command)
  <1>1. applyCh \in [Server -> Seq(Applied)] /\ applyCh[s] \in Seq(Applied)
    BY DEF TypeOK, RsmTyped, Applied
  <1>2. Len(applyCh[s]) \in Nat /\ \A j \in 1 .. Len(applyCh[s]) : applyCh[s][j] \in Applied
    BY <1>1, LenProperties, ElementOfSeq
  <1>3. \A j \in 1 .. Len(applyCh[s]) :
          /\ applyCh[s][j].snap \in BOOLEAN /\ applyCh[s][j].index \in Nat
          /\ applyCh[s][j].cmds \in Seq(Command)
    BY <1>2 DEF Applied
  <1>4. /\ sm \in [Server -> Seq(Command)] /\ smIndex \in [Server -> Nat]
        /\ lastApplied \in [Server -> Nat] /\ commitIndex \in [Server -> Nat]
        /\ lastIncludedIndex \in [Server -> Nat] /\ snapshot \in [Server -> Seq(Command)]
        /\ pendingSnapshot \in [Server -> [valid : BOOLEAN, index : Nat, data : Seq(Command)]]
    BY DEF TypeOK, RsmTyped, CommitTyped, LogTyped
  <1>5. QED BY <1>1, <1>2, <1>3, <1>4

\* The applier copies the entries from lastApplied up to commitIndex.
LEMMA ApplierHands ==
  ASSUME TypeOK, NEW s \in Server, lastIncludedIndex[s] <= lastApplied[s], ApplierCommands(s)
  PROVE  HandsCommands(s)
  <1>. DEFINE from == lastApplied[s]
              n == commitIndex[s] - from
              cmds == Commands(s, from, commitIndex[s])
              q == applyCh[s]
              msgs == [k \in 1 .. Len(cmds) |-> Apply(FALSE, from + k, <<cmds[k]>>)]
  <1>1. /\ from \in Nat /\ commitIndex[s] \in Nat /\ lastIncludedIndex[s] \in Nat
        /\ applyCh \in [Server -> Seq(Applied)] /\ q \in Seq(Applied) /\ Len(q) \in Nat
        /\ lastApplied \in [Server -> Nat]
    BY DeliveryTypes
  <1>2. Larger(lastApplied[s], lastIncludedIndex[s]) = from
    BY <1>1 DEF Larger
  <1>3. /\ applyCh' = [applyCh EXCEPT ![s] = q \o msgs]
        /\ commitIndex[s] > from /\ commitIndex[s] <= LastLogIndex(s)
    BY <1>2 DEF ApplierCommands
  <1>4. n \in Nat
    BY <1>1, <1>3
  <1>5. Len(cmds) = n /\ \A k \in 1 .. n : cmds[k] = LogEntry(s, from + k).cmd
    <2>1. cmds = [k \in 1 .. n |-> LogEntry(s, from + k).cmd]
      BY DEF Commands
    <2>. HIDE DEF cmds, n
    <2>2. QED BY <1>4, <2>1
  <1>6. \A k \in 1 .. n : LogEntry(s, from + k).cmd \in Command
    <2>1. SUFFICES ASSUME NEW k \in 1 .. n
                   PROVE  LogEntry(s, from + k) \in Entry
      BY DEF Entry
    <2>2. from + k \in Indices(s)
      BY <1>1, <1>3, LogTypes DEF Indices, TypeOK
    <2>3. QED BY <2>2, LogTypes DEF TypeOK
  <1>. HIDE DEF n, cmds
  <1>7. /\ msgs = [k \in 1 .. n |-> Apply(FALSE, from + k, <<cmds[k]>>)]
        /\ \A k \in 1 .. n : msgs[k] = Apply(FALSE, from + k, <<LogEntry(s, from + k).cmd>>)
    BY <1>5
  <1>8. msgs \in Seq(Applied) /\ Len(msgs) = n
    <2>1. ASSUME NEW k \in 1 .. n
          PROVE  Apply(FALSE, from + k, <<cmds[k]>>) \in Applied
      <3>1. cmds[k] \in Command
        BY <1>5, <1>6
      <3>2. <<cmds[k]>> \in Seq(Command)
        BY <3>1
      <3>3. from + k \in Nat
        BY <1>1, <1>4
      <3>4. QED BY <3>2, <3>3 DEF Apply, Applied
    <2>2. msgs \in [1 .. n -> Applied]
      BY <1>7, <2>1, Zenon
    <2>. HIDE DEF msgs
    <2>3. msgs \in Seq(Applied)
      BY <1>4, <2>2, SeqDef
    <2>4. DOMAIN msgs = 1 .. n /\ DOMAIN msgs = 1 .. Len(msgs) /\ Len(msgs) \in Nat
      BY <2>2, <2>3, LenProperties
    <2>5. QED BY <1>4, <2>3, <2>4
  <1>. HIDE DEF msgs
  <1>9. applyCh'[s] = q \o msgs
    BY <1>1, <1>3
  <1>10. /\ Len(q \o msgs) = Len(q) + n
         /\ \A j \in 1 .. Len(q) : (q \o msgs)[j] = q[j]
         /\ \A k \in 1 .. n : (q \o msgs)[Len(q) + k] = msgs[k]
    <2>1. /\ Len(q \o msgs) = Len(q) + n
          /\ \A i \in 1 .. Len(q) + n :
               (q \o msgs)[i] = IF i <= Len(q) THEN q[i] ELSE msgs[i - Len(q)]
      BY <1>1, <1>8, ConcatProperties
    <2>2. \A k \in 1 .. n : /\ Len(q) + k \in 1 .. Len(q) + n /\ ~(Len(q) + k <= Len(q))
                            /\ Len(q) + k - Len(q) = k
      BY <1>1, <1>4
    <2>3. \A j \in 1 .. Len(q) : j \in 1 .. Len(q) + n /\ j <= Len(q)
      BY <1>1, <1>4
    <2>4. QED BY <2>1, <2>2, <2>3
  <1>11. Longer(s, n)
    BY <1>4, <1>9, <1>10 DEF Longer, ApplierCommands, logVars
  <1>12. /\ ~pendingSnapshot[s].valid /\ pendingSnapshot'[s] = pendingSnapshot[s]
         /\ lastApplied'[s] = commitIndex[s]
    BY <1>1 DEF ApplierCommands, SnapshotFirst
  <1>13. QED BY <1>3, <1>7, <1>9, <1>10, <1>11, <1>12 DEF HandsCommands, n

LEMMA ApplierHandsSnapshot ==
  ASSUME TypeOK, NEW s \in Server, ApplierSnapshot(s)
  PROVE  HandsSnapshot(s)
  <1>. DEFINE msg == Apply(TRUE, pendingSnapshot[s].index, pendingSnapshot[s].data)
              q == applyCh[s]
  <1>1. /\ applyCh \in [Server -> Seq(Applied)] /\ q \in Seq(Applied) /\ Len(q) \in Nat
        /\ pendingSnapshot \in [Server -> [valid : BOOLEAN, index : Nat, data : Seq(Command)]]
        /\ pendingSnapshot[s].index \in Nat /\ pendingSnapshot[s].data \in Seq(Command)
    BY DeliveryTypes
  <1>2. applyCh' = [applyCh EXCEPT ![s] = Append(q, msg)]
    BY DEF ApplierSnapshot
  <1>3. msg \in Applied
    BY <1>1 DEF Apply, Applied
  <1>. HIDE DEF msg
  <1>4. applyCh'[s] = Append(q, msg)
    BY <1>1, <1>2
  <1>5. /\ Len(Append(q, msg)) = Len(q) + 1 /\ Append(q, msg)[Len(q) + 1] = msg
        /\ \A j \in 1 .. Len(q) : Append(q, msg)[j] = q[j]
    BY <1>1, <1>3
  <1>6. Longer(s, 1)
    BY <1>4, <1>5 DEF Longer, ApplierSnapshot, logVars
  <1>7. pendingSnapshot[s].valid /\ ~pendingSnapshot'[s].valid /\ lastApplied'[s] = lastApplied[s]
    BY <1>1 DEF ApplierSnapshot, NoSnapshot
  <1>8. QED BY <1>4, <1>5, <1>6, <1>7 DEF HandsSnapshot, msg

\* The rest of the channel after its first message.
LEMMA ReaderTakes ==
  ASSUME TypeOK, NEW s \in Server, applyCh[s] # <<>>,
         applyCh' = [applyCh EXCEPT ![s] = Tail(applyCh[s])],
         UNCHANGED <<lastApplied, pendingSnapshot>>
  PROVE  Takes1(s) /\ Head(applyCh[s]) = applyCh[s][1]
  <1>1. applyCh \in [Server -> Seq(Applied)] /\ applyCh[s] \in Seq(Applied)
    BY DeliveryTypes
  <1>2. applyCh'[s] = Tail(applyCh[s])
    BY <1>1
  <1>3. Len(applyCh[s]) \in Nat /\ Len(applyCh[s]) > 0
    BY <1>1, EmptySeq
  <1>4. /\ Len(Tail(applyCh[s])) = Len(applyCh[s]) - 1
        /\ \A j \in 1 .. Len(applyCh[s]) - 1 : Tail(applyCh[s])[j] = applyCh[s][j + 1]
    BY <1>1, HeadTailProperties
  <1>5. Head(applyCh[s]) = applyCh[s][1]
    BY <1>1, <1>3
  <1>6. QED BY <1>2, <1>3, <1>4, <1>5 DEF Takes1

LEMMA FirstIndex ==
  ASSUME TypeOK, NEW s \in Server, Takes1(s)
  PROVE  1 \in 1 .. Len(applyCh[s]) /\ applyCh[s][1].index \in Nat
  <1>1. Len(applyCh[s]) \in Nat /\ Len(applyCh[s]) > 0
    BY DeliveryTypes DEF Takes1
  <1>2. 1 \in 1 .. Len(applyCh[s])
    BY <1>1
  <1>3. QED BY <1>2, DeliveryTypes

LEMMA DeliverySteps ==
  ASSUME TypeOK, DeliveryInOrder, [Next]_vars, NEW s \in Server
  PROVE  Delivers(s)
  <1>1. /\ applyCh \in [Server -> Seq(Applied)] /\ sm \in [Server -> Seq(Command)]
        /\ smIndex \in [Server -> Nat] /\ lastApplied \in [Server -> Nat]
        /\ lastIncludedIndex \in [Server -> Nat] /\ snapshot \in [Server -> Seq(Command)]
        /\ pendingSnapshot \in [Server -> [valid : BOOLEAN, index : Nat, data : Seq(Command)]]
    BY DeliveryTypes
  <1>2. CASE UNCHANGED <<applyCh, sm, smIndex, lastApplied, pendingSnapshot, lastIncludedIndex,
                         snapshot>>
    BY <1>2 DEF Rests, Delivers
  <1>3. ASSUME NEW m \in Received("InstallSnapshot"), HandleInstallSnapshot(m)
        PROVE  Delivers(s)
    <2>1. UNCHANGED <<applyCh, sm, smIndex>> /\ m \in SnapshotCalls
      BY <1>3 DEF HandleInstallSnapshot, rsmVars, SnapshotCalls
    <2>2. CASE m.term < currentTerm[m.dst] \/ m.index <= lastIncludedIndex[m.dst]
      BY <1>3, <2>1, <2>2 DEF HandleInstallSnapshot, logVars, Rests, Delivers
    <2>3. CASE ~(m.term < currentTerm[m.dst] \/ m.index <= lastIncludedIndex[m.dst])
      <3>1. Install(m)
        BY <1>3, <2>3 DEF HandleInstallSnapshot
      <3>2. CASE s # m.dst
        BY <1>1, <2>1, <3>1, <3>2 DEF Install, Rests, Delivers
      <3>3. CASE s = m.dst
        <4>1. m.index \in Nat
          BY ReceivedTypes DEF TypeOK, InstallRequests
        <4>2. m.index > lastIncludedIndex[s]
          BY <1>1, <2>3, <3>3, <4>1
        <4>3. /\ lastIncludedIndex'[s] = m.index /\ snapshot'[s] = m.data
              /\ lastApplied'[s] = Larger(lastApplied[s], m.index)
              /\ pendingSnapshot'[s] = [valid |-> TRUE, index |-> m.index, data |-> m.data]
          BY <1>1, <3>1, <3>3 DEF Install
        <4>4. QED BY <2>1, <4>2, <4>3 DEF Installs, Delivers
      <3>4. QED BY <3>2, <3>3
    <2>4. QED BY <2>2, <2>3
  <1>4. ASSUME NEW t \in Server, t # s, \/ ApplierSnapshot(t) \/ ApplierCommands(t)
                                        \/ ReaderCommand(t) \/ ReaderSnapshot(t) \/ Restart(t)
        PROVE  Rests(s)
    BY <1>1, <1>4 DEF ApplierSnapshot, ApplierCommands, ReaderCommand, ReaderSnapshot, Restart,
       Compact, logVars, commitVars, persistentVars, Rests
  <1>5. CASE ApplierSnapshot(s)
    BY <1>5, ApplierHandsSnapshot DEF Delivers
  <1>6. CASE ApplierCommands(s)
    BY <1>6, ApplierHands DEF Delivers, DeliveryInOrder, InOrder
  <1>7. CASE ReaderCommand(s)
    <2>1. Takes1(s) /\ Head(applyCh[s]) = applyCh[s][1]
      BY <1>7, ReaderTakes DEF ReaderCommand, commitVars
    <2>2. /\ ~applyCh[s][1].snap /\ sm'[s] = sm[s] \o applyCh[s][1].cmds
          /\ smIndex'[s] = applyCh[s][1].index
      BY <1>1, <1>7, <2>1 DEF ReaderCommand
    <2>3. CASE UNCHANGED logVars
      BY <2>1, <2>2, <2>3 DEF logVars, Executes, Delivers
    <2>4. CASE ~UNCHANGED logVars
      <3>1. Compact(s, applyCh[s][1].index, sm'[s])
        BY <1>7, <2>1, <2>4 DEF ReaderCommand, CompactionIndex
      <3>2. /\ ~(applyCh[s][1].index <= lastIncludedIndex[s])
            /\ lastIncludedIndex' = [lastIncludedIndex EXCEPT ![s] = applyCh[s][1].index]
            /\ snapshot' = [snapshot EXCEPT ![s] = sm'[s]]
        BY <2>4, <3>1 DEF Compact
      <3>3. applyCh[s][1].index \in Nat
        BY <2>1, FirstIndex
      <3>4. lastIncludedIndex'[s] = applyCh[s][1].index /\ snapshot'[s] = sm'[s]
        BY <1>1, <3>2
      <3>5. applyCh[s][1].index > lastIncludedIndex[s]
        <4>1. lastIncludedIndex[s] \in Nat
          BY <1>1
        <4>2. QED BY <3>2, <3>3, <4>1
      <3>6. Executes(s)
        BY <2>1, <2>2, <3>4, <3>5 DEF Executes
      <3>7. QED BY <3>6 DEF Delivers
    <2>5. QED BY <2>3, <2>4
  <1>8. CASE ReaderSnapshot(s)
    <2>1. Takes1(s) /\ Head(applyCh[s]) = applyCh[s][1]
      BY <1>8, ReaderTakes DEF ReaderSnapshot, commitVars
    <2>2. applyCh[s][1].index \in Nat
      BY <2>1, FirstIndex
    <2>3. applyCh[s][1].snap /\ UNCHANGED logVars
      BY <1>8, <2>1 DEF ReaderSnapshot
    <2>4. CASE applyCh[s][1].index > smIndex[s]
      BY <1>1, <1>8, <2>1, <2>3, <2>4
      DEF ReaderSnapshot, Restores, logVars, RestoresOrNot, Delivers
    <2>5. CASE ~(applyCh[s][1].index > smIndex[s])
      <3>1. UNCHANGED <<sm, smIndex>> /\ applyCh[s][1].index <= smIndex[s]
        BY <1>1, <1>8, <2>1, <2>2, <2>5 DEF ReaderSnapshot, Restores
      <3>2. QED BY <2>1, <2>3, <3>1 DEF logVars, RestoresOrNot, Delivers
    <2>6. QED BY <2>4, <2>5
  <1>9. CASE Restart(s)
    <2>1. Len(applyCh'[s]) = 0
      <3>1. applyCh'[s] = <<>>
        BY <1>1, <1>9 DEF Restart
      <3>2. QED BY <3>1
    <2>2. QED BY <1>1, <1>9, <2>1 DEF Restart, persistentVars, NoSnapshot, StartsOver, Delivers
  <1>10. QED
    <2>1. DeliveryActions
      BY DeliveryActs
    <2>2. QED
      BY <1>2, <1>3, <1>4, <1>5, <1>6, <1>7, <1>8, <1>9, <2>1 DEF DeliveryActions, Delivers
-----------------------------------------------------------------------------
\* The channel stays in order

LEMMA LongerStaysFresh ==
  ASSUME TypeOK, NEW s \in Server, InOrder(s), NEW n, Longer(s, n),
         lastApplied'[s] >= lastApplied[s], lastApplied'[s] \in Nat,
         NEW j \in 1 .. Len(applyCh[s])
  PROVE  /\ applyCh'[s][j].index <= lastApplied'[s]
         /\ ~applyCh'[s][j].snap => Fresh(s, j)'
  <1>1. applyCh'[s][j] = applyCh[s][j] /\ \A i \in 1 .. j - 1 : applyCh'[s][i] = applyCh[s][i]
    <2>1. \A i \in 1 .. Len(applyCh[s]) : applyCh'[s][i] = applyCh[s][i]
      BY DEF Longer
    <2>2. Len(applyCh[s]) \in Nat /\ \A i \in 1 .. j - 1 : i \in 1 .. Len(applyCh[s])
      BY DeliveryTypes
    <2>3. QED BY <2>1, <2>2
  <1>2. smIndex'[s] = smIndex[s]
    BY DEF Longer
  <1>3. applyCh[s][j].index \in Nat /\ lastApplied[s] \in Nat
    BY DeliveryTypes
  <1>4. applyCh[s][j].index <= lastApplied[s]
    BY DEF InOrder
  <1>5. applyCh'[s][j].index <= lastApplied'[s]
    BY <1>1, <1>3, <1>4
  <1>6. ASSUME ~applyCh'[s][j].snap PROVE Fresh(s, j)'
    <2>1. Fresh(s, j)
      BY <1>1, <1>6 DEF InOrder
    <2>2. QED BY <1>1, <1>2, <2>1 DEF Fresh
  <1>7. QED BY <1>5, <1>6

LEMMA HandsSnapshotInOrder ==
  ASSUME TypeOK, NEW s \in Server, InOrder(s), HandsSnapshot(s)
  PROVE  InOrder(s)'
  <1>. DEFINE n == Len(applyCh[s])
  <1>1. /\ n \in Nat /\ lastApplied[s] \in Nat /\ pendingSnapshot[s].index \in Nat
        /\ lastIncludedIndex[s] \in Nat
    BY DeliveryTypes
  <1>2. /\ Longer(s, 1) /\ lastApplied'[s] = lastApplied[s] /\ ~pendingSnapshot'[s].valid
        /\ applyCh'[s][n + 1] = Apply(TRUE, pendingSnapshot[s].index, pendingSnapshot[s].data)
        /\ lastIncludedIndex'[s] = lastIncludedIndex[s] /\ smIndex'[s] = smIndex[s]
        /\ Len(applyCh'[s]) = n + 1 /\ pendingSnapshot[s].valid
    BY DEF HandsSnapshot, Longer
  <1>3. pendingSnapshot[s].index <= lastApplied[s]
    BY <1>1, <1>2 DEF InOrder
  <1>4. ASSUME NEW j \in 1 .. Len(applyCh'[s])
        PROVE  /\ applyCh'[s][j].index <= lastApplied'[s]
               /\ ~applyCh'[s][j].snap => Fresh(s, j)'
    <2>1. CASE j = n + 1
      BY <1>2, <1>3, <2>1 DEF Apply
    <2>2. CASE j # n + 1
      <3>1. j \in 1 .. n
        BY <1>1, <1>2, <2>2
      <3>2. QED BY <1>1, <1>2, <3>1, LongerStaysFresh
    <2>3. QED BY <2>1, <2>2
  <1>5. QED BY <1>2, <1>4 DEF InOrder

LEMMA BeyondLength ==
  ASSUME NEW n \in Nat, NEW d \in Nat, NEW j \in 1 .. n + d, j > n
  PROVE  \E k \in 1 .. d : j = n + k
  <1>1. j - n \in 1 .. d /\ j = n + (j - n)
    OBVIOUS
  <1>2. QED BY <1>1

LEMMA HandsCommandsInOrder ==
  ASSUME TypeOK, NEW s \in Server, InOrder(s), HandsCommands(s)
  PROVE  InOrder(s)'
  <1>. DEFINE n == Len(applyCh[s])
              d == commitIndex[s] - lastApplied[s]
  <1>1. /\ n \in Nat /\ lastApplied[s] \in Nat /\ commitIndex[s] \in Nat
        /\ lastIncludedIndex[s] \in Nat /\ smIndex[s] \in Nat
    BY DeliveryTypes
  <1>2. /\ Longer(s, d) /\ lastApplied'[s] = commitIndex[s] /\ commitIndex[s] > lastApplied[s]
        /\ \A k \in 1 .. d : applyCh'[s][n + k] =
             Apply(FALSE, lastApplied[s] + k, <<LogEntry(s, lastApplied[s] + k).cmd>>)
        /\ lastIncludedIndex'[s] = lastIncludedIndex[s] /\ smIndex'[s] = smIndex[s]
        /\ Len(applyCh'[s]) = n + d /\ pendingSnapshot'[s] = pendingSnapshot[s]
        /\ ~pendingSnapshot[s].valid
    BY DEF HandsCommands, Longer
  <1>3. d \in Nat /\ lastApplied[s] + d = commitIndex[s]
    BY <1>1, <1>2
  <1>. HIDE DEF d
  <1>4. ASSUME NEW k \in 1 .. d PROVE applyCh'[s][n + k].index = lastApplied[s] + k
    <2>1. applyCh'[s][n + k] =
            Apply(FALSE, lastApplied[s] + k, <<LogEntry(s, lastApplied[s] + k).cmd>>)
      BY <1>2
    <2>2. QED BY <2>1 DEF Apply
  <1>5. \A i \in 1 .. n : applyCh'[s][i].index <= lastApplied[s] /\ applyCh'[s][i].index \in Nat
    <2>1. \A i \in 1 .. n : applyCh'[s][i] = applyCh[s][i]
      BY <1>2 DEF Longer
    <2>2. QED BY <2>1, DeliveryTypes DEF InOrder
  <1>6. ASSUME NEW j \in 1 .. n + d
        PROVE  /\ applyCh'[s][j].index <= lastApplied'[s]
               /\ ~applyCh'[s][j].snap => Fresh(s, j)'
    <2>1. CASE j <= n
      <3>1. j \in 1 .. n
        BY <1>1, <1>3, <2>1
      <3>2. QED BY <1>1, <1>2, <3>1, LongerStaysFresh
    <2>2. CASE j > n
      <3>1. PICK k \in 1 .. d : j = n + k
        BY <1>1, <1>3, <2>2, BeyondLength
      <3>2. applyCh'[s][j].index = lastApplied[s] + k
        BY <1>4, <3>1
      <3>3. ASSUME NEW i \in 1 .. j - 1
            PROVE  applyCh'[s][i].index < lastApplied[s] + k
        <4>1. CASE i <= n
          <5>1. i \in 1 .. n
            BY <1>1, <4>1
          <5>2. QED BY <1>1, <1>3, <1>5, <5>1
        <4>2. CASE i > n
          <5>1. PICK l \in 1 .. d : i = n + l
            <6>1. i \in 1 .. n + d
              BY <1>1, <1>3
            <6>2. QED BY <1>1, <1>3, <4>2, <6>1, BeyondLength
          <5>2. applyCh'[s][i].index = lastApplied[s] + l
            BY <1>4, <5>1
          <5>3. l < k
            BY <1>1, <3>1, <5>1
          <5>4. QED BY <1>1, <5>2, <5>3
        <4>3. QED BY <1>1, <1>3, <4>1, <4>2
      <3>4. lastApplied[s] + k <= lastApplied'[s] /\ lastApplied[s] + k > smIndex'[s]
        BY <1>1, <1>2, <1>3 DEF InOrder
      <3>5. QED BY <3>2, <3>3, <3>4 DEF Fresh
    <2>3. QED BY <1>1, <1>3, <2>1, <2>2
  <1>7. lastIncludedIndex'[s] <= lastApplied'[s] /\ smIndex'[s] <= lastApplied'[s]
    BY <1>1, <1>2 DEF InOrder
  <1>8. QED BY <1>2, <1>6, <1>7 DEF InOrder

\* After the first message the others are behind it and behind the new smIndex.
LEMMA TakenInOrder ==
  ASSUME TypeOK, NEW s \in Server, InOrder(s), Takes1(s), smIndex'[s] \in Nat,
         \/ smIndex'[s] = smIndex[s]
         \/ smIndex'[s] = applyCh[s][1].index,
         lastIncludedIndex'[s] \in Nat,
         \/ lastIncludedIndex'[s] = lastIncludedIndex[s]
         \/ lastIncludedIndex'[s] = applyCh[s][1].index /\ lastIncludedIndex'[s] > lastIncludedIndex[s]
  PROVE  InOrder(s)'
  <1>. DEFINE n == Len(applyCh[s])
  <1>1. /\ n \in Nat /\ lastApplied[s] \in Nat /\ lastIncludedIndex[s] \in Nat
        /\ smIndex[s] \in Nat /\ pendingSnapshot[s].index \in Nat
    BY DeliveryTypes
  <1>2. /\ n > 0 /\ Len(applyCh'[s]) = n - 1
        /\ \A j \in 1 .. n - 1 : applyCh'[s][j] = applyCh[s][j + 1]
        /\ lastApplied'[s] = lastApplied[s] /\ pendingSnapshot'[s] = pendingSnapshot[s]
    BY DEF Takes1
  <1>3. applyCh[s][1].index <= lastApplied[s]
    BY FirstIndex DEF InOrder
  <1>4. ASSUME NEW j \in 1 .. n - 1
        PROVE  /\ applyCh'[s][j].index <= lastApplied[s]
               /\ ~applyCh'[s][j].snap => Fresh(s, j)'
    <2>1. j + 1 \in 1 .. n /\ applyCh'[s][j] = applyCh[s][j + 1]
      BY <1>1, <1>2
    <2>2. applyCh'[s][j].index <= lastApplied[s]
      BY <2>1 DEF InOrder
    <2>3. ASSUME ~applyCh'[s][j].snap
          PROVE  Fresh(s, j)'
      <3>1. Fresh(s, j + 1)
        BY <2>1, <2>3 DEF InOrder
      <3>2. 1 \in 1 .. (j + 1) - 1
        BY <1>1
      <3>3. applyCh[s][j + 1].index > smIndex'[s]
        BY <3>1, <3>2 DEF Fresh
      <3>4. ASSUME NEW i \in 1 .. j - 1
            PROVE  applyCh'[s][i].index < applyCh'[s][j].index
        <4>1. i \in 1 .. n - 1 /\ i + 1 \in 1 .. (j + 1) - 1
          BY <1>1
        <4>2. applyCh'[s][i] = applyCh[s][i + 1]
          BY <1>2, <4>1
        <4>3. QED BY <2>1, <3>1, <4>1, <4>2 DEF Fresh
      <3>5. QED BY <2>1, <3>3, <3>4 DEF Fresh
    <2>4. QED BY <2>2, <2>3
  <1>5. lastIncludedIndex'[s] <= lastApplied[s] /\ smIndex'[s] <= lastApplied[s]
    BY <1>3 DEF InOrder
  <1>6. pendingSnapshot[s].valid => pendingSnapshot[s].index <= lastIncludedIndex'[s]
    BY <1>1 DEF InOrder
  <1>7. QED BY <1>2, <1>4, <1>5, <1>6 DEF InOrder

LEMMA DeliveryStaysInOrder ==
  ASSUME TypeOK, TypeOK', DeliveryInOrder, [Next]_vars
  PROVE  DeliveryInOrder'
  <1>1. SUFFICES ASSUME NEW s \in Server PROVE InOrder(s)'
    BY DEF DeliveryInOrder
  <1>2. InOrder(s) /\ Delivers(s)
    BY DeliverySteps DEF DeliveryInOrder
  <1>3. /\ lastApplied[s] \in Nat /\ lastIncludedIndex[s] \in Nat /\ smIndex[s] \in Nat
        /\ smIndex'[s] \in Nat /\ lastIncludedIndex'[s] \in Nat
    BY DEF TypeOK, CommitTyped, RsmTyped, LogTyped
  <1>4. CASE Rests(s)
    BY <1>2, <1>4 DEF Rests, InOrder, Fresh
  <1>5. CASE Installs(s)
    <2>1. PICK m \in SnapshotCalls :
            /\ m.index > lastIncludedIndex[s] /\ lastIncludedIndex'[s] = m.index
            /\ lastApplied'[s] = Larger(lastApplied[s], m.index)
            /\ pendingSnapshot'[s] = [valid |-> TRUE, index |-> m.index, data |-> m.data]
      BY <1>5 DEF Installs
    <2>2. applyCh'[s] = applyCh[s] /\ smIndex'[s] = smIndex[s]
      BY <1>5 DEF Installs
    <2>3. m.index \in Nat
      BY <1>3, <2>1
    <2>4. /\ lastApplied'[s] \in Nat /\ lastApplied[s] <= lastApplied'[s]
          /\ m.index <= lastApplied'[s]
      BY <1>3, <2>1, <2>3 DEF Larger
    <2>5. ASSUME NEW j \in 1 .. Len(applyCh[s])
          PROVE  /\ applyCh'[s][j].index <= lastApplied'[s]
                 /\ ~applyCh'[s][j].snap => Fresh(s, j)'
      <3>1. applyCh[s][j].index \in Nat
        BY DeliveryTypes
      <3>2. applyCh[s][j].index <= lastApplied[s] /\ (~applyCh[s][j].snap => Fresh(s, j))
        BY <1>2 DEF InOrder
      <3>3. applyCh[s][j].index <= lastApplied'[s]
        BY <1>3, <2>4, <3>1, <3>2
      <3>4. QED BY <2>2, <3>2, <3>3 DEF Fresh
    <2>6. smIndex'[s] <= lastApplied'[s]
      BY <1>2, <1>3, <2>2, <2>4 DEF InOrder
    <2>7. QED BY <2>1, <2>2, <2>3, <2>4, <2>5, <2>6 DEF InOrder
  <1>6. CASE HandsSnapshot(s)
    BY <1>2, <1>6, HandsSnapshotInOrder
  <1>7. CASE HandsCommands(s)
    BY <1>2, <1>7, HandsCommandsInOrder
  <1>8. CASE Executes(s)
    BY <1>2, <1>3, <1>8, TakenInOrder DEF Executes
  <1>9. CASE RestoresOrNot(s)
    BY <1>2, <1>3, <1>9, TakenInOrder DEF RestoresOrNot
  <1>10. CASE StartsOver(s)
    BY <1>3, <1>10 DEF StartsOver, InOrder
  <1>11. QED BY <1>2, <1>4, <1>5, <1>6, <1>7, <1>8, <1>9, <1>10 DEF Delivers

LEMMA InitInOrder == Init => DeliveryInOrder
  <1>1. SUFFICES ASSUME Init, NEW s \in Server PROVE InOrder(s)
    BY DEF DeliveryInOrder
  <1>2. /\ lastIncludedIndex[s] = 0 /\ lastApplied[s] = 0 /\ smIndex[s] = 0
        /\ pendingSnapshot[s] = NoSnapshot /\ applyCh[s] = <<>>
    BY <1>1 DEF Init
  <1>3. Len(applyCh[s]) = 0
    BY <1>2
  <1>4. QED BY <1>2, <1>3 DEF InOrder, NoSnapshot
-----------------------------------------------------------------------------
\* No state machine and no commitIndex goes back

\* What s holds of what is committed it still holds after a step.
LEMMA CommittedStaysInLog ==
  ASSUME Step, SafeInv, NEW s \in Server
  PROVE  commitIndex[s] <= End(LogOf(s)')
  <1>1. PICK L \in Lines, N \in Nat, T \in Nat, P \in SUBSET Nat :
          LinesInv(L) /\ CommitInv(L, N, T, P)
    BY DEF SafeInv
  <1>2. PICK M \in Lines : Grows(L, M)
    BY <1>1, LinesGrow
  <1>3. PICK i \in Nat : i = commitIndex[s]
    BY DEF Step, Sound, TypeOK, CommitTyped
  <1>4. Kept(L, T, P, s, i) /\ Asking /\ Points(L, N, T, P)
    BY <1>1, <1>3 DEF CommitInv, CommitsSafe
  <1>5. Kept(M, T, P, s, i)'
    BY <1>1, <1>2, <1>4, KeptStays
  <1>6. QED BY <1>3, <1>5 DEF Kept, Has

LEMMA CommitsRise ==
  ASSUME Step, SafeInv, restarts' = restarts, NEW s \in Server
  PROVE  commitIndex'[s] >= commitIndex[s]
  <1>1. /\ commitIndex \in [Server -> Nat] /\ commitIndex[s] \in Nat
        /\ network \subseteq Message /\ restarts \in Nat
    BY DEF Step, Sound, TypeOK, CommitTyped
  <1>2. CASE UNCHANGED <<commitIndex, chosen>>
    BY <1>1, <1>2
  <1>3. ASSUME NEW m \in Received("AppendEntries"), HandleAppendEntries(m),
               commitIndex'[s] # commitIndex[s]
        PROVE  commitIndex'[s] >= commitIndex[s]
    <2>1. AcceptAppend(m) /\ lastIncludedIndex' = lastIncludedIndex
      BY <1>3 DEF HandleAppendEntries
    <2>2. /\ m.dst = s /\ m.leaderCommit > commitIndex[s]
          /\ commitIndex'[s] = Smaller(m.leaderCommit, lastIncludedIndex[s] + Len(log'[s]))
      BY <1>1, <1>3, <2>1 DEF AcceptAppend, CommitUpTo
    <2>3. lastIncludedIndex[s] + Len(log'[s]) = End(LogOf(s)')
      BY <2>1 DEF LogOf, End
    <2>4. commitIndex[s] <= End(LogOf(s)')
      BY CommittedStaysInLog
    <2>5. m.leaderCommit \in Nat
      BY <1>1, ReceivedTypes DEF AppendRequests
    <2>6. End(LogOf(s)') \in Nat
      BY LogOfStays, PieceTypes DEF Step, Sound
    <2>7. QED BY <1>1, <2>2, <2>3, <2>4, <2>5, <2>6 DEF Smaller
  <1>4. ASSUME NEW m \in Received("AppendEntriesReply"), HandleAppendReply(m),
               commitIndex'[s] # commitIndex[s]
        PROVE  commitIndex'[s] >= commitIndex[s]
    <2>1. PICK n \in Committable(m.dst, matchIndex'[m.dst]) :
            commitIndex' = [commitIndex EXCEPT ![m.dst] = n]
      BY <1>4 DEF HandleAppendReply, AdvanceCommit
    <2>2. s = m.dst /\ commitIndex'[s] = n /\ n > commitIndex[s] /\ n \in Indices(s)
      BY <1>1, <1>4, <2>1 DEF Committable
    <2>3. n \in Int
      BY <2>2 DEF Indices
    <2>4. QED BY <1>1, <2>2, <2>3
  <1>5. ASSUME NEW m \in Received("InstallSnapshot"), HandleInstallSnapshot(m),
               commitIndex'[s] # commitIndex[s]
        PROVE  commitIndex'[s] >= commitIndex[s]
    <2>1. Install(m)
      BY <1>5 DEF HandleInstallSnapshot
    <2>2. s = m.dst /\ commitIndex'[s] = Larger(commitIndex[s], m.index)
      BY <1>1, <1>5, <2>1 DEF Install
    <2>3. m.index \in Nat
      BY <1>1, ReceivedTypes DEF InstallRequests
    <2>4. QED BY <1>1, <2>2, <2>3 DEF Larger
  <1>6. ASSUME NEW d \in Server, Restart(d)
        PROVE  FALSE
    BY <1>1, <1>6 DEF Restart
  <1>7. CASE commitIndex'[s] = commitIndex[s]
    BY <1>1, <1>7
  <1>8. CommitsFrame
    BY StepFrames DEF Step, Sound, Frames
  <1>9. QED BY <1>2, <1>3, <1>4, <1>5, <1>6, <1>7, <1>8 DEF CommitsFrame

LEMMA MachinesRise ==
  ASSUME TypeOK, DeliveryInOrder, [Next]_vars, restarts' = restarts, NEW s \in Server
  PROVE  smIndex'[s] >= smIndex[s]
  <1>1. smIndex[s] \in Nat /\ restarts \in Nat
    BY DeliveryTypes DEF TypeOK
  <1>2. InOrder(s) /\ Delivers(s)
    BY DeliverySteps DEF DeliveryInOrder
  <1>3. CASE smIndex'[s] = smIndex[s]
    BY <1>1, <1>3
  <1>4. CASE Executes(s)
    <2>1. Takes1(s) /\ ~applyCh[s][1].snap /\ smIndex'[s] = applyCh[s][1].index
      BY <1>4 DEF Executes
    <2>2. 1 \in 1 .. Len(applyCh[s]) /\ applyCh[s][1].index \in Nat
      BY <2>1, FirstIndex
    <2>3. applyCh[s][1].index > smIndex[s]
      BY <1>2, <2>1, <2>2 DEF InOrder, Fresh
    <2>4. QED BY <1>1, <2>1, <2>2, <2>3
  <1>5. CASE RestoresOrNot(s)
    <2>1. Takes1(s)
      BY <1>5 DEF RestoresOrNot
    <2>2. applyCh[s][1].index \in Nat
      BY <2>1, FirstIndex
    <2>3. QED BY <1>1, <1>5, <2>2 DEF RestoresOrNot
  <1>6. CASE StartsOver(s)
    BY <1>1, <1>6 DEF StartsOver, Restart
  <1>7. QED
    BY <1>2, <1>3, <1>4, <1>5, <1>6
    DEF Delivers, Rests, Installs, HandsSnapshot, HandsCommands, Longer

\* Whatever snapshots and entries arrive and wait in whatever order, the channel
\* holds no command its state machine has passed (applier, installSnapshot).
THEOREM DeliveryIsInOrder == Spec => []DeliveryInOrder
  <1>1. TypeOK /\ TypeOK' /\ DeliveryInOrder /\ [Next]_vars => DeliveryInOrder'
    BY DeliveryStaysInOrder
  <1>2. QED BY <1>1, InitInOrder, TypeCorrect, PTL DEF Spec

\* Nothing but a crash takes a commitIndex or a state machine back: neither an old
\* AppendEntries that cuts the log nor an old snapshot (AppendEntries, RSM reader).
THEOREM NeverRegress == Spec => NoRegress
  <1>1. /\ TypeOK /\ TypeOK' /\ VotesGenuine /\ LogInv /\ SafeInv /\ DeliveryInOrder
        /\ [Next]_vars
        => [restarts' = restarts =>
              \A s \in Server : smIndex'[s] >= smIndex[s] /\ commitIndex'[s] >= commitIndex[s]]_vars
    <2>1. SUFFICES ASSUME TypeOK, TypeOK', VotesGenuine, LogInv, SafeInv, DeliveryInOrder,
                          [Next]_vars, restarts' = restarts, NEW s \in Server
                   PROVE  smIndex'[s] >= smIndex[s] /\ commitIndex'[s] >= commitIndex[s]
      OBVIOUS
    <2>2. Step
      BY <2>1, SoundSteps DEF Sound
    <2>3. QED BY <2>1, <2>2, MachinesRise, CommitsRise
  <1>2. QED BY <1>1, TypeCorrect, VotesAreGenuine, LogsInOrder, CommitsInOrder,
        DeliveryIsInOrder, PTL DEF Spec, NoRegress
-----------------------------------------------------------------------------
\* The commands that leaders have committed

\* c is among the committed commands, at its index.
Listed(c) ==
  /\ c.index \in 1 .. Len(ChosenCommands) /\ c.entry \in Entry
  /\ ChosenCommands[c.index] = c.entry.cmd

LEMMA ChosenLine ==
  ASSUME NEW L \in Lines, NEW N \in Nat, NEW T \in Nat, NEW P \in SUBSET Nat,
         CommitInv(L, N, T, P)
  PROVE  /\ ChosenCommands \in Seq(Command) /\ Len(ChosenCommands) = N
         /\ \A k \in 1 .. N : ChosenCommands[k] = L[T][k].cmd
         /\ \A c \in chosen : Listed(c)
  <1>1. /\ T \in DOMAIN L /\ N <= Len(L[T]) /\ L[T] \in Seq(Entry) /\ Len(L[T]) \in Nat
        /\ chosen = ChosenUpTo(L[T], N)
    BY LineTypes DEF CommitInv, Points
  <1>. DEFINE l == L[T]
  <1>2. \A k \in 1 .. N : l[k] \in Entry
    BY <1>1, ElementOfSeq
  <1>. HIDE DEF l
  <1>3. {c.index : c \in chosen} = 1 .. N
    <2>1. chosen = {[index |-> i, entry |-> l[i]] : i \in 1 .. N}
      BY <1>1 DEF ChosenUpTo, l
    <2>2. \A i \in 1 .. N : [index |-> i, entry |-> l[i]] \in chosen
      BY <2>1
    <2>3. \A c \in chosen : c.index \in 1 .. N
      BY <2>1
    <2>4. \A i \in 1 .. N : [index |-> i, entry |-> l[i]].index = i
      OBVIOUS
    <2>5. QED BY <2>2, <2>3, <2>4
  <1>4. Cardinality(1 .. N) = N
    BY FS_Interval
  <1>5. ASSUME NEW k \in 1 .. N
        PROVE  (CHOOSE c \in chosen : c.index = k) = [index |-> k, entry |-> l[k]]
    <2>1. chosen = {[index |-> i, entry |-> l[i]] : i \in 1 .. N}
      BY <1>1 DEF ChosenUpTo, l
    <2>2. \A c \in chosen : c.index = k => c = [index |-> k, entry |-> l[k]]
      BY <2>1
    <2>3. [index |-> k, entry |-> l[k]] \in chosen /\ [index |-> k, entry |-> l[k]].index = k
      BY <2>1
    <2>4. QED BY <2>2, <2>3
  <1>6. ChosenCommands = [k \in 1 .. N |-> (CHOOSE c \in chosen : c.index = k).entry.cmd]
    BY <1>3, <1>4 DEF ChosenCommands
  <1>7. ChosenCommands = [k \in 1 .. N |-> l[k].cmd]
    <2>1. ASSUME NEW k \in 1 .. N
          PROVE  (CHOOSE c \in chosen : c.index = k).entry.cmd = l[k].cmd
      <3>1. [index |-> k, entry |-> l[k]].entry.cmd = l[k].cmd
        OBVIOUS
      <3>2. (CHOOSE c \in chosen : c.index = k) = [index |-> k, entry |-> l[k]]
        BY <1>5
      <3>3. QED BY <3>1, <3>2, Zenon
    <2>2. QED BY <1>6, <2>1, Zenon
  <1>8. ChosenCommands \in [1 .. N -> Command]
    <2>1. \A k \in 1 .. N : l[k].cmd \in Command
      BY <1>2 DEF Entry
    <2>2. QED BY <1>7, <2>1
  <1>9. ChosenCommands \in Seq(Command) /\ Len(ChosenCommands) = N
    <2>1. ChosenCommands \in Seq(Command)
      BY <1>8, SeqDef
    <2>2. DOMAIN ChosenCommands = 1 .. N /\ DOMAIN ChosenCommands = 1 .. Len(ChosenCommands)
      BY <1>8, <2>1, LenProperties
    <2>3. Len(ChosenCommands) \in Nat
      BY <2>1, LenProperties
    <2>4. QED BY <2>1, <2>2, <2>3
  <1>10. ASSUME NEW c \in chosen PROVE Listed(c)
    <2>1. PICK k \in 1 .. N : c = [index |-> k, entry |-> l[k]]
      BY <1>1 DEF ChosenUpTo, l
    <2>2. c.index = k /\ c.entry = l[k]
      BY <2>1
    <2>3. QED BY <1>2, <1>7, <1>9, <2>2 DEF Listed
  <1>11. QED BY <1>7, <1>9, <1>10 DEF l

ChosenIsListed ==
  /\ ChosenCommands \in Seq(Command) /\ Len(ChosenCommands) \in Nat
  /\ DOMAIN ChosenCommands = 1 .. Len(ChosenCommands)
  /\ \A k \in 1 .. Len(ChosenCommands) : ChosenCommands[k] \in Command
  /\ \A c \in chosen : Listed(c)

LEMMA ChosenListed == SafeInv => ChosenIsListed
  <1>. SUFFICES ASSUME SafeInv PROVE ChosenIsListed
    OBVIOUS
  <1>1. PICK L \in Lines, N \in Nat, T \in Nat, P \in SUBSET Nat : CommitInv(L, N, T, P)
    BY DEF SafeInv
  <1>2. ChosenCommands \in Seq(Command) /\ \A c \in chosen : Listed(c)
    BY <1>1, ChosenLine
  <1>3. QED BY <1>2, LenProperties, ElementOfSeq DEF ChosenIsListed

\* The list goes to the last index committed.
LEMMA ListedAll ==
  ASSUME SafeInv, NEW k \in 1 .. Len(ChosenCommands)
  PROVE  \E c \in chosen : c.index = k
  <1>1. PICK L \in Lines, N \in Nat, T \in Nat, P \in SUBSET Nat : CommitInv(L, N, T, P)
    BY DEF SafeInv
  <1>2. k \in 1 .. N /\ chosen = ChosenUpTo(L[T], N)
    BY <1>1, ChosenLine DEF CommitInv
  <1>3. [index |-> k, entry |-> L[T][k]] \in chosen /\ [index |-> k, entry |-> L[T][k]].index = k
    BY <1>2 DEF ChosenUpTo
  <1>4. QED BY <1>3

LEMMA ChosenGrows ==
  ASSUME TypeOK, [Next]_vars
  PROVE  chosen \subseteq chosen'
  <1>1. ASSUME NEW m \in Received("AppendEntriesReply"), HandleAppendReply(m)
        PROVE  chosen \subseteq chosen'
    BY <1>1 DEF HandleAppendReply, AdvanceCommit
  <1>2. ASSUME NEW m \in Received("AppendEntries"), HandleAppendEntries(m)
        PROVE  chosen \subseteq chosen'
    BY <1>2 DEF HandleAppendEntries
  <1>3. ASSUME NEW m \in Received("InstallSnapshot"), HandleInstallSnapshot(m)
        PROVE  chosen \subseteq chosen'
    BY <1>3 DEF HandleInstallSnapshot
  <1>4. ASSUME NEW s \in Server, Restart(s)
        PROVE  chosen \subseteq chosen'
    BY <1>4 DEF Restart
  <1>5. QED BY <1>1, <1>2, <1>3, <1>4, StepFrames DEF Frames, CommitsFrame

\* Committed commands stay and stay where they are.
LEMMA ListGrows ==
  ASSUME TypeOK, [Next]_vars, SafeInv, SafeInv'
  PROVE  /\ Len(ChosenCommands) <= Len(ChosenCommands')
         /\ \A k \in 1 .. Len(ChosenCommands) : ChosenCommands'[k] = ChosenCommands[k]
  <1>1. /\ Len(ChosenCommands) \in Nat /\ Len(ChosenCommands') \in Nat
        /\ (\A c \in chosen : Listed(c)) /\ (\A c \in chosen' : Listed(c)')
    <2>1. (SafeInv => ChosenIsListed)'
      BY ChosenListed, PTL
    <2>2. QED BY <2>1, ChosenListed DEF ChosenIsListed
  <1>2. ASSUME NEW k \in 1 .. Len(ChosenCommands)
        PROVE  k \in 1 .. Len(ChosenCommands') /\ ChosenCommands'[k] = ChosenCommands[k]
    <2>1. PICK c \in chosen : c.index = k
      BY ListedAll
    <2>2. c \in chosen'
      BY ChosenGrows
    <2>3. Listed(c) /\ Listed(c)'
      BY <1>1, <2>1, <2>2
    <2>4. QED BY <2>1, <2>3 DEF Listed
  <1>3. Len(ChosenCommands) <= Len(ChosenCommands')
    <2>1. CASE Len(ChosenCommands) = 0
      BY <1>1, <2>1
    <2>2. CASE Len(ChosenCommands) # 0
      <3>1. Len(ChosenCommands) \in 1 .. Len(ChosenCommands)
        BY <1>1, <2>2
      <3>2. Len(ChosenCommands) \in 1 .. Len(ChosenCommands')
        BY <1>2, <3>1
      <3>3. QED BY <1>1, <3>2
    <2>3. QED BY <2>1, <2>2
  <1>4. QED BY <1>2, <1>3

\* All that peers take for committed is on the list.
LEMMA CommittedIsListed ==
  ASSUME TypeOK, SafeInv
  PROVE  /\ \A s \in Server :
              /\ lastIncludedIndex[s] <= commitIndex[s]
              /\ commitIndex[s] <= Len(ChosenCommands)
              /\ \A i \in Nat : OnTheWay(s, i) => i <= commitIndex[s]
              /\ \A k \in lastIncludedIndex[s] + 1 .. commitIndex[s] :
                   /\ k \in 1 .. Len(ChosenCommands)
                   /\ LogEntry(s, k).cmd = ChosenCommands[k]
         /\ \A m \in SnapshotCalls : m.index <= Len(ChosenCommands)
  <1>1. PICK L \in Lines, N \in Nat, T \in Nat, P \in SUBSET Nat :
          LinesInv(L) /\ CommitInv(L, N, T, P)
    BY DEF SafeInv
  <1>2. Nested(L) /\ Points(L, N, T, P) /\ N = Len(ChosenCommands) /\ DeliverySafe
    BY <1>1, ChosenLine DEF LinesInv, CommitInv
  <1>3. ASSUME NEW s \in Server
        PROVE  lastIncludedIndex[s] <= commitIndex[s] /\ commitIndex[s] <= N
    <2>1. commitIndex[s] \in Nat /\ currentTerm[s] \in Nat
      BY DEF TypeOK, CommitTyped, ElectionTyped
    <2>2. LogOf(s).base <= commitIndex[s] /\ Safe(L, T, P, commitIndex[s], currentTerm[s])
      BY <1>1 DEF CommitInv, CommitsSafe, Kept
    <2>3. QED BY <1>2, <2>1, <2>2, SafeLine DEF LogOf
  <1>4. ASSUME NEW s \in Server, NEW k \in lastIncludedIndex[s] + 1 .. commitIndex[s]
        PROVE  k \in 1 .. N /\ LogEntry(s, k).cmd = ChosenCommands[k]
    <2>1. [index |-> k, entry |-> LogEntry(s, k)] \in chosen
      BY CommittedEntries DEF CommittedAgree
    <2>2. Listed([index |-> k, entry |-> LogEntry(s, k)])
      BY <2>1, ChosenListed DEF ChosenIsListed
    <2>3. QED BY <1>2, <2>2 DEF Listed
  <1>5. ASSUME NEW m \in SnapshotCalls
        PROVE  m.index <= N
    <2>1. m.index \in Nat /\ m.term \in Nat
      BY ReceivedTypes DEF SnapshotCalls, InstallRequests, TypeOK
    <2>2. Safe(L, T, P, m.index, m.term)
      BY <1>1 DEF CommitInv, CallsSafe
    <2>3. QED BY <1>2, <2>1, <2>2, SafeLine
  <1>6. QED BY <1>2, <1>3, <1>4, <1>5 DEF DeliverySafe
-----------------------------------------------------------------------------
\* Each command in the channel is committed, at its index

\* Where a message in the channel comes from.
Held(s, msg)     == \E i \in 1 .. Len(applyCh[s]) : msg = applyCh[s][i]
Restored(s, msg) == /\ pendingSnapshot[s].valid
                    /\ msg = Apply(TRUE, pendingSnapshot[s].index, pendingSnapshot[s].data)
Copied(s, msg)   == \E k \in lastApplied[s] + 1 .. commitIndex[s] :
                      msg = Apply(FALSE, k, <<LogEntry(s, k).cmd>>)

LEMMA MessagesCome ==
  ASSUME TypeOK, NEW s \in Server, Delivers(s), NEW j \in 1 .. Len(applyCh'[s]),
         NEW msg, msg = applyCh'[s][j]
  PROVE  Held(s, msg) \/ Restored(s, msg) \/ Copied(s, msg)
  <1>. DEFINE n == Len(applyCh[s])
  <1>1. n \in Nat /\ lastApplied[s] \in Nat /\ commitIndex[s] \in Nat
    BY DeliveryTypes
  <1>2. CASE Rests(s) \/ Installs(s)
    BY <1>2 DEF Rests, Installs, Held
  <1>3. CASE HandsSnapshot(s)
    <2>1. /\ Len(applyCh'[s]) = n + 1 /\ \A i \in 1 .. n : applyCh'[s][i] = applyCh[s][i]
          /\ pendingSnapshot[s].valid
          /\ applyCh'[s][n + 1] = Apply(TRUE, pendingSnapshot[s].index, pendingSnapshot[s].data)
      BY <1>3 DEF HandsSnapshot, Longer
    <2>2. j \in 1 .. n \/ j = n + 1
      BY <1>1, <2>1
    <2>3. QED BY <2>1, <2>2 DEF Held, Restored
  <1>4. CASE HandsCommands(s)
    <2>. DEFINE d == commitIndex[s] - lastApplied[s]
    <2>1. /\ Len(applyCh'[s]) = n + d /\ \A i \in 1 .. n : applyCh'[s][i] = applyCh[s][i]
          /\ \A k \in 1 .. d : applyCh'[s][n + k] =
               Apply(FALSE, lastApplied[s] + k, <<LogEntry(s, lastApplied[s] + k).cmd>>)
          /\ commitIndex[s] > lastApplied[s]
      BY <1>4 DEF HandsCommands, Longer
    <2>2. CASE j \in 1 .. n
      BY <2>1, <2>2 DEF Held
    <2>3. CASE j \notin 1 .. n
      <3>1. j - n \in 1 .. d /\ n + (j - n) = j
        <4>1. j \in Nat /\ n < j /\ j <= n + d
          BY <1>1, <2>1, <2>3
        <4>2. d \in Nat
          BY <1>1, <2>1
        <4>. HIDE DEF n, d
        <4>3. QED BY <1>1, <4>1, <4>2
      <3>2. PICK k \in Nat : k = lastApplied[s] + (j - n)
        BY <1>1, <3>1
      <3>3. k \in lastApplied[s] + 1 .. commitIndex[s]
        BY <1>1, <2>1, <3>1, <3>2
      <3>4. applyCh'[s][n + (j - n)] = Apply(FALSE, k, <<LogEntry(s, k).cmd>>)
        BY <2>1, <3>1, <3>2
      <3>5. QED BY <3>1, <3>3, <3>4 DEF Copied
    <2>4. QED BY <2>2, <2>3
  <1>5. CASE Executes(s) \/ RestoresOrNot(s)
    <2>1. /\ n > 0 /\ Len(applyCh'[s]) = n - 1
          /\ \A i \in 1 .. n - 1 : applyCh'[s][i] = applyCh[s][i + 1]
      BY <1>5 DEF Executes, RestoresOrNot, Takes1
    <2>2. j \in 1 .. n - 1 /\ j + 1 \in 1 .. n
      BY <1>1, <2>1
    <2>3. QED BY <2>1, <2>2 DEF Held
  <1>6. CASE StartsOver(s)
    BY <1>6 DEF StartsOver
  <1>7. QED BY <1>2, <1>3, <1>4, <1>5, <1>6 DEF Delivers

Genuine(msg) ==
  msg.index \in 1 .. Len(ChosenCommands) /\ msg.cmds = <<ChosenCommands[msg.index]>>

Queued == \A s \in Server : \A j \in 1 .. Len(applyCh[s]) :
            ~applyCh[s][j].snap => Genuine(applyCh[s][j])

LEMMA QueuedStays ==
  ASSUME TypeOK, DeliveryInOrder, Queued, SafeInv, SafeInv', [Next]_vars
  PROVE  Queued'
  <1>1. SUFFICES ASSUME NEW s \in Server, NEW j \in 1 .. Len(applyCh'[s]), ~applyCh'[s][j].snap
                 PROVE  Genuine(applyCh[s][j])'
    BY DEF Queued
  <1>2. PICK msg : msg = applyCh'[s][j]
    OBVIOUS
  <1>3. ~msg.snap
    BY <1>1, <1>2
  <1>4. Held(s, msg) \/ Restored(s, msg) \/ Copied(s, msg)
    BY <1>2, DeliverySteps, MessagesCome
  <1>5. Genuine(msg)
    <2>1. CASE Held(s, msg)
      BY <1>3, <2>1 DEF Held, Queued
    <2>2. CASE Restored(s, msg)
      BY <1>3, <2>2 DEF Restored, Apply
    <2>3. CASE Copied(s, msg)
      <3>1. PICK k \in lastApplied[s] + 1 .. commitIndex[s] :
              msg = Apply(FALSE, k, <<LogEntry(s, k).cmd>>)
        BY <2>3 DEF Copied
      <3>2. k \in lastIncludedIndex[s] + 1 .. commitIndex[s]
        <4>1. lastIncludedIndex[s] <= lastApplied[s]
          BY DEF DeliveryInOrder, InOrder
        <4>2. QED BY <4>1, DeliveryTypes
      <3>3. k \in 1 .. Len(ChosenCommands) /\ LogEntry(s, k).cmd = ChosenCommands[k]
        BY <3>2, CommittedIsListed
      <3>4. msg.index = k /\ msg.cmds = <<LogEntry(s, k).cmd>>
        BY <3>1 DEF Apply
      <3>5. QED BY <3>3, <3>4 DEF Genuine
    <2>4. QED BY <1>4, <2>1, <2>2, <2>3
  <1>6. /\ msg.index \in 1 .. Len(ChosenCommands')
        /\ ChosenCommands'[msg.index] = ChosenCommands[msg.index]
    <2>1. Len(ChosenCommands) \in Nat /\ Len(ChosenCommands') \in Nat
      <3>1. (SafeInv => ChosenIsListed)'
        BY ChosenListed, PTL
      <3>2. QED BY <3>1, ChosenListed DEF ChosenIsListed
    <2>2. QED BY <1>5, <2>1, ListGrows DEF Genuine
  <1>7. Genuine(msg)'
    BY <1>5, <1>6 DEF Genuine
  <1>8. QED BY <1>2, <1>7
-----------------------------------------------------------------------------
\* Nothing is skipped on the way, unless a peer comes back from a snapshot

\* Peers that crash have no snapshot yet: what a restarted peer has compacted is
\* not handed to its state machine (rsm.New restores nothing).
CrashesEarly == \A s \in Server : Restart(s) => lastIncludedIndex[s] = 0

\* Message j comes right after smIndex or after a message before it.
NextAfter(s, j) ==
  \/ applyCh[s][j].index = smIndex[s] + 1
  \/ \E i \in 1 .. j - 1 : applyCh[s][j].index = applyCh[s][i].index + 1

Linked(s) ==
  /\ lastApplied[s] = smIndex[s] \/ OnTheWay(s, lastApplied[s])
  /\ \A j \in 1 .. Len(applyCh[s]) : ~applyCh[s][j].snap => NextAfter(s, j)

Connected == \A s \in Server : Linked(s)

LEMMA LongerLinked ==
  ASSUME TypeOK, NEW s \in Server, Linked(s), NEW n, Longer(s, n),
         NEW j \in 1 .. Len(applyCh[s]), ~applyCh'[s][j].snap
  PROVE  NextAfter(s, j)'
  <1>1. applyCh'[s][j] = applyCh[s][j] /\ \A i \in 1 .. j - 1 : applyCh'[s][i] = applyCh[s][i]
    <2>1. \A i \in 1 .. Len(applyCh[s]) : applyCh'[s][i] = applyCh[s][i]
      BY DEF Longer
    <2>2. Len(applyCh[s]) \in Nat /\ \A i \in 1 .. j - 1 : i \in 1 .. Len(applyCh[s])
      BY DeliveryTypes
    <2>3. QED BY <2>1, <2>2
  <1>2. smIndex'[s] = smIndex[s] /\ NextAfter(s, j)
    BY <1>1 DEF Longer, Linked
  <1>3. QED BY <1>1, <1>2 DEF NextAfter

\* A path that reaches lastApplied still reaches it, the channel being longer.
LEMMA LongerReaches ==
  ASSUME TypeOK, NEW s \in Server, NEW n, Longer(s, n), NEW i,
         NEW k \in 1 .. Len(applyCh[s]), i = applyCh[s][k].index
  PROVE  OnTheWay(s, i)'
  <1>1. k \in 1 .. Len(applyCh'[s])
    BY DeliveryTypes DEF Longer
  <1>2. i = applyCh'[s][k].index
    BY DEF Longer
  <1>3. QED BY <1>1, <1>2 DEF OnTheWay

LEMMA HandsSnapshotLinked ==
  ASSUME TypeOK, NEW s \in Server, Linked(s), HandsSnapshot(s)
  PROVE  Linked(s)'
  <1>. DEFINE n == Len(applyCh[s])
  <1>1. n \in Nat
    BY DeliveryTypes
  <1>2. /\ Longer(s, 1) /\ Len(applyCh'[s]) = n + 1 /\ smIndex'[s] = smIndex[s]
        /\ lastApplied'[s] = lastApplied[s]
        /\ applyCh'[s][n + 1] = Apply(TRUE, pendingSnapshot[s].index, pendingSnapshot[s].data)
    BY DEF HandsSnapshot, Longer
  <1>3. ASSUME OnTheWay(s, lastApplied[s])
        PROVE  OnTheWay(s, lastApplied[s])'
    <2>1. CASE \E k \in 1 .. n : lastApplied[s] = applyCh[s][k].index
      BY <1>2, <2>1, LongerReaches
    <2>2. CASE lastApplied[s] = pendingSnapshot[s].index
      <3>1. n + 1 \in 1 .. Len(applyCh'[s]) /\ applyCh'[s][n + 1].index = lastApplied'[s]
        BY <1>1, <1>2, <2>2 DEF Apply
      <3>2. QED BY <3>1 DEF OnTheWay
    <2>3. QED BY <1>3, <2>1, <2>2 DEF OnTheWay
  <1>4. ASSUME NEW j \in 1 .. Len(applyCh'[s]), ~applyCh'[s][j].snap
        PROVE  NextAfter(s, j)'
    <2>1. j # n + 1
      BY <1>2, <1>4 DEF Apply
    <2>2. j \in 1 .. n
      BY <1>1, <1>2, <2>1
    <2>3. QED BY <1>2, <1>4, <2>2, LongerLinked
  <1>5. lastApplied'[s] = smIndex'[s] \/ OnTheWay(s, lastApplied[s])'
    BY <1>2, <1>3 DEF Linked
  <1>6. QED BY <1>4, <1>5 DEF Linked

LEMMA HandsCommandsLinked ==
  ASSUME TypeOK, NEW s \in Server, Linked(s), HandsCommands(s)
  PROVE  Linked(s)'
  <1>. DEFINE n == Len(applyCh[s])
              d == commitIndex[s] - lastApplied[s]
  <1>1. n \in Nat /\ lastApplied[s] \in Nat /\ commitIndex[s] \in Nat /\ smIndex[s] \in Nat
    BY DeliveryTypes
  <1>2. /\ Longer(s, d) /\ Len(applyCh'[s]) = n + d /\ smIndex'[s] = smIndex[s]
        /\ lastApplied'[s] = commitIndex[s] /\ commitIndex[s] > lastApplied[s]
        /\ ~pendingSnapshot[s].valid
        /\ \A k \in 1 .. d : applyCh'[s][n + k] =
             Apply(FALSE, lastApplied[s] + k, <<LogEntry(s, lastApplied[s] + k).cmd>>)
    BY DEF HandsCommands, Longer
  <1>3. d \in Nat /\ d > 0 /\ lastApplied[s] + d = commitIndex[s]
    BY <1>1, <1>2
  <1>. HIDE DEF d
  <1>4. ASSUME NEW k \in 1 .. d
        PROVE  applyCh'[s][n + k].index = lastApplied[s] + k
    <2>1. applyCh'[s][n + k] =
            Apply(FALSE, lastApplied[s] + k, <<LogEntry(s, lastApplied[s] + k).cmd>>)
      BY <1>2
    <2>2. QED BY <2>1 DEF Apply
  <1>5. OnTheWay(s, lastApplied[s])'
    <2>1. d \in 1 .. d /\ n + d \in 1 .. Len(applyCh'[s])
      BY <1>1, <1>2, <1>3
    <2>2. applyCh'[s][n + d].index = lastApplied'[s]
      BY <1>2, <1>3, <1>4, <2>1
    <2>3. QED BY <2>1, <2>2 DEF OnTheWay
  <1>6. ASSUME NEW j \in 1 .. Len(applyCh'[s]), ~applyCh'[s][j].snap
        PROVE  NextAfter(s, j)'
    <2>1. CASE j \in 1 .. n
      BY <1>2, <1>6, <2>1, LongerLinked
    <2>2. CASE j = n + 1
      <3>1. 1 \in 1 .. d
        BY <1>3
      <3>2. applyCh'[s][j].index = lastApplied[s] + 1
        BY <1>4, <2>2, <3>1
      <3>3. CASE lastApplied[s] = smIndex[s]
        BY <1>2, <3>2, <3>3 DEF NextAfter
      <3>4. CASE lastApplied[s] # smIndex[s]
        <4>1. PICK i \in 1 .. n : lastApplied[s] = applyCh[s][i].index
          BY <1>2, <3>4 DEF Linked, OnTheWay
        <4>2. i \in 1 .. j - 1 /\ applyCh'[s][i] = applyCh[s][i]
          BY <1>1, <1>2, <2>2 DEF Longer
        <4>3. QED BY <3>2, <4>1, <4>2 DEF NextAfter
      <3>5. QED BY <3>3, <3>4
    <2>3. CASE j > n + 1
      <3>1. PICK k \in 1 .. d : j = n + k /\ k > 1
        <4>1. j - n \in 1 .. d /\ j = n + (j - n) /\ j - n > 1
          BY <1>1, <1>2, <1>3, <2>3
        <4>2. QED BY <4>1
      <3>2. k - 1 \in 1 .. d /\ n + (k - 1) \in 1 .. j - 1
        BY <1>1, <1>3, <3>1
      <3>3. applyCh'[s][n + (k - 1)].index = lastApplied[s] + (k - 1)
        BY <1>4, <3>2
      <3>4. applyCh'[s][j].index = applyCh'[s][n + (k - 1)].index + 1
        <4>1. applyCh'[s][j].index = lastApplied[s] + k
          BY <1>4, <3>1
        <4>2. k \in Nat
          BY <1>3
        <4>3. lastApplied[s] + k = (lastApplied[s] + (k - 1)) + 1
          BY <1>1, <4>2
        <4>4. QED BY <3>3, <4>1, <4>3
      <3>5. QED BY <3>2, <3>4 DEF NextAfter
    <2>4. QED BY <1>1, <1>2, <1>3, <2>1, <2>2, <2>3
  <1>7. QED BY <1>5, <1>6 DEF Linked

\* With its first message the reader takes the first step of the path, if it is one.
LEMMA TakenLinked ==
  ASSUME TypeOK, NEW s \in Server, InOrder(s), Linked(s), Takes1(s),
         \/ smIndex'[s] = applyCh[s][1].index /\ applyCh[s][1].index > smIndex[s]
         \/ smIndex'[s] = smIndex[s] /\ applyCh[s][1].index <= smIndex[s]
  PROVE  Linked(s)'
  <1>. DEFINE n == Len(applyCh[s])
              a == applyCh[s][1].index
  <1>1. /\ n \in Nat /\ lastApplied[s] \in Nat /\ smIndex[s] \in Nat /\ a \in Nat
        /\ 1 \in 1 .. n
    BY DeliveryTypes, FirstIndex
  <1>2. /\ Len(applyCh'[s]) = n - 1
        /\ \A j \in 1 .. n - 1 : applyCh'[s][j] = applyCh[s][j + 1]
        /\ lastApplied'[s] = lastApplied[s] /\ pendingSnapshot'[s] = pendingSnapshot[s]
    BY DEF Takes1
  <1>3. a <= lastApplied[s] /\ smIndex[s] <= lastApplied[s]
    BY <1>1 DEF InOrder
  <1>. HIDE DEF a
  <1>4. \/ smIndex'[s] = a /\ a > smIndex[s]
        \/ smIndex'[s] = smIndex[s] /\ a <= smIndex[s]
    BY DEF a
  <1>5. lastApplied'[s] = smIndex'[s] \/ OnTheWay(s, lastApplied[s])'
    <2>1. CASE lastApplied[s] = smIndex[s] \/ lastApplied[s] = a
      BY <1>1, <1>2, <1>3, <1>4, <2>1
    <2>2. ASSUME NEW k \in 1 .. n, lastApplied[s] = applyCh[s][k].index, k # 1
          PROVE  OnTheWay(s, lastApplied[s])'
      <3>1. k - 1 \in 1 .. n - 1 /\ (k - 1) + 1 = k
        BY <1>1, <2>2
      <3>2. applyCh'[s][k - 1] = applyCh[s][k] /\ k - 1 \in 1 .. Len(applyCh'[s])
        BY <1>2, <3>1
      <3>3. QED BY <1>2, <2>2, <3>2 DEF OnTheWay
    <2>3. CASE pendingSnapshot[s].valid /\ lastApplied[s] = pendingSnapshot[s].index
      BY <1>2, <2>3 DEF OnTheWay
    <2>4. QED BY <2>1, <2>2, <2>3 DEF Linked, OnTheWay, a
  <1>6. ASSUME NEW j \in 1 .. Len(applyCh'[s]), ~applyCh'[s][j].snap
        PROVE  NextAfter(s, j)'
    <2>1. j + 1 \in 1 .. n /\ j \in 1 .. n - 1 /\ applyCh'[s][j] = applyCh[s][j + 1]
      BY <1>1, <1>2
    <2>2. NextAfter(s, j + 1) /\ Fresh(s, j + 1)
      BY <1>6, <2>1 DEF Linked, InOrder
    <2>3. 1 \in 1 .. (j + 1) - 1
      BY <2>1
    <2>4. applyCh[s][j + 1].index \in Nat
      BY <2>1, DeliveryTypes
    <2>5. applyCh[s][j + 1].index > smIndex[s] /\ a < applyCh[s][j + 1].index
      BY <2>2, <2>3 DEF Fresh, a
    <2>6. CASE applyCh[s][j + 1].index = smIndex[s] + 1
      <3>1. smIndex'[s] = smIndex[s]
        BY <1>1, <1>4, <2>5, <2>6
      <3>2. QED BY <2>1, <2>6, <3>1 DEF NextAfter
    <2>7. ASSUME NEW i \in 1 .. (j + 1) - 1,
                 applyCh[s][j + 1].index = applyCh[s][i].index + 1
          PROVE  NextAfter(s, j)'
      <3>1. CASE i = 1
        <4>1. applyCh[s][j + 1].index = a + 1
          BY <2>7, <3>1 DEF a
        <4>2. applyCh[s][j + 1].index = smIndex'[s] + 1
          BY <1>1, <1>4, <2>5, <4>1
        <4>3. QED BY <2>1, <4>2 DEF NextAfter
      <3>2. CASE i # 1
        <4>1. i - 1 \in 1 .. j - 1 /\ i - 1 \in 1 .. n - 1 /\ (i - 1) + 1 = i
          <5>1. i \in Nat /\ 1 < i /\ i <= j /\ j \in Nat /\ j <= n - 1
            BY <2>1, <2>7, <3>2
          <5>2. QED BY <1>1, <5>1
        <4>2. applyCh'[s][i - 1] = applyCh[s][i]
          BY <1>2, <4>1
        <4>3. QED BY <2>1, <2>7, <4>1, <4>2 DEF NextAfter
      <3>3. QED BY <3>1, <3>2
    <2>8. QED BY <2>2, <2>6, <2>7 DEF NextAfter
  <1>7. QED BY <1>5, <1>6 DEF Linked

LEMMA ConnectedStays ==
  ASSUME TypeOK, DeliveryInOrder, Connected, [Next]_vars, CrashesEarly
  PROVE  Connected'
  <1>1. SUFFICES ASSUME NEW s \in Server PROVE Linked(s)'
    BY DEF Connected
  <1>2. InOrder(s) /\ Delivers(s) /\ Linked(s)
    BY DeliverySteps DEF DeliveryInOrder, Connected
  <1>3. /\ lastApplied[s] \in Nat /\ lastIncludedIndex[s] \in Nat /\ smIndex[s] \in Nat
        /\ pendingSnapshot[s].index \in Nat
    BY DeliveryTypes
  <1>4. CASE Rests(s)
    BY <1>2, <1>4 DEF Rests, Linked, OnTheWay, NextAfter
  <1>5. CASE Installs(s)
    <2>1. PICK m \in SnapshotCalls :
            /\ m.index > lastIncludedIndex[s] /\ lastApplied'[s] = Larger(lastApplied[s], m.index)
            /\ pendingSnapshot'[s] = [valid |-> TRUE, index |-> m.index, data |-> m.data]
      BY <1>5 DEF Installs
    <2>2. applyCh'[s] = applyCh[s] /\ smIndex'[s] = smIndex[s]
      BY <1>5 DEF Installs
    <2>3. m.index \in Nat
      BY ReceivedTypes DEF SnapshotCalls, InstallRequests, TypeOK
    <2>4. CASE m.index > lastApplied[s]
      <3>1. lastApplied'[s] = m.index
        BY <1>3, <2>1, <2>3, <2>4 DEF Larger
      <3>2. OnTheWay(s, lastApplied[s])'
        BY <2>1, <3>1 DEF OnTheWay
      <3>3. QED BY <1>2, <2>2, <3>2 DEF Linked, NextAfter
    <2>5. CASE ~(m.index > lastApplied[s])
      <3>1. lastApplied'[s] = lastApplied[s]
        BY <1>3, <2>1, <2>3, <2>5 DEF Larger
      <3>2. ~(pendingSnapshot[s].valid /\ lastApplied[s] = pendingSnapshot[s].index)
        BY <1>2, <1>3, <2>1, <2>3, <2>5 DEF InOrder
      <3>3. lastApplied[s] = smIndex[s] \/ OnTheWay(s, lastApplied[s])'
        BY <1>2, <2>2, <3>1, <3>2 DEF Linked, OnTheWay
      <3>4. QED BY <1>2, <2>2, <3>1, <3>3 DEF Linked, NextAfter
    <2>6. QED BY <2>4, <2>5
  <1>6. CASE HandsSnapshot(s)
    BY <1>2, <1>6, HandsSnapshotLinked
  <1>7. CASE HandsCommands(s)
    BY <1>2, <1>7, HandsCommandsLinked
  <1>8. CASE Executes(s)
    <2>1. Takes1(s) /\ smIndex'[s] = applyCh[s][1].index /\ ~applyCh[s][1].snap
      BY <1>8 DEF Executes
    <2>2. 1 \in 1 .. Len(applyCh[s])
      BY <2>1, FirstIndex
    <2>3. applyCh[s][1].index > smIndex[s]
      BY <1>2, <2>1, <2>2 DEF InOrder, Fresh
    <2>4. QED BY <1>2, <2>1, <2>3, TakenLinked
  <1>9. CASE RestoresOrNot(s)
    BY <1>2, <1>9, TakenLinked DEF RestoresOrNot
  <1>10. CASE StartsOver(s)
    BY <1>10 DEF StartsOver, CrashesEarly, Linked
  <1>11. QED BY <1>2, <1>4, <1>5, <1>6, <1>7, <1>8, <1>9, <1>10 DEF Delivers

LEMMA InitConnected == Init => Connected
  <1>1. SUFFICES ASSUME Init, NEW s \in Server PROVE Linked(s)
    BY DEF Connected
  <1>2. lastApplied[s] = 0 /\ smIndex[s] = 0 /\ applyCh[s] = <<>>
    BY <1>1 DEF Init
  <1>3. Len(applyCh[s]) = 0
    BY <1>2
  <1>4. QED BY <1>2, <1>3 DEF Linked
-----------------------------------------------------------------------------
\* What state machines and snapshots stand for

\* d is what the first n committed commands make of a state machine.
Stands(n, d) ==
  /\ n \in 0 .. Len(ChosenCommands) /\ Len(d) = n
  /\ \A k \in 1 .. n : d[k] = ChosenCommands[k]

MessagesFaithful(s) ==
  /\ pendingSnapshot[s].valid => Stands(pendingSnapshot[s].index, pendingSnapshot[s].data)
  /\ \A j \in 1 .. Len(applyCh[s]) :
       applyCh[s][j].snap => Stands(applyCh[s][j].index, applyCh[s][j].cmds)

Faithful ==
  /\ \A s \in Server : /\ Stands(smIndex[s], sm[s]) /\ Stands(lastIncludedIndex[s], snapshot[s])
                       /\ MessagesFaithful(s)
  /\ \A m \in SnapshotCalls : Stands(m.index, m.data)

LEMMA StandsStays ==
  ASSUME TypeOK, [Next]_vars, SafeInv, SafeInv', NEW n, NEW d, Stands(n, d)
  PROVE  Stands(n, d)'
  <1>1. Len(ChosenCommands) \in Nat /\ Len(ChosenCommands') \in Nat
    <2>1. (SafeInv => ChosenIsListed)'
      BY ChosenListed, PTL
    <2>2. QED BY <2>1, ChosenListed DEF ChosenIsListed
  <1>2. /\ Len(ChosenCommands) <= Len(ChosenCommands')
        /\ \A k \in 1 .. Len(ChosenCommands) : ChosenCommands'[k] = ChosenCommands[k]
    BY ListGrows
  <1>3. n \in 0 .. Len(ChosenCommands) /\ Len(d) = n /\ \A k \in 1 .. n : d[k] = ChosenCommands[k]
    BY DEF Stands
  <1>4. n \in 0 .. Len(ChosenCommands')
    BY <1>1, <1>2, <1>3
  <1>5. \A k \in 1 .. n : k \in 1 .. Len(ChosenCommands)
    BY <1>1, <1>3
  <1>6. QED BY <1>2, <1>3, <1>4, <1>5 DEF Stands

LEMMA NextStands ==
  ASSUME SafeInv, NEW n, NEW d \in Seq(Command), Stands(n, d), n + 1 \in 1 .. Len(ChosenCommands)
  PROVE  Stands(n + 1, d \o <<ChosenCommands[n + 1]>>)
  <1>. DEFINE c == <<ChosenCommands[n + 1]>>
  <1>1. Len(ChosenCommands) \in Nat /\ ChosenCommands[n + 1] \in Command
    BY ChosenListed DEF ChosenIsListed
  <1>2. n \in Nat /\ Len(d) = n /\ \A k \in 1 .. n : d[k] = ChosenCommands[k]
    BY <1>1 DEF Stands
  <1>3. c \in Seq(Command) /\ Len(c) = 1 /\ c[1] = ChosenCommands[n + 1]
    BY <1>1
  <1>. HIDE DEF c
  <1>4. /\ Len(d \o c) = n + 1
        /\ \A k \in 1 .. n + 1 : (d \o c)[k] = IF k <= n THEN d[k] ELSE c[k - n]
    <2>1. /\ Len(d \o c) = Len(d) + Len(c)
          /\ \A k \in 1 .. Len(d) + Len(c) :
               (d \o c)[k] = IF k <= Len(d) THEN d[k] ELSE c[k - Len(d)]
      BY <1>3, ConcatProperties
    <2>2. QED BY <1>2, <1>3, <2>1
  <1>5. ASSUME NEW k \in 1 .. n + 1
        PROVE  (d \o c)[k] = ChosenCommands[k]
    <2>1. CASE k = n + 1
      BY <1>2, <1>3, <1>4, <2>1
    <2>2. CASE k # n + 1
      <3>1. k \in 1 .. n /\ k <= n
        BY <1>2, <2>2
      <3>2. QED BY <1>2, <1>4, <3>1
    <2>3. QED BY <2>1, <2>2
  <1>6. n + 1 \in 0 .. Len(ChosenCommands)
    BY <1>1, <1>2
  <1>7. QED BY <1>4, <1>5, <1>6 DEF Stands, c

\* Only SendSnapshot puts a snapshot on its way.
LEMMA SnapshotSource ==
  ASSUME TypeOK, [Next]_vars, NEW m \in network', m \notin network, m.kind = "InstallSnapshot"
  PROVE  \E s, p \in Server : SendSnapshot(s, p)
  <1>1. ASSUME NEW s \in Server, StartElection(s)
        PROVE  FALSE
    BY <1>1, SendAllAdds DEF StartElection
  <1>2. ASSUME NEW s \in Server, NEW p \in Server, SendAppendEntries(s, p)
        PROVE  FALSE
    BY <1>2, SendAllAdds DEF SendAppendEntries
  <1>3. ASSUME NEW r, HandleRequestVote(r) \/ HandleInstallSnapshot(r)
        PROVE  FALSE
    BY <1>3, AnswerAdds DEF HandleRequestVote, HandleInstallSnapshot
  <1>4. ASSUME NEW r, HandleAppendEntries(r)
        PROVE  FALSE
    <2>1. ASSUME NEW success, NEW xTerm, NEW xIndex, NEW xLen,
                 Answer(r, {AppendReply(r, success, xTerm, xIndex, xLen)})
          PROVE  FALSE
      BY <2>1, AnswerAdds DEF AppendReply
    <2>2. QED BY <1>4, <2>1 DEF HandleAppendEntries, RefuseAppend, AcceptAppend
  <1>5. QED BY <1>1, <1>2, <1>3, <1>4, StepFrames DEF Frames, NetworkFrame

\* It is sent as it is on the sender's disk.
LEMMA SnapshotsSent ==
  ASSUME TypeOK, [Next]_vars, NEW m \in SnapshotCalls'
  PROVE  \/ m \in SnapshotCalls
         \/ \E s \in Server : m.index = lastIncludedIndex[s] /\ m.data = snapshot[s]
  <1>1. SUFFICES ASSUME m \notin network
                 PROVE  \E s \in Server : m.index = lastIncludedIndex[s] /\ m.data = snapshot[s]
    BY DEF SnapshotCalls, Received
  <1>2. m \in network' /\ m.kind = "InstallSnapshot"
    BY DEF SnapshotCalls, Received
  <1>3. PICK s \in Server, p \in Server : SendSnapshot(s, p)
    BY <1>1, <1>2, SnapshotSource
  <1>4. m.index = lastIncludedIndex[s] /\ m.data = snapshot[s]
    BY <1>1, <1>2, <1>3, SendAllAdds DEF SendSnapshot
  <1>5. QED BY <1>4

\* After a step the state machine, the snapshot and what is on the way are made of
\* the commands that were committed before it.
LEMMA MachineStands ==
  ASSUME TypeOK, DeliveryInOrder, Connected, Queued, SafeInv, Faithful, [Next]_vars,
         NEW s \in Server
  PROVE  /\ Stands(smIndex'[s], sm'[s]) /\ Stands(lastIncludedIndex'[s], snapshot'[s])
         /\ pendingSnapshot'[s].valid => Stands(pendingSnapshot'[s].index, pendingSnapshot'[s].data)
  <1>1. /\ Delivers(s) /\ Linked(s) /\ Stands(smIndex[s], sm[s])
        /\ Stands(lastIncludedIndex[s], snapshot[s]) /\ MessagesFaithful(s)
    BY DeliverySteps DEF Connected, Faithful
  <1>2. CASE Rests(s) \/ HandsSnapshot(s) \/ HandsCommands(s)
    <2>1. /\ smIndex'[s] = smIndex[s] /\ sm'[s] = sm[s]
          /\ lastIncludedIndex'[s] = lastIncludedIndex[s] /\ snapshot'[s] = snapshot[s]
      BY <1>2 DEF Rests, HandsSnapshot, HandsCommands, Longer
    <2>2. pendingSnapshot'[s].valid => pendingSnapshot'[s] = pendingSnapshot[s]
      BY <1>2 DEF Rests, HandsSnapshot, HandsCommands
    <2>3. QED BY <1>1, <2>1, <2>2 DEF MessagesFaithful
  <1>3. CASE Installs(s)
    BY <1>1, <1>3 DEF Installs, Faithful
  <1>4. CASE Executes(s)
    <2>. DEFINE a == applyCh[s][1]
                n == smIndex[s]
    <2>1. /\ Takes1(s) /\ ~a.snap /\ sm'[s] = sm[s] \o a.cmds /\ smIndex'[s] = a.index
          /\ 1 \in 1 .. Len(applyCh[s])
      BY <1>4, FirstIndex DEF Executes
    <2>2. a.index = n + 1
      <3>1. NextAfter(s, 1)
        BY <1>1, <2>1 DEF Linked
      <3>2. QED BY <3>1 DEF NextAfter
    <2>3. Genuine(a)
      BY <2>1 DEF Queued
    <2>. HIDE DEF a
    <2>4. n + 1 \in 1 .. Len(ChosenCommands) /\ sm'[s] = sm[s] \o <<ChosenCommands[n + 1]>>
      BY <2>1, <2>2, <2>3 DEF Genuine
    <2>5. Stands(n + 1, sm'[s])
      BY <1>1, <2>4, NextStands, DeliveryTypes
    <2>6. Stands(smIndex'[s], sm'[s])
      BY <2>1, <2>2, <2>5
    <2>7. Stands(lastIncludedIndex'[s], snapshot'[s])
      BY <1>1, <1>4, <2>6 DEF Executes
    <2>8. QED BY <1>1, <2>1, <2>6, <2>7 DEF MessagesFaithful, Takes1
  <1>5. CASE RestoresOrNot(s)
    <2>1. Takes1(s) /\ applyCh[s][1].snap /\ 1 \in 1 .. Len(applyCh[s])
      BY <1>5, FirstIndex DEF RestoresOrNot
    <2>2. Stands(applyCh[s][1].index, applyCh[s][1].cmds)
      BY <1>1, <2>1 DEF MessagesFaithful
    <2>3. QED BY <1>1, <1>5, <2>1, <2>2 DEF RestoresOrNot, MessagesFaithful, Takes1
  <1>6. CASE StartsOver(s)
    <2>1. Stands(0, <<>>)
      BY ChosenListed DEF ChosenIsListed, Stands
    <2>2. QED BY <1>1, <1>6, <2>1 DEF StartsOver
  <1>7. QED BY <1>1, <1>2, <1>3, <1>4, <1>5, <1>6 DEF Delivers

LEMMA FaithfulStays ==
  ASSUME TypeOK, DeliveryInOrder, Connected, Queued, SafeInv, SafeInv', Faithful, [Next]_vars
  PROVE  Faithful'
  <1>1. ASSUME NEW s \in Server
        PROVE  /\ Stands(smIndex[s], sm[s])' /\ Stands(lastIncludedIndex[s], snapshot[s])'
               /\ MessagesFaithful(s)'
    <2>1. PICK n, d, k, e :
            n = smIndex'[s] /\ d = sm'[s] /\ k = lastIncludedIndex'[s] /\ e = snapshot'[s]
      OBVIOUS
    <2>2. Stands(n, d)' /\ Stands(k, e)'
      BY <2>1, MachineStands, StandsStays
    <2>3. ASSUME pendingSnapshot'[s].valid
          PROVE  Stands(pendingSnapshot[s].index, pendingSnapshot[s].data)'
      <3>1. PICK x, y : x = pendingSnapshot'[s].index /\ y = pendingSnapshot'[s].data
        OBVIOUS
      <3>2. Stands(x, y)'
        BY <2>3, <3>1, MachineStands, StandsStays
      <3>3. QED BY <3>1, <3>2
    <2>4. ASSUME NEW j \in 1 .. Len(applyCh'[s]), applyCh'[s][j].snap
          PROVE  Stands(applyCh[s][j].index, applyCh[s][j].cmds)'
      <3>1. PICK msg : msg = applyCh'[s][j]
        OBVIOUS
      <3>2. Held(s, msg) \/ Restored(s, msg) \/ Copied(s, msg)
        BY <3>1, DeliverySteps, MessagesCome
      <3>3. MessagesFaithful(s) /\ msg.snap
        BY <2>4, <3>1 DEF Faithful
      <3>4. Stands(msg.index, msg.cmds)
        BY <3>2, <3>3 DEF Held, Restored, Copied, Apply, MessagesFaithful
      <3>5. Stands(msg.index, msg.cmds)'
        BY <3>4, StandsStays
      <3>6. QED BY <3>1, <3>5
    <2>5. QED BY <2>1, <2>2, <2>3, <2>4 DEF MessagesFaithful
  <1>2. ASSUME NEW m \in SnapshotCalls'
        PROVE  Stands(m.index, m.data)'
    <2>1. Stands(m.index, m.data)
      BY SnapshotsSent DEF Faithful
    <2>2. QED BY <2>1, StandsStays
  <1>3. QED BY <1>1, <1>2 DEF Faithful

LEMMA InitFaithful == Init => Queued /\ Faithful
  <1>. SUFFICES ASSUME Init PROVE Queued /\ Faithful
    OBVIOUS
  <1>1. Stands(0, <<>>)
    BY InitSafe, ChosenListed DEF ChosenIsListed, Stands
  <1>2. SnapshotCalls = {}
    BY DEF Init, SnapshotCalls, Received
  <1>3. ASSUME NEW s \in Server
        PROVE  /\ smIndex[s] = 0 /\ sm[s] = <<>> /\ lastIncludedIndex[s] = 0 /\ snapshot[s] = <<>>
               /\ ~pendingSnapshot[s].valid /\ Len(applyCh[s]) = 0
    BY DEF Init, NoSnapshot
  <1>4. QED BY <1>1, <1>2, <1>3 DEF Queued, Faithful, MessagesFaithful

\* What stands for a prefix is that prefix.
LEMMA StandsForPrefix ==
  ASSUME SafeInv, NEW n, NEW d \in Seq(Command), Stands(n, d)
  PROVE  n <= Len(ChosenCommands) /\ d = SubSeq(ChosenCommands, 1, n)
  <1>. DEFINE p == SubSeq(ChosenCommands, 1, n)
  <1>1. /\ Len(ChosenCommands) \in Nat
        /\ \A k \in 1 .. Len(ChosenCommands) : ChosenCommands[k] \in Command
    BY ChosenListed DEF ChosenIsListed
  <1>2. /\ n \in Nat /\ n <= Len(ChosenCommands) /\ Len(d) = n
        /\ \A k \in 1 .. n : d[k] = ChosenCommands[k]
    BY <1>1 DEF Stands
  <1>3. \A k \in 1 .. n : ChosenCommands[k] \in Command
    BY <1>1, <1>2
  <1>4. /\ p \in Seq(Command) /\ Len(p) = n
        /\ \A k \in 1 .. n : p[k] = ChosenCommands[k]
    <2>1. /\ p \in Seq(Command) /\ Len(p) = IF 1 <= n THEN n - 1 + 1 ELSE 0
          /\ \A k \in 1 .. n - 1 + 1 : p[k] = ChosenCommands[1 + k - 1]
      BY <1>2, <1>3, SubSeqProperties
    <2>. HIDE DEF p
    <2>2. QED BY <1>2, <2>1
  <1>. HIDE DEF p
  <1>5. d = p
    BY <1>2, <1>4, SeqEqual
  <1>6. QED BY <1>2, <1>5 DEF p

\* The channel holds only commands that leaders have committed, at their indices,
\* with or without crashes.
THEOREM QueuedIsChosen == Spec => []Queued
  <1>1. TypeOK /\ DeliveryInOrder /\ SafeInv /\ SafeInv' /\ Queued /\ [Next]_vars => Queued'
    BY QueuedStays
  <1>2. Init => Queued
    BY InitFaithful
  <1>3. QED BY <1>1, <1>2, TypeCorrect, DeliveryIsInOrder, CommitsInOrder, PTL DEF Spec

LEMMA DeliveredIsFaithful == Spec /\ [][CrashesEarly]_vars => [](Connected /\ Faithful)
  <1>1. /\ TypeOK /\ DeliveryInOrder /\ Queued /\ SafeInv /\ SafeInv' /\ Connected /\ Faithful
        /\ [Next]_vars /\ [CrashesEarly]_vars
        => Connected' /\ Faithful'
    <2>1. SUFFICES ASSUME TypeOK, DeliveryInOrder, Queued, SafeInv, SafeInv', Connected, Faithful,
                          [Next]_vars, [CrashesEarly]_vars
                   PROVE  Connected' /\ Faithful'
      OBVIOUS
    <2>2. Faithful'
      BY <2>1, FaithfulStays
    <2>3. CASE UNCHANGED vars
      BY <2>1, <2>2, <2>3 DEF vars, commitVars, rsmVars, Connected, Linked, NextAfter, OnTheWay
    <2>4. CASE CrashesEarly
      BY <2>1, <2>2, <2>4, ConnectedStays
    <2>5. QED BY <2>1, <2>3, <2>4
  <1>2. Init => Connected /\ Faithful
    BY InitConnected, InitFaithful
  <1>3. QED
    BY <1>1, <1>2, TypeCorrect, DeliveryIsInOrder, QueuedIsChosen, CommitsInOrder, PTL DEF Spec

\* As long as no peer comes back from a snapshot, nothing that was applied is lost
\* between the applier and the reader.
THEOREM NothingIsLost == Spec /\ [][CrashesEarly]_vars => []NothingLostInDelivery
  <1>1. ASSUME Connected PROVE NothingLostInDelivery
    <2>1. SUFFICES ASSUME NEW s \in Server, applyCh[s] = <<>>, ~pendingSnapshot[s].valid
                   PROVE  smIndex[s] = lastApplied[s]
      BY DEF NothingLostInDelivery
    <2>2. Len(applyCh[s]) = 0
      BY <2>1
    <2>3. QED BY <1>1, <2>1, <2>2 DEF Connected, Linked, OnTheWay
  <1>2. Connected => NothingLostInDelivery
    BY <1>1
  <1>3. QED BY <1>2, DeliveredIsFaithful, PTL

LEMMA MachinesAreRight ==
  ASSUME TypeOK, SafeInv, Faithful
  PROVE  StateMachineSafety
  <1>1. SUFFICES ASSUME NEW s \in Server
                 PROVE  /\ smIndex[s] <= Len(ChosenCommands)
                        /\ sm[s] = SubSeq(ChosenCommands, 1, smIndex[s])
    BY DEF StateMachineSafety
  <1>2. Stands(smIndex[s], sm[s]) /\ sm[s] \in Seq(Command)
    BY DeliveryTypes DEF Faithful
  <1>3. QED BY <1>2, StandsForPrefix

LEMMA SnapshotsAreRight ==
  ASSUME TypeOK, SafeInv, Faithful
  PROVE  SnapshotsFaithful
  <1>1. ASSUME NEW s \in Server
        PROVE  snapshot[s] = SubSeq(ChosenCommands, 1, lastIncludedIndex[s])
    <2>1. Stands(lastIncludedIndex[s], snapshot[s]) /\ snapshot[s] \in Seq(Command)
      BY DeliveryTypes DEF Faithful
    <2>2. QED BY <2>1, StandsForPrefix
  <1>2. ASSUME NEW m \in Received("InstallSnapshot")
        PROVE  m.data = SubSeq(ChosenCommands, 1, m.index)
    <2>1. m \in SnapshotCalls /\ m.data \in Seq(Command)
      BY ReceivedTypes DEF SnapshotCalls, InstallRequests, TypeOK
    <2>2. Stands(m.index, m.data)
      BY <2>1 DEF Faithful
    <2>3. QED BY <2>1, <2>2, StandsForPrefix
  <1>3. QED BY <1>1, <1>2 DEF SnapshotsFaithful

\* As long as no peer comes back from a snapshot, a state machine at index n has
\* executed the first n committed commands, none skipped, repeated or out of order,
\* whatever snapshots overtook them (applier, RSM reader).
THEOREM MachinesAgree == Spec /\ [][CrashesEarly]_vars => []StateMachineSafety
  <1>1. TypeOK /\ SafeInv /\ Faithful => StateMachineSafety
    BY MachinesAreRight
  <1>2. QED BY <1>1, TypeCorrect, CommitsInOrder, DeliveredIsFaithful, PTL

\* So is a snapshot, on disk or on its way, the state at the index it is for: Raft
\* is given both from one point of the reader (Raft.Snapshot, sendSnapshotToPeer).
THEOREM SnapshotsAreFaithful == Spec /\ [][CrashesEarly]_vars => []SnapshotsFaithful
  <1>1. TypeOK /\ SafeInv /\ Faithful => SnapshotsFaithful
    BY SnapshotsAreRight
  <1>2. QED BY <1>1, TypeCorrect, CommitsInOrder, DeliveredIsFaithful, PTL
-----------------------------------------------------------------------------
\* When a peer cannot come back from a snapshot

\* What there is if no state machine is ever compacted.
Uncompacted ==
  /\ \A s \in Server : lastIncludedIndex[s] = 0 /\ snapshotDue[s] = {}
  /\ SnapshotCalls = {}

LEMMA NoSnapshotSent ==
  ASSUME Uncompacted, NextIndexInBounds, NEW s \in Server, NEW p \in Server, SendSnapshot(s, p)
  PROVE  FALSE
  <1>1. nextIndex[s][p] \in 1 .. LastLogIndex(s) + 1
    BY DEF SendSnapshot, NextIndexInBounds
  <1>2. lastIncludedIndex[s] = 0 /\ snapshotDue[s] = {}
    BY DEF Uncompacted
  <1>3. QED BY <1>1, <1>2 DEF SendSnapshot

LEMMA DueStays ==
  ASSUME TypeOK, Uncompacted, NextIndexInBounds, [Next]_vars, NEW s \in Server
  PROVE  snapshotDue'[s] = {}
  <1>1. snapshotDue \in [Server -> SUBSET Server] /\ snapshotDue[s] = {}
    BY DEF TypeOK, LeaderTyped, Uncompacted
  <1>2. CASE snapshotDue' = snapshotDue
    BY <1>1, <1>2
  <1>3. ASSUME NEW d \in Server, ForgetLeaderState(d) \/ ForgetIfFollower(d)
        PROVE  snapshotDue'[s] = {}
    BY <1>1, <1>3 DEF ForgetLeaderState, ForgetIfFollower, leaderVars
  <1>4. ASSUME NEW d \in Server,
               \/ StartElection(d) \/ Restart(d)
               \/ \E cmd \in Command : Start(d, cmd)
               \/ \E p \in Server : SendAppendEntries(d, p)
        PROVE  snapshotDue'[s] = {}
    BY <1>2, <1>3, <1>4 DEF StartElection, Restart, Start, SendAppendEntries, leaderVars
  <1>5. ASSUME NEW m \in network, \/ HandleRequestVote(m) \/ HandleVoteReply(m)
                                  \/ HandleAppendEntries(m) \/ HandleAppendReply(m)
                                  \/ HandleInstallSnapshot(m) \/ HandleSnapshotReply(m) \/ Lose(m)
        PROVE  snapshotDue'[s] = {}
    <2>1. m.dst \in Server
      BY DEF TypeOK, Message, VoteRequests, VoteReplies, AppendRequests, AppendReplies,
         InstallRequests, InstallReplies
    <2>2. ASSUME NEW term, AdoptTerm(m.dst, term) \/ StepDown(m.dst, term)
          PROVE  snapshotDue'[s] = {}
      BY <1>3, <2>1, <2>2 DEF AdoptTerm, StepDown
    <2>3. CASE HandleRequestVote(m) \/ Lose(m)
      BY <1>2, <1>3, <2>1, <2>3 DEF HandleRequestVote, Lose, leaderVars
    <2>4. CASE HandleVoteReply(m)
      BY <1>1, <2>1, <2>2, <2>4 DEF HandleVoteReply
    <2>5. CASE HandleAppendEntries(m) \/ HandleInstallSnapshot(m)
      BY <1>2, <2>2, <2>5 DEF HandleAppendEntries, HandleInstallSnapshot, leaderVars
    <2>6. CASE HandleAppendReply(m) \/ HandleSnapshotReply(m)
      BY <1>2, <2>2, <2>6 DEF HandleAppendReply, HandleSnapshotReply
    <2>7. QED BY <1>5, <2>3, <2>4, <2>5, <2>6
  <1>6. CASE DeliveryNext
    BY <1>2, <1>6 DEF DeliveryNext, ApplierSnapshot, ApplierCommands, ReaderCommand, ReaderSnapshot,
       leaderVars
  <1>7. CASE UNCHANGED vars
    BY <1>2, <1>7 DEF vars, leaderVars
  <1>8. QED BY <1>4, <1>5, <1>6, <1>7, NoSnapshotSent DEF Next, ConsensusNext, Received

LEMMA UncompactedStays ==
  ASSUME MaxRaftState = -1, TypeOK, Uncompacted, NextIndexInBounds, [Next]_vars
  PROVE  Uncompacted'
  <1>1. ASSUME NEW s \in Server
        PROVE  lastIncludedIndex'[s] = 0
    <2>1. lastIncludedIndex \in [Server -> Nat] /\ lastIncludedIndex[s] = 0
      BY DEF TypeOK, LogTyped, Uncompacted
    <2>2. ASSUME NEW d \in Server, ReaderCommand(d)
          PROVE  lastIncludedIndex' = lastIncludedIndex
      BY <2>2 DEF ReaderCommand, CompactionDue, logVars
    <2>3. ASSUME NEW d \in Server, NEW cmd \in Command, Start(d, cmd)
          PROVE  lastIncludedIndex' = lastIncludedIndex
      BY <2>3 DEF Start
    <2>4. ASSUME NEW m \in Received("AppendEntries"), HandleAppendEntries(m)
          PROVE  lastIncludedIndex' = lastIncludedIndex
      BY <2>4 DEF HandleAppendEntries
    <2>5. Received("InstallSnapshot") = {}
      BY DEF Uncompacted, SnapshotCalls
    <2>6. lastIncludedIndex' = lastIncludedIndex
      BY <2>2, <2>3, <2>4, <2>5, StepFrames DEF Frames, LogsFrame
    <2>7. QED BY <2>1, <2>6
  <1>2. SnapshotCalls' = {}
    <2>1. SUFFICES ASSUME NEW m \in SnapshotCalls' PROVE FALSE
      OBVIOUS
    <2>2. m \in network' /\ m \notin network /\ m.kind = "InstallSnapshot"
      BY DEF SnapshotCalls, Received, Uncompacted
    <2>3. PICK s \in Server, p \in Server : SendSnapshot(s, p)
      BY <2>2, SnapshotSource
    <2>4. QED BY <2>3, NoSnapshotSent
  <1>3. QED BY <1>1, <1>2, DueStays DEF Uncompacted

\* No peer comes back from a snapshot if none crashes, or if none is compacted.
THEOREM CrashesAreEarly ==
  ASSUME MaxRestarts = 0 \/ MaxRaftState = -1
  PROVE  Spec => [][CrashesEarly]_vars
  <1>1. CASE MaxRestarts = 0
    <2>1. TypeOK /\ [Next]_vars => [CrashesEarly]_vars
      BY <1>1 DEF TypeOK, CrashesEarly, Restart
    <2>2. QED BY <2>1, TypeCorrect, PTL DEF Spec
  <1>2. CASE MaxRaftState = -1
    <2>1. Init => Uncompacted
      BY DEF Init, Uncompacted, SnapshotCalls, Received
    <2>2. TypeOK /\ NextIndexInBounds /\ Uncompacted /\ [Next]_vars => Uncompacted'
      BY <1>2, UncompactedStays
    <2>3. Uncompacted => [CrashesEarly]_vars
      BY DEF Uncompacted, CrashesEarly
    <2>4. QED BY <2>1, <2>2, <2>3, TypeCorrect, NextIndexBounded, PTL DEF Spec
  <1>3. QED BY <1>1, <1>2
-----------------------------------------------------------------------------
\* No operation is taken in twice

\* Piece f has operation c at index i.
Carries(f, i, c) == i \in f.base + 1 .. End(f) /\ EntryAt(f, i).cmd = c

\* Some peer or request has c at i, or c was committed there.
Known(i, c) ==
  \/ \E s \in Server : Carries(LogOf(s), i, c)
  \/ \E m \in Calls : Carries(CarriedBy(m), i, c)
  \/ \E e \in chosen : e.index = i /\ e.entry.cmd = c

\* An operation has one index.
Once ==
  \A i, c : Known(i, c) => c \in started /\ \A j : Known(j, c) => i = j

LEMMA PartCarries ==
  ASSUME NEW f \in Piece, NEW g \in Piece, Part(g, f), NEW i, NEW c, Carries(g, i, c)
  PROVE  Carries(f, i, c)
  <1>1. /\ f.base \in Nat /\ g.base \in Nat /\ End(f) \in Nat /\ End(g) \in Nat
    BY PieceTypes
  <1>2. i \in g.base + 1 .. End(g) /\ g.base >= f.base /\ End(g) <= End(f)
    BY DEF Carries, Part
  <1>3. i \in Span(g) /\ i > g.base /\ i > f.base /\ i \in f.base + 1 .. End(f)
    BY <1>1, <1>2 DEF Span
  <1>4. EntryAt(g, i) = EntryAt(f, i)
    BY <1>3 DEF Part, Same
  <1>5. QED BY <1>3, <1>4 DEF Carries

LEMMA GluedCarries ==
  ASSUME NEW f \in Piece, NEW g \in Piece, NEW new \in Piece, NEW q, Glued(new, f, g, q),
         NEW i, NEW c, Carries(new, i, c)
  PROVE  Carries(f, i, c) \/ Carries(g, i, c)
  <1>1. /\ f.base \in Nat /\ g.base \in Nat /\ new.base \in Nat
        /\ End(f) \in Nat /\ End(g) \in Nat /\ End(new) \in Nat
    BY PieceTypes
  <1>2. /\ q \in Span(f) /\ q \in Span(g) /\ new.base = f.base /\ End(new) = End(g)
        /\ i \in Span(new) /\ i > new.base /\ i <= End(new)
    BY <1>1 DEF Glued, Carries, Span
  <1>3. q \in Nat /\ i \in Nat /\ q <= End(f) /\ q >= g.base
    BY <1>1, <1>2 DEF Span
  <1>4. CASE i <= q
    <2>1. EntryAt(new, i) = EntryAt(f, i)
      BY <1>2, <1>4 DEF Glued, Same
    <2>2. i \in f.base + 1 .. End(f)
      BY <1>1, <1>2, <1>3, <1>4
    <2>3. QED BY <2>1, <2>2 DEF Carries
  <1>5. CASE i > q
    <2>1. EntryAt(new, i) = EntryAt(g, i)
      BY <1>2, <1>5 DEF Glued
    <2>2. i \in g.base + 1 .. End(g)
      BY <1>1, <1>2, <1>3, <1>5
    <2>3. QED BY <2>1, <2>2 DEF Carries
  <1>6. QED BY <1>3, <1>4, <1>5

\* What a log has after a step was known, or is being taken in.
LEMMA LogKnows ==
  ASSUME TypeOK, TypeOK', VotesGenuine, LogInv, [Next]_vars,
         NEW s \in Server, NEW i, NEW c, Carries(LogOf(s)', i, c)
  PROVE  Known(i, c) \/ (Start(s, c) /\ i = End(LogOf(s)'))
  <1>1. LogOf(s) \in Piece /\ LogOf(s)' \in Piece
    BY LogOfTyped, TypedNext DEF Pieces
  <1>2. CASE Cut(s)
    BY <1>1, <1>2, PartCarries DEF Cut, Known
  <1>3. CASE Written(s)
    <2>1. PICK cmd \in Command : Start(s, cmd)
      BY <1>3 DEF Written
    <2>2. /\ EntryAt(LogOf(s)', End(LogOf(s)')).cmd = cmd
          /\ LogOf(s)'.base = LogOf(s).base /\ End(LogOf(s)') = End(LogOf(s)) + 1
          /\ \A k \in LogOf(s).base + 1 .. End(LogOf(s)) : EntryAt(LogOf(s)', k) = EntryAt(LogOf(s), k)
      BY <2>1, StartExtends
    <2>3. i \in LogOf(s)'.base + 1 .. End(LogOf(s)') /\ EntryAt(LogOf(s)', i).cmd = c
      BY DEF Carries
    <2>4. LogOf(s).base \in Nat /\ End(LogOf(s)) \in Nat
      BY <1>1, PieceTypes
    <2>5. CASE i = End(LogOf(s)')
      BY <2>1, <2>2, <2>3, <2>5
    <2>6. CASE i # End(LogOf(s)')
      <3>1. i \in LogOf(s).base + 1 .. End(LogOf(s))
        BY <2>2, <2>3, <2>4, <2>6
      <3>2. Carries(LogOf(s), i, c)
        BY <2>2, <2>3, <3>1 DEF Carries
      <3>3. QED BY <3>2 DEF Known
    <2>7. QED BY <2>5, <2>6
  <1>4. CASE Merged(s)
    <2>1. PICK m \in AppendCalls : \E q : Glued(LogOf(s)', LogOf(s), CarriedBy(m), q)
      BY <1>4 DEF Merged
    <2>2. PICK q : Glued(LogOf(s)', LogOf(s), CarriedBy(m), q)
      BY <2>1
    <2>3. m \in Calls /\ CarriedBy(m) \in Piece
      BY CallTypes DEF AppendCalls, Calls
    <2>4. QED BY <1>1, <2>2, <2>3, GluedCarries DEF Known
  <1>5. CASE Dropped(s)
    <2>1. PICK m \in SnapshotCalls : LogOf(s)' = CarriedBy(m)
      BY <1>5 DEF Dropped
    <2>2. m \in Calls
      BY DEF SnapshotCalls, Calls
    <2>3. QED BY <2>1, <2>2 DEF Known
  <1>6. QED BY <1>2, <1>3, <1>4, <1>5, LogChanges

\* So is what is known anywhere.
LEMMA KnownBefore ==
  ASSUME TypeOK, TypeOK', VotesGenuine, LogInv, [Next]_vars, NEW i, NEW c, Known(i, c)'
  PROVE  Known(i, c) \/ \E s \in Server : Start(s, c) /\ i = End(LogOf(s)')
  <1>1. ASSUME NEW s \in Server, Carries(LogOf(s), i, c)'
        PROVE  Known(i, c) \/ (Start(s, c) /\ i = End(LogOf(s)'))
    BY <1>1, LogKnows DEF Carries
  <1>2. ASSUME NEW m \in Calls', Carries(CarriedBy(m), i, c)
        PROVE  Known(i, c)
    <2>1. CASE m \in Calls
      BY <1>2, <2>1 DEF Known
    <2>2. CASE Calling(m)
      <3>1. CarriedBy(m) \in Piece /\ m.src \in Server
        BY CallsNext
      <3>2. LogOf(m.src) \in Piece
        BY <3>1, LogOfTyped
      <3>3. Carries(LogOf(m.src), i, c)
        BY <1>2, <2>2, <3>1, <3>2, PartCarries DEF Calling
      <3>4. QED BY <3>1, <3>3 DEF Known
    <2>3. QED BY <2>1, <2>2, CallsMade
  <1>3. ASSUME NEW e \in chosen', e.index = i, e.entry.cmd = c
        PROVE  Known(i, c)
    <2>1. CASE e \in chosen
      BY <1>3, <2>1 DEF Known
    <2>2. CASE e \notin chosen
      <3>1. PICK s \in Server : \E n : Commits(s, n)
        BY <2>2, CommitsMove
      <3>2. PICK k \in Indices(s) : e = [index |-> k, entry |-> LogEntry(s, k)]
        BY <2>2, <3>1 DEF Commits
      <3>3. /\ Indices(s) = LogOf(s).base + 1 .. End(LogOf(s))
            /\ LogEntry(s, k) = EntryAt(LogOf(s), k)
        BY LogOfTyped
      <3>4. Carries(LogOf(s), i, c)
        BY <1>3, <3>2, <3>3 DEF Carries
      <3>5. QED BY <3>4 DEF Known
    <2>3. QED BY <2>1, <2>2
  <1>4. CASE \E s \in Server : Carries(LogOf(s), i, c)'
    BY <1>1, <1>4
  <1>5. CASE \E m \in Calls' : Carries(CarriedBy(m), i, c)
    BY <1>2, <1>5
  <1>6. CASE \E e \in chosen' : e.index = i /\ e.entry.cmd = c
    BY <1>3, <1>6
  <1>7. QED BY <1>4, <1>5, <1>6 DEF Known

LEMMA StartedStays == [Next]_vars => started \subseteq started'
  <1>1. SUFFICES ASSUME [Next]_vars PROVE started \subseteq started'
    OBVIOUS
  <1>2. CASE UNCHANGED vars
    BY <1>2 DEF vars
  <1>3. CASE DeliveryNext
    BY <1>3 DEF DeliveryNext, ApplierSnapshot, ApplierCommands, ReaderCommand, ReaderSnapshot
  <1>4. CASE ConsensusNext
    <2>1. ASSUME NEW s \in Server,
                 \/ StartElection(s) \/ Restart(s) \/ \E cmd \in Command : Start(s, cmd)
                 \/ \E p \in Server : SendAppendEntries(s, p) \/ SendSnapshot(s, p)
          PROVE  started \subseteq started'
      BY <2>1 DEF StartElection, Restart, Start, SendAppendEntries, SendSnapshot
    <2>2. ASSUME NEW m, HandleRequestVote(m) \/ HandleVoteReply(m) \/ HandleAppendReply(m)
                        \/ HandleSnapshotReply(m) \/ HandleAppendEntries(m)
                        \/ HandleInstallSnapshot(m) \/ Lose(m)
          PROVE  started \subseteq started'
      BY <2>2 DEF HandleRequestVote, HandleVoteReply, HandleAppendReply, HandleSnapshotReply,
         HandleAppendEntries, HandleInstallSnapshot, Lose
    <2>3. QED BY <1>4, <2>1, <2>2 DEF ConsensusNext
  <1>5. QED BY <1>1, <1>2, <1>3, <1>4 DEF Next

\* Peers take in one operation at a time.
LEMMA StartsOnce ==
  ASSUME TypeOK, TypeOK', NEW s \in Server, NEW t \in Server, NEW c,
         c \in Command, Start(s, c), Start(t, c)
  PROVE  s = t
  <1>1. End(LogOf(t)') = End(LogOf(t)) + 1 /\ OthersKeepLogs(s)
    BY StartExtends
  <1>2. End(LogOf(t)) \in Nat
    BY LogOfTyped, PieceTypes
  <1>3. LogOf(t)' # LogOf(t)
    BY <1>1, <1>2
  <1>4. QED BY <1>1, <1>3 DEF OthersKeepLogs, LogOf

LEMMA OnceStays ==
  ASSUME TypeOK, TypeOK', VotesGenuine, LogInv, Once, [Next]_vars
  PROVE  Once'
  <1>. SUFFICES ASSUME NEW i, NEW c, Known(i, c)'
                PROVE  c \in started' /\ \A j : Known(j, c)' => i = j
    BY DEF Once
  <1>1. \A j : Known(j, c)' =>
          Known(j, c) \/ \E s \in Server : Start(s, c) /\ j = End(LogOf(s)')
    BY KnownBefore
  <1>2. ASSUME NEW s \in Server, Start(s, c)
        PROVE  c \in Command /\ c \notin started /\ c \in started'
    <2>1. c \notin started /\ started' = started \cup {c}
      BY <1>2 DEF Start
    <2>2. QED BY <2>1 DEF TypeOK
  <1>3. c \in started'
    BY <1>1, <1>2, StartedStays DEF Once
  <1>4. ASSUME NEW j, Known(j, c)'
        PROVE  i = j
    <2>1. CASE Known(i, c) \/ Known(j, c)
      <3>1. c \in started
        BY <2>1 DEF Once
      <3>2. Known(i, c) /\ Known(j, c)
        BY <1>1, <1>2, <1>4, <3>1
      <3>3. QED BY <3>2 DEF Once
    <2>2. CASE ~Known(i, c) /\ ~Known(j, c)
      <3>1. PICK s \in Server : Start(s, c) /\ i = End(LogOf(s)')
        BY <1>1, <2>2
      <3>2. PICK t \in Server : Start(t, c) /\ j = End(LogOf(t)')
        BY <1>1, <1>4, <2>2
      <3>3. s = t
        BY <1>2, <3>1, <3>2, StartsOnce
      <3>4. QED BY <3>1, <3>2, <3>3
    <2>3. QED BY <2>1, <2>2
  <1>5. QED BY <1>3, <1>4

LEMMA InitOnce == Init => Once
  <1>. SUFFICES ASSUME Init, NEW i, NEW c PROVE ~Known(i, c)
    BY DEF Once
  <1>1. chosen = {} /\ Calls = {}
    BY DEF Init, Calls, Received
  <1>2. ASSUME NEW s \in Server PROVE ~Carries(LogOf(s), i, c)
    <2>1. LogOf(s).base = 0 /\ LogOf(s).entries = <<>>
      BY DEF Init, LogOf
    <2>2. End(LogOf(s)) = 0
      BY <2>1 DEF End
    <2>3. QED BY <2>1, <2>2 DEF Carries
  <1>3. QED BY <1>1, <1>2 DEF Known

\* However often a leader is deposed, logs are cut and requests are repeated, an
\* operation is at one index, wherever it is (Raft.Start, AppendEntries).
THEOREM OperationsAreOnce == Spec => []Once
  <1>1. TypeOK /\ TypeOK' /\ VotesGenuine /\ LogInv /\ Once /\ [Next]_vars => Once'
    BY OnceStays
  <1>2. QED BY <1>1, InitOnce, TypeCorrect, VotesAreGenuine, LogsInOrder, PTL DEF Spec

LEMMA NothingIsRepeated ==
  SafeInv /\ Once => Abstract!NoRepeats(ChosenCommands)
  <1>. SUFFICES ASSUME SafeInv, Once, NEW i \in 1 .. Len(ChosenCommands),
                       NEW j \in 1 .. Len(ChosenCommands), ChosenCommands[i] = ChosenCommands[j]
                PROVE  i = j
    BY DEF Abstract!NoRepeats
  <1>1. ASSUME NEW k \in 1 .. Len(ChosenCommands)
        PROVE  Known(k, ChosenCommands[k])
    <2>1. PICK e \in chosen : e.index = k
      BY ListedAll
    <2>2. e.entry.cmd = ChosenCommands[k]
      BY <2>1, ChosenListed DEF ChosenIsListed, Listed
    <2>3. QED BY <2>1, <2>2 DEF Known
  <1>2. QED BY <1>1 DEF Once
-----------------------------------------------------------------------------
\* The group is one replicated log

\* A step decides operations or moves a state machine, never both.
LEMMA ChosenOrExecuted ==
  ASSUME [Next]_vars
  PROVE  \/ UNCHANGED sm
         \/ UNCHANGED chosen /\ \E s \in Server : ReaderCommand(s) \/ ReaderSnapshot(s) \/ Restart(s)
  <1>1. CASE UNCHANGED <<applyCh, sm, smIndex, lastApplied, pendingSnapshot, lastIncludedIndex,
                         snapshot>>
    BY <1>1
  <1>2. ASSUME NEW m, HandleInstallSnapshot(m)
        PROVE  UNCHANGED sm
    BY <1>2 DEF HandleInstallSnapshot, rsmVars
  <1>3. ASSUME NEW s \in Server, ApplierSnapshot(s) \/ ApplierCommands(s)
        PROVE  UNCHANGED sm
    BY <1>3 DEF ApplierSnapshot, ApplierCommands
  <1>4. ASSUME NEW s \in Server, ReaderCommand(s) \/ ReaderSnapshot(s) \/ Restart(s)
        PROVE  UNCHANGED chosen
    BY <1>4 DEF ReaderCommand, ReaderSnapshot, Restart, commitVars
  <1>5. QED BY <1>1, <1>2, <1>3, <1>4, DeliveryActs DEF DeliveryActions

\* Such a step moves one of them.
LEMMA OneMachine ==
  ASSUME TypeOK, NEW s \in Server, ReaderCommand(s) \/ ReaderSnapshot(s) \/ Restart(s)
  PROVE  sm' = [sm EXCEPT ![s] = sm'[s]]
  <1>1. sm \in [Server -> Seq(Command)]
    BY DeliveryTypes
  <1>2. CASE ReaderCommand(s)
    BY <1>1, <1>2 DEF ReaderCommand
  <1>3. CASE ReaderSnapshot(s)
    BY <1>1, <1>3 DEF ReaderSnapshot
  <1>4. CASE Restart(s)
    BY <1>1, <1>4 DEF Restart
  <1>5. QED BY <1>2, <1>3, <1>4

PrefixesStand ==
  \A n : \A d \in Seq(Command) : Stands(n, d) =>
    n <= Len(ChosenCommands) /\ d = SubSeq(ChosenCommands, 1, n)

LEMMA AllPrefixesStand == SafeInv => PrefixesStand
  BY StandsForPrefix DEF PrefixesStand

\* Every decision is a Choose.
LEMMA StepChooses ==
  ASSUME TypeOK, [Next]_vars, SafeInv, SafeInv', Once', UNCHANGED sm
  PROVE  Abstract!Choose \/ UNCHANGED <<ChosenCommands, sm>>
  <1>. DEFINE old == ChosenCommands
              new == ChosenCommands'
  <1>1. old \in Seq(Command) /\ Len(old) \in Nat /\ Stands(Len(old), old)
    BY ChosenListed DEF ChosenIsListed, Stands
  <1>2. new \in Seq(Command) /\ Len(new) \in Nat
    <2>1. (SafeInv => ChosenIsListed)'
      BY ChosenListed, PTL
    <2>2. QED BY <2>1 DEF ChosenIsListed
  <1>3. Len(old) <= Len(new) /\ \A k \in 1 .. Len(old) : new[k] = old[k]
    BY ListGrows
  <1>4. CASE Len(new) = Len(old)
    BY <1>1, <1>2, <1>3, <1>4, SeqEqual
  <1>5. CASE Len(new) > Len(old)
    <2>1. old \in Abstract!Prefixes(new)
      <3>1. (SafeInv => PrefixesStand)'
        BY AllPrefixesStand, PTL
      <3>2. PICK n, d : n = Len(old) /\ d = old
        OBVIOUS
      <3>3. Stands(n, d)'
        BY <1>1, <3>2, StandsStays
      <3>4. n \in 0 .. Len(new) /\ d = SubSeq(new, 1, n)
        BY <1>1, <1>2, <3>1, <3>2, <3>3 DEF PrefixesStand
      <3>5. QED BY <3>2, <3>4 DEF Abstract!Prefixes
    <2>2. Abstract!NoRepeats(new)
      <3>1. (SafeInv /\ Once => Abstract!NoRepeats(ChosenCommands))'
        BY NothingIsRepeated, PTL
      <3>2. QED BY <3>1 DEF Abstract!NoRepeats
    <2>3. QED BY <1>2, <1>5, <2>1, <2>2 DEF Abstract!Choose
  <1>6. QED BY <1>1, <1>2, <1>3, <1>4, <1>5

\* Every move of a state machine is an Execute or a Crash.
LEMMA StepExecutes ==
  ASSUME TypeOK, TypeOK', DeliveryInOrder, [Next]_vars, SafeInv, Faithful, Faithful',
         UNCHANGED chosen, NEW s \in Server, ReaderCommand(s) \/ ReaderSnapshot(s) \/ Restart(s)
  PROVE  Abstract!Next \/ UNCHANGED <<ChosenCommands, sm>>
  <1>. DEFINE new == sm'[s]
  <1>1. /\ sm \in [Server -> Seq(Command)] /\ sm' = [sm EXCEPT ![s] = new]
        /\ sm' \in [Server -> Seq(Command)] /\ restarts \in Nat
    BY OneMachine DEF TypeOK, RsmTyped
  <1>2. UNCHANGED ChosenCommands
    BY DEF ChosenCommands
  <1>3. /\ sm[s] = SubSeq(ChosenCommands, 1, smIndex[s]) /\ Len(sm[s]) = smIndex[s]
        /\ smIndex[s] \in 0 .. Len(ChosenCommands)
    <2>1. Stands(smIndex[s], sm[s])
      BY DEF Faithful
    <2>2. QED BY <1>1, <2>1, StandsForPrefix DEF Stands
  <1>4. /\ new = SubSeq(ChosenCommands, 1, smIndex'[s]) /\ Len(new) = smIndex'[s]
        /\ smIndex'[s] \in 0 .. Len(ChosenCommands)
    <2>1. Stands(smIndex[s], sm[s])'
      BY DEF Faithful
    <2>2. Stands(smIndex'[s], new)
      BY <1>2, <2>1 DEF Stands
    <2>3. QED BY <1>1, <2>2, StandsForPrefix DEF Stands
  <1>5. CASE Restart(s)
    <2>1. new = <<>>
      BY <1>1, <1>5 DEF Restart
    <2>2. CASE sm[s] = <<>>
      BY <1>1, <1>2, <2>1, <2>2
    <2>3. CASE sm[s] # <<>>
      BY <1>1, <1>2, <2>1, <2>3 DEF Abstract!Crash, Abstract!Next
    <2>4. QED BY <2>2, <2>3
  <1>6. CASE ReaderCommand(s) \/ ReaderSnapshot(s)
    <2>1. restarts' = restarts
      BY <1>6 DEF ReaderCommand, ReaderSnapshot
    <2>2. smIndex'[s] >= smIndex[s]
      BY <2>1, MachinesRise
    <2>3. CASE smIndex'[s] = smIndex[s]
      BY <1>1, <1>2, <1>3, <1>4, <2>3
    <2>4. CASE smIndex'[s] # smIndex[s]
      <3>1. Len(new) > Len(sm[s])
        BY <1>3, <1>4, <2>2, <2>4, LenProperties
      <3>2. new \in Abstract!Prefixes(ChosenCommands)
        BY <1>4 DEF Abstract!Prefixes
      <3>3. QED BY <1>1, <1>2, <3>1, <3>2 DEF Abstract!Execute, Abstract!Next
    <2>5. QED BY <2>3, <2>4
  <1>7. QED BY <1>5, <1>6

\* As long as no peer comes back from a snapshot, the group is one replicated log:
\* operations are decided once and for all, each at most once, and every state
\* machine goes from one prefix to a longer one, or crashes (RSM, Raft).
THEOREM GroupIsReplicatedLog == Spec /\ [][CrashesEarly]_vars => ImplementsReplicatedLog
  <1>1. Init => Abstract!Init
    <2>1. SUFFICES ASSUME Init PROVE Abstract!Init
      OBVIOUS
    <2>2. chosen = {} /\ sm = [s \in Server |-> <<>>]
      BY <2>1 DEF Init
    <2>3. SafeInv /\ ChosenIsListed
      BY <2>1, InitSafe, ChosenListed
    <2>4. ChosenCommands = <<>>
      <3>1. Len(ChosenCommands) = 0
        BY <2>2, <2>3, ListedAll DEF ChosenIsListed
      <3>2. QED BY <2>3, <3>1 DEF ChosenIsListed
    <2>5. QED BY <2>2, <2>4 DEF Abstract!Init
  <1>2. /\ TypeOK /\ TypeOK' /\ DeliveryInOrder /\ [Next]_vars /\ SafeInv /\ SafeInv' /\ Once'
        /\ Faithful /\ Faithful'
        => [Abstract!Next]_<<ChosenCommands, sm>>
    <2>1. SUFFICES ASSUME TypeOK, TypeOK', DeliveryInOrder, [Next]_vars, SafeInv, SafeInv', Once',
                          Faithful, Faithful'
                   PROVE  Abstract!Next \/ UNCHANGED <<ChosenCommands, sm>>
      OBVIOUS
    <2>2. CASE UNCHANGED sm
      BY <2>1, <2>2, StepChooses DEF Abstract!Next
    <2>3. CASE ~UNCHANGED sm
      BY <2>1, <2>3, ChosenOrExecuted, StepExecutes
    <2>4. QED BY <2>2, <2>3
  <1>3. QED
    BY <1>1, <1>2, TypeCorrect, DeliveryIsInOrder, CommitsInOrder, OperationsAreOnce,
       DeliveredIsFaithful, PTL DEF Spec, ImplementsReplicatedLog, Abstract!Spec
=============================================================================
