----------------------------- MODULE RaftProofs -----------------------------
(***************************************************************************)
(* Type correctness and election safety of the peers of module Raft, for   *)
(* any group, any set of operations and any bounds.                        *)
(***************************************************************************)
EXTENDS RaftProperties, FiniteSetTheorems, SequenceTheorems, TLAPS

-----------------------------------------------------------------------------
\* The network

\* What is sent is added to what is in flight, and nothing else is: a message
\* may be lost on the way.
LEMMA SendAllAdds ==
  ASSUME NEW S, SendAll(S)
  PROVE  network' \subseteq network \cup S
  BY DEF SendAll

\* So it is for the answer to a message, which may itself stay in flight.
LEMMA AnswerAdds ==
  ASSUME NEW m, NEW S, Answer(m, S)
  PROVE  network' \subseteq network \cup S
  BY DEF Answer

\* An answer that is a message leaves only messages in flight.
LEMMA AnswerTypes ==
  ASSUME network \subseteq Message, NEW m, NEW r \in Message, Answer(m, {r})
  PROVE  network' \subseteq Message
  BY AnswerAdds

\* A message that is handled has the fields of its kind.
LEMMA ReceivedTypes ==
  ASSUME network \subseteq Message
  PROVE  /\ Received("RequestVote") \subseteq VoteRequests
         /\ Received("RequestVoteReply") \subseteq VoteReplies
         /\ Received("AppendEntries") \subseteq AppendRequests
         /\ Received("AppendEntriesReply") \subseteq AppendReplies
         /\ Received("InstallSnapshot") \subseteq InstallRequests
         /\ Received("InstallSnapshotReply") \subseteq InstallReplies
  BY DEF Received, Message, VoteRequests, VoteReplies, AppendRequests, AppendReplies,
         InstallRequests, InstallReplies

-----------------------------------------------------------------------------
\* Logs

\* The entries of a log, the terms it reports and its last index are well typed.
LEMMA LogTypes ==
  ASSUME LogTyped, NEW s \in Server
  PROVE  /\ LastLogIndex(s) \in Nat /\ LastLogIndex(s) >= lastIncludedIndex[s]
         /\ \A i \in Indices(s) : LogEntry(s, i) \in Entry
         /\ \A i \in lastIncludedIndex[s] .. LastLogIndex(s) : LogTerm(s, i) \in Nat
  <1>1. log[s] \in Seq(Entry) /\ lastIncludedIndex[s] \in Nat /\ lastIncludedTerm[s] \in Nat
    BY DEF LogTyped
  <1>2. Len(log[s]) \in Nat /\ \A k \in 1 .. Len(log[s]) : log[s][k] \in Entry
    BY <1>1, ElementOfSeq, LenProperties
  <1>3. \A i \in Indices(s) : LogEntry(s, i) \in Entry
    BY <1>1, <1>2 DEF Indices, LastLogIndex, LogEntry
  <1>4. \A i \in lastIncludedIndex[s] .. LastLogIndex(s) : LogTerm(s, i) \in Nat
    <2>1. SUFFICES ASSUME NEW i \in lastIncludedIndex[s] .. LastLogIndex(s)
                   PROVE  LogTerm(s, i) \in Nat
      OBVIOUS
    <2>2. CASE i = lastIncludedIndex[s]
      BY <1>1, <2>2 DEF LogTerm
    <2>3. CASE i # lastIncludedIndex[s]
      <3>1. i \in Indices(s)
        BY <1>1, <1>2, <2>3 DEF Indices, LastLogIndex
      <3>2. QED BY <1>3, <2>3, <3>1 DEF LogTerm, Entry
    <2>4. QED BY <2>2, <2>3
  <1>5. QED BY <1>1, <1>2, <1>3, <1>4 DEF LastLogIndex

\* The tail of a log is a log.
LEMMA TailOfLog ==
  ASSUME LogTyped, NEW s \in Server, NEW i \in Nat, i >= lastIncludedIndex[s]
  PROVE  SubSeq(log[s], i + 1 - lastIncludedIndex[s], Len(log[s])) \in Seq(Entry)
  <1>1. log[s] \in Seq(Entry) /\ lastIncludedIndex[s] \in Nat
    BY DEF LogTyped
  <1>2. Len(log[s]) \in Nat /\ \A k \in 1 .. Len(log[s]) : log[s][k] \in Entry
    BY <1>1, ElementOfSeq, LenProperties
  <1>3. \A k \in i + 1 - lastIncludedIndex[s] .. Len(log[s]) : log[s][k] \in Entry
    BY <1>1, <1>2
  <1>4. i + 1 - lastIncludedIndex[s] \in Int
    BY <1>1
  <1>5. QED BY <1>2, <1>3, <1>4, SubSeqProperties

-----------------------------------------------------------------------------
\* Type correctness of the parts the handlers share

\* A function keeps its type when one of its values is replaced by another.
LEMMA UpdateTypes ==
  ASSUME NEW S, NEW T, NEW f \in [S -> T], NEW s \in S, NEW v \in T
  PROVE  [f EXCEPT ![s] = v] \in [S -> T]
  OBVIOUS

\* Variables that do not change keep their types.
LEMMA UnchangedTypes ==
  /\ ElectionTyped /\ UNCHANGED <<currentTerm, votedFor, role, votes>> => ElectionTyped'
  /\ LogTyped /\ UNCHANGED logVars => LogTyped'
  /\ LeaderTyped /\ UNCHANGED leaderVars => LeaderTyped'
  /\ CommitTyped /\ UNCHANGED commitVars => CommitTyped'
  /\ RsmTyped /\ UNCHANGED rsmVars => RsmTyped'
  BY DEF ElectionTyped, LogTyped, LeaderTyped, CommitTyped, RsmTyped, logVars, leaderVars,
         commitVars, rsmVars

LEMMA InitTypes == Init => TypeOK
  BY DEF Init, TypeOK, ElectionTyped, LogTyped, LeaderTyped, CommitTyped, RsmTyped, Role,
         NoSnapshot

\* A peer that forgets its leader's fields leaves them well typed.
LEMMA ForgetLeaderTypes ==
  ASSUME LeaderTyped, NEW s \in Server, ForgetLeaderState(s)
  PROVE  LeaderTyped'
  <1>1. [p \in Server |-> 0] \in [Server -> Nat] /\ {} \in SUBSET Server
    OBVIOUS
  <1>2. nextIndex' \in [Server -> [Server -> Nat]] /\ matchIndex' \in [Server -> [Server -> Nat]]
    BY <1>1, UpdateTypes DEF ForgetLeaderState, LeaderTyped
  <1>3. snapshotDue' \in [Server -> SUBSET Server]
    BY <1>1, UpdateTypes DEF ForgetLeaderState, LeaderTyped
  <1>4. QED BY <1>2, <1>3 DEF LeaderTyped

\* So does one that forgets them only if it is now a follower.
LEMMA ForgetTypes ==
  ASSUME ElectionTyped, LeaderTyped, NEW s \in Server, ForgetIfFollower(s)
  PROVE  votes' \in [Server -> SUBSET Server] /\ LeaderTyped'
  <1>1. votes \in [Server -> SUBSET Server] /\ {} \in SUBSET Server
    BY DEF ElectionTyped
  <1>2. CASE role'[s] = "Follower"
    <2>1. votes' = [votes EXCEPT ![s] = {}] /\ ForgetLeaderState(s)
      BY <1>2 DEF ForgetIfFollower
    <2>2. QED BY <1>1, <2>1, ForgetLeaderTypes, UpdateTypes
  <1>3. CASE role'[s] # "Follower"
    BY <1>1, <1>3, UnchangedTypes DEF ForgetIfFollower
  <1>4. QED BY <1>2, <1>3

LEMMA VoteInTermType ==
  ASSUME ElectionTyped, NEW s \in Server, NEW term
  PROVE  VoteInTerm(s, term) \in Server \cup {Nobody}
  BY DEF ElectionTyped, VoteInTerm

\* Stepping down on a reply, and adopting the term of a request.
LEMMA StepDownTypes ==
  ASSUME ElectionTyped, LeaderTyped, NEW s \in Server, NEW term \in Nat, StepDown(s, term)
  PROVE  ElectionTyped' /\ LeaderTyped'
  <1>1. ForgetIfFollower(s)
    BY DEF StepDown
  <1>2. QED BY <1>1, ForgetTypes DEF ElectionTyped, StepDown, Role

LEMMA AdoptTermTypes ==
  ASSUME ElectionTyped, LeaderTyped, NEW s \in Server, NEW term \in Nat, AdoptTerm(s, term)
  PROVE  ElectionTyped' /\ LeaderTyped'
  <1>1. ForgetIfFollower(s)
    BY DEF AdoptTerm
  <1>2. VoteInTerm(s, term) \in Server \cup {Nobody}
    BY VoteInTermType
  <1>3. votedFor' \in [Server -> Server \cup {Nobody}]
    BY <1>2, UpdateTypes DEF ElectionTyped, AdoptTerm
  <1>4. currentTerm' \in [Server -> Nat] /\ role' \in [Server -> Role]
    BY DEF ElectionTyped, AdoptTerm, Larger, Role
  <1>5. QED BY <1>1, <1>3, <1>4, ForgetTypes DEF ElectionTyped

-----------------------------------------------------------------------------
\* Type correctness, one lemma per action

LEMMA StartElectionTypes ==
  ASSUME TypeOK, NEW s \in Server, StartElection(s)
  PROVE  TypeOK'
  <1>1. /\ ElectionTyped /\ LogTyped /\ LeaderTyped /\ CommitTyped /\ RsmTyped
        /\ network \subseteq Message /\ currentTerm[s] \in Nat
    BY DEF TypeOK, ElectionTyped
  <1>2. LastLogIndex(s) \in Nat /\ LastLogTerm(s) \in Nat
    BY <1>1, LogTypes DEF LastLogTerm
  <1>3. \A p \in Server \ {s} :
          [kind |-> "RequestVote", src |-> s, dst |-> p, term |-> currentTerm[s] + 1,
           lastLogIndex |-> LastLogIndex(s), lastLogTerm |-> LastLogTerm(s)] \in VoteRequests
    BY <1>1, <1>2 DEF VoteRequests
  <1>4. network' \subseteq Message
    BY <1>1, <1>3, SendAllAdds DEF StartElection, Message
  <1>5. LeaderTyped'
    BY <1>1, ForgetLeaderTypes DEF StartElection
  <1>6. votes' \in [Server -> SUBSET Server]
    <2>1. votes \in [Server -> SUBSET Server] /\ {s} \in SUBSET Server
      BY <1>1 DEF ElectionTyped
    <2>2. QED BY <2>1, UpdateTypes DEF StartElection
  <1>7. ElectionTyped'
    BY <1>1, <1>6 DEF ElectionTyped, StartElection, Role
  <1>8. QED BY <1>1, <1>4, <1>5, <1>7, UnchangedTypes DEF TypeOK, StartElection

LEMMA HandleRequestVoteTypes ==
  ASSUME TypeOK, NEW m \in Received("RequestVote"), HandleRequestVote(m)
  PROVE  TypeOK'
  <1>. DEFINE s == m.dst
  <1>1. /\ ElectionTyped /\ LogTyped /\ LeaderTyped /\ CommitTyped /\ RsmTyped
        /\ network \subseteq Message
    BY DEF TypeOK
  <1>2. s \in Server /\ m.src \in Server /\ m.term \in Nat
    BY <1>1, ReceivedTypes DEF VoteRequests
  <1>3. Grants(m, s) \in BOOLEAN /\ currentTerm[s] \in Nat
    BY <1>1, <1>2 DEF Grants, ElectionTyped
  <1>4. [kind |-> "RequestVoteReply", src |-> s, dst |-> m.src, reqTerm |-> m.term,
         term |-> currentTerm[s], granted |-> Grants(m, s)] \in VoteReplies
    BY <1>2, <1>3 DEF VoteReplies
  <1>5. network' \subseteq Message
    BY <1>1, <1>4, AnswerAdds DEF HandleRequestVote, Message
  <1>6. votes' \in [Server -> SUBSET Server] /\ LeaderTyped'
    BY <1>1, <1>2, ForgetTypes DEF HandleRequestVote
  <1>7. votedFor' \in [Server -> Server \cup {Nobody}]
    <2>1. VoteInTerm(s, m.term) \in Server \cup {Nobody}
      BY <1>1, <1>2, VoteInTermType
    <2>2. QED BY <1>1, <1>2, <2>1, UpdateTypes DEF ElectionTyped, HandleRequestVote
  <1>8. ElectionTyped'
    BY <1>1, <1>2, <1>6, <1>7 DEF ElectionTyped, HandleRequestVote, Larger, Role
  <1>9. QED BY <1>1, <1>5, <1>6, <1>8, UnchangedTypes DEF TypeOK, HandleRequestVote

LEMMA HandleVoteReplyTypes ==
  ASSUME TypeOK, NEW m \in Received("RequestVoteReply"), HandleVoteReply(m)
  PROVE  TypeOK'
  <1>. DEFINE s == m.dst
              wins == Majority(votes[s] \cup {m.src})
              next == IF wins THEN [p \in Server |-> FirstNextIndex(s)] ELSE nextIndex[s]
              match == IF wins THEN [p \in Server |-> 0] ELSE matchIndex[s]
              due == IF wins THEN {} ELSE snapshotDue[s]
  <1>1. /\ ElectionTyped /\ LogTyped /\ LeaderTyped /\ CommitTyped /\ RsmTyped
        /\ network \subseteq Message
    BY DEF TypeOK
  <1>2. s \in Server /\ m.src \in Server /\ m.term \in Nat /\ currentTerm[s] \in Nat
    BY <1>1, ReceivedTypes DEF VoteReplies, ElectionTyped
  <1>3. network' \subseteq Message
    BY <1>1, AnswerAdds DEF HandleVoteReply
  <1>4. CASE m.term > currentTerm[s]
    <2>1. StepDown(s, m.term)
      BY <1>2, <1>4 DEF HandleVoteReply
    <2>2. ElectionTyped' /\ LeaderTyped'
      BY <1>1, <1>2, <2>1, StepDownTypes
    <2>3. QED BY <1>1, <1>3, <2>2, UnchangedTypes DEF TypeOK, HandleVoteReply
  <1>5. CASE ~(m.term > currentTerm[s])
    <2>1. /\ votes' = [votes EXCEPT ![s] = votes[s] \cup {m.src}]
          /\ role' = [role EXCEPT ![s] = IF wins THEN "Leader" ELSE role[s]]
          /\ nextIndex' = [nextIndex EXCEPT ![s] = next]
          /\ matchIndex' = [matchIndex EXCEPT ![s] = match]
          /\ snapshotDue' = [snapshotDue EXCEPT ![s] = due]
          /\ UNCHANGED <<currentTerm, votedFor>>
      BY <1>5 DEF HandleVoteReply
    <2>2. votes[s] \cup {m.src} \in SUBSET Server /\ role' \in [Server -> Role]
      BY <1>1, <1>2, <2>1 DEF ElectionTyped, Role
    <2>3. ElectionTyped'
      BY <1>1, <1>2, <2>1, <2>2, UpdateTypes DEF ElectionTyped
    <2>4. [p \in Server |-> FirstNextIndex(s)] \in [Server -> Nat]
      BY <1>1, <1>2, LogTypes DEF FirstNextIndex
    <2>5. next \in [Server -> Nat] /\ match \in [Server -> Nat] /\ due \in SUBSET Server
      BY <1>1, <1>2, <2>4 DEF LeaderTyped
    <2>. HIDE DEF next, match, due
    <2>6. LeaderTyped'
      BY <1>1, <1>2, <2>1, <2>5, UpdateTypes DEF LeaderTyped
    <2>7. QED BY <1>1, <1>3, <2>3, <2>6, UnchangedTypes DEF TypeOK, HandleVoteReply
  <1>6. QED BY <1>4, <1>5

LEMMA StartTypes ==
  ASSUME TypeOK, NEW s \in Server, NEW cmd \in Command, Start(s, cmd)
  PROVE  TypeOK'
  <1>1. ElectionTyped /\ LogTyped /\ LeaderTyped /\ CommitTyped /\ RsmTyped
    BY DEF TypeOK
  <1>2. LogTyped'
    <2>1. log[s] \in Seq(Entry) /\ [term |-> currentTerm[s], cmd |-> cmd] \in Entry
      BY <1>1 DEF LogTyped, ElectionTyped, Entry
    <2>2. Append(log[s], [term |-> currentTerm[s], cmd |-> cmd]) \in Seq(Entry)
      BY <2>1, AppendProperties
    <2>3. QED BY <1>1, <2>2, UpdateTypes DEF LogTyped, Start
  <1>3. QED BY <1>1, <1>2, UnchangedTypes DEF TypeOK, Start

LEMMA SendAppendEntriesTypes ==
  ASSUME TypeOK, NEW s \in Server, NEW p \in Server, SendAppendEntries(s, p)
  PROVE  TypeOK'
  <1>. DEFINE prev == nextIndex[s][p] - 1
              tail == SubSeq(log[s], prev + 1 - lastIncludedIndex[s], Len(log[s]))
  <1>1. /\ ElectionTyped /\ LogTyped /\ LeaderTyped /\ CommitTyped /\ RsmTyped
        /\ lastIncludedIndex[s] \in Nat /\ currentTerm[s] \in Nat /\ commitIndex[s] \in Nat
        /\ network \subseteq Message
    BY DEF TypeOK, LogTyped, ElectionTyped, CommitTyped
  <1>2. prev \in lastIncludedIndex[s] .. LastLogIndex(s)
    BY DEF SendAppendEntries
  <1>3. prev \in Nat /\ prev >= lastIncludedIndex[s]
    BY <1>1, <1>2, LogTypes
  <1>4. LogTerm(s, prev) \in Nat
    BY <1>1, <1>2, LogTypes
  <1>5. tail \in Seq(Entry)
    BY <1>1, <1>3, TailOfLog
  <1>6. [kind |-> "AppendEntries", src |-> s, dst |-> p, term |-> currentTerm[s],
         prevLogIndex |-> prev, prevLogTerm |-> LogTerm(s, prev),
         entries |-> tail, leaderCommit |-> commitIndex[s]] \in AppendRequests
    BY <1>1, <1>3, <1>4, <1>5 DEF AppendRequests
  <1>7. network' \subseteq Message
    BY <1>1, <1>6, SendAllAdds DEF SendAppendEntries, Message
  <1>8. QED BY <1>1, <1>7, UnchangedTypes DEF TypeOK, SendAppendEntries

\* A reply to an AppendEntries with the hint fields it may have.
LEMMA AppendReplyType ==
  ASSUME ElectionTyped, NEW m \in AppendRequests, NEW success \in BOOLEAN,
         NEW xTerm \in Int, NEW xIndex \in Int, NEW xLen \in Int
  PROVE  AppendReply(m, success, xTerm, xIndex, xLen) \in Message
  <1>1. m.src \in Server /\ m.dst \in Server /\ m.term \in Nat /\ m.prevLogIndex \in Nat
    BY DEF AppendRequests
  <1>2. m.entries \in Seq(Entry)
    BY DEF AppendRequests
  <1>3. Len(m.entries) \in Nat
    BY <1>2, LenProperties
  <1>4. m.prevLogIndex + Len(m.entries) \in Nat /\ currentTerm[m.dst] \in Nat
    BY <1>1, <1>3 DEF ElectionTyped
  <1>5. QED BY <1>1, <1>4 DEF AppendReply, AppendReplies, Message

\* The merge of a log and a request's entries is a log.
LEMMA MergeTypes ==
  ASSUME LogTyped, NEW m \in AppendRequests, PrevMatches(m, m.dst), MergeEntries(m, m.dst)
  PROVE  log' \in [Server -> Seq(Entry)]
  <1>. DEFINE s == m.dst
  <1>1. /\ s \in Server /\ m.prevLogIndex \in Nat /\ m.entries \in Seq(Entry)
    BY DEF AppendRequests
  <1>2. /\ log \in [Server -> Seq(Entry)] /\ log[s] \in Seq(Entry)
        /\ lastIncludedIndex[s] \in Nat
    BY <1>1 DEF LogTyped
  <1>3. /\ Len(log[s]) \in Nat /\ \A k \in 1 .. Len(log[s]) : log[s][k] \in Entry
        /\ Len(m.entries) \in Nat /\ \A k \in 1 .. Len(m.entries) : m.entries[k] \in Entry
    BY <1>1, <1>2, ElementOfSeq, LenProperties
  <1>4. CASE UNCHANGED log
    BY <1>2, <1>4
  <1>5. CASE \E k \in 1 .. Len(m.entries) :
               /\ Differs(m, s, k) /\ \A l \in 1 .. k - 1 : ~Differs(m, s, l)
               /\ log' = [log EXCEPT ![s] =
                    SubSeq(log[s], 1, m.prevLogIndex + k - 1 - lastIncludedIndex[s])
                      \o SubSeq(m.entries, k, Len(m.entries))]
    <2>1. PICK k \in 1 .. Len(m.entries) :
               /\ Differs(m, s, k) /\ \A l \in 1 .. k - 1 : ~Differs(m, s, l)
               /\ log' = [log EXCEPT ![s] =
                    SubSeq(log[s], 1, m.prevLogIndex + k - 1 - lastIncludedIndex[s])
                      \o SubSeq(m.entries, k, Len(m.entries))]
      BY <1>5
    <2>. DEFINE upTo == m.prevLogIndex + k - 1 - lastIncludedIndex[s]
    <2>2. k \in Nat /\ k >= 1 /\ upTo \in Int
      BY <1>1, <1>2, <1>3
    <2>3. upTo <= Len(log[s])
      <3>1. CASE k = 1
        BY <1>1, <1>2, <1>3, <3>1 DEF PrevMatches, PrevInLog, LastLogIndex
      <3>2. CASE k > 1
        <4>1. k - 1 \in 1 .. k - 1
          BY <2>2, <3>2
        <4>2. ~Differs(m, s, k - 1)
          BY <2>1, <4>1
        <4>3. m.prevLogIndex + (k - 1) <= lastIncludedIndex[s] + Len(log[s])
          BY <4>2 DEF Differs, LastLogIndex
        <4>4. QED BY <1>1, <1>2, <1>3, <2>2, <4>3
      <3>3. QED BY <2>2, <3>1, <3>2
    <2>4. \A i \in 1 .. upTo : log[s][i] \in Entry
      BY <1>3, <2>2, <2>3
    <2>5. SubSeq(log[s], 1, upTo) \in Seq(Entry)
      BY <2>2, <2>4, SubSeqProperties
    <2>6. \A i \in k .. Len(m.entries) : m.entries[i] \in Entry
      BY <1>3, <2>2
    <2>7. SubSeq(m.entries, k, Len(m.entries)) \in Seq(Entry)
      BY <1>3, <2>2, <2>6, SubSeqProperties
    <2>8. SubSeq(log[s], 1, upTo) \o SubSeq(m.entries, k, Len(m.entries)) \in Seq(Entry)
      BY <2>5, <2>7, ConcatProperties
    <2>9. QED BY <1>1, <1>2, <2>1, <2>8, UpdateTypes
  <1>6. QED BY <1>4, <1>5 DEF MergeEntries

\* Every refusal is a well-typed reply.
LEMMA RefuseTypes ==
  ASSUME ElectionTyped, LogTyped, network \subseteq Message, NEW m \in AppendRequests,
         RefuseAppend(m)
  PROVE  network' \subseteq Message
  <1>. DEFINE s == m.dst
  <1>1. s \in Server /\ m.prevLogIndex \in Nat
    BY DEF AppendRequests
  <1>2. lastIncludedIndex[s] \in Nat /\ LastLogIndex(s) \in Nat
    BY <1>1, LogTypes DEF LogTyped
  <1>3. -1 \in Int /\ LastLogIndex(s) + 1 \in Int /\ lastIncludedIndex[s] + 1 \in Int
    BY <1>2
  <1>4. CASE Answer(m, {AppendReply(m, FALSE, -1, -1, LastLogIndex(s) + 1)})
    <2>1. AppendReply(m, FALSE, -1, -1, LastLogIndex(s) + 1) \in Message
      BY <1>3, AppendReplyType
    <2>2. QED BY <1>4, <2>1, AnswerTypes
  <1>5. CASE Answer(m, {AppendReply(m, FALSE, -1, -1, lastIncludedIndex[s] + 1)})
    <2>1. AppendReply(m, FALSE, -1, -1, lastIncludedIndex[s] + 1) \in Message
      BY <1>3, AppendReplyType
    <2>2. QED BY <1>5, <2>1, AnswerTypes
  <1>6. CASE PrevInLog(m, s) /\ \E x \in lastIncludedIndex[s] .. m.prevLogIndex :
               Answer(m, {AppendReply(m, FALSE, LogTerm(s, m.prevLogIndex), x,
                                      LastLogIndex(s) + 1)})
    <2>1. PICK x \in lastIncludedIndex[s] .. m.prevLogIndex :
               Answer(m, {AppendReply(m, FALSE, LogTerm(s, m.prevLogIndex), x,
                                      LastLogIndex(s) + 1)})
      BY <1>6
    <2>2. LogTerm(s, m.prevLogIndex) \in Int
      BY <1>1, <1>6, LogTypes DEF PrevInLog
    <2>3. x \in Int
      BY <1>1, <1>2
    <2>4. AppendReply(m, FALSE, LogTerm(s, m.prevLogIndex), x, LastLogIndex(s) + 1) \in Message
      BY <1>3, <2>2, <2>3, AppendReplyType
    <2>5. QED BY <2>1, <2>4, AnswerTypes
  <1>7. QED BY <1>4, <1>5, <1>6 DEF RefuseAppend

LEMMA HandleAppendEntriesTypes ==
  ASSUME TypeOK, NEW m \in Received("AppendEntries"), HandleAppendEntries(m)
  PROVE  TypeOK'
  <1>. DEFINE s == m.dst
  <1>1. /\ ElectionTyped /\ LogTyped /\ LeaderTyped /\ CommitTyped /\ RsmTyped
        /\ network \subseteq Message
    BY DEF TypeOK
  <1>2. m \in AppendRequests
    BY <1>1, ReceivedTypes
  <1>3. s \in Server /\ m.term \in Nat /\ m.leaderCommit \in Nat
    BY <1>2 DEF AppendRequests
  <1>4. ElectionTyped' /\ LeaderTyped'
    BY <1>1, <1>3, AdoptTermTypes, UnchangedTypes DEF HandleAppendEntries
  <1>5. network' \subseteq Message
    <2>1. AppendReply(m, FALSE, 0, 0, 0) \in Message /\ AppendReply(m, TRUE, 0, 0, 0) \in Message
      <3>1. 0 \in Int /\ FALSE \in BOOLEAN /\ TRUE \in BOOLEAN
        OBVIOUS
      <3>2. AppendReply(m, FALSE, 0, 0, 0) \in Message
        BY <1>1, <1>2, <3>1, AppendReplyType, Zenon
      <3>3. AppendReply(m, TRUE, 0, 0, 0) \in Message
        BY <1>1, <1>2, <3>1, AppendReplyType, Zenon
      <3>4. QED BY <3>2, <3>3
    <2>2. CASE Answer(m, {AppendReply(m, FALSE, 0, 0, 0)})
      BY <1>1, <2>1, <2>2, AnswerTypes
    <2>3. CASE RefuseAppend(m)
      BY <1>1, <1>2, <2>3, RefuseTypes
    <2>4. CASE AcceptAppend(m)
      BY <1>1, <2>1, <2>4, AnswerTypes DEF AcceptAppend
    <2>5. QED BY <2>2, <2>3, <2>4 DEF HandleAppendEntries
  <1>6. log' \in [Server -> Seq(Entry)] /\ commitIndex' \in [Server -> Nat]
    <2>1. CASE UNCHANGED <<log, commitIndex>>
      BY <1>1, <2>1 DEF LogTyped, CommitTyped
    <2>2. CASE AcceptAppend(m)
      <3>1. log' \in [Server -> Seq(Entry)]
        BY <1>1, <1>2, <2>2, MergeTypes DEF AcceptAppend
      <3>2. lastIncludedIndex[s] + Len(log'[s]) \in Nat
        BY <1>1, <1>3, <3>1, LenProperties DEF LogTyped
      <3>3. CommitUpTo(m, lastIncludedIndex[s] + Len(log'[s])) \in Nat
        BY <1>3, <3>2 DEF CommitUpTo, Smaller
      <3>4. commitIndex' \in [Server -> Nat]
        BY <1>1, <1>3, <2>2, <3>3, UpdateTypes DEF AcceptAppend, CommitTyped
      <3>5. QED BY <3>1, <3>4
    <2>3. QED BY <2>1, <2>2 DEF HandleAppendEntries
  <1>7. LogTyped' /\ CommitTyped'
    BY <1>1, <1>6 DEF HandleAppendEntries, LogTyped, CommitTyped
  <1>8. QED BY <1>1, <1>4, <1>5, <1>7, UnchangedTypes DEF TypeOK, HandleAppendEntries

\* A leader's progress for peer p, nested one function deeper.
LEMMA ProgressTypes ==
  ASSUME NEW f \in [Server -> [Server -> Nat]], NEW s \in Server, NEW p \in Server, NEW n \in Nat
  PROVE  [f EXCEPT ![s][p] = n] \in [Server -> [Server -> Nat]]
  <1>1. [f[s] EXCEPT ![p] = n] \in [Server -> Nat]
    OBVIOUS
  <1>2. [f EXCEPT ![s] = [f[s] EXCEPT ![p] = n]] \in [Server -> [Server -> Nat]]
    BY <1>1, UpdateTypes
  <1>3. QED BY <1>2

\* What a leader newly commits are entries of its log.
LEMMA AdvanceCommitTypes ==
  ASSUME LogTyped, CommitTyped, NEW s \in Server, NEW match, AdvanceCommit(s, match)
  PROVE  /\ commitIndex' \in [Server -> Nat]
         /\ chosen' \subseteq [index : Nat, entry : Entry]
  <1>1. CASE UNCHANGED <<commitIndex, chosen>>
    BY <1>1 DEF CommitTyped
  <1>2. CASE \E n \in Committable(s, match) :
               /\ commitIndex' = [commitIndex EXCEPT ![s] = n]
               /\ chosen' = chosen \cup {[index |-> k, entry |-> LogEntry(s, k)] :
                            k \in {i \in Indices(s) : commitIndex[s] < i /\ i <= n}}
    <2>1. PICK n \in Committable(s, match) :
               /\ commitIndex' = [commitIndex EXCEPT ![s] = n]
               /\ chosen' = chosen \cup {[index |-> k, entry |-> LogEntry(s, k)] :
                            k \in {i \in Indices(s) : commitIndex[s] < i /\ i <= n}}
      BY <1>2
    <2>2. \A i \in Indices(s) : i \in Nat /\ LogEntry(s, i) \in Entry
      BY LogTypes DEF Indices, LogTyped
    <2>3. n \in Nat
      BY <2>2 DEF Committable
    <2>4. commitIndex' \in [Server -> Nat]
      BY <2>1, <2>3 DEF CommitTyped
    <2>5. \A k \in Indices(s) :
            [index |-> k, entry |-> LogEntry(s, k)] \in [index : Nat, entry : Entry]
      BY <2>2
    <2>6. QED BY <2>1, <2>4, <2>5 DEF CommitTyped
  <1>3. QED BY <1>1, <1>2 DEF AdvanceCommit

LEMMA HandleAppendReplyTypes ==
  ASSUME TypeOK, NEW m \in Received("AppendEntriesReply"), HandleAppendReply(m)
  PROVE  TypeOK'
  <1>. DEFINE s == m.dst
              p == m.src
  <1>1. /\ ElectionTyped /\ LogTyped /\ LeaderTyped /\ CommitTyped /\ RsmTyped
        /\ network \subseteq Message
    BY DEF TypeOK
  <1>2. m \in AppendReplies
    BY <1>1, ReceivedTypes
  <1>3. /\ s \in Server /\ p \in Server /\ m.term \in Nat /\ m.match \in Nat
        /\ m.xIndex \in Int /\ m.xLen \in Int
    BY <1>2 DEF AppendReplies
  <1>4. network' \subseteq Message
    BY <1>1, AnswerAdds DEF HandleAppendReply
  <1>5. nextIndex \in [Server -> [Server -> Nat]] /\ matchIndex \in [Server -> [Server -> Nat]]
    BY <1>1 DEF LeaderTyped
  <1>6. CASE m.term > currentTerm[s] /\ StepDown(s, m.term) /\ UNCHANGED <<commitIndex, chosen>>
    <2>1. ElectionTyped' /\ LeaderTyped'
      BY <1>1, <1>3, <1>6, StepDownTypes
    <2>2. QED
      BY <1>1, <1>4, <1>6, <2>1, UnchangedTypes DEF TypeOK, HandleAppendReply, CommitTyped
  <1>7. CASE /\ matchIndex' = [matchIndex EXCEPT ![s][p] = Matched(s, p, m.match)]
             /\ nextIndex' = [nextIndex EXCEPT ![s][p] = Matched(s, p, m.match) + 1]
             /\ AdvanceCommit(s, matchIndex'[s])
             /\ UNCHANGED <<currentTerm, votedFor, role, votes, snapshotDue>>
    <2>1. Matched(s, p, m.match) \in Nat /\ Matched(s, p, m.match) + 1 \in Nat
      BY <1>3, <1>5 DEF Matched, Larger
    <2>2. LeaderTyped'
      BY <1>1, <1>3, <1>5, <1>7, <2>1, ProgressTypes DEF LeaderTyped
    <2>3. CommitTyped'
      BY <1>1, <1>3, <1>7, AdvanceCommitTypes DEF HandleAppendReply, CommitTyped
    <2>4. QED
      BY <1>1, <1>4, <1>7, <2>2, <2>3, UnchangedTypes DEF TypeOK, HandleAppendReply
  <1>8. CASE /\ \E n \in {m.xLen, m.xIndex} \cup lastIncludedIndex[s] + 1 .. LastLogIndex(s) + 1 :
                  nextIndex' = [nextIndex EXCEPT ![s][p] = Larger(n, 1)]
             /\ UNCHANGED <<currentTerm, votedFor, role, votes, matchIndex, snapshotDue,
                            commitIndex, chosen>>
    <2>1. PICK n \in {m.xLen, m.xIndex} \cup lastIncludedIndex[s] + 1 .. LastLogIndex(s) + 1 :
                  nextIndex' = [nextIndex EXCEPT ![s][p] = Larger(n, 1)]
      BY <1>8
    <2>2. n \in Int
      <3>1. lastIncludedIndex[s] \in Nat /\ LastLogIndex(s) \in Nat
        BY <1>1, <1>3, LogTypes DEF LogTyped
      <3>2. QED BY <1>3, <2>1, <3>1
    <2>3. Larger(n, 1) \in Nat
      BY <2>2 DEF Larger
    <2>4. LeaderTyped'
      BY <1>1, <1>3, <1>5, <1>8, <2>1, <2>3, ProgressTypes DEF LeaderTyped
    <2>5. QED
      BY <1>1, <1>4, <1>8, <2>4, UnchangedTypes DEF TypeOK, HandleAppendReply, CommitTyped
  <1>9. QED BY <1>6, <1>7, <1>8 DEF HandleAppendReply

LEMMA SendSnapshotTypes ==
  ASSUME TypeOK, NEW s \in Server, NEW p \in Server, SendSnapshot(s, p)
  PROVE  TypeOK'
  <1>1. /\ ElectionTyped /\ LogTyped /\ LeaderTyped /\ CommitTyped /\ RsmTyped
        /\ network \subseteq Message
    BY DEF TypeOK
  <1>2. /\ currentTerm[s] \in Nat /\ lastIncludedIndex[s] \in Nat
        /\ lastIncludedTerm[s] \in Nat /\ snapshot[s] \in Seq(Command)
    BY <1>1 DEF ElectionTyped, LogTyped
  <1>3. [kind |-> "InstallSnapshot", src |-> s, dst |-> p, term |-> currentTerm[s],
         index |-> lastIncludedIndex[s], indexTerm |-> lastIncludedTerm[s],
         data |-> snapshot[s]] \in Message
    BY <1>2 DEF InstallRequests, Message
  <1>4. network' \subseteq Message
    BY <1>1, <1>3, SendAllAdds DEF SendSnapshot
  <1>5. LeaderTyped'
    <2>1. snapshotDue[s] \cup {p} \in SUBSET Server
      BY <1>1 DEF LeaderTyped
    <2>2. QED BY <1>1, <2>1, UpdateTypes DEF LeaderTyped, SendSnapshot
  <1>6. QED BY <1>1, <1>4, <1>5, UnchangedTypes DEF TypeOK, SendSnapshot

LEMMA InstallTypes ==
  ASSUME LogTyped, CommitTyped, NEW m \in InstallRequests, Install(m), UNCHANGED chosen,
         m.index > lastIncludedIndex[m.dst]
  PROVE  LogTyped' /\ CommitTyped'
  <1>. DEFINE s == m.dst
  <1>1. /\ s \in Server /\ m.index \in Nat /\ m.indexTerm \in Nat /\ m.data \in Seq(Command)
    BY DEF InstallRequests
  <1>2. lastIncludedIndex[s] \in Nat /\ commitIndex[s] \in Nat /\ lastApplied[s] \in Nat
    BY <1>1 DEF LogTyped, CommitTyped
  <1>3. RetainedLog(m, s) \in Seq(Entry)
    <2>1. SubSeq(log[s], m.index + 1 - lastIncludedIndex[s], Len(log[s])) \in Seq(Entry)
      BY <1>1, <1>2, TailOfLog
    <2>2. <<>> \in Seq(Entry)
      OBVIOUS
    <2>3. QED BY <2>1, <2>2 DEF RetainedLog
  <1>4. LogTyped'
    BY <1>1, <1>3, UpdateTypes DEF LogTyped, Install
  <1>5. [valid |-> TRUE, index |-> m.index, data |-> m.data]
          \in [valid : BOOLEAN, index : Nat, data : Seq(Command)]
    BY <1>1
  <1>6. pendingSnapshot' \in [Server -> [valid : BOOLEAN, index : Nat, data : Seq(Command)]]
    BY <1>1, <1>5, UpdateTypes DEF CommitTyped, Install
  <1>7. commitIndex' \in [Server -> Nat] /\ lastApplied' \in [Server -> Nat]
    BY <1>1, <1>2 DEF CommitTyped, Install, Larger
  <1>8. QED BY <1>4, <1>6, <1>7 DEF CommitTyped

LEMMA HandleInstallSnapshotTypes ==
  ASSUME TypeOK, NEW m \in Received("InstallSnapshot"), HandleInstallSnapshot(m)
  PROVE  TypeOK'
  <1>. DEFINE s == m.dst
  <1>1. /\ ElectionTyped /\ LogTyped /\ LeaderTyped /\ CommitTyped /\ RsmTyped
        /\ network \subseteq Message
    BY DEF TypeOK
  <1>2. m \in InstallRequests
    BY <1>1, ReceivedTypes
  <1>3. /\ s \in Server /\ m.src \in Server /\ m.term \in Nat /\ m.index \in Nat
        /\ currentTerm[s] \in Nat /\ lastIncludedIndex[s] \in Nat
    BY <1>1, <1>2 DEF InstallRequests, ElectionTyped, LogTyped
  <1>4. [kind |-> "InstallSnapshotReply", src |-> s, dst |-> m.src, reqTerm |-> m.term,
         term |-> currentTerm[s], index |-> m.index] \in Message
    BY <1>3 DEF InstallReplies, Message
  <1>5. network' \subseteq Message
    BY <1>1, <1>4, AnswerTypes DEF HandleInstallSnapshot
  <1>6. ElectionTyped' /\ LeaderTyped'
    BY <1>1, <1>3, AdoptTermTypes, UnchangedTypes DEF HandleInstallSnapshot
  <1>7. LogTyped' /\ CommitTyped'
    <2>1. CASE m.term < currentTerm[s] \/ m.index <= lastIncludedIndex[s]
      BY <1>1, <2>1, UnchangedTypes DEF HandleInstallSnapshot, CommitTyped
    <2>2. CASE ~(m.term < currentTerm[s] \/ m.index <= lastIncludedIndex[s])
      <3>1. Install(m) /\ UNCHANGED chosen /\ m.index > lastIncludedIndex[s]
        BY <1>3, <2>2 DEF HandleInstallSnapshot
      <3>2. QED BY <1>1, <1>2, <3>1, InstallTypes
    <2>3. QED BY <2>1, <2>2
  <1>8. QED BY <1>1, <1>5, <1>6, <1>7, UnchangedTypes DEF TypeOK, HandleInstallSnapshot

LEMMA HandleSnapshotReplyTypes ==
  ASSUME TypeOK, NEW m \in Received("InstallSnapshotReply"), HandleSnapshotReply(m)
  PROVE  TypeOK'
  <1>. DEFINE s == m.dst
              p == m.src
  <1>1. /\ ElectionTyped /\ LogTyped /\ LeaderTyped /\ CommitTyped /\ RsmTyped
        /\ network \subseteq Message
    BY DEF TypeOK
  <1>2. m \in InstallReplies
    BY <1>1, ReceivedTypes
  <1>3. s \in Server /\ p \in Server /\ m.term \in Nat /\ m.index \in Nat
    BY <1>2 DEF InstallReplies
  <1>4. network' \subseteq Message
    BY <1>1, AnswerAdds DEF HandleSnapshotReply
  <1>5. CASE m.term > currentTerm[s] /\ StepDown(s, m.term)
    BY <1>1, <1>3, <1>4, <1>5, StepDownTypes, UnchangedTypes DEF TypeOK, HandleSnapshotReply
  <1>6. CASE /\ matchIndex' = [matchIndex EXCEPT ![s][p] = Matched(s, p, m.index)]
             /\ nextIndex' = [nextIndex EXCEPT ![s][p] = Matched(s, p, m.index) + 1]
             /\ UNCHANGED <<currentTerm, votedFor, role, votes, snapshotDue>>
    <2>1. Matched(s, p, m.index) \in Nat /\ Matched(s, p, m.index) + 1 \in Nat
      BY <1>1, <1>3 DEF Matched, Larger, LeaderTyped
    <2>2. LeaderTyped'
      BY <1>1, <1>3, <1>6, <2>1, ProgressTypes DEF LeaderTyped
    <2>3. QED
      BY <1>1, <1>4, <1>6, <2>2, UnchangedTypes DEF TypeOK, HandleSnapshotReply
  <1>7. QED BY <1>5, <1>6 DEF HandleSnapshotReply

\* What an applyCh holds, one message or a run of them appended.
Applied == [snap : BOOLEAN, index : Nat, cmds : Seq(Command)]

LEMMA ApplierSnapshotTypes ==
  ASSUME TypeOK, NEW s \in Server, ApplierSnapshot(s)
  PROVE  TypeOK'
  <1>. DEFINE msg == Apply(TRUE, pendingSnapshot[s].index, pendingSnapshot[s].data)
  <1>1. ElectionTyped /\ LogTyped /\ LeaderTyped /\ CommitTyped /\ RsmTyped
    BY DEF TypeOK
  <1>2. applyCh \in [Server -> Seq(Applied)] /\ applyCh[s] \in Seq(Applied)
    BY <1>1 DEF RsmTyped, Applied
  <1>3. msg \in Applied
    BY <1>1 DEF CommitTyped, Apply, Applied
  <1>4. Append(applyCh[s], msg) \in Seq(Applied)
    BY <1>2, <1>3, AppendProperties
  <1>5. applyCh' \in [Server -> Seq(Applied)]
    BY <1>2, <1>4, UpdateTypes DEF ApplierSnapshot
  <1>6. NoSnapshot \in [valid : BOOLEAN, index : Nat, data : Seq(Command)]
    <2>1. <<>> \in Seq(Command)
      OBVIOUS
    <2>2. QED BY <2>1 DEF NoSnapshot
  <1>7. CommitTyped'
    BY <1>1, <1>6, UpdateTypes DEF CommitTyped, ApplierSnapshot
  <1>8. RsmTyped'
    BY <1>1, <1>5 DEF RsmTyped, Applied, ApplierSnapshot
  <1>9. QED BY <1>1, <1>7, <1>8, UnchangedTypes DEF TypeOK, ApplierSnapshot

LEMMA ApplierCommandsTypes ==
  ASSUME TypeOK, NEW s \in Server, ApplierCommands(s)
  PROVE  TypeOK'
  <1>. DEFINE from == Larger(lastApplied[s], lastIncludedIndex[s])
              cmds == Commands(s, from, commitIndex[s])
              msgs == [k \in 1 .. Len(cmds) |-> Apply(FALSE, from + k, <<cmds[k]>>)]
  <1>1. ElectionTyped /\ LogTyped /\ LeaderTyped /\ CommitTyped /\ RsmTyped
    BY DEF TypeOK
  <1>2. /\ from \in Nat /\ from >= lastIncludedIndex[s]
        /\ commitIndex[s] \in Nat /\ lastIncludedIndex[s] \in Nat
    BY <1>1 DEF CommitTyped, LogTyped, Larger
  <1>3. commitIndex[s] <= LastLogIndex(s)
    BY DEF ApplierCommands
  <1>4. ApplierCommands(s) /\ applyCh' = [applyCh EXCEPT ![s] = applyCh[s] \o msgs]
    BY DEF ApplierCommands
  <1>5. \A k \in 1 .. commitIndex[s] - from : LogEntry(s, from + k).cmd \in Command
    <2>1. SUFFICES ASSUME NEW k \in 1 .. commitIndex[s] - from
                   PROVE  LogEntry(s, from + k) \in Entry
      BY DEF Entry
    <2>2. from + k \in Indices(s)
      BY <1>1, <1>2, <1>3, LogTypes DEF Indices
    <2>3. QED BY <1>1, <2>2, LogTypes
  <1>6. Len(cmds) \in Nat /\ \A k \in 1 .. Len(cmds) : cmds[k] \in Command
    <2>1. CASE commitIndex[s] >= from
      <3>1. commitIndex[s] - from \in Nat
        BY <1>2, <2>1
      <3>2. cmds \in Seq(Command)
        BY <1>5, <3>1 DEF Commands
      <3>3. QED BY <3>2, ElementOfSeq, LenProperties
    <2>2. CASE commitIndex[s] < from
      <3>1. 1 .. commitIndex[s] - from = 1 .. 0
        BY <1>2, <2>2
      <3>2. cmds = [k \in 1 .. 0 |-> LogEntry(s, from + k).cmd]
        BY <3>1 DEF Commands
      <3>3. cmds \in Seq(Command) /\ cmds = << >>
        BY <3>2
      <3>4. QED BY <3>3, ElementOfSeq, LenProperties
    <2>3. QED BY <1>2, <2>1, <2>2
  <1>. HIDE DEF cmds
  <1>7. msgs \in Seq(Applied)
    <2>1. ASSUME NEW k \in 1 .. Len(cmds)
          PROVE  Apply(FALSE, from + k, <<cmds[k]>>) \in Applied
      <3>1. from + k \in Nat /\ <<cmds[k]>> \in Seq(Command)
        BY <1>2, <1>6
      <3>2. QED BY <3>1 DEF Apply, Applied
    <2>2. msgs \in [1 .. Len(cmds) -> Applied]
      BY <2>1, Zenon
    <2>3. QED BY <1>6, <2>2, SeqDef
  <1>8. applyCh \in [Server -> Seq(Applied)] /\ applyCh[s] \in Seq(Applied)
    BY <1>1 DEF RsmTyped, Applied
  <1>. HIDE DEF msgs
  <1>9. applyCh[s] \o msgs \in Seq(Applied)
    BY <1>7, <1>8, ConcatProperties
  <1>10. applyCh' \in [Server -> Seq(Applied)]
    BY <1>4, <1>8, <1>9, UpdateTypes
  <1>11. RsmTyped'
    BY <1>1, <1>10 DEF RsmTyped, Applied, ApplierCommands
  <1>12. CommitTyped'
    BY <1>1 DEF CommitTyped, ApplierCommands
  <1>13. QED BY <1>1, <1>11, <1>12, UnchangedTypes DEF TypeOK, ApplierCommands

\* The head of an applyCh is a message, and the rest an applyCh.
LEMMA HeadOfApplyCh ==
  ASSUME RsmTyped, NEW s \in Server, applyCh[s] # <<>>
  PROVE  /\ Head(applyCh[s]).index \in Nat
         /\ Head(applyCh[s]).cmds \in Seq(Command)
         /\ [applyCh EXCEPT ![s] = Tail(applyCh[s])]
              \in [Server -> Seq([snap : BOOLEAN, index : Nat, cmds : Seq(Command)])]
  <1>1. applyCh \in [Server -> Seq(Applied)] /\ applyCh[s] \in Seq(Applied)
    BY DEF RsmTyped, Applied
  <1>2. Head(applyCh[s]) \in Applied /\ Tail(applyCh[s]) \in Seq(Applied)
    BY <1>1, HeadTailProperties
  <1>3. QED BY <1>1, <1>2, UpdateTypes DEF Applied

LEMMA ReaderCommandTypes ==
  ASSUME TypeOK, NEW s \in Server, ReaderCommand(s)
  PROVE  TypeOK'
  <1>1. ElectionTyped /\ LogTyped /\ LeaderTyped /\ CommitTyped /\ RsmTyped
    BY DEF TypeOK
  <1>2. /\ Head(applyCh[s]).index \in Nat /\ Head(applyCh[s]).cmds \in Seq(Command)
        /\ applyCh' \in [Server -> Seq([snap : BOOLEAN, index : Nat, cmds : Seq(Command)])]
    BY <1>1, HeadOfApplyCh DEF ReaderCommand
  <1>3. sm[s] \o Head(applyCh[s]).cmds \in Seq(Command)
    BY <1>1, <1>2, ConcatProperties DEF RsmTyped
  <1>4. sm' \in [Server -> Seq(Command)]
    BY <1>1, <1>3, UpdateTypes DEF RsmTyped, ReaderCommand
  <1>5. RsmTyped'
    BY <1>1, <1>2, <1>4, UpdateTypes DEF RsmTyped, ReaderCommand
  <1>6. LogTyped'
    <2>. DEFINE index == CompactionIndex(s)
    <2>1. CASE UNCHANGED logVars
      BY <1>1, <2>1, UnchangedTypes
    <2>2. CASE index > lastIncludedIndex[s] /\ Compact(s, index, sm'[s])
      <3>1. index \in Nat /\ lastIncludedIndex[s] \in Nat /\ sm'[s] \in Seq(Command)
        BY <1>1, <1>2, <1>4 DEF CompactionIndex, LogTyped
      <3>2. /\ index <= LastLogIndex(s)
            /\ log' = [log EXCEPT ![s] =
                 SubSeq(log[s], index + 1 - lastIncludedIndex[s], Len(log[s]))]
            /\ lastIncludedIndex' = [lastIncludedIndex EXCEPT ![s] = index]
            /\ lastIncludedTerm' = [lastIncludedTerm EXCEPT ![s] = LogTerm(s, index)]
            /\ snapshot' = [snapshot EXCEPT ![s] = sm'[s]]
        BY <2>2, <3>1 DEF Compact
      <3>. HIDE DEF index
      <3>3. index \in lastIncludedIndex[s] .. LastLogIndex(s)
        BY <1>1, <2>2, <3>1, <3>2, LogTypes
      <3>4. LogTerm(s, index) \in Nat
        BY <1>1, <3>3, LogTypes
      <3>5. SubSeq(log[s], index + 1 - lastIncludedIndex[s], Len(log[s])) \in Seq(Entry)
        BY <1>1, <2>2, <3>1, TailOfLog
      <3>6. QED BY <1>1, <3>1, <3>2, <3>4, <3>5, UpdateTypes DEF LogTyped
    <2>3. index \in Nat /\ lastIncludedIndex[s] \in Nat
      BY <1>1, <1>2 DEF CompactionIndex, LogTyped
    <2>4. QED BY <2>1, <2>2, <2>3 DEF ReaderCommand, Compact
  <1>7. QED BY <1>1, <1>5, <1>6, UnchangedTypes DEF TypeOK, ReaderCommand

LEMMA ReaderSnapshotTypes ==
  ASSUME TypeOK, NEW s \in Server, ReaderSnapshot(s)
  PROVE  TypeOK'
  <1>1. ElectionTyped /\ LogTyped /\ LeaderTyped /\ CommitTyped /\ RsmTyped
    BY DEF TypeOK
  <1>2. /\ Head(applyCh[s]).index \in Nat /\ Head(applyCh[s]).cmds \in Seq(Command)
        /\ applyCh' \in [Server -> Seq([snap : BOOLEAN, index : Nat, cmds : Seq(Command)])]
    BY <1>1, HeadOfApplyCh DEF ReaderSnapshot
  <1>3. sm' \in [Server -> Seq(Command)] /\ smIndex' \in [Server -> Nat]
    <2>1. CASE UNCHANGED <<sm, smIndex>>
      BY <1>1, <2>1 DEF RsmTyped
    <2>2. CASE /\ sm' = [sm EXCEPT ![s] = Head(applyCh[s]).cmds]
               /\ smIndex' = [smIndex EXCEPT ![s] = Head(applyCh[s]).index]
      BY <1>1, <1>2, <2>2, UpdateTypes DEF RsmTyped
    <2>3. QED BY <2>1, <2>2 DEF ReaderSnapshot
  <1>4. RsmTyped'
    BY <1>2, <1>3 DEF RsmTyped
  <1>5. QED BY <1>1, <1>4, UnchangedTypes DEF TypeOK, ReaderSnapshot

LEMMA RestartTypes ==
  ASSUME TypeOK, NEW s \in Server, Restart(s)
  PROVE  TypeOK'
  <1>1. ElectionTyped /\ LogTyped /\ LeaderTyped /\ CommitTyped /\ RsmTyped
    BY DEF TypeOK
  <1>2. /\ {} \in SUBSET Server /\ <<>> \in Seq(Command)
        /\ <<>> \in Seq([snap : BOOLEAN, index : Nat, cmds : Seq(Command)])
        /\ lastIncludedIndex[s] \in Nat
    BY <1>1 DEF LogTyped
  <1>3. NoSnapshot \in [valid : BOOLEAN, index : Nat, data : Seq(Command)]
    BY <1>2 DEF NoSnapshot
  <1>4. votes' \in [Server -> SUBSET Server]
    BY <1>1, <1>2, UpdateTypes DEF ElectionTyped, Restart
  <1>5. ElectionTyped'
    BY <1>1, <1>4 DEF ElectionTyped, Restart, persistentVars, Role
  <1>6. LogTyped'
    BY <1>1 DEF LogTyped, Restart, persistentVars
  <1>7. LeaderTyped'
    BY <1>1, ForgetLeaderTypes DEF Restart
  <1>8. CommitTyped'
    BY <1>1, <1>2, <1>3, UpdateTypes DEF CommitTyped, Restart
  <1>9. RsmTyped'
    BY <1>1, <1>2, UpdateTypes DEF RsmTyped, Restart
  <1>10. QED BY <1>5, <1>6, <1>7, <1>8, <1>9 DEF TypeOK, Restart

LEMMA LoseTypes ==
  ASSUME TypeOK, NEW m \in network, Lose(m)
  PROVE  TypeOK'
  BY UnchangedTypes DEF TypeOK, Lose, persistentVars, logVars

LEMMA StutterTypes ==
  ASSUME TypeOK, UNCHANGED vars
  PROVE  TypeOK'
  BY UnchangedTypes DEF TypeOK, vars

-----------------------------------------------------------------------------
\* No step of a peer, of its applier or of its reader, no crash and no loss ever
\* leaves a field of the Go structs with a value outside its type.
THEOREM TypeCorrect == Spec => []TypeOK
  <1>1. Init => TypeOK
    BY InitTypes
  <1>2. TypeOK /\ [Next]_vars => TypeOK'
    <2>1. SUFFICES ASSUME TypeOK, [Next]_vars PROVE TypeOK'
      OBVIOUS
    <2>2. CASE ConsensusNext
      BY <2>1, <2>2, StartElectionTypes, StartTypes, SendAppendEntriesTypes, SendSnapshotTypes,
         RestartTypes, HandleRequestVoteTypes, HandleVoteReplyTypes, HandleAppendEntriesTypes,
         HandleAppendReplyTypes, HandleInstallSnapshotTypes, HandleSnapshotReplyTypes, LoseTypes
      DEF ConsensusNext
    <2>3. CASE DeliveryNext
      BY <2>1, <2>3, ApplierSnapshotTypes, ApplierCommandsTypes, ReaderCommandTypes,
         ReaderSnapshotTypes
      DEF DeliveryNext
    <2>4. CASE UNCHANGED vars
      BY <2>1, <2>4, StutterTypes
    <2>5. QED BY <2>1, <2>2, <2>3, <2>4 DEF Next
  <1>3. QED BY <1>1, <1>2, PTL DEF Spec

-----------------------------------------------------------------------------
\* Elections.  VotesGenuine is inductive together with TypeOK: a step may add a vote
\* only if its voter casts it in that step (NewVote), and no step takes a cast vote
\* back (KeepsVotes).

\* No peer's term goes back and no vote moves while its term lasts.
KeepsVotes ==
  \A v \in Server :
    /\ currentTerm'[v] >= currentTerm[v]
    /\ currentTerm'[v] = currentTerm[v] /\ votedFor[v] # Nobody => votedFor'[v] = votedFor[v]

\* v casts its vote for c in this step: for itself, or on a request it finds up to date.
NewVote(v, c, term) ==
  /\ currentTerm'[v] = term /\ votedFor'[v] = c
  /\ currentTerm[v] < term \/ (currentTerm[v] = term /\ votedFor[v] \in {Nobody, c})
  /\ UNCHANGED logVars
  /\ \/ v = c
     \/ \E m \in Received("RequestVote") :
          m.src = c /\ m.dst = v /\ m.term = term /\ LogUpToDate(m, v)

\* What every step does with votes.
GoodVotes ==
  /\ KeepsVotes
  /\ \A v, c \in Server : \A term \in Granted(v, c)' :
       term \in Granted(v, c) \/ NewVote(v, c, term)
  /\ LeaderElected'

-----------------------------------------------------------------------------
\* Two majorities of the group have a peer in common.
LEMMA MajoritiesMeet ==
  ASSUME NEW S \in SUBSET Server, NEW T \in SUBSET Server, Majority(S), Majority(T)
  PROVE  S \cap T # {}
  <1>1. IsFiniteSet(Server) /\ IsFiniteSet(S) /\ IsFiniteSet(T)
    BY ServerAssumption, FS_Subset
  <1>2. Cardinality(Server) \in Nat /\ Cardinality(S) \in Nat /\ Cardinality(T) \in Nat
    BY <1>1, FS_CardinalityType
  <1>3. Cardinality(S) + Cardinality(T) > Cardinality(Server)
    BY <1>2 DEF Majority
  <1>4. QED BY <1>1, <1>3, FS_MajoritiesIntersect

\* One leader per term: its majorities share a voter, whose vote is unique.
LEMMA GenuineVotesElectOne ==
  ASSUME TypeOK, VotesGenuine
  PROVE  ElectionSafety
  <1>1. SUFFICES ASSUME NEW s \in Server, NEW t \in Server, role[s] = "Leader",
                        role[t] = "Leader", currentTerm[s] = currentTerm[t]
                 PROVE  s = t
    BY DEF ElectionSafety
  <1>2. votes[s] \in SUBSET Server /\ votes[t] \in SUBSET Server
    BY DEF TypeOK, ElectionTyped
  <1>3. PICK v \in Server : v \in votes[s] /\ v \in votes[t]
    BY <1>1, <1>2, MajoritiesMeet DEF VotesGenuine, LeaderElected
  <1>4. currentTerm[s] \in Granted(v, s) /\ currentTerm[s] \in Granted(v, t)
    BY <1>1, <1>3 DEF Granted
  <1>5. QED BY <1>4 DEF VotesGenuine, VotesUnique

\* Steps that keep votes and add only new ones keep them genuine.
LEMMA GoodVotesStayGenuine ==
  ASSUME TypeOK, TypeOK', VotesGenuine, GoodVotes
  PROVE  VotesGenuine'
  <1>1. /\ \A v \in Server : currentTerm[v] \in Nat /\ currentTerm'[v] \in Nat
        /\ Nobody \notin Server
    BY ServerAssumption DEF TypeOK, ElectionTyped
  <1>2. \A v, c \in Server : \A term \in Granted(v, c)' :
          term \in Granted(v, c) \/ NewVote(v, c, term)
    BY DEF GoodVotes
  <1>3. \A v, c \in Server : \A term \in Granted(v, c) : term \in Nat
    <2>1. \A m \in Received("RequestVoteReply") : m.reqTerm \in Nat
      BY ReceivedTypes DEF TypeOK, VoteReplies
    <2>2. QED BY <1>1, <2>1 DEF Granted
  <1>4. VotesBacked'
    <2>1. SUFFICES ASSUME NEW v \in Server, NEW c \in Server, NEW term \in Granted(v, c)'
                   PROVE  currentTerm'[v] > term \/ (currentTerm'[v] = term /\ votedFor'[v] = c)
      BY DEF VotesBacked
    <2>2. CASE NewVote(v, c, term)
      BY <2>2 DEF NewVote
    <2>3. CASE term \in Granted(v, c)
      <3>1. currentTerm[v] > term \/ (currentTerm[v] = term /\ votedFor[v] = c)
        BY <2>3 DEF VotesGenuine, VotesBacked
      <3>2. KeepsVotes /\ term \in Nat
        BY <1>3, <2>3 DEF GoodVotes
      <3>3. CASE currentTerm[v] > term
        BY <1>1, <3>2, <3>3 DEF KeepsVotes
      <3>4. CASE currentTerm[v] = term /\ votedFor[v] = c
        BY <1>1, <3>2, <3>4 DEF KeepsVotes
      <3>5. QED BY <3>1, <3>3, <3>4
    <2>4. QED BY <1>2, <2>1, <2>2, <2>3
  <1>5. VotesUnique'
    <2>1. SUFFICES ASSUME NEW v \in Server, NEW c \in Server, NEW d \in Server,
                          NEW term \in Granted(v, c)', term \in Granted(v, d)'
                   PROVE  c = d
      BY DEF VotesUnique
    <2>2. CASE term \in Granted(v, c) /\ term \in Granted(v, d)
      BY <2>2 DEF VotesGenuine, VotesUnique
    <2>3. CASE NewVote(v, c, term) /\ NewVote(v, d, term)
      BY <2>3 DEF NewVote
    <2>4. ASSUME NEW a \in Server, NEW b \in Server, term \in Granted(v, a), NewVote(v, b, term)
          PROVE  a = b
      <3>1. currentTerm[v] > term \/ (currentTerm[v] = term /\ votedFor[v] = a)
        BY <2>4 DEF VotesGenuine, VotesBacked
      <3>2. QED BY <1>1, <1>3, <2>4, <3>1 DEF NewVote
    <2>5. QED BY <1>2, <2>1, <2>2, <2>3, <2>4
  <1>6. QED BY <1>4, <1>5 DEF VotesGenuine, GoodVotes

-----------------------------------------------------------------------------
\* Steps that touch neither terms, votes nor roles

LEMMA FrameVotes ==
  ASSUME TypeOK, VotesGenuine, UNCHANGED <<currentTerm, votedFor, role, votes>>,
         \A m \in network' : m.kind = "RequestVoteReply" => m \in network
  PROVE  GoodVotes
  <1>1. KeepsVotes
    BY DEF KeepsVotes, TypeOK, ElectionTyped
  <1>2. LeaderElected'
    BY DEF VotesGenuine, LeaderElected, Majority
  <1>3. \A v, c \in Server : \A term \in Granted(v, c)' : term \in Granted(v, c)
    BY DEF Granted, Received
  <1>4. QED BY <1>1, <1>2, <1>3 DEF GoodVotes

-----------------------------------------------------------------------------
\* The steps that do, one lemma per handler or helper

\* The candidate votes for itself in a term it has never been in.
LEMMA StartElectionVotes ==
  ASSUME TypeOK, VotesGenuine, NEW s \in Server, StartElection(s)
  PROVE  GoodVotes
  <1>1. /\ currentTerm \in [Server -> Nat] /\ votedFor \in [Server -> Server \cup {Nobody}]
        /\ role \in [Server -> Role] /\ votes \in [Server -> SUBSET Server]
    BY DEF TypeOK, ElectionTyped
  <1>2. /\ currentTerm' = [currentTerm EXCEPT ![s] = currentTerm[s] + 1]
        /\ role' = [role EXCEPT ![s] = "Candidate"]
        /\ votedFor' = [votedFor EXCEPT ![s] = s]
        /\ votes' = [votes EXCEPT ![s] = {s}]
        /\ UNCHANGED logVars
    BY DEF StartElection
  <1>3. KeepsVotes
    BY <1>1, <1>2 DEF KeepsVotes
  <1>4. LeaderElected'
    <2>1. SUFFICES ASSUME NEW t \in Server, role'[t] = "Leader"
                   PROVE  Majority(votes[t])'
      BY DEF LeaderElected
    <2>2. role[t] = "Leader" /\ votes'[t] = votes[t]
      BY <1>1, <1>2, <2>1
    <2>3. QED BY <2>2 DEF VotesGenuine, LeaderElected, Majority
  <1>5. \A m \in network' : m.kind = "RequestVoteReply" => m \in network
    BY SendAllAdds DEF StartElection
  <1>6. ASSUME NEW v \in Server, NEW c \in Server, NEW term \in Granted(v, c)'
        PROVE  term \in Granted(v, c) \/ NewVote(v, c, term)
    <2>1. CASE \E m \in Received("RequestVoteReply")' :
                 m.src = v /\ m.dst = c /\ m.granted /\ term = m.reqTerm
      BY <1>5, <2>1 DEF Granted, Received
    <2>2. CASE term = currentTerm'[c] /\ role'[c] # "Follower" /\ v \in votes'[c]
      <3>1. CASE c = s
        BY <1>1, <1>2, <2>2, <3>1 DEF NewVote
      <3>2. CASE c # s
        BY <1>1, <1>2, <2>2, <3>2 DEF Granted
      <3>3. QED BY <3>1, <3>2
    <2>3. QED BY <1>6, <2>1, <2>2 DEF Granted
  <1>7. QED BY <1>3, <1>4, <1>6 DEF GoodVotes

\* What a handler may do to its own server s: keep term, vote and role, or move to
\* a higher term as a follower, or give up a candidacy.  A vote may be cast.
MovesOn(s) ==
  /\ currentTerm' = [currentTerm EXCEPT ![s] = currentTerm'[s]]
  /\ votedFor' = [votedFor EXCEPT ![s] = votedFor'[s]]
  /\ role' = [role EXCEPT ![s] = role'[s]]
  /\ votes' = [votes EXCEPT ![s] = votes'[s]]
  /\ currentTerm'[s] >= currentTerm[s]
  /\ currentTerm'[s] = currentTerm[s] /\ votedFor[s] # Nobody => votedFor'[s] = votedFor[s]
  /\ role'[s] # "Follower" =>
       role'[s] = role[s] /\ votes'[s] = votes[s] /\ currentTerm'[s] = currentTerm[s]

\* A follower that forgets leaves the votes of the others alone.
LEMMA ForgetVotes ==
  ASSUME TypeOK, NEW s \in Server, ForgetIfFollower(s)
  PROVE  /\ votes' = [votes EXCEPT ![s] = votes'[s]]
         /\ role'[s] # "Follower" => votes'[s] = votes[s]
  <1>1. votes \in [Server -> SUBSET Server]
    BY DEF TypeOK, ElectionTyped
  <1>2. CASE role'[s] = "Follower"
    BY <1>1, <1>2 DEF ForgetIfFollower
  <1>3. CASE role'[s] # "Follower"
    BY <1>1, <1>3 DEF ForgetIfFollower
  <1>4. QED BY <1>2, <1>3

LEMMA StepDownMovesOn ==
  ASSUME TypeOK, NEW s \in Server, NEW term \in Nat, term > currentTerm[s], StepDown(s, term)
  PROVE  MovesOn(s)
  <1>1. /\ currentTerm \in [Server -> Nat] /\ votedFor \in [Server -> Server \cup {Nobody}]
        /\ role \in [Server -> Role]
    BY DEF TypeOK, ElectionTyped
  <1>2. /\ currentTerm' = [currentTerm EXCEPT ![s] = term]
        /\ role' = [role EXCEPT ![s] = "Follower"]
        /\ votedFor' = [votedFor EXCEPT ![s] = Nobody]
        /\ votes' = [votes EXCEPT ![s] = votes'[s]]
    BY ForgetVotes DEF StepDown
  <1>3. QED BY <1>1, <1>2 DEF MovesOn

LEMMA AdoptTermMovesOn ==
  ASSUME TypeOK, NEW s \in Server, NEW term \in Nat, term >= currentTerm[s], AdoptTerm(s, term)
  PROVE  MovesOn(s)
  <1>1. /\ currentTerm \in [Server -> Nat] /\ votedFor \in [Server -> Server \cup {Nobody}]
        /\ role \in [Server -> Role]
    BY DEF TypeOK, ElectionTyped
  <1>2. /\ currentTerm' = [currentTerm EXCEPT ![s] = term]
        /\ votedFor' = [votedFor EXCEPT ![s] = VoteInTerm(s, term)]
        /\ role' = [role EXCEPT ![s] =
             IF term > currentTerm[s] \/ role[s] = "Candidate" THEN "Follower" ELSE role[s]]
    <2>1. Larger(currentTerm[s], term) = term
      BY <1>1 DEF Larger
    <2>2. QED BY <2>1 DEF AdoptTerm
  <1>3. /\ votes' = [votes EXCEPT ![s] = votes'[s]]
        /\ role'[s] # "Follower" => votes'[s] = votes[s]
    BY ForgetVotes DEF AdoptTerm
  <1>4. QED BY <1>1, <1>2, <1>3 DEF MovesOn, VoteInTerm

\* Such a step is good if the only vote reply it may add is for a vote just cast.
LEMMA MovesOnVotes ==
  ASSUME TypeOK, VotesGenuine, NEW s \in Server, MovesOn(s),
         \A m \in network' : m.kind = "RequestVoteReply" /\ m.granted =>
           m \in network \/ NewVote(m.src, m.dst, m.reqTerm)
  PROVE  GoodVotes
  <1>1. /\ currentTerm \in [Server -> Nat] /\ votedFor \in [Server -> Server \cup {Nobody}]
        /\ role \in [Server -> Role] /\ votes \in [Server -> SUBSET Server]
    BY DEF TypeOK, ElectionTyped
  <1>2. \A t \in Server \ {s} : /\ currentTerm'[t] = currentTerm[t] /\ votedFor'[t] = votedFor[t]
                               /\ role'[t] = role[t] /\ votes'[t] = votes[t]
    BY <1>1 DEF MovesOn
  <1>3. \A t \in Server : role'[t] # "Follower" =>
          role'[t] = role[t] /\ votes'[t] = votes[t] /\ currentTerm'[t] = currentTerm[t]
    BY <1>2 DEF MovesOn
  <1>4. KeepsVotes
    BY <1>1, <1>2 DEF KeepsVotes, MovesOn
  <1>5. LeaderElected'
    BY <1>3 DEF VotesGenuine, LeaderElected, Majority
  <1>6. ASSUME NEW v \in Server, NEW c \in Server, NEW term \in Granted(v, c)'
        PROVE  term \in Granted(v, c) \/ NewVote(v, c, term)
    <2>1. CASE \E m \in Received("RequestVoteReply")' :
                 m.src = v /\ m.dst = c /\ m.granted /\ term = m.reqTerm
      BY <2>1 DEF Granted, Received
    <2>2. CASE term = currentTerm'[c] /\ role'[c] # "Follower" /\ v \in votes'[c]
      BY <1>3, <2>2 DEF Granted
    <2>3. QED BY <1>6, <2>1, <2>2 DEF Granted
  <1>7. QED BY <1>4, <1>5, <1>6 DEF GoodVotes

LEMMA HandleRequestVoteVotes ==
  ASSUME TypeOK, VotesGenuine, NEW m \in Received("RequestVote"), HandleRequestVote(m)
  PROVE  GoodVotes
  <1>. DEFINE s == m.dst
              vote == IF Grants(m, s) THEN m.src ELSE VoteInTerm(s, m.term)
              term == Larger(currentTerm[s], m.term)
  <1>1. /\ currentTerm \in [Server -> Nat] /\ votedFor \in [Server -> Server \cup {Nobody}]
        /\ role \in [Server -> Role] /\ network \subseteq Message
    BY DEF TypeOK, ElectionTyped
  <1>2. s \in Server /\ m.src \in Server /\ m.term \in Nat
    BY <1>1, ReceivedTypes DEF VoteRequests
  <1>3. /\ currentTerm' = [currentTerm EXCEPT ![s] = term]
        /\ role' = [role EXCEPT ![s] =
             IF m.term > currentTerm[s] THEN "Follower" ELSE role[s]]
        /\ votedFor' = [votedFor EXCEPT ![s] = vote]
    BY DEF HandleRequestVote
  <1>4. /\ votes' = [votes EXCEPT ![s] = votes'[s]]
        /\ role'[s] # "Follower" => votes'[s] = votes[s]
    BY <1>2, ForgetVotes DEF HandleRequestVote
  <1>5. /\ m.term > currentTerm[s] => term = m.term
        /\ ~(m.term > currentTerm[s]) => term = currentTerm[s]
        /\ term >= currentTerm[s] /\ term \in Nat
    BY <1>1, <1>2 DEF Larger
  <1>6. Grants(m, s) => /\ term = m.term
                        /\ currentTerm[s] = term => votedFor[s] \in {Nobody, m.src}
    BY <1>1, <1>2, <1>5 DEF Grants, VoteInTerm
  <1>7. term = currentTerm[s] /\ votedFor[s] # Nobody => vote = votedFor[s]
    BY <1>1, <1>2, <1>5, <1>6 DEF VoteInTerm
  <1>. HIDE DEF vote, term
  <1>8. MovesOn(s)
    BY <1>1, <1>2, <1>3, <1>4, <1>5, <1>7 DEF MovesOn
  <1>9. Grants(m, s) => NewVote(s, m.src, m.term)
    <2>1. Grants(m, s) => vote = m.src /\ LogUpToDate(m, s)
      BY DEF vote, Grants
    <2>2. UNCHANGED logVars
      BY DEF HandleRequestVote
    <2>3. QED BY <1>1, <1>2, <1>3, <1>5, <1>6, <2>1, <2>2 DEF NewVote
  <1>10. ASSUME NEW r \in network', r.kind = "RequestVoteReply", r.granted
         PROVE  r \in network \/ NewVote(r.src, r.dst, r.reqTerm)
    <2>1. r \in network \/ r = [kind |-> "RequestVoteReply", src |-> s, dst |-> m.src,
             reqTerm |-> m.term, term |-> currentTerm[s], granted |-> Grants(m, s)]
      BY <1>10, AnswerAdds DEF HandleRequestVote
    <2>2. QED BY <1>9, <1>10, <2>1
  <1>11. QED BY <1>2, <1>8, <1>10, MovesOnVotes

\* A candidate counts only a vote of its own election, which it already might.
LEMMA HandleVoteReplyVotes ==
  ASSUME TypeOK, VotesGenuine, NEW m \in Received("RequestVoteReply"), HandleVoteReply(m)
  PROVE  GoodVotes
  <1>. DEFINE s == m.dst
              wins == Majority(votes[s] \cup {m.src})
  <1>1. /\ currentTerm \in [Server -> Nat] /\ votedFor \in [Server -> Server \cup {Nobody}]
        /\ role \in [Server -> Role] /\ votes \in [Server -> SUBSET Server]
        /\ network \subseteq Message
    BY DEF TypeOK, ElectionTyped
  <1>2. s \in Server /\ m.src \in Server /\ m.term \in Nat
    BY <1>1, ReceivedTypes DEF VoteReplies
  <1>3. network' \subseteq network
    BY AnswerAdds DEF HandleVoteReply
  <1>4. CASE m.term > currentTerm[s]
    <2>1. StepDown(s, m.term)
      BY <1>1, <1>2, <1>4 DEF HandleVoteReply
    <2>2. MovesOn(s)
      BY <1>2, <1>4, <2>1, StepDownMovesOn
    <2>3. QED BY <1>2, <1>3, <2>2, MovesOnVotes
  <1>5. CASE ~(m.term > currentTerm[s])
    <2>1. /\ m.granted /\ role[s] = "Candidate" /\ currentTerm[s] = m.reqTerm
          /\ votes' = [votes EXCEPT ![s] = votes[s] \cup {m.src}]
          /\ role' = [role EXCEPT ![s] = IF wins THEN "Leader" ELSE role[s]]
          /\ UNCHANGED <<currentTerm, votedFor>>
      BY <1>5 DEF HandleVoteReply, Counting
    <2>2. KeepsVotes
      BY <1>1, <2>1 DEF KeepsVotes
    <2>3. LeaderElected'
      <3>1. SUFFICES ASSUME NEW t \in Server, role'[t] = "Leader"
                     PROVE  Majority(votes'[t])
        BY DEF LeaderElected, Majority
      <3>2. CASE t = s
        BY <1>1, <2>1, <3>1, <3>2
      <3>3. CASE t # s
        BY <1>1, <2>1, <3>1, <3>3 DEF VotesGenuine, LeaderElected
      <3>4. QED BY <3>2, <3>3
    <2>4. m.reqTerm \in Granted(m.src, s)
      BY <2>1 DEF Granted
    <2>5. ASSUME NEW v \in Server, NEW c \in Server, NEW term \in Granted(v, c)'
          PROVE  term \in Granted(v, c)
      <3>1. CASE \E r \in Received("RequestVoteReply")' :
                   r.src = v /\ r.dst = c /\ r.granted /\ term = r.reqTerm
        BY <1>3, <3>1 DEF Granted, Received
      <3>2. CASE term = currentTerm'[c] /\ role'[c] # "Follower" /\ v \in votes'[c]
        <4>1. CASE c = s /\ v = m.src
          BY <2>1, <2>4, <3>2, <4>1
        <4>2. CASE ~(c = s /\ v = m.src)
          BY <1>1, <1>2, <2>1, <3>2, <4>2 DEF Granted
        <4>3. QED BY <4>1, <4>2
      <3>3. QED BY <2>5, <3>1, <3>2 DEF Granted
    <2>6. QED BY <2>2, <2>3, <2>5 DEF GoodVotes
  <1>6. QED BY <1>4, <1>5

\* The handlers of AppendEntries and InstallSnapshot adopt the term or refuse.
LEMMA HandleAppendEntriesVotes ==
  ASSUME TypeOK, VotesGenuine, NEW m \in Received("AppendEntries"), HandleAppendEntries(m)
  PROVE  GoodVotes
  <1>. DEFINE s == m.dst
  <1>1. /\ currentTerm \in [Server -> Nat] /\ network \subseteq Message
    BY DEF TypeOK, ElectionTyped
  <1>2. s \in Server /\ m.term \in Nat
    BY <1>1, ReceivedTypes DEF AppendRequests
  <1>3. \A r \in network' : r.kind = "RequestVoteReply" => r \in network
    <2>1. ASSUME NEW success, NEW xTerm, NEW xIndex, NEW xLen,
                 Answer(m, {AppendReply(m, success, xTerm, xIndex, xLen)})
          PROVE  \A r \in network' : r.kind = "RequestVoteReply" => r \in network
      <3>1. AppendReply(m, success, xTerm, xIndex, xLen).kind = "AppendEntriesReply"
        BY DEF AppendReply
      <3>2. QED BY <2>1, <3>1, AnswerAdds
    <2>2. CASE RefuseAppend(m)
      BY <2>1, <2>2 DEF RefuseAppend
    <2>3. CASE AcceptAppend(m)
      BY <2>1, <2>3 DEF AcceptAppend
    <2>4. CASE Answer(m, {AppendReply(m, FALSE, 0, 0, 0)})
      BY <2>1, <2>4
    <2>5. QED BY <2>2, <2>3, <2>4 DEF HandleAppendEntries
  <1>4. CASE UNCHANGED <<currentTerm, votedFor, role, votes>>
    BY <1>3, <1>4, FrameVotes
  <1>5. CASE m.term >= currentTerm[s] /\ AdoptTerm(s, m.term)
    <2>1. MovesOn(s)
      BY <1>2, <1>5, AdoptTermMovesOn
    <2>2. QED BY <1>2, <1>3, <2>1, MovesOnVotes
  <1>6. QED BY <1>4, <1>5 DEF HandleAppendEntries

LEMMA HandleInstallSnapshotVotes ==
  ASSUME TypeOK, VotesGenuine, NEW m \in Received("InstallSnapshot"), HandleInstallSnapshot(m)
  PROVE  GoodVotes
  <1>. DEFINE s == m.dst
  <1>1. /\ currentTerm \in [Server -> Nat] /\ network \subseteq Message
    BY DEF TypeOK, ElectionTyped
  <1>2. s \in Server /\ m.term \in Nat
    BY <1>1, ReceivedTypes DEF InstallRequests
  <1>3. \A r \in network' : r.kind = "RequestVoteReply" => r \in network
    BY AnswerAdds DEF HandleInstallSnapshot
  <1>4. CASE m.term < currentTerm[s]
    <2>1. UNCHANGED <<currentTerm, votedFor, role, votes>>
      BY <1>4 DEF HandleInstallSnapshot
    <2>2. QED BY <1>3, <2>1, FrameVotes
  <1>5. CASE ~(m.term < currentTerm[s])
    <2>1. m.term >= currentTerm[s] /\ AdoptTerm(s, m.term)
      BY <1>1, <1>2, <1>5 DEF HandleInstallSnapshot
    <2>2. MovesOn(s)
      BY <1>2, <2>1, AdoptTermMovesOn
    <2>3. QED BY <1>2, <1>3, <2>2, MovesOnVotes
  <1>6. QED BY <1>4, <1>5

\* The replies to both step the leader down or leave its office alone.
LEMMA HandleAppendReplyVotes ==
  ASSUME TypeOK, VotesGenuine, NEW m \in Received("AppendEntriesReply"), HandleAppendReply(m)
  PROVE  GoodVotes
  <1>. DEFINE s == m.dst
  <1>1. s \in Server /\ m.term \in Nat
    BY ReceivedTypes DEF TypeOK, AppendReplies
  <1>2. \A r \in network' : r.kind = "RequestVoteReply" => r \in network
    BY AnswerAdds DEF HandleAppendReply
  <1>3. CASE m.term > currentTerm[s] /\ StepDown(s, m.term)
    <2>1. MovesOn(s)
      BY <1>1, <1>3, StepDownMovesOn
    <2>2. QED BY <1>1, <1>2, <2>1, MovesOnVotes
  <1>4. CASE UNCHANGED <<currentTerm, votedFor, role, votes>>
    BY <1>2, <1>4, FrameVotes
  <1>5. QED BY <1>3, <1>4 DEF HandleAppendReply

LEMMA HandleSnapshotReplyVotes ==
  ASSUME TypeOK, VotesGenuine, NEW m \in Received("InstallSnapshotReply"),
         HandleSnapshotReply(m)
  PROVE  GoodVotes
  <1>. DEFINE s == m.dst
  <1>1. s \in Server /\ m.term \in Nat
    BY ReceivedTypes DEF TypeOK, InstallReplies
  <1>2. \A r \in network' : r.kind = "RequestVoteReply" => r \in network
    BY AnswerAdds DEF HandleSnapshotReply
  <1>3. CASE m.term > currentTerm[s] /\ StepDown(s, m.term)
    <2>1. MovesOn(s)
      BY <1>1, <1>3, StepDownMovesOn
    <2>2. QED BY <1>1, <1>2, <2>1, MovesOnVotes
  <1>4. CASE UNCHANGED <<currentTerm, votedFor, role, votes>>
    BY <1>2, <1>4, FrameVotes
  <1>5. QED BY <1>3, <1>4 DEF HandleSnapshotReply

\* A crash forgets a count and never a vote.
LEMMA RestartVotes ==
  ASSUME TypeOK, VotesGenuine, NEW s \in Server, Restart(s)
  PROVE  GoodVotes
  <1>1. /\ currentTerm \in [Server -> Nat] /\ votedFor \in [Server -> Server \cup {Nobody}]
        /\ role \in [Server -> Role] /\ votes \in [Server -> SUBSET Server]
    BY DEF TypeOK, ElectionTyped
  <1>2. /\ UNCHANGED <<currentTerm, votedFor, network>>
        /\ role' = [role EXCEPT ![s] = "Follower"] /\ votes' = [votes EXCEPT ![s] = {}]
    BY DEF Restart, persistentVars
  <1>3. MovesOn(s)
    BY <1>1, <1>2 DEF MovesOn
  <1>4. QED BY <1>2, <1>3, MovesOnVotes

-----------------------------------------------------------------------------
\* Every step keeps the votes cast and adds only votes being cast.
LEMMA StepsKeepVotes ==
  ASSUME TypeOK, VotesGenuine, [Next]_vars
  PROVE  GoodVotes
  <1>1. CASE UNCHANGED vars
    BY <1>1, FrameVotes DEF vars
  <1>2. CASE DeliveryNext
    <2>1. UNCHANGED <<currentTerm, votedFor, role, votes, network>>
      BY <1>2 DEF DeliveryNext, ApplierSnapshot, ApplierCommands, ReaderCommand, ReaderSnapshot
    <2>2. QED BY <2>1, FrameVotes
  <1>3. CASE ConsensusNext
    <2>1. ASSUME NEW s \in Server, NEW cmd \in Command, Start(s, cmd)
          PROVE  GoodVotes
      BY <2>1, FrameVotes DEF Start
    <2>2. ASSUME NEW s \in Server, NEW p \in Server, SendAppendEntries(s, p)
          PROVE  GoodVotes
      <3>1. \A m \in network' : m.kind = "RequestVoteReply" => m \in network
        BY <2>2, SendAllAdds DEF SendAppendEntries
      <3>2. QED BY <2>2, <3>1, FrameVotes DEF SendAppendEntries
    <2>3. ASSUME NEW s \in Server, NEW p \in Server, SendSnapshot(s, p)
          PROVE  GoodVotes
      <3>1. \A m \in network' : m.kind = "RequestVoteReply" => m \in network
        BY <2>3, SendAllAdds DEF SendSnapshot
      <3>2. QED BY <2>3, <3>1, FrameVotes DEF SendSnapshot
    <2>4. ASSUME NEW m \in network, Lose(m)
          PROVE  GoodVotes
      BY <2>4, FrameVotes DEF Lose, persistentVars
    <2>5. QED
      BY <1>3, <2>1, <2>2, <2>3, <2>4, StartElectionVotes, RestartVotes, HandleRequestVoteVotes,
         HandleVoteReplyVotes, HandleAppendEntriesVotes, HandleAppendReplyVotes,
         HandleInstallSnapshotVotes, HandleSnapshotReplyVotes
      DEF ConsensusNext
  <1>4. QED BY <1>1, <1>2, <1>3 DEF Next

LEMMA InitVotes == Init => VotesGenuine
  BY DEF Init, VotesGenuine, VotesBacked, VotesUnique, LeaderElected, Granted, Received

\* The inductive invariant of elections: any vote a candidate has counted or may
\* still count was cast for it, in that term, and for no one else.
THEOREM VotesAreGenuine == Spec => []VotesGenuine
  <1>1. Init => VotesGenuine
    BY InitVotes
  <1>2. TypeOK /\ TypeOK' /\ VotesGenuine /\ [Next]_vars => VotesGenuine'
    BY StepsKeepVotes, GoodVotesStayGenuine
  <1>3. QED BY <1>1, <1>2, TypeCorrect, PTL DEF Spec

\* At most one leader per term, over every loss, delay, duplication and crash the
\* RPCs and the persister allow.
THEOREM ElectionSafe == Spec => []ElectionSafety
  <1>1. TypeOK /\ VotesGenuine => ElectionSafety
    BY GenuineVotesElectOne
  <1>2. QED BY <1>1, TypeCorrect, VotesAreGenuine, PTL

\* A peer never goes back to an earlier term and never changes its vote in one:
\* RequestVote, every step-down and the restart keep what was persisted.
THEOREM VotesAreFinal == Spec => VoteIsFinal
  <1>1. TypeOK /\ VotesGenuine /\ [Next]_vars =>
          \A s \in Server :
            /\ currentTerm'[s] >= currentTerm[s]
            /\ currentTerm'[s] = currentTerm[s] /\ votedFor[s] # Nobody
                 => votedFor'[s] = votedFor[s]
    BY StepsKeepVotes DEF GoodVotes, KeepsVotes
  <1>2. QED BY <1>1, TypeCorrect, VotesAreGenuine, PTL DEF Spec, VoteIsFinal
-----------------------------------------------------------------------------
\* A group of one

\* Nobody leads, and no operation was ever accepted.
Leaderless == started = {} /\ \A s \in Server : role[s] # "Leader"

\* No request is sent, so no reply can come back that would make a leader.
LEMMA AloneStaysSilent ==
  ASSUME TypeOK, Cardinality(Server) = 1, network = {}, Leaderless, [Next]_vars
  PROVE  network' = {} /\ Leaderless'
  <1>1. PICK u \in Server : Server = {u}
    BY ServerAssumption, FS_Singleton
  <1>2. CASE UNCHANGED vars
    BY <1>2 DEF vars, Leaderless
  <1>3. CASE DeliveryNext
    BY <1>3 DEF DeliveryNext, ApplierSnapshot, ApplierCommands, ReaderCommand, ReaderSnapshot,
                Leaderless
  <1>4. ASSUME NEW s \in Server, StartElection(s)
        PROVE  network' = {} /\ Leaderless'
    <2>1. Server \ {s} = {}
      BY <1>1
    <2>2. network' \subseteq network \cup {}
      BY <1>4, <2>1, SendAllAdds DEF StartElection
    <2>3. started' = started /\ role' = [role EXCEPT ![s] = "Candidate"] /\ role \in [Server -> Role]
      BY <1>4 DEF StartElection, TypeOK, ElectionTyped
    <2>4. QED BY <2>2, <2>3 DEF Leaderless
  <1>5. ASSUME NEW s \in Server, Restart(s)
        PROVE  network' = {} /\ Leaderless'
    BY <1>5 DEF Restart, Leaderless, TypeOK, ElectionTyped
  <1>6. CASE ConsensusNext
    <2>1. ASSUME NEW s \in Server
          PROVE  /\ \A cmd \in Command : ~Start(s, cmd)
                 /\ \A p \in Server : ~SendAppendEntries(s, p) /\ ~SendSnapshot(s, p)
      BY DEF Leaderless, Start, SendAppendEntries, SendSnapshot
    <2>2. Received("RequestVote") = {} /\ Received("RequestVoteReply") = {}
          /\ Received("AppendEntries") = {} /\ Received("AppendEntriesReply") = {}
          /\ Received("InstallSnapshot") = {} /\ Received("InstallSnapshotReply") = {}
      BY DEF Received
    <2>3. \E s \in Server : StartElection(s) \/ Restart(s)
      BY <1>6, <2>1, <2>2 DEF ConsensusNext
    <2>4. QED BY <1>4, <1>5, <2>3
  <1>7. QED BY <1>2, <1>3, <1>6 DEF Next

\* startElection counts its own vote but tests the majority only when a reply
\* arrives (election.go:70): a group of one stays without a leader for ever, and
\* Start refuses every operation.
THEOREM LonePeerNeverLeads == Spec => [](Cardinality(Server) = 1 => Leaderless)
  <1>. DEFINE Silent == Cardinality(Server) = 1 => network = {} /\ Leaderless
  <1>1. Init => Silent
    BY DEF Init, Leaderless
  <1>2. TypeOK /\ Silent /\ [Next]_vars => Silent'
    BY AloneStaysSilent
  <1>3. Silent => (Cardinality(Server) = 1 => Leaderless)
    OBVIOUS
  <1>. HIDE DEF Silent
  <1>4. QED BY <1>1, <1>2, <1>3, TypeCorrect, PTL DEF Spec
=============================================================================
