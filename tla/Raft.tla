-------------------------------- MODULE Raft --------------------------------
(***************************************************************************)
(* The Raft peers of internal/raft and the reader goroutine of             *)
(* internal/rsm that consumes their applyCh.                               *)
(*                                                                         *)
(* One action is one critical section of rf.mu (or of RSM.mu): an RPC      *)
(* handler, the continuation of an RPC call, one turn of a background      *)
(* goroutine.  Every handler writes to the persister before it unlocks,    *)
(* so at the granularity of these actions the disk equals the persistent   *)
(* fields of memory, and Restart keeps exactly those.                      *)
(*                                                                         *)
(* An RPC is a request and, once handled, a reply.  network is the set of  *)
(* those in flight: any of them may be handled next, lost, or handled and  *)
(* handled again.  A reply carries the term its caller captured when it    *)
(* sent the request (reqTerm), which the continuation compares with the    *)
(* term it finds after re-locking.                                         *)
(*                                                                         *)
(* The log drops the dummy entry at index 0 of rf.log: log[s] holds the    *)
(* entries after lastIncludedIndex[s].  A state machine is the sequence of *)
(* commands it has executed and a snapshot is such a sequence.             *)
(***************************************************************************)
EXTENDS Integers, Sequences, FiniteSets

CONSTANTS
  Server,       \* the peers of one group
  Command,      \* the operations; a core.Op has a fresh ID, so each is started once
  Nobody,       \* votedFor = -1
  MaxTerm,      \* bound: no election starts a term above it
  MaxInFlight,  \* bound on the messages in flight
  MaxRestarts,  \* bound on crashes, over all servers
  MaxRaftState  \* maxraftstate counted in log entries; -1: never compact

ASSUME ServerAssumption == IsFiniteSet(Server) /\ Server # {} /\ Nobody \notin Server
ASSUME BoundAssumption == {MaxTerm, MaxInFlight, MaxRestarts} \subseteq Nat
ASSUME CompactionAssumption == MaxRaftState \in Int

VARIABLES
  \* persistent fields of a Raft peer
  currentTerm, votedFor, log, lastIncludedIndex, lastIncludedTerm, snapshot,
  \* volatile fields
  role, commitIndex, lastApplied, nextIndex, matchIndex, pendingSnapshot,
  snapshotDue,  \* peers a sendSnapshotToPeer was spawned for since the election
  votes,  \* who granted its vote to the candidate or leader
  \* the RSM above the peer
  applyCh, sm, smIndex,
  \* RPCs
  network,
  \* history: operations started, what leaders have committed, crashes
  started, chosen, restarts

persistentVars == <<currentTerm, votedFor, log, lastIncludedIndex, lastIncludedTerm, snapshot>>
logVars        == <<log, lastIncludedIndex, lastIncludedTerm, snapshot>>
leaderVars     == <<nextIndex, matchIndex, snapshotDue>>
commitVars     == <<commitIndex, lastApplied, pendingSnapshot, chosen>>
rsmVars        == <<applyCh, sm, smIndex>>
vars == <<currentTerm, votedFor, role, votes, logVars, leaderVars,
          commitVars, rsmVars, network, started, restarts>>

Entry      == [term : Nat, cmd : Command]
NoSnapshot == [valid |-> FALSE, index |-> 0, data |-> <<>>]
Apply(snap, index, cmds) == [snap |-> snap, index |-> index, cmds |-> cmds]

-----------------------------------------------------------------------------
\* Log indexing (raft.go)

LastLogIndex(s) == lastIncludedIndex[s] + Len(log[s])

LogEntry(s, idx) == log[s][idx - lastIncludedIndex[s]]

\* Mutant: where there is no entry, as at the end of a snapshot, the term is -1.
LogTerm_NoEntry(s, idx) == IF idx > lastIncludedIndex[s] THEN LogEntry(s, idx).term ELSE -1

LogTerm(s, idx) == IF idx = lastIncludedIndex[s] THEN lastIncludedTerm[s]
                                                 ELSE LogEntry(s, idx).term

LastLogTerm(s) == LogTerm(s, LastLogIndex(s))

Indices(s) == lastIncludedIndex[s] + 1 .. LastLogIndex(s)

\* The commands of the entries after index `from` up to index `to`.
Commands(s, from, to) == [k \in 1 .. to - from |-> LogEntry(s, from + k).cmd]

Majority(S) == Cardinality(S) > Cardinality(Server) \div 2

Smaller(a, b) == IF a < b THEN a ELSE b
Larger(a, b)  == IF a > b THEN a ELSE b

-----------------------------------------------------------------------------
\* The network (core.Network)

\* Some of the messages in S may be lost as they are sent, those in flight stay.
SendAll(S) == \E T \in SUBSET S :
                /\ Cardinality(network \cup T) <= MaxInFlight
                /\ network' = network \cup T

\* m is handled, and the messages in S sent: m may arrive again.
Answer(m, S) == \E gone \in SUBSET {m} : \E T \in SUBSET S :
                  /\ Cardinality((network \ gone) \cup T) <= MaxInFlight
                  /\ network' = (network \ gone) \cup T

Received(kind) == {m \in network : m.kind = kind}

-----------------------------------------------------------------------------
Init ==
  /\ currentTerm = [s \in Server |-> 0]
  /\ votedFor = [s \in Server |-> Nobody]
  /\ log = [s \in Server |-> <<>>]
  /\ lastIncludedIndex = [s \in Server |-> 0]
  /\ lastIncludedTerm = [s \in Server |-> 0]
  /\ snapshot = [s \in Server |-> <<>>]
  /\ role = [s \in Server |-> "Follower"]
  /\ commitIndex = [s \in Server |-> 0]
  /\ lastApplied = [s \in Server |-> 0]
  /\ nextIndex = [s \in Server |-> [p \in Server |-> 0]]
  /\ matchIndex = [s \in Server |-> [p \in Server |-> 0]]
  /\ snapshotDue = [s \in Server |-> {}]
  /\ pendingSnapshot = [s \in Server |-> NoSnapshot]
  /\ votes = [s \in Server |-> {}]
  /\ applyCh = [s \in Server |-> <<>>]
  /\ sm = [s \in Server |-> <<>>]
  /\ smIndex = [s \in Server |-> 0]
  /\ network = {}
  /\ started = {} /\ chosen = {} /\ restarts = 0

-----------------------------------------------------------------------------
\* Elections (election.go)

\* A leader's fields are dead once it is no longer leader: transitionToLeader
\* writes all of them before anyone reads them again.
ForgetLeaderState(s) ==
  /\ nextIndex' = [nextIndex EXCEPT ![s] = [p \in Server |-> 0]]
  /\ matchIndex' = [matchIndex EXCEPT ![s] = [p \in Server |-> 0]]
  /\ snapshotDue' = [snapshotDue EXCEPT ![s] = {}]

\* So is the count of a startElection once the peer is a follower.
ForgetIfFollower(s) ==
  IF role'[s] = "Follower"
  THEN votes' = [votes EXCEPT ![s] = {}] /\ ForgetLeaderState(s)
  ELSE UNCHANGED <<votes, leaderVars>>

\* ticker checks role and timeout in one critical section and spawns startElection,
\* which locks again and looks at neither.  Every peer is a follower before it
\* leads and may leave any number of these goroutines behind, so what is left of
\* the check when one of them runs is nothing: a leader may start an election.
StartElection(s) ==
  /\ currentTerm[s] < MaxTerm
  /\ currentTerm' = [currentTerm EXCEPT ![s] = @ + 1]
  /\ role' = [role EXCEPT ![s] = "Candidate"]
  /\ votedFor' = [votedFor EXCEPT ![s] = s]
  /\ votes' = [votes EXCEPT ![s] = {s}]
  /\ ForgetLeaderState(s)
  /\ SendAll({[kind |-> "RequestVote", src |-> s, dst |-> p, term |-> currentTerm[s] + 1,
               lastLogIndex |-> LastLogIndex(s), lastLogTerm |-> LastLogTerm(s)]
              : p \in Server \ {s}})
  /\ UNCHANGED <<logVars, commitVars, rsmVars, started, restarts>>

LogUpToDate(m, s) ==
  \/ m.lastLogTerm > LastLogTerm(s)
  \/ m.lastLogTerm = LastLogTerm(s) /\ m.lastLogIndex >= LastLogIndex(s)

\* Mutant: every request resets votedFor, not only one of a newer term.
VoteInTerm_Reset(s, term) == Nobody

\* The vote as it stands once a newer term has been adopted.
VoteInTerm(s, term) == IF term > currentTerm[s] THEN Nobody ELSE votedFor[s]

\* Mutant: the vote already cast in this term is not looked at.
Grants_Again(m, s) == m.term >= currentTerm[s] /\ LogUpToDate(m, s)

\* Mutant: the candidate's log is not looked at.
Grants_AnyLog(m, s) == m.term >= currentTerm[s] /\ VoteInTerm(s, m.term) \in {Nobody, m.src}

Grants(m, s) ==
  /\ m.term >= currentTerm[s]
  /\ VoteInTerm(s, m.term) \in {Nobody, m.src}
  /\ LogUpToDate(m, s)

\* RequestVote.  reply.Term is read before the newer term is adopted.  Only a
\* granted vote or a newer term changes anything at the caller, so only those
\* replies are sent.
HandleRequestVote(m) ==
  LET s == m.dst IN
  /\ currentTerm' = [currentTerm EXCEPT ![s] = Larger(@, m.term)]
  /\ role' = [role EXCEPT ![s] = IF m.term > currentTerm[s] THEN "Follower" ELSE @]
  /\ ForgetIfFollower(s)
  /\ votedFor' = [votedFor EXCEPT ![s] = IF Grants(m, s) THEN m.src
                                                         ELSE VoteInTerm(s, m.term)]
  /\ Answer(m, {r \in {[kind |-> "RequestVoteReply", src |-> s, dst |-> m.src,
                         reqTerm |-> m.term, term |-> currentTerm[s], granted |-> Grants(m, s)]}
                : r.granted \/ r.term > r.reqTerm})
  /\ UNCHANGED <<logVars, commitVars, rsmVars, started, restarts>>

\* The step-down every continuation makes when a reply reports a newer term.
StepDown(s, term) ==
  /\ currentTerm' = [currentTerm EXCEPT ![s] = term]
  /\ role' = [role EXCEPT ![s] = "Follower"]
  /\ votedFor' = [votedFor EXCEPT ![s] = Nobody]
  /\ ForgetIfFollower(s)

\* Mutant: a vote for an earlier election counts in this one.
Counting_AnyTerm(m, s) == role[s] = "Candidate"

\* The vote is still being counted in the election the reply belongs to.
Counting(m, s) == role[s] = "Candidate" /\ currentTerm[s] = m.reqTerm

\* Mutant: nextIndex counts the dummy entry at index 0.
FirstNextIndex_WithDummy(s) == LastLogIndex(s) + 2

FirstNextIndex(s) == LastLogIndex(s) + 1

\* startElection's continuation, with transitionToLeader.
HandleVoteReply(m) ==
  LET s == m.dst
      wins == Majority(votes[s] \cup {m.src})
  IN
  /\ Counting(m, s)
  /\ \/ /\ m.term > currentTerm[s]
        /\ StepDown(s, m.term)
     \/ /\ m.term <= currentTerm[s] /\ m.granted
        /\ votes' = [votes EXCEPT ![s] = @ \cup {m.src}]
        /\ role' = [role EXCEPT ![s] = IF wins THEN "Leader" ELSE @]
        /\ nextIndex' = [nextIndex EXCEPT ![s] =
                           IF wins THEN [p \in Server |-> FirstNextIndex(s)] ELSE @]
        /\ matchIndex' = [matchIndex EXCEPT ![s] = IF wins THEN [p \in Server |-> 0] ELSE @]
        /\ snapshotDue' = [snapshotDue EXCEPT ![s] = IF wins THEN {} ELSE @]
        /\ UNCHANGED <<currentTerm, votedFor>>
  /\ Answer(m, {})
  /\ UNCHANGED <<logVars, commitVars, rsmVars, started, restarts>>

-----------------------------------------------------------------------------
\* Replication (raft.go Start, replication.go)

Start(s, cmd) ==
  /\ role[s] = "Leader" /\ cmd \notin started
  /\ log' = [log EXCEPT ![s] = Append(@, [term |-> currentTerm[s], cmd |-> cmd])]
  /\ started' = started \cup {cmd}
  /\ UNCHANGED <<currentTerm, votedFor, role, votes, lastIncludedIndex,
                 lastIncludedTerm, snapshot, leaderVars, commitVars, rsmVars, network, restarts>>

\* One AppendEntries carries the whole suffix after prevLogIndex.  A
\* prevLogIndex past the end of the log would panic in getLogTerm; the guard
\* never binds (NextIndexInBounds).
SendAppendEntries(s, p) ==
  LET prev == nextIndex[s][p] - 1 IN
  /\ role[s] = "Leader" /\ p # s
  /\ prev \in lastIncludedIndex[s] .. LastLogIndex(s)
  /\ SendAll({[kind |-> "AppendEntries", src |-> s, dst |-> p, term |-> currentTerm[s],
               prevLogIndex |-> prev, prevLogTerm |-> LogTerm(s, prev),
               entries |-> SubSeq(log[s], prev + 1 - lastIncludedIndex[s], Len(log[s])),
               leaderCommit |-> commitIndex[s]]})
  /\ UNCHANGED <<currentTerm, votedFor, role, votes, logVars, leaderVars, commitVars,
                 rsmVars, started, restarts>>

\* Mutant: a newer term is adopted but the leader goes on leading.
AdoptTerm_StayLeader(s, term) ==
  /\ currentTerm' = [currentTerm EXCEPT ![s] = Larger(@, term)]
  /\ votedFor' = [votedFor EXCEPT ![s] = VoteInTerm(s, term)]
  /\ role' = [role EXCEPT ![s] = IF role[s] = "Candidate" THEN "Follower" ELSE @]
  /\ ForgetIfFollower(s)

\* What AppendEntries and InstallSnapshot do to term, vote and role before
\* anything else, when the request is not stale.
AdoptTerm(s, term) ==
  /\ currentTerm' = [currentTerm EXCEPT ![s] = Larger(@, term)]
  /\ votedFor' = [votedFor EXCEPT ![s] = VoteInTerm(s, term)]
  /\ role' = [role EXCEPT ![s] =
       IF term > currentTerm[s] \/ role[s] = "Candidate" THEN "Follower" ELSE @]
  /\ ForgetIfFollower(s)

\* The reply to request m; term is the one the handler found.
AppendReply(m, success, xTerm, xIndex, xLen) ==
  [kind |-> "AppendEntriesReply", src |-> m.dst, dst |-> m.src, reqTerm |-> m.term,
   term |-> currentTerm[m.dst], success |-> success,
   match |-> m.prevLogIndex + Len(m.entries), xTerm |-> xTerm, xIndex |-> xIndex, xLen |-> xLen]

PrevInLog(m, s) == m.prevLogIndex \in lastIncludedIndex[s] .. LastLogIndex(s)

\* Mutant: having an entry at prevLogIndex is enough.
PrevMatches_AnyTerm(m, s) == PrevInLog(m, s)

PrevMatches(m, s) == PrevInLog(m, s) /\ LogTerm(s, m.prevLogIndex) = m.prevLogTerm

\* x starts the run of entries that have the term of the entry at idx.
StartsRun(s, x, idx) ==
  /\ \A i \in x .. idx : LogTerm(s, i) = LogTerm(s, idx)
  /\ x > lastIncludedIndex[s] => LogTerm(s, x - 1) # LogTerm(s, idx)

\* A refusal, with the hint for fast backtracking.
RefuseAppend(m) ==
  LET s == m.dst IN
  \/ /\ m.prevLogIndex > LastLogIndex(s)
     /\ Answer(m, {AppendReply(m, FALSE, -1, -1, LastLogIndex(s) + 1)})
  \/ /\ m.prevLogIndex < lastIncludedIndex[s]
     /\ Answer(m, {AppendReply(m, FALSE, -1, -1, lastIncludedIndex[s] + 1)})
  \/ /\ PrevInLog(m, s) /\ ~PrevMatches(m, s)
     /\ \E x \in lastIncludedIndex[s] .. m.prevLogIndex :
          /\ StartsRun(s, x, m.prevLogIndex)
          /\ Answer(m, {AppendReply(m, FALSE, LogTerm(s, m.prevLogIndex), x,
                                    LastLogIndex(s) + 1)})

\* Mutant: only missing entries are taken from the request.
Differs_Missing(m, s, k) == m.prevLogIndex + k > LastLogIndex(s)

\* The k-th entry of m is missing from the log or in conflict with it.
Differs(m, s, k) ==
  m.prevLogIndex + k <= LastLogIndex(s)
    => LogTerm(s, m.prevLogIndex + k) # m.entries[k].term

\* The log is kept up to the first entry that differs and continued with the
\* request's; a log that has all of them is left alone, however long it is.
MergeEntries(m, s) ==
  \/ /\ \A k \in 1 .. Len(m.entries) : ~Differs(m, s, k)
     /\ UNCHANGED log
  \/ \E k \in 1 .. Len(m.entries) :
       /\ Differs(m, s, k) /\ \A l \in 1 .. k - 1 : ~Differs(m, s, l)
       /\ log' = [log EXCEPT ![s] =
            SubSeq(@, 1, m.prevLogIndex + k - 1 - lastIncludedIndex[s])
              \o SubSeq(m.entries, k, Len(m.entries))]

\* The follower's commitIndex after the request, lastLogIdx being its log's end then.
CommitUpTo(m, lastLogIdx) == Smaller(m.leaderCommit, lastLogIdx)

AcceptAppend(m) ==
  LET s == m.dst IN
  /\ PrevMatches(m, s)
  /\ MergeEntries(m, s)
  /\ commitIndex' = [commitIndex EXCEPT ![s] =
       IF m.leaderCommit > @ THEN CommitUpTo(m, lastIncludedIndex[s] + Len(log'[s])) ELSE @]
  /\ Answer(m, {AppendReply(m, TRUE, 0, 0, 0)})

HandleAppendEntries(m) ==
  LET s == m.dst IN
  /\ \/ /\ m.term < currentTerm[s]
        /\ Answer(m, {AppendReply(m, FALSE, 0, 0, 0)})
        /\ UNCHANGED <<currentTerm, votedFor, role, votes, leaderVars, log, commitIndex>>
     \/ /\ m.term >= currentTerm[s]
        /\ AdoptTerm(s, m.term)
        /\ \/ RefuseAppend(m) /\ UNCHANGED <<log, commitIndex>>
           \/ AcceptAppend(m)
  /\ UNCHANGED <<lastIncludedIndex, lastIncludedTerm, snapshot, lastApplied, pendingSnapshot, chosen, rsmVars, started, restarts>>

\* Mutant: entries of earlier terms are committed by counting replicas.
Committable_AnyTerm(s, match) ==
  {n \in Indices(s) : /\ n > commitIndex[s]
                      /\ Majority({s} \cup {p \in Server \ {s} : match[p] >= n})}

\* Indices above commitIndex that leader s may commit, given matchIndex match.
Committable(s, match) ==
  {n \in Indices(s) : /\ n > commitIndex[s]
                      /\ LogTerm(s, n) = currentTerm[s]
                      /\ Majority({s} \cup {p \in Server \ {s} : match[p] >= n})}

\* The loop runs from the last index down and stops at the first hit.
AdvanceCommit(s, match) ==
  LET ready == Committable(s, match) IN
  \/ ready = {} /\ UNCHANGED <<commitIndex, chosen>>
  \/ \E n \in ready :
       /\ \A k \in ready : k <= n
       /\ commitIndex' = [commitIndex EXCEPT ![s] = n]
       /\ chosen' = chosen \cup {[index |-> k, entry |-> LogEntry(s, k)] :
                                 k \in {i \in Indices(s) : commitIndex[s] < i /\ i <= n}}

\* matchIndex never goes back, and nextIndex follows it.
Matched(s, p, match) == Larger(matchIndex[s][p], match)

\* Mutant: the follower's hint is the index that was just refused.
BacksUpTo_Refused(s, m, n) == n = IF m.xTerm = -1 THEN m.xLen ELSE m.xIndex + 1

\* The next AppendEntries starts at n: past the end of a short log, or after the
\* leader's last entry of the conflicting term, or at the follower's first.
BacksUpTo(s, m, n) ==
  LET hasTerm == {k \in lastIncludedIndex[s] .. LastLogIndex(s) : LogTerm(s, k) = m.xTerm}
  IN  IF m.xTerm = -1 THEN n = m.xLen
      ELSE IF hasTerm = {} THEN n = m.xIndex
      ELSE n - 1 \in hasTerm /\ \A k \in hasTerm : k <= n - 1

HandleAppendReply(m) ==
  LET s == m.dst
      p == m.src
  IN
  /\ role[s] = "Leader" /\ currentTerm[s] = m.reqTerm
  /\ \/ /\ m.term > currentTerm[s]
        /\ StepDown(s, m.term)
        /\ UNCHANGED <<commitIndex, chosen>>
     \/ /\ m.term <= currentTerm[s] /\ m.success
        /\ matchIndex' = [matchIndex EXCEPT ![s][p] = Matched(s, p, m.match)]
        /\ nextIndex' = [nextIndex EXCEPT ![s][p] = Matched(s, p, m.match) + 1]
        /\ AdvanceCommit(s, matchIndex'[s])
        /\ UNCHANGED <<currentTerm, votedFor, role, votes, snapshotDue>>
     \/ /\ m.term <= currentTerm[s] /\ ~m.success
        /\ \E n \in {m.xLen, m.xIndex} \cup lastIncludedIndex[s] + 1 .. LastLogIndex(s) + 1 :
             /\ BacksUpTo(s, m, n)
             /\ nextIndex' = [nextIndex EXCEPT ![s][p] = Larger(n, 1)]
        /\ UNCHANGED <<currentTerm, votedFor, role, votes, matchIndex, snapshotDue,
                       commitIndex, chosen>>
  /\ Answer(m, {})
  /\ UNCHANGED <<logVars, lastApplied, pendingSnapshot, rsmVars, started, restarts>>

-----------------------------------------------------------------------------
\* Snapshot transfer (persist.go)

\* sendSnapshotToPeer does not look at nextIndex again: once a snapshot for p was
\* called for in a term, a goroutine may send one at any later time in it.
SendSnapshot(s, p) ==
  /\ role[s] = "Leader" /\ p # s
  /\ nextIndex[s][p] <= lastIncludedIndex[s] \/ p \in snapshotDue[s]
  /\ snapshotDue' = [snapshotDue EXCEPT ![s] = @ \cup {p}]
  /\ SendAll({[kind |-> "InstallSnapshot", src |-> s, dst |-> p, term |-> currentTerm[s],
               index |-> lastIncludedIndex[s], indexTerm |-> lastIncludedTerm[s],
               data |-> snapshot[s]]})
  /\ UNCHANGED <<currentTerm, votedFor, role, votes, logVars, nextIndex, matchIndex,
                 commitVars, rsmVars, started, restarts>>

\* The entries after the snapshot survive if the log agrees with it there.
RetainedLog(m, s) ==
  IF m.index <= LastLogIndex(s) /\ LogTerm(s, m.index) = m.indexTerm
    THEN SubSeq(log[s], m.index + 1 - lastIncludedIndex[s], Len(log[s]))
    ELSE <<>>

Install(m) ==
  LET s == m.dst IN
  /\ log' = [log EXCEPT ![s] = RetainedLog(m, s)]
  /\ lastIncludedIndex' = [lastIncludedIndex EXCEPT ![s] = m.index]
  /\ lastIncludedTerm' = [lastIncludedTerm EXCEPT ![s] = m.indexTerm]
  /\ snapshot' = [snapshot EXCEPT ![s] = m.data]
  /\ commitIndex' = [commitIndex EXCEPT ![s] = Larger(@, m.index)]
  /\ lastApplied' = [lastApplied EXCEPT ![s] = Larger(@, m.index)]
  /\ pendingSnapshot' = [pendingSnapshot EXCEPT ![s] =
       [valid |-> TRUE, index |-> m.index, data |-> m.data]]

HandleInstallSnapshot(m) ==
  LET s == m.dst IN
  /\ Answer(m, {[kind |-> "InstallSnapshotReply", src |-> s, dst |-> m.src,
                 reqTerm |-> m.term, term |-> currentTerm[s], index |-> m.index]})
  /\ IF m.term < currentTerm[s] THEN UNCHANGED <<currentTerm, votedFor, role, votes, leaderVars>>
                                ELSE AdoptTerm(s, m.term)
  /\ IF m.term < currentTerm[s] \/ m.index <= lastIncludedIndex[s]
       THEN UNCHANGED <<logVars, commitIndex, lastApplied, pendingSnapshot>>
       ELSE Install(m)
  /\ UNCHANGED <<chosen, rsmVars, started, restarts>>

\* Any reply that is not newer counts as installed.
HandleSnapshotReply(m) ==
  LET s == m.dst
      p == m.src
  IN
  /\ role[s] = "Leader" /\ currentTerm[s] = m.reqTerm
  /\ \/ /\ m.term > currentTerm[s]
        /\ StepDown(s, m.term)
     \/ /\ m.term <= currentTerm[s]
        /\ matchIndex' = [matchIndex EXCEPT ![s][p] = Matched(s, p, m.index)]
        /\ nextIndex' = [nextIndex EXCEPT ![s][p] = Matched(s, p, m.index) + 1]
        /\ UNCHANGED <<currentTerm, votedFor, role, votes, snapshotDue>>
  /\ Answer(m, {})
  /\ UNCHANGED <<logVars, commitVars, rsmVars, started, restarts>>

-----------------------------------------------------------------------------
\* Delivery: the applier goroutine and the RSM's reader

\* A pending snapshot goes first; lastApplied was moved when it was installed.
ApplierSnapshot(s) ==
  /\ pendingSnapshot[s].valid
  /\ applyCh' = [applyCh EXCEPT ![s] =
       Append(@, Apply(TRUE, pendingSnapshot[s].index, pendingSnapshot[s].data))]
  /\ pendingSnapshot' = [pendingSnapshot EXCEPT ![s] = NoSnapshot]
  /\ UNCHANGED <<currentTerm, votedFor, role, votes, logVars, leaderVars,
                 commitIndex, lastApplied, chosen, sm, smIndex, network, started, restarts>>

\* Mutant: the applier does not look for a pending snapshot first.
SnapshotFirst_Skipped(s) == FALSE

SnapshotFirst(s) == pendingSnapshot[s].valid

\* The committed entries are copied under the lock and sent after it is
\* released.  Indices at or below lastIncludedIndex are skipped; one past the
\* log would panic, and never occurs (CommittedAgree).
ApplierCommands(s) ==
  LET from == Larger(lastApplied[s], lastIncludedIndex[s])
      cmds == Commands(s, from, commitIndex[s])
  IN
  /\ ~SnapshotFirst(s) /\ commitIndex[s] > lastApplied[s]
  /\ commitIndex[s] <= LastLogIndex(s)
  /\ applyCh' = [applyCh EXCEPT ![s] =
       @ \o [k \in 1 .. Len(cmds) |-> Apply(FALSE, from + k, <<cmds[k]>>)]]
  /\ lastApplied' = [lastApplied EXCEPT ![s] = commitIndex[s]]
  /\ UNCHANGED <<currentTerm, votedFor, role, votes, logVars, leaderVars,
                 commitIndex, pendingSnapshot, chosen, sm, smIndex, network, started, restarts>>

\* Raft.Snapshot(index): cut the log, keep the snapshot with it.  An index past
\* the log would panic, and never occurs: the reader has applied it.
Compact(s, index, data) ==
  IF index <= lastIncludedIndex[s]
  THEN UNCHANGED logVars
  ELSE /\ index <= LastLogIndex(s)
       /\ log' = [log EXCEPT ![s] = SubSeq(@, index + 1 - lastIncludedIndex[s], Len(@))]
       /\ lastIncludedIndex' = [lastIncludedIndex EXCEPT ![s] = index]
       /\ lastIncludedTerm' = [lastIncludedTerm EXCEPT ![s] = LogTerm(s, index)]
       /\ snapshot' = [snapshot EXCEPT ![s] = data]

CompactionDue(s) == MaxRaftState # -1 /\ Len(log[s]) >= MaxRaftState

\* Mutant: Raft's lastApplied, which runs ahead of the reader, is cut at.
CompactionIndex_Raft(s) == lastApplied[s]

CompactionIndex(s) == Head(applyCh[s]).index

\* The reader executes a command and compacts if the log has grown too long.
\* DoOp touches only the reader's own state, so it commutes with whatever
\* takes rf.mu before the Snapshot call that follows it.
ReaderCommand(s) ==
  /\ applyCh[s] # <<>> /\ ~Head(applyCh[s]).snap
  /\ sm' = [sm EXCEPT ![s] = @ \o Head(applyCh[s]).cmds]
  /\ smIndex' = [smIndex EXCEPT ![s] = Head(applyCh[s]).index]
  /\ applyCh' = [applyCh EXCEPT ![s] = Tail(@)]
  /\ IF CompactionDue(s) THEN Compact(s, CompactionIndex(s), sm'[s]) ELSE UNCHANGED logVars
  /\ UNCHANGED <<currentTerm, votedFor, role, votes, leaderVars, commitVars,
                 network, started, restarts>>

\* Mutant: every snapshot is restored.
Restores_Always(s, msg) == TRUE

\* Mutant: a snapshot one ahead of the state machine is taken for old.
Restores_OffByOne(s, msg) == msg.index > smIndex[s] + 1

\* A snapshot is restored only if it is ahead of the state machine.
Restores(s, msg) == msg.index > smIndex[s]

ReaderSnapshot(s) ==
  /\ applyCh[s] # <<>> /\ Head(applyCh[s]).snap
  /\ IF Restores(s, Head(applyCh[s]))
       THEN /\ sm' = [sm EXCEPT ![s] = Head(applyCh[s]).cmds]
            /\ smIndex' = [smIndex EXCEPT ![s] = Head(applyCh[s]).index]
       ELSE UNCHANGED <<sm, smIndex>>
  /\ applyCh' = [applyCh EXCEPT ![s] = Tail(@)]
  /\ UNCHANGED <<currentTerm, votedFor, role, votes, logVars, leaderVars,
                 commitVars, network, started, restarts>>

-----------------------------------------------------------------------------
\* A crash and the restart from disk: Make, readPersist and rsm.New.  The
\* snapshot moves commitIndex and lastApplied; no one hands it to the state machine.
Restart(s) ==
  /\ restarts < MaxRestarts
  /\ restarts' = restarts + 1
  /\ role' = [role EXCEPT ![s] = "Follower"]
  /\ commitIndex' = [commitIndex EXCEPT ![s] = lastIncludedIndex[s]]
  /\ lastApplied' = [lastApplied EXCEPT ![s] = lastIncludedIndex[s]]
  /\ votes' = [votes EXCEPT ![s] = {}]
  /\ ForgetLeaderState(s)
  /\ pendingSnapshot' = [pendingSnapshot EXCEPT ![s] = NoSnapshot]
  /\ applyCh' = [applyCh EXCEPT ![s] = <<>>]
  /\ sm' = [sm EXCEPT ![s] = <<>>]
  /\ smIndex' = [smIndex EXCEPT ![s] = 0]
  /\ UNCHANGED <<persistentVars, chosen, network, started>>

\* A message in flight is lost.
Lose(m) ==
  /\ network' = network \ {m}
  /\ UNCHANGED <<persistentVars, role, votes, leaderVars, commitVars, rsmVars, started, restarts>>

\* The peers alone, their applier and reader goroutines never running.
ConsensusNext ==
  \/ \E s \in Server :
       \/ StartElection(s)
       \/ \E cmd \in Command : Start(s, cmd)
       \/ \E p \in Server : SendAppendEntries(s, p) \/ SendSnapshot(s, p)
       \/ Restart(s)
  \/ \E m \in Received("RequestVote") : HandleRequestVote(m)
  \/ \E m \in Received("RequestVoteReply") : HandleVoteReply(m)
  \/ \E m \in Received("AppendEntries") : HandleAppendEntries(m)
  \/ \E m \in Received("AppendEntriesReply") : HandleAppendReply(m)
  \/ \E m \in Received("InstallSnapshot") : HandleInstallSnapshot(m)
  \/ \E m \in Received("InstallSnapshotReply") : HandleSnapshotReply(m)
  \/ \E m \in network : Lose(m)

DeliveryNext ==
  \E s \in Server :
    \/ ApplierSnapshot(s) \/ ApplierCommands(s)
    \/ ReaderCommand(s) \/ ReaderSnapshot(s)

Next == ConsensusNext \/ DeliveryNext

Spec == Init /\ [][Next]_vars
=============================================================================
