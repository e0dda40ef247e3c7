--------------------------- MODULE RaftProperties ---------------------------
(***************************************************************************)
(* What the peers of module Raft promise.                                  *)
(***************************************************************************)
EXTENDS Raft

Role == {"Follower", "Candidate", "Leader"}

VoteRequests == [kind : {"RequestVote"}, src : Server, dst : Server, term : Nat,
                 lastLogIndex : Nat, lastLogTerm : Nat]
VoteReplies == [kind : {"RequestVoteReply"}, src : Server, dst : Server, reqTerm : Nat,
                term : Nat, granted : BOOLEAN]
AppendRequests == [kind : {"AppendEntries"}, src : Server, dst : Server, term : Nat,
                   prevLogIndex : Nat, prevLogTerm : Nat, entries : Seq(Entry),
                   leaderCommit : Nat]
AppendReplies == [kind : {"AppendEntriesReply"}, src : Server, dst : Server, reqTerm : Nat,
                  term : Nat, success : BOOLEAN, match : Nat, xTerm : Int, xIndex : Int,
                  xLen : Int]
InstallRequests == [kind : {"InstallSnapshot"}, src : Server, dst : Server, term : Nat,
                    index : Nat, indexTerm : Nat, data : Seq(Command)]
InstallReplies == [kind : {"InstallSnapshotReply"}, src : Server, dst : Server,
                   reqTerm : Nat, term : Nat, index : Nat]

Message == VoteRequests \cup VoteReplies \cup AppendRequests \cup AppendReplies
             \cup InstallRequests \cup InstallReplies

ElectionTyped ==
  /\ currentTerm \in [Server -> Nat]
  /\ votedFor \in [Server -> Server \cup {Nobody}]
  /\ role \in [Server -> Role]
  /\ votes \in [Server -> SUBSET Server]

LogTyped ==
  /\ log \in [Server -> Seq(Entry)]
  /\ lastIncludedIndex \in [Server -> Nat]
  /\ lastIncludedTerm \in [Server -> Nat]
  /\ snapshot \in [Server -> Seq(Command)]

LeaderTyped ==
  /\ nextIndex \in [Server -> [Server -> Nat]]
  /\ matchIndex \in [Server -> [Server -> Nat]]
  /\ snapshotDue \in [Server -> SUBSET Server]

CommitTyped ==
  /\ commitIndex \in [Server -> Nat]
  /\ lastApplied \in [Server -> Nat]
  /\ pendingSnapshot \in [Server -> [valid : BOOLEAN, index : Nat, data : Seq(Command)]]
  /\ chosen \subseteq [index : Nat, entry : Entry]

RsmTyped ==
  /\ applyCh \in [Server -> Seq([snap : BOOLEAN, index : Nat, cmds : Seq(Command)])]
  /\ sm \in [Server -> Seq(Command)]
  /\ smIndex \in [Server -> Nat]

\* Every field holds a value of its Go type: no counter is negative, votedFor
\* names a peer or nobody, and every message is one a handler accepts.
TypeOK ==
  /\ ElectionTyped /\ LogTyped /\ LeaderTyped /\ CommitTyped /\ RsmTyped
  /\ network \subseteq Message
  /\ started \subseteq Command /\ restarts \in Nat

-----------------------------------------------------------------------------
\* Elections

\* A term has at most one leader, whatever votes are delayed, lost, duplicated
\* or counted by a peer that has crashed in between (RequestVote, startElection).
ElectionSafety ==
  \A s, t \in Server :
    role[s] = "Leader" /\ role[t] = "Leader" /\ currentTerm[s] = currentTerm[t] => s = t

\* A peer's term never goes back and its vote in a term is never moved to
\* another candidate, not even across a crash (persist before every unlock).
VoteIsFinal ==
  [][\A s \in Server :
       /\ currentTerm'[s] >= currentTerm[s]
       /\ currentTerm'[s] = currentTerm[s] /\ votedFor[s] # Nobody
            => votedFor'[s] = votedFor[s]]_vars

\* The terms in which c may count v's vote: those of the replies on their way
\* and that of the election c has counted it in.
Granted(v, c) ==
  {r.reqTerm : r \in {m \in Received("RequestVoteReply") : m.src = v /\ m.dst = c /\ m.granted}}
    \cup {term \in {currentTerm[c]} : role[c] # "Follower" /\ v \in votes[c]}

\* A vote that is or may yet be counted was cast: its voter has it on disk, for
\* no one else in that term, until it moves to a higher one.
VotesBacked ==
  \A v, c \in Server : \A term \in Granted(v, c) :
    currentTerm[v] > term \/ (currentTerm[v] = term /\ votedFor[v] = c)

VotesUnique ==
  \A v, c, d \in Server : Granted(v, c) \cap Granted(v, d) # {} => c = d

LeaderElected ==
  \A s \in Server : role[s] = "Leader" => Majority(votes[s])

\* The inductive invariant behind ElectionSafety: however late a vote reply is
\* counted, it stands for a vote its voter gave and cannot give again.
VotesGenuine == VotesBacked /\ VotesUnique /\ LeaderElected

-----------------------------------------------------------------------------
\* Logs

\* Server s holds committed entry c, in its log or under its snapshot.
Holds(s, c) ==
  \/ c.index <= lastIncludedIndex[s]
  \/ c.index <= LastLogIndex(s) /\ LogEntry(s, c.index) = c.entry

\* Two logs that have entries of the same term at an index agree there and on
\* every index below that both still hold.
LogMatching ==
  \A s, t \in Server : \A i \in Indices(s) \cap Indices(t) :
    LogTerm(s, i) = LogTerm(t, i) =>
      \A k \in Indices(s) \cap Indices(t) : k <= i => LogEntry(s, k) = LogEntry(t, k)

\* A leader with the highest term in the group holds every entry any leader has
\* ever committed: what the up-to-date check of RequestVote is for.
LeaderCompleteness ==
  \A s \in Server :
    role[s] = "Leader" /\ (\A t \in Server : currentTerm[t] <= currentTerm[s])
      => \A c \in chosen : Holds(s, c)

\* A committed entry stays on a majority of the disks, across truncations,
\* compactions, snapshot transfers and crashes.
ChosenDurable ==
  \A c \in chosen : Majority({s \in Server : Holds(s, c)})

\* A peer takes an entry for committed only if it is the entry a leader committed
\* there.  AppendEntries clamps leaderCommit by its own last index and not by the
\* request's last new entry: a stale tail must not slip under commitIndex.
CommittedAgree ==
  \A s \in Server : \A k \in lastIncludedIndex[s] + 1 .. commitIndex[s] :
    k <= LastLogIndex(s) /\ [index |-> k, entry |-> LogEntry(s, k)] \in chosen

\* What a leader calls for is in its log or under its snapshot: nextIndex never
\* passes the end of the log, where building the request would panic.
NextIndexInBounds ==
  \A s, p \in Server :
    role[s] = "Leader" => nextIndex[s][p] \in 1 .. LastLogIndex(s) + 1

\* A leader never rewrites or drops an entry of its own log.
LeaderAppendOnly ==
  [][\A s \in Server :
       role[s] = "Leader" /\ role'[s] = "Leader" /\ currentTerm'[s] = currentTerm[s] =>
         /\ LastLogIndex(s)' >= LastLogIndex(s)
         /\ \A k \in Indices(s) : k > lastIncludedIndex'[s] => LogEntry(s, k)' = LogEntry(s, k)]_vars

-----------------------------------------------------------------------------
\* State machines

ChosenCommands ==
  [k \in 1 .. Cardinality({c.index : c \in chosen}) |->
     (CHOOSE c \in chosen : c.index = k).entry.cmd]

\* Every state machine has executed exactly the committed commands up to the
\* index the RSM believes it is at: none skipped, repeated or out of order.
StateMachineSafety ==
  \A s \in Server :
    smIndex[s] <= Len(ChosenCommands) /\ sm[s] = SubSeq(ChosenCommands, 1, smIndex[s])

\* A snapshot, on disk or on its way, is the state of the committed prefix it
\* claims to replace.
SnapshotsFaithful ==
  /\ \A s \in Server : snapshot[s] = SubSeq(ChosenCommands, 1, lastIncludedIndex[s])
  /\ \A m \in Received("InstallSnapshot") : m.data = SubSeq(ChosenCommands, 1, m.index)

\* Nothing applied is lost between the applier and the reader: once the channel
\* is drained the state machine is where lastApplied says.
NothingLostInDelivery ==
  \A s \in Server :
    applyCh[s] = <<>> /\ ~pendingSnapshot[s].valid => smIndex[s] = lastApplied[s]

\* Only a crash takes a state machine or a commitIndex back: a snapshot that
\* arrives late never does ("they never regress", core/rsm.go).
NoRegress ==
  [][restarts' = restarts =>
       \A s \in Server : smIndex'[s] >= smIndex[s] /\ commitIndex'[s] >= commitIndex[s]]_vars

\* The group implements one replicated log: decided operations are never
\* withdrawn or repeated, and each state machine goes from prefix to prefix.
Abstract == INSTANCE ReplicatedLog
              WITH Replica <- Server, Op <- Command, chosen <- ChosenCommands, executed <- sm

ImplementsReplicatedLog == Abstract!Spec

-----------------------------------------------------------------------------
\* What a document says and the code does not do

\* "On restart -> reads snapshot via persister.ReadSnapshot() -> calls
\* kv.Restore(data)" (architecture.md): a state machine that has executed the
\* operation at index k has executed all k of them.
RestoredAfterRestart ==
  \A s \in Server : sm[s] # <<>> => Len(sm[s]) = smIndex[s]

-----------------------------------------------------------------------------
\* Progress

\* What a tick of s's replicationTicker for p sends: the snapshot if the log no
\* longer has what p needs.
ByLog(s, p) == nextIndex[s][p] > lastIncludedIndex[s]

\* A tick whose request gets onto the network, p answering it, s hearing that.
\* Their strong fairness is what a tick every 100ms and a network that does not
\* lose a message for ever give.
RequestGoesOut(s, p) ==
  /\ IF ByLog(s, p) THEN SendAppendEntries(s, p) ELSE SendSnapshot(s, p)
  /\ network' # network

RequestIsAnswered(s, p) ==
  \E m \in network :
    /\ m.src = s /\ m.dst = p
    /\ \/ ByLog(s, p) /\ m.kind = "AppendEntries" /\ HandleAppendEntries(m)
       \/ ~ByLog(s, p) /\ m.kind = "InstallSnapshot" /\ HandleInstallSnapshot(m)
    /\ m \notin network' /\ network' # network \ {m}

AnswerIsTakenIn(s, p) ==
  \E m \in network :
    /\ m.src = p /\ m.dst = s
    /\ \/ ByLog(s, p) /\ m.kind = "AppendEntriesReply" /\ HandleAppendReply(m)
       \/ ~ByLog(s, p) /\ m.kind = "InstallSnapshotReply" /\ HandleSnapshotReply(m)

\* The peers of Q run and can talk to each other; nothing is assumed of the
\* others.  The applier wakes at every Broadcast and the reader at every
\* message; a message that is not handled times out.
Fairness(Q) ==
  /\ \A s \in Q : WF_vars(ApplierSnapshot(s) \/ ApplierCommands(s))
  /\ \A s \in Q : WF_vars(ReaderCommand(s) \/ ReaderSnapshot(s))
  /\ \A s \in Q : \A p \in Q \ {s} :
       /\ SF_vars(RequestGoesOut(s, p))
       /\ SF_vars(RequestIsAnswered(s, p))
       /\ SF_vars(AnswerIsTakenIn(s, p))
  /\ WF_vars(\E m \in network : Lose(m))

\* Peer s leads in the last term and has taken cmd in.
TookIn(s, cmd) ==
  /\ role[s] = "Leader" /\ currentTerm[s] = MaxTerm
  /\ \E i \in Indices(s) : LogEntry(s, i) = [term |-> MaxTerm, cmd |-> cmd]

Executed(p, cmd) == \E i \in 1 .. Len(sm[p]) : sm[p][i] = cmd
=============================================================================
