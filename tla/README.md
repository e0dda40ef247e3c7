# TLA+ models of the distributed key/value store

The repository (`src/DistributedKeyValueStore`, Go) is a sharded, replicated
key/value store. This directory holds TLA+ modules that model it, TLC
configurations that check them on small instances, and proofs that TLAPS checks.
File names below are relative to `src/DistributedKeyValueStore/internal`.

## The system

| component | state | operations | talks to |
|---|---|---|---|
| Raft peer (`raft/`) | term, vote, log, snapshot indices (persistent); role, commitIndex, lastApplied, nextIndex, matchIndex, a pending snapshot | `Start`, `Snapshot`; RPCs `RequestVote`, `AppendEntries`, `InstallSnapshot`; goroutines `ticker`, `replicationTicker`, `applier` | other peers by RPC, its RSM through `applyCh`, its persister |
| RSM (`rsm/`) | `lastApplied`, the `notify` map, a state machine | `Submit`, goroutine `reader` | its peer (`Start`, `GetState`, `Snapshot`), the state machine |
| Config store (`kvsrv/`) | versioned values | `Get`, `Put`; client `Clerk` with retransmission; `Lock` | by RPC |
| Shard group (`shardgrp/`) | per shard: data, owned, frozen, configuration number | `Get`, `Put`, `FreezeShard`, `InstallShard`, `DeleteShard`, each submitted to the RSM | clients and controllers by RPC |
| Shard controller (`shardctrler/`) | none of its own: the configuration is a key of the config store | `InitConfig`, `Query`, `ChangeConfigTo` | config store, lock, shard groups |
| Sharded client (`shardkv/`) | a cached configuration | `Get`, `Put` | config store, shard groups |
| Persisters (`persist/`) | two files | `Save`, reads | |
| Transports (`transport/`) | connections | `Call` | |

What makes each part correct, and hard to get right:

* **Raft peer**: one leader per term; a committed entry is never lost or
  replaced; logs that agree at an index agree below it. RPCs are lost, delayed,
  duplicated and reordered, every continuation re-locks a mutex that others held
  in between, and any peer may crash between two of them.
* **RSM**: the state machine executes the committed operations in order, once,
  through snapshots that are taken, sent and restored while the applier runs; a
  waiter of `Submit` learns the fate of its operation and of no other.
* **Config store**: a `Put` takes effect at most once; `ErrMaybe` is reported
  exactly when that cannot be told; at most one client holds a lock.
* **Shard group, controller, client**: a shard is served by one group at a time,
  its data moves whole, and neither a repeated request nor a controller that
  crashes half way loses a write.
* **Persister**: what a peer finds after a crash is one `Save` or the one before.

PROJECT.json lists the places where this bites (`hazards`) with the properties
that cover them.

## Modules

| module | content |
|---|---|
| `Raft` | the peers of one group, their appliers and the reader goroutine of each RSM |
| `RaftProperties` | type invariant, safety, action and progress properties of `Raft` |
| `ReplicatedLog` | what a group promises: one growing sequence of operations, each replica having executed a prefix |
| `MCRaft` | constants and initial states for TLC |
| `RaftProofs` | type correctness; election safety and finality of votes, proved |
| `RaftLogProofs` | log matching and append-only leaders, proved |
| `RaftCommitProofs` | what is committed stays committed, and no index leaves the log, proved |
| `RaftDeliveryProofs` | state machines execute what was committed, in order and without gaps; a group is a `ReplicatedLog`, proved |
| `RSM` | the callers of `Submit` on one server, its reader, the applier and `applyCh` between them, over one abstract peer |
| `RSMProofs` | who gets an answer gets its own, who gets an error has lost its leader, a wake-up is lost in the three known ways only, proved |
| `DiskPersister` | `Save` step by step, with failing writes and crashes, and what a restart finds |
| `DiskPersisterProofs` | its invariants, proved |
| `Mutex` | what a lock promises |
| `KvLock` | the config store's server, the `Clerk` that repeats its calls, the `Lock` on top, and their properties |
| `KvLockProofs` | the lock is a `Mutex`, `Put` reports what happened, proved |
| `ShardStore` | what the sharded store promises its clients, wherever the shards are |
| `Migration` | shard groups, controllers and sharded clients together |
| `MCMigration` | its symmetry for TLC |
| `MigrationProofs` | one owner per shard, agreement with the configuration, no fencing of the lock's holder, the refinement of `ShardStore`, proved |

The levels rest on one another through their abstract specifications, not by one
product of state machines: `Raft` implements `ReplicatedLog`, so `Migration` takes
a group for one state machine; `KvLock` implements `Mutex`, so `Migration` takes
the lock for a holder; `Migration` implements `ShardStore`.

### How `Raft` corresponds to the code

An action is one critical section of `rf.mu` (or of `RSM.mu`):

| action | code |
|---|---|
| `StartElection` | `ticker` and `startElection` up to the unlock |
| `HandleRequestVote` | the RPC handler |
| `HandleVoteReply` | `startElection`'s continuation, with `transitionToLeader` |
| `Start` | `Start` |
| `SendAppendEntries`, `SendSnapshot` | the requests built by `sendAppendEntriesToPeer` and `sendSnapshotToPeer` |
| `HandleAppendEntries`, `HandleInstallSnapshot` | the RPC handlers |
| `HandleAppendReply`, `HandleSnapshotReply` | the continuations of the two senders |
| `ApplierSnapshot`, `ApplierCommands` | one turn of `applier` |
| `ReaderCommand`, `ReaderSnapshot` | one turn of `reader`, with `Raft.Snapshot` |
| `Restart` | a crash, then `Make`, `readPersist` and `rsm.New` |
| `Lose` | a request or reply that never arrives |

* *Messages.* `network` is the set of requests and replies in flight. A message
  may be lost when it is sent or later, and handled again after it was handled.
  A reply carries the term its caller captured (`reqTerm`): the closure compares
  it with the term found after re-locking.
* *Elections.* `ticker` checks the role in one critical section and spawns
  `startElection`, which looks at nothing when it locks. Every leader was a
  follower first and may have left such a goroutine behind, so `StartElection`
  has no guard on the role: a leader may depose itself. Timers are abstracted
  to "may fire".
* *Snapshots.* `replicationTicker` decides between log and snapshot in one
  critical section and the goroutine it spawns reads the state in another:
  `snapshotDue` remembers for which peers one may still be running.
* *The log* is the part after the dummy entry at index 0 of `rf.log`. A state
  machine is the sequence of operations it has executed and a snapshot is such a
  sequence, which is what lets the properties see a skipped or repeated one.
* *Persistence.* Every handler saves before it unlocks, and nothing is sent
  before that, so `Restart` keeps the persistent fields and resets the others.
  `Save` is taken for atomic here; `DiskPersister` says how far it is.
* *Left out.* Fields of a leader or candidate that nobody reads any more are
  reset when it steps down (`ForgetLeaderState`), replies that cannot change
  anything at the caller are not sent, and the size of the persisted state is
  counted in log entries (`MaxRaftState`). `Kill` and `GetState` change nothing
  the model has.

### How `KvLock` corresponds to the code

| action | code (`kvsrv/`) |
|---|---|
| `ServeGet`, `ServePut`, `ServeDelayed` | `Get` and `Put` of `server.go`, for the call a client waits for or for a put it has given up |
| `Resend` | one more turn of the loop in `Clerk.Get` or `Clerk.Put`, or the second call inside `GRPCNetwork.Call` |
| `Result` | what `Clerk.Put` returns, `ErrMaybe` included |
| `AcquireStart`, `AcquireGot`, `AcquirePutDone`, `AcquireChecked` | `Acquire` between two calls of its `Clerk` |
| `ReleaseStart`, `ReleaseGot`, `ReleasePutDone`, `ReleaseChecked` | `Release` |
| `Crash` | the client's process dies |

* *One key*, the lock's: the server treats its keys separately.
* *Calls.* A call that fails was lost, or executed with its answer lost, or is
  still on its way: `delayed` holds such puts, which the server may execute much
  later, after their client has had its answer or has died. A get that arrives
  late changes nothing.
* *Retransmission* happens on two levels. The transport dials again and repeats a
  call once by itself, and only when that fails too does the `Clerk` set
  `retried`: `attempt` is "first", then perhaps "redialed", then "retried".
* *Clients.* A `clientID` is random and taken to be unique. A process that
  restarts makes a new `Lock` with a new identity, so a crashed client stays
  crashed; the next one is another member of `Client`.
* *Left out.* `KVServer` keeps its store in memory only; a restart of its daemon
  (a listed hazard) is not modelled. `applied` is a history variable.

### How `RSM` corresponds to the code

| action | code (`rsm/rsm.go`, but for the first rows) |
|---|---|
| `BecomeLeader`, `HigherTerm`, `Replace`, `Commit`, `InstallSnapshot` | what `raft/` may do to one peer's term, log and indices |
| `Take`, `Send` | `applier`: a batch under `rf.mu`, then one message after the other without it |
| `Execute`, `Answer`, `Compact` | `reader` on a command: `DoOp`; `lastApplied` and the `notify` entry; `Raft.Snapshot` |
| `Restore` | `reader` on a snapshot |
| `Start`, `Register` | `Submit` up to `Start`'s return, and the insertion into `notify` |
| `Receive`, `Tick` | the two arms of its `select` |
| `Return` | the deferred `delete` |

* *The peer* is reduced to what `Raft` shows of one: a leader only appends and
  commits entries of its own term, another server's leader replaces what is not
  committed by entries of its own or of earlier terms (`Kept`; the operation of a
  caller that still waits may come back at its index), and committed entries stay.
* *Locks.* `Compact` is the one place where `r.mu` is held across another critical
  section (of `rf.mu`): `Locked` keeps the callers out meanwhile. `RaftLocked` is
  constantly FALSE since the applier sends without `rf.mu`; its mutant is the
  deadlock the code avoids by that.
* *A wake-up is lost* in three ways, and `raced` remembers for whom: the entry was
  applied between `Start` and the registration (`rsm.go:63-71`); an older `Submit`
  of the same index registers late and replaces the channel (`rsm.go:70`); an older
  `Submit`'s deferred `delete` removes it (`rsm.go:73-77`). The last two need the
  index to be reused in a later term.
* *Left out.* The loop after the channel is closed (`rsm.go:149-159`): nothing
  closes `applyCh`.

### How `DiskPersister` corresponds to the code

| action | code |
|---|---|
| `Change`, `Compact` | a handler of `raft/` that calls `persist()`, or `Save` with a snapshot |
| `Write`, `Sync`, `Rename`, `Fail` | the steps of `writeAtomic`, or the removal of an empty snapshot, for each of the two files (`persist/disk.go`) |
| `Answer` | a reply or request that tells others what was saved |
| `Crash`, `Restart` | the process dies; `Make` and `readPersist` |

Every change of term, vote and log makes the version higher; a snapshot is the
index of its last operation: `Compact` takes the data of a snapshot to belong to the
index it comes with, since the goroutine that executed that index calls
`Raft.Snapshot` (`rsm.go:121-124`) and `InstallSnapshot` carries both. `unsaved` is a history variable: the last write of
`raftstate.bin` failed, of which nobody is told. A rename that returned is taken
to last, although the directory is not synced (a listed hazard).

### How `Migration` corresponds to the code

| action | code |
|---|---|
| `DoOp` (operator) | `ShardGrp.DoOp` of `shardgrp/server.go`, the three moves and `Get` and `Put`, on one shard |
| `Begin` | `cmd/shardctrlrd`: reads the configuration and decides for the next number before it has the lock |
| `Acquire`, `Release` | the lock, as a `Mutex`; `Release` is the deferred one |
| `Read` | `InitConfig` or `ChangeConfigTo` after `Acquire`: superseded, or on to the first shard that moves |
| `ServeMove`, `ServePublish` | the group executes the call the controller is in; the config store executes the put |
| `Proceed` | the controller takes the reply: next call, next shard, publication or return with an error |
| `Resend`, `Recall` | the `Clerk`s' loops repeat a call; a copy may stay behind in `late` |
| `ServeLate` | that copy is executed |
| `Crash` | the controller's process dies with the lock |
| `Invoke`, `ServeCall`, `Reroute`, `Return` | `Get` and `Put` of `shardkv/client.go` and of `cmd/dkv-client` |

* *Data.* Of a shard's keys the model follows one, and writes its value as the
  sequence of those who put it, so that the length is the version and a lost or
  repeated put shows. Groups and shards are parameters of any number.
* *Late requests* stand for the copies that `shardgrp.Clerk` sends to the next
  server, that `GRPCNetwork.Call` sends again, or that a deposed leader had in its
  log. A second execution of `InstallShard` loses writes (run `replay`), and
  nothing in the code prevents it. `InstallsOnce` excludes just that of a step: a
  controller does not repeat an `InstallShard` that was executed, and a late copy,
  of which there may be any number, is executed only when it is fenced off.
  `OnceSpec` is `Init /\ [][Next /\ InstallsOnce]_vars`: what holds of it shows that
  no *other* repetition does harm.
* *No shard without a group* but where a controller was started with no groups:
  its `Clerk` of no servers is never answered (`gid # NoGroup` guards the servers).
* *Left out.* `Snapshot` and `Restore` of the group (a serialisation of the state
  here), and the put of `dkv-client` whose user gives the version.

## Runs

The Raft bounds are constants: `MaxTerm` (elections), `MaxInFlight` (messages at
once; handled messages may stay, so two are enough for a duplicate that meets a
newer message, and losing one makes room for any other), `MaxRestarts`.

| run | from | bounds | shows |
|---|---|---|---|
| recovery | `RecoveredInit` | 3 peers, terms up to 4, 3 operations, 1 in flight, 1 more crash | `ElectionSafety`, `LeaderCompleteness`, `ChosenDurable`, `VoteIsFinal`, `ImplementsReplicatedLog` |
| handover | `LedInit` | as recovery, 2 in flight, no crash, peers only | `TypeOK`, `NextIndexInBounds`, `LogMatching`, `CommittedAgree`, `LeaderAppendOnly` |
| compaction | `LedInit` | 1 in flight, no crash, compaction after every entry | `VotesGenuine`, `StateMachineSafety`, `SnapshotsFaithful`, `NothingLostInDelivery`, `NoRegress` |
| progress | `RecoveredInit` | term 3, 3 operations, 1 in flight | `StableLeaderDelivers` |
| rsm | `Init` | 2 callers, a channel of size 1, 3 terms, a log of 2 | `TypeOK`, `AnswerIsOwn`, `ErrorMeansDeposed`, `NoOtherLostWakeup`, `SubmitReturns`, `CommittedIsApplied` |
| disk | `Init` | 6 changes, 3 operations in snapshots, 2 failing writes | `TypeOK`, `AlwaysReadable`, `PromisesSurvive`, `NeverAhead` |
| lock | `Init` | 2 clients, no `Acquire` from version 3 on | `TypeOK`, `AnswersTrue`, `ImplementsMutex`, `LockProgress` |
| migration | `Init` | 2 controllers, 1 client, 2 groups, 1 shard, configurations 0 to 2, 2 puts, 1 late request; `OnceSpec` | `TypeOK`, `OneOwner`, `Settled`, `ErrorMeansPublished`, `ImplementsShardStore` |
| rerouting | `Init` | as migration, configurations 0 and 1, 1 put; `LiveSpec` | `CallsReturn`, `ControllersReturn` |
| restart | `Init` | 2 peers, 1 crash, compaction | violates `RestoredAfterRestart` |
| waiter | `Init` | as rsm | violates `BlocksUntilApplied` |
| replay | `Init` | as migration, configuration 0 only; `Spec` | violates `ReplaysRejected` |

*Initial states.* The interesting interleavings of Raft need three terms, more
than TLC explores from `Init`. `RecoveredInit` is a state the program reaches:
peer 1 led term 1 and took in an operation that nobody received; peer 2, with an
empty log, was elected in term 2 by peer 3, took in another and sent it to
nobody; its vote request made peer 1 adopt term 2 without granting; then all
three crashed. The logs conflict, and two more elections are enough for the
Figure 8 scenario: the mutant that commits entries of earlier terms by counting
replicas violates `ChosenDurable`. `LedInit` is one election later: peer 3, the
only one that was reached, has elected peer 1 in term 3. The third operation is
the one a leader of term 3 or 4 can take in and so commit. What these runs do not
see of the first terms is proved from `Init` for types, elections, logs and
commitment.

*Other bounds.* `KvLock`: version 3 is reached when the lock was taken, given up
and taken again; an `Acquire` that started before may move it on. That is enough
for a put of the first round to meet the lock in the hands of its sender, of the
other client and of nobody, before and after its sender died. `Migration`: number
2 takes a shard away and back, so that requests of both moves may be late; two
puts lie before, between or after them; for liveness (`rerouting`) one move is enough,
which finds the client's route stale before, during or after it, and an
`InstallShard` may take effect again there; two groups are interchangeable in `migration`
(`Symmetry`; the runs `rerouting` and `replay` have none), and the proofs need none of these bounds.
`RSM`: a channel of size 1 is full whenever anything is in it; an index is used by
two callers in two terms and a third term deposes either. `DiskPersister`: two
failures meet both files, in one `Save` or in two.

*Fairness.* Safety runs assume none. `progress` assumes for two peers that their
appliers and readers run (weak fairness: they are woken by every `Broadcast` and
every message) and that, for each direction, a tick's request gets onto the
network, is answered, and the answer taken in (strong fairness: a tick comes
every 100 ms for ever, and the network does not lose every attempt). Nothing is
assumed of the third peer, nor that an election ever succeeds: randomised
timeouts make that likely, never certain. The property is therefore about a
leader of the last term. `rsm` assumes that goroutines run, weakly, and that what
a leader has taken in it commits unless it is deposed. `lock` assumes that the
server serves (weak), that a client whose `Clerk` calls again and again gets an
answer some day and goes on (strong: a repetition takes the answer away), and that
a controller gives the lock up, as its `defer lock.Release()` does, unless it
crashes. `rerouting` assumes the same of groups, config store, controllers and
clients, and that the free lock is given to a controller that spins for it:
controllers are started finitely often, so none is passed over for ever.

`CHECK_DEADLOCK FALSE` in every configuration: the bounds stop the model, and an
idle group with no message in flight, or a lock nobody wants, may rest.

*Violations.* `restart`: `Make` looks at the snapshot only to see whether there is
one, and nobody hands it to the state machine (architecture.md:204 says
`kv.Restore` is called). All properties about state machines across a crash are
therefore checked without compaction (`recovery`), and compaction without a crash.
`replay`: an `InstallShard` under the number last seen is executed again and takes
the shard back to the data it was installed with (architecture.md:271, 616 say
replays are rejected). `waiter`: a `Submit` whose wake-up is lost in one of the
three ways above waits until its server loses the leadership, though its operation
is applied (`rsm.go:51` says it blocks until then). `NoOtherLostWakeup` and
`SubmitReturns` state that there is no fourth way.

*Exceptions stated in properties.* Where the code departs from a promise in one
known case, the property that checks the rest names the case:

* `LockProgress`, `ControllersReturn`: the lock has no lease. A controller that
  crashes with it, or whose put is served after it died, keeps all others out
  (`.notes/fault_tolerance_guide.md:68` promises that they take over).
* `AnswersTrue`: a put repeated by the transport alone and answered `ErrVersion`
  the second time is reported as refused although it took effect
  (architecture.md:63 says such a put gets `ErrMaybe`). The lock does not suffer:
  `Acquire` then reads the value again and finds its own name.
* `NeverAhead`: `Save` is not atomic as `disk.go:40` says; a crash between its two
  renames leaves an older snapshot, or none, beside the new state. It never leaves
  a newer one.
* `PromisesSurvive`: `Save` reports no error, so a vote whose write failed is
  granted all the same.
* `CallsReturn`, `ControllersReturn`: a configuration without groups, the target of
  a controller that was started without any, whose `Clerk` of no servers never
  returns (`Stuck`, as a holder that is dead).
* `CallsReturn`: no shard is assigned, before the first `InitConfig` has published or
  by a configuration without groups that has been.

No property covers these cases themselves: their hazards are listed without one,
as is that of two daemons which decide for the same configuration number: the
second finds its target superseded (`Settled` needs that) and drops it silently.

A group of one peer never elects it, as the majority is tested only when a reply
arrives (`election.go:70-75`): `LonePeerNeverLeads` proves it; the runs have three
peers, or two.

Every property of a passing run is broken by a mutant of a mapped definition
(PROJECT.json, `mutants`); the mutated forms stand next to the originals, marked
"Mutant".

## Proofs

From `ServerAssumption` (the group is finite and not empty, `Nobody` is no peer) alone, for
every group, every set of operations and every bound:

* `TypeCorrect`: `Spec => []TypeOK`. One lemma per action; `LogTypes`,
  `MergeTypes`, `InstallTypes` and the like state what the shared operators
  return.
* `VotesAreGenuine`: `Spec => []VotesGenuine`, the inductive invariant of
  elections. `ElectionSafety` itself is not inductive: a reply in flight, or a
  vote counted long ago, may still turn a candidate into a leader.
  `VotesGenuine` says of every vote that is or may yet be counted
  (`Granted(v, c)`) that its voter has it on disk for no one else in that term,
  or has moved to a higher one (`VotesBacked`); that it counts for one candidate
  (`VotesUnique`); and that a leader holds a majority of such votes
  (`LeaderElected`). The argument has two halves: every step keeps votes and adds
  only one being cast in that step (`StepsKeepVotes`, one lemma per handler,
  most of them instances of `MovesOnVotes` and `FrameVotes`), and such steps keep
  votes genuine (`GoodVotesStayGenuine`).
* `ElectionSafe`: `Spec => []ElectionSafety`, since two majorities share a voter
  (`MajoritiesMeet`).
* `VotesAreFinal`: `Spec => VoteIsFinal`.
* `LonePeerNeverLeads`: where the group is one peer, nobody ever leads and no
  operation is started. Inductive with "nothing is in flight": no request is sent,
  so no reply comes back, and the majority is tested nowhere else.
* `LogsInOrder` (`RaftLogProofs`): `Spec => []LogInv`, the inductive invariant of
  replication. `LogMatching` is not inductive: what a follower merges comes out of
  a request that may be old, and compaction leaves of an entry its term alone. So
  `LogInv` speaks of pieces: a log, what an `AppendEntries` carries and the place a
  snapshot ends at each have a base, of which only the term is known, and entries
  behind it. Any two pieces that have a term in common at an index are the same
  below it (`PiecesAgree`). Sending, compaction and `InstallSnapshot` cut pieces out
  of others, which keeps that (`PartsAgree`, `CutPieces`); the merge of
  `AppendEntries` glues a request to the log where the two agree (`SpliceGlues`,
  `GluedAgrees`). An operation a leader takes in lies higher than anything of its
  term (`LeadersAhead`), since a term in a piece belongs to the one peer that was
  elected in it (`TermsElected`), and a winner's term is as yet nowhere: its
  predecessors' terms are settled, its own has never been led. What a peer was
  elected by stays on the voters' disks (`ElectedStays`), so this outlives its
  office and its crash.
* `LogsMatch`: `Spec => []LogMatching`, and `LeadersAppendOnly`: `Spec =>
  LeaderAppendOnly`. A request is from an elected peer and never to itself
  (`CallsElected`), so none of a leader's own term reaches it (`NoCallToLeader`).
* `CommitsInOrder` (`RaftCommitProofs`): `Spec => []SafeInv`, the inductive invariant
  of commitment. Compaction takes away the entries an argument about commitment
  needs, so `SafeInv` says that there are *lines* `L`: the line of a term is the whole
  log of that term's leader from index 1 on, and all logs and requests are cut out of
  lines (`LinesInv`). A step makes one line longer (`Start`), adds one (an election
  won) or leaves them alone (`Grows`, `LinesGrow`, `LinesStay`). Lines branch as a tree
  (`Nested`), so an index and the term found there settle all that lies below
  (`LinesMeet`, `TakenHas`).
  An entry of term `t` *prevails* in a set of peers if the line of every later term
  has it, each of these peers has it, and so has each candidate that one of them has
  voted for (`Prevails`); it goes on prevailing as long as each winner of a later term
  has the vote of one of them (`PrevailsStays`), which is where the up-to-date check of
  `RequestVote` is used (`UpToDateHas`). That leaves the time before it is committed:
  an entry a leader is still counting for prevails in those who have acknowledged
  it, or a majority that has not is in a later term already and it will never be
  counted (`Standing`, `Dead`). An entry of an earlier term has neither, which is why
  leaders count only entries of their own.
  When a leader counts a majority, its entry becomes one of the `Points`: all points
  lie in one line (`PointAdded`), `chosen` is that line up to the last of them, and
  every `commitIndex`, `leaderCommit` and snapshot index lies below a point of its
  own term or an earlier one (`CommitsSafe`, `CallsSafe`), so that the line of any
  later leader agrees with it (`SafeLine`).
* `LeadersComplete`, `CommitsDurable`, `CommitsAgree` follow, and `NextIndexBounded`:
  a refusal hints at an index of the request or at the first one after the
  follower's snapshot, which was committed and so is in the leader's log.
* `DeliveryIsInOrder` (`RaftDeliveryProofs`): `Spec => []DeliveryInOrder`. The steps of
  every action are first reduced to seven moves of the delivery at one peer
  (`DeliverySteps`): it rests, installs a snapshot, hands one over, hands commands
  over, executes, restores or skips, starts over. A command in the channel is above
  `smIndex` and above everything before it; a snapshot may be old, and the reader
  skips it then. `NeverRegress`: `Spec => NoRegress` follows, for `commitIndex` from
  `SafeInv` (what lies below it is not cut off by an old `AppendEntries`).
* `QueuedIsChosen`: `Spec => []Queued`: a command in a channel is the one committed
  at its index, with any crashes.
* `NothingIsLost`, `MachinesAgree`, `SnapshotsAreFaithful`: `Spec /\ [][CrashesEarly]_vars`
  imply `[]NothingLostInDelivery`, `[]StateMachineSafety` and `[]SnapshotsFaithful`.
  `CrashesEarly` says that no peer comes back from a snapshot: a restart finds
  `lastIncludedIndex = 0`. Without it they are false of this code, which hands a
  restarted state machine nothing of its snapshot (run `restart` shows it); it is no
  property of the constants, since a peer may well crash before its first compaction
  and compact afterwards. The invariants are `Connected` (`lastApplied`
  is `smIndex` or the index of something on its way, and each command in the channel
  comes right after `smIndex` or something before it) and `Faithful` (each state machine,
  snapshot and snapshot request stands for the committed prefix of its index,
  `Stands`). `ChosenCommands` is well defined and grows at its end only, because
  `chosen` is always one line up to the last point (`ChosenLine`, `ListGrows`).
* `OperationsAreOnce`: `Spec => []Once`: an operation has one index in all logs,
  requests and committed entries. What is known anywhere after a step was known
  before it, but for what `Start` has just taken in (`KnownBefore`), and that was
  never started before. This is where the model's assumption is needed that the random
  `ID` that `Submit` gives an operation is unique.
* `GroupIsReplicatedLog`: `Spec /\ [][CrashesEarly]_vars => ImplementsReplicatedLog`.
  A step decides or executes, never both (`ChosenOrExecuted`): if it decides, the list
  of committed commands grows at its end (`ListGrows`) and, by `Once`, repeats nothing
  (`StepChooses`); if the reader runs, one state machine goes to a longer prefix, and
  if its peer crashes, to the empty one (`StepExecutes`).
* `CrashesAreEarly`: the hypothesis holds where `MaxRestarts = 0` or
  `MaxRaftState = -1` (the code's value for "never compact").

`KvLockProofs`, from `ClientAssumption` (the empty string is nobody's identity)
alone, for every set of clients and every number of rounds:

* `TypeCorrect`: `Spec => []TypeOK`.
* `LockSafe`: `Spec => []LockInv`. That a holder's name is in the store is not
  inductive: a put on its way might wipe it out. `LockInv` says of every such put
  that it was made for a version the store has reached, and that if it is the
  present one the put takes a free lock or gives up its sender's (`Fits`); and of
  every delayed one that it will fail, or its sender is dead or still calling it.
  So the holder has no put of its own left to be served, and nobody else's fits
  (`HolderKeeps`); a put that succeeds moves the version past all others made for
  it (`InstallMoves`).
* `LockIsMutex`: `Spec => ImplementsMutex`, with the lock's value as the holder and
  the clients between `Acquire` and `Release` as those inside.
* `AnswersAreTrue`: `Spec => []AnswersTrue`. A client that makes a put for the first
  time must know that no older copy of the same put is still on its way, or an
  `ErrVersion` would prove nothing. `TruthInv` adds to `LockInv` that all puts a
  client has given up were made for versions lower than the one it has just read
  (`Behind`), and that its answer says whether the put took effect (`Truthful`).

`RSMProofs`, from the assumptions on `Caller`, `Other`, `ChannelSize` and the
bounds, for any number of callers and any size of log and channel:

* `CallsInOrder`: `Spec => []IInv`, the inductive invariant. That an answer is the
  caller's own rests on the order of the channel: what is on its way to the reader
  is taken from the committed log, commands in ascending order behind whatever is
  lower (`Taken`, `Order`, `Ahead`), so that `lastApplied` never goes back. That an
  error means a lost term rests on the log: as long as the term of a caller lasts,
  the operation at its index is its own (`InPlace`), and a snapshot that wakes it
  was installed by another leader, hence in a later term (`Snapshots`).
* `TypeCorrect`, `AnswersOwned`, `ErrorsAreDepositions` follow.
* `WakeupsLostByRacesOnly`: `Spec => []NoOtherLostWakeup`. As long
  as a caller's term lasts its operation is not yet committed, is with the applier,
  in the channel or in the reader's hands, or was applied (`Due`, `NoneSkipped`); a
  caller that no race has overtaken is registered for an index still to come
  (`Attended`).

`DiskPersisterProofs`: `SaveInOrder`: `Spec => []IInv`, which says of each step of
`Save` which of the files is old and which is new (`Saving`, `Passed`, `Lagging`);
`IdleIsSaved`, `FilesReadable`, `PromisesKept` and `SnapshotNeverAhead` follow, for
every number of changes, snapshots and failures.

`MigrationProofs`, from `GroupAssumption` (`NoGroup` is no group),
`ControllerAssumption` (`Nobody` is no controller) and `ShardAssumption`, for any
number of controllers, clients, groups, shards, configurations and late requests;
the first five with every request executed any number of times:

* `TypeCorrect`: `Spec => []TypeOK`.
* `MovesInOrder`: `Spec => []MoveInv`. That one group owns a shard is not
  inductive: a late `InstallShard` might make another an owner. `Assigned(s)` is
  the group that may own `s` at the moment, the old one until its freeze has been
  answered and the new one from then on; `OwnerInv` says that no other does, and
  that this one does unless the shard is in transit. `LateInv` says of every late
  request that it belongs to the move under way or to an earlier one (`Timely`,
  `Genuine`) and that it is fenced off, or agrees with `Assigned` (`Harmless`).
  `HolderInv` and `AnsweredInv` say where the lock's holder is and what its
  answered call has left behind. The step lemmas split into the moves that change
  `Assigned` and those that leave it alone (`QuietStep`, `LateStays`).
* `OwnersUnique`, `GroupsSettled`, `ErrorsArePublished` follow.

The others are about `OnceSpec`, the executions in which `InstallShard` takes effect
once; they assume nothing more of the constants, but the last two that `Group # {}`,
without which there is no group to hold the data of a shard. The code does not keep
its executions to `OnceSpec`: without the condition the four are false, as the run
`replay` shows of `ReplaysRejected`, and the same second installation takes a shard
back behind the versions its clients know. What they say of the code is that nothing
else breaks its promise.

* `DataInPlace`: `OnceSpec => []StoreInv`. That a copy is faithful when it is installed
  rests on every step before. `TransitInv`: the shard in transit is owned by its
  source, or frozen there under the number of this move with nobody owning it
  (`FrozenAt`), and what the controller was answered, and carries, is what is there.
  `FrozenInv`: of the shards still to be moved no other is frozen under that number.
  `LateMoveInv`: a late `FreezeShard` or `DeleteShard` of an earlier move is fenced off
  at that source, a late `DeleteShard` of this one exists only after the installation.
  `VacantInv`: a shard that was never assigned is empty everywhere, and no such request
  for it is late.
  `EndsInv`: a shard without a source is installed empty.
* `OtherReplaysRejected`: `OnceSpec => ReplaysRejected`.
* `VersionsOfThePast`: `OnceSpec => [](Known /\ PastInv)`. `Known` says that `Home(s)`,
  the place the refinement mapping reads, is where `Assigned` and the carried copy
  say (`DataFound`, from `StoreInv` by `DataIsFound`). `PastInv` is about the
  clients: a version a client has been answered, or puts with, is at most the
  shard's; that of an answered put is below it; and a put that is late is one its
  client still waits for, or below it, so that it will be refused.
* `ShardsAreOneStore`: `OnceSpec => ImplementsShardStore`. A controller's step, and a late
  `FreezeShard` or `DeleteShard`, leaves every shard's data as they are (`MoveData`,
  from one lemma per action in terms of `Held`), so it maps to a stutter. A client's
  call that is executed is answered as the data are or refused for the move
  (`ServeCallData`), which maps to `Get`, `Put`, `Refuse` or a stutter; a late put that
  still takes effect has its client waiting, by `PastInv`, and maps to a `Put` whose
  answer is lost.

Liveness under fairness stays with TLC: `ENABLED` and fairness are out of the prover's
reach, and so is induction over the data of recursive definitions. `SafeInv` is not
checked by TLC: its lines are infinitely many; its consequences are.

## Not modelled

* The config store as a replicated state machine: `KVServer.DoOp`, `Snapshot` and
  `Restore` have no caller, the daemon runs a single server. A restart of that
  daemon loses everything, configuration and lock included; every property of
  `KvLock` and `Migration` assumes there is none.
* `Snapshot` and `Restore` of a shard group, and the JSON and gob formats: their
  content is what the models call a snapshot or a configuration.
* `MemoryPersister` and `LocalNetwork`, which tests use; the connection pool of
  `GRPCNetwork`.
* The fsync of the directory that `writeAtomic` leaves out.
* A put of `dkv-client` with a version given by the user, and what a caller makes of
  the `ErrVersion` of a put that the `Clerk` of a group has repeated: a listed
  hazard.
* Metrics, flag parsing and wiring of the daemons, the client libraries, deployment
  manifests, and real time.

What could be done next: make several keys of a shard and several shards part of one
TLC run (the proofs are for any number of shards).
