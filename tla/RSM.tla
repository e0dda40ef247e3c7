--------------------------------- MODULE RSM ---------------------------------
(***************************************************************************)
(* Callers of Submit on one server (internal/rsm/rsm.go), between them and *)
(* the Raft peer the reader goroutine, the applier (raft/replication.go)   *)
(* and the channel of bounded size that joins those two.                   *)
(*                                                                         *)
(* The peer is here what module Raft shows of one: terms grow, a leader    *)
(* only appends, another's leader replaces what is not committed, what is  *)
(* committed stays.  Of the server's two mutexes a section is one action,  *)
(* but for the reader's call into Raft, which it makes with r.mu held.     *)
(***************************************************************************)
EXTENDS Integers, Sequences, SequencesExt

CONSTANTS
  Caller,       \* the goroutines that call Submit, again and again
  Other,        \* whoever submits on another server
  ChannelSize,  \* of applyCh, 1000 in cmd/kvraftd
  MaxTerm,      \* bound on the peer's term
  MaxLog        \* bound on its log

ASSUME ChannelAssumption == ChannelSize \in Nat \ {0}
ASSUME CallerAssumption == Other \notin Caller
ASSUME BoundAssumption == MaxTerm \in Nat /\ MaxLog \in Nat

VARIABLES
  term, leader,      \* currentTerm, and whether the role is leader
  log,               \* whose operation is where; the entries Raft has dropped included
  commit, included,  \* commitIndex, lastIncludedIndex
  copied,            \* the peer's lastApplied
  pending,           \* the snapshot to be delivered next, 0 if there is none
  sending,           \* what the applier has taken and not sent
  applyCh,
  lastApplied,       \* the reader's
  reader, inHand,    \* where it is, the index it is at
  notify,            \* per index, who waits
  pc, index, started,\* per caller, what Start has returned
  ch,                \* its channel of size one
  outcome,           \* what its Submit returns
  raced              \* history: callers whose wake-up is lost

peerVars    == <<term, leader, log, commit>>
applierVars == <<included, copied, pending, sending>>
readerVars  == <<lastApplied, reader, inHand>>
callerVars  == <<pc, index, started, outcome>>
vars        == <<peerVars, applierVars, applyCh, readerVars, notify, ch, callerVars, raced>>

Index   == 1 .. MaxLog
Entry   == [term : 1 .. MaxTerm, by : Caller \cup {Other}]
NoEntry == [term |-> 0, by |-> Other]    \* an empty channel
Woken   == [term |-> -1, by |-> Other]   \* what a snapshot puts there, with id -1
Nobody  == Other

Op(i)       == [valid |-> "command", at |-> i]
Snapshot(i) == [valid |-> "snapshot", at |-> i]

Init ==
  /\ term = 0 /\ leader = FALSE /\ log = <<>> /\ commit = 0
  /\ included = 0 /\ copied = 0 /\ pending = 0 /\ sending = <<>>
  /\ applyCh = <<>>
  /\ lastApplied = 0 /\ reader = "Receive" /\ inHand = 0
  /\ notify = [i \in Index |-> Nobody]
  /\ pc = [c \in Caller |-> "Idle"]
  /\ index = [c \in Caller |-> 0]
  /\ started = [c \in Caller |-> 0]
  /\ ch = [c \in Caller |-> NoEntry]
  /\ outcome = [c \in Caller |-> NoEntry]
  /\ raced = {}

-----------------------------------------------------------------------------
\* The peer, and the leaders elsewhere

BecomeLeader ==
  /\ ~leader /\ term < MaxTerm
  /\ term' = term + 1 /\ leader' = TRUE
  /\ UNCHANGED <<log, commit, applierVars, applyCh, readerVars, notify, ch, callerVars, raced>>

HigherTerm ==
  /\ term < MaxTerm
  /\ term' = term + 1 /\ leader' = FALSE
  /\ UNCHANGED <<log, commit, applierVars, applyCh, readerVars, notify, ch, callerVars, raced>>

\* What another leader may have at i: an entry of its own, or one of an earlier term
\* that it has kept, the operation of a caller that waits here among them.
Kept(i) ==
  {e \in Entry : e.term <= term /\ (e.by # Other => index[e.by] = i /\ started[e.by] = e.term)}

\* Another leader's AppendEntries: its entry in the place of one that is not committed.
Replace ==
  /\ ~leader /\ term > 0
  /\ \E i \in commit + 1 .. Len(log) + 1 : \E e \in Kept(i) :
       /\ i <= MaxLog /\ (i > 1 => log[i - 1].term <= e.term)
       /\ log' = Append(SubSeq(log, 1, i - 1), e)
  /\ UNCHANGED <<term, leader, commit, applierVars, applyCh, readerVars, notify, ch, callerVars, raced>>

\* A leader counts no replicas of older terms' entries.
Commit ==
  /\ \E i \in commit + 1 .. Len(log) :
       /\ leader => log[i].term = term
       /\ commit' = i
  /\ UNCHANGED <<term, leader, log, applierVars, applyCh, readerVars, notify, ch, callerVars, raced>>

\* The leader has compacted what this peer has not: its snapshot up to i.
InstallSnapshot(i) ==
  /\ ~leader /\ i \in included + 1 .. Len(log)
  /\ included' = i /\ pending' = i
  /\ commit' = IF commit < i THEN i ELSE commit
  /\ copied' = IF copied < i THEN i ELSE copied
  /\ UNCHANGED <<term, leader, log, sending, applyCh, readerVars, notify, ch, callerVars, raced>>

-----------------------------------------------------------------------------
\* The applier (replication.go)

\* Mutant: the applier unlocks rf.mu only when everything is sent.
RaftLocked_Sending(batch) == batch # <<>>

\* Is rf.mu held while the applier has a batch to send?
RaftLocked(batch) == FALSE

Take ==
  /\ sending = <<>>
  /\ \/ /\ pending # 0
        /\ sending' = <<Snapshot(pending)>>
        /\ pending' = 0
        /\ UNCHANGED copied
     \/ /\ pending = 0 /\ copied < commit
        /\ LET first == IF copied < included THEN included + 1 ELSE copied + 1 IN
             sending' = [i \in 1 .. commit - first + 1 |-> Op(first + i - 1)]
        /\ copied' = commit
        /\ UNCHANGED pending
  /\ UNCHANGED <<peerVars, included, applyCh, readerVars, notify, ch, callerVars, raced>>

Send ==
  /\ sending # <<>> /\ Len(applyCh) < ChannelSize
  /\ applyCh' = Append(applyCh, Head(sending))
  /\ sending' = Tail(sending)
  /\ UNCHANGED <<peerVars, included, copied, pending, readerVars, notify, ch, callerVars, raced>>

-----------------------------------------------------------------------------
\* The reader (rsm.go)

\* The state machine executes the operation; r.mu is not held yet.
Execute ==
  /\ reader = "Receive" /\ applyCh # <<>> /\ Head(applyCh).valid = "command"
  /\ reader' = "Answer" /\ inHand' = Head(applyCh).at
  /\ applyCh' = Tail(applyCh)
  /\ UNCHANGED <<peerVars, applierVars, lastApplied, notify, ch, callerVars, raced>>

\* Mutant: the next one's caller is told.
Waits_Next(i, c) == i < MaxLog /\ notify[i + 1] = c

Waits(i, c) == notify[i] = c

\* A channel that is full is left as it is.
Deliver(i, result) ==
  ch' = [c \in Caller |-> IF Waits(i, c) /\ ch[c] = NoEntry THEN result ELSE ch[c]]

Answer ==
  /\ reader = "Answer"
  /\ lastApplied' = inHand
  /\ Deliver(inHand, log[inHand])
  /\ reader' \in {"Receive", "Compact"}
  /\ UNCHANGED <<peerVars, applierVars, applyCh, inHand, notify, callerVars, raced>>

\* The log is long: Raft drops it up to the operation that was answered last.
Compact ==
  /\ reader = "Compact" /\ ~RaftLocked(sending)
  /\ included' = IF inHand > included THEN inHand ELSE included
  /\ reader' = "Receive"
  /\ UNCHANGED <<peerVars, copied, pending, sending, applyCh, lastApplied, inHand, notify, ch, callerVars, raced>>

\* Mutant: off by one.
Covers_OneMore(i, s) == i <= s + 1

Covers(i, s) == i <= s

Restore ==
  /\ reader = "Receive" /\ applyCh # <<>> /\ Head(applyCh).valid = "snapshot"
  /\ LET s == Head(applyCh).at IN
       IF s > lastApplied
       THEN /\ lastApplied' = s
            /\ ch' = [c \in Caller |->
                 IF ch[c] = NoEntry /\ \E i \in Index : Covers(i, s) /\ notify[i] = c THEN Woken ELSE ch[c]]
       ELSE UNCHANGED <<lastApplied, ch>>
  /\ applyCh' = Tail(applyCh)
  /\ UNCHANGED <<peerVars, applierVars, reader, inHand, notify, callerVars, raced>>

-----------------------------------------------------------------------------
\* Callers (rsm.go, Submit)

Locked == reader = "Compact"

\* Start appends the operation and returns; nobody waits for it yet.
Start(c) ==
  /\ pc[c] = "Idle" /\ leader /\ Len(log) < MaxLog /\ ~RaftLocked(sending)
  /\ log' = Append(log, [term |-> term, by |-> c])
  /\ pc' = [pc EXCEPT ![c] = "Register"]
  /\ index' = [index EXCEPT ![c] = Len(log) + 1]
  /\ started' = [started EXCEPT ![c] = term]
  /\ UNCHANGED <<term, leader, commit, applierVars, applyCh, readerVars, notify, ch, outcome, raced>>

Register(c) ==
  /\ pc[c] = "Register" /\ ~Locked
  /\ notify' = [notify EXCEPT ![index[c]] = c]
  /\ pc' = [pc EXCEPT ![c] = "Wait"]
  /\ raced' = (raced \cup {notify[index[c]]} \cup {k \in {c} : lastApplied >= index[k]}) \ {Nobody}
  /\ UNCHANGED <<peerVars, applierVars, applyCh, readerVars, ch, index, started, outcome>>

\* Mutant: whatever comes is the caller's own result.
Own_Any(c, result) == result # Woken

Own(c, result) == result = [term |-> started[c], by |-> c]

\* The answer, or an error.
Receive(c) ==
  /\ pc[c] = "Wait" /\ ch[c] # NoEntry
  /\ outcome' = [outcome EXCEPT ![c] = IF Own(c, ch[c]) THEN ch[c] ELSE Woken]
  /\ ch' = [ch EXCEPT ![c] = NoEntry]
  /\ pc' = [pc EXCEPT ![c] = "Return"]
  /\ UNCHANGED <<peerVars, applierVars, applyCh, readerVars, notify, index, started, raced>>

\* Mutant: that the server leads is enough, whatever the term.
Deposed_LeaderOnly(c) == ~leader

Deposed(c) == ~leader \/ term # started[c]

\* The ticker fires: give up when the leadership is lost.
Tick(c) ==
  /\ pc[c] = "Wait" /\ Deposed(c) /\ ~RaftLocked(sending)
  /\ outcome' = [outcome EXCEPT ![c] = Woken]
  /\ pc' = [pc EXCEPT ![c] = "Return"]
  /\ UNCHANGED <<peerVars, applierVars, applyCh, readerVars, notify, ch, index, started, raced>>

\* Mutant: nothing is deleted.
Return_KeepEntry(c) ==
  /\ pc[c] = "Return" /\ ~Locked
  /\ pc' = [pc EXCEPT ![c] = "Idle"]
  /\ index' = [index EXCEPT ![c] = 0]
  /\ started' = [started EXCEPT ![c] = 0]
  /\ ch' = [ch EXCEPT ![c] = NoEntry]
  /\ outcome' = [outcome EXCEPT ![c] = NoEntry]
  /\ UNCHANGED <<peerVars, applierVars, applyCh, readerVars, notify, raced>>

\* The deferred delete, of whoever is registered under the index by now.
Return(c) ==
  /\ pc[c] = "Return" /\ ~Locked
  /\ notify' = [notify EXCEPT ![index[c]] = Nobody]
  /\ raced' = (raced \cup {notify[index[c]]}) \ {c, Nobody}
  /\ pc' = [pc EXCEPT ![c] = "Idle"]
  /\ index' = [index EXCEPT ![c] = 0]
  /\ started' = [started EXCEPT ![c] = 0]
  /\ ch' = [ch EXCEPT ![c] = NoEntry]
  /\ outcome' = [outcome EXCEPT ![c] = NoEntry]
  /\ UNCHANGED <<peerVars, applierVars, applyCh, readerVars>>

-----------------------------------------------------------------------------
Peer    == BecomeLeader \/ HigherTerm \/ Replace \/ Commit \/ \E i \in Index : InstallSnapshot(i)
Applier == Take \/ Send
Reader  == Execute \/ Answer \/ Compact \/ Restore
CallerStep(c) == Register(c) \/ Receive(c) \/ Tick(c) \/ Return(c)

Next ==
  \/ Peer /\ ~RaftLocked(sending)
  \/ Applier
  \/ Reader
  \/ \E c \in Caller : Start(c) \/ CallerStep(c)

Spec == Init /\ [][Next]_vars

\* Goroutines go on, and what a leader appends is committed or the leader deposed.
Fairness ==
  /\ WF_vars(Applier) /\ WF_vars(Reader)
  /\ WF_vars(leader /\ ~RaftLocked(sending) /\ Commit)
  /\ \A c \in Caller : WF_vars(CallerStep(c))

LiveSpec == Spec /\ Fairness

-----------------------------------------------------------------------------
Message == [valid : {"command", "snapshot"}, at : Index]

PeerTypes ==
  /\ term \in 0 .. MaxTerm /\ leader \in BOOLEAN /\ (leader => term > 0)
  /\ log \in Seq(Entry) /\ Len(log) <= MaxLog
  /\ commit \in 0 .. Len(log) /\ included \in 0 .. commit /\ copied \in included .. commit
  /\ pending \in 0 .. included
  /\ sending \in Seq(Message) /\ applyCh \in Seq(Message) /\ Len(applyCh) <= ChannelSize

CallerTypes ==
  /\ lastApplied \in 0 .. commit
  /\ reader \in {"Receive", "Answer", "Compact"} /\ inHand \in 0 .. commit
  /\ notify \in [Index -> Caller \cup {Nobody}]
  /\ pc \in [Caller -> {"Idle", "Register", "Wait", "Return"}]
  /\ index \in [Caller -> 0 .. MaxLog] /\ started \in [Caller -> 0 .. term]
  /\ ch \in [Caller -> Entry \cup {NoEntry, Woken}]
  /\ outcome \in [Caller -> Entry \cup {NoEntry, Woken}]
  /\ raced \subseteq Caller

\* Types, and the channels of those only that are in Submit, each under its own index.
TypeOK ==
  /\ PeerTypes /\ CallerTypes
  /\ \A c \in Caller : pc[c] # "Idle" <=> index[c] \in Index
  /\ \A i \in Index : notify[i] # Nobody =>
       pc[notify[i]] \in {"Wait", "Return"} /\ index[notify[i]] = i

\* Whoever gets an answer gets that of its own operation, which is committed where
\* Start has put it and executed: others' operations take its index in later terms.
AnswerIsOwn ==
  \A c \in Caller : pc[c] = "Return" /\ outcome[c] # Woken =>
    /\ outcome[c] = [term |-> started[c], by |-> c]
    /\ index[c] <= lastApplied /\ log[index[c]] = outcome[c]

\* "returns an error if leadership is lost" (rsm.go:52), and only then.
ErrorMeansDeposed ==
  \A c \in Caller : pc[c] = "Return" /\ outcome[c] = Woken => started[c] < term

\* Whoever waits in vain has been overtaken: its operation was executed before it was
\* registered, or another Submit of the same index replaced or deleted its channel.
NoOtherLostWakeup ==
  \A c \in Caller :
    pc[c] = "Wait" /\ ch[c] = NoEntry /\ ~Deposed(c) /\ (lastApplied >= index[c] \/ notify[index[c]] # c)
      => c \in raced

\* With that exception every Submit returns.
SubmitReturns == \A c \in Caller : []<>(pc[c] = "Idle") \/ <>[](c \in raced)

\* Full as the channel may be, applier and reader do not wait for one another for ever
\* (the applier sends without rf.mu, which the reader's Snapshot needs).
CommittedIsApplied == \A i \in Index : commit >= i ~> lastApplied >= i

\* "Blocks until the operation is committed and applied, or returns an error if
\* leadership is lost" (rsm.go:51-52).
BlocksUntilApplied ==
  \A c \in Caller : pc[c] = "Wait" /\ lastApplied >= index[c] ~> pc[c] # "Wait"
=============================================================================
