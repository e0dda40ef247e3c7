---------------------------- MODULE DiskPersister ----------------------------
(***************************************************************************)
(* What a peer finds on its disk after a crash (internal/persist/disk.go,  *)
(* called by internal/raft): Save replaces raftstate.bin and snapshot.bin  *)
(* one after the other, each by writing, syncing and renaming a file of    *)
(* its own, and tells nobody when one of these steps fails.                *)
(*                                                                         *)
(* Raft's term, vote and log are a version, which every change of them     *)
(* makes higher, and the index the log begins at; a snapshot is the index  *)
(* of the last operation in it, 0 if there is none.  Save is called with   *)
(* rf.mu held: the peer does nothing else until it returns.  A rename is   *)
(* taken to last, although the directory is not synced.                    *)
(***************************************************************************)
EXTENDS Integers, Sequences

CONSTANTS
  MaxVersion,   \* bound on the changes of term, vote and log
  MaxIncluded,  \* bound on the last operation of a snapshot
  MaxFailures   \* bound on the writes that fail

ASSUME BoundAssumption == MaxVersion \in Nat /\ MaxIncluded \in Nat /\ MaxFailures \in Nat

VARIABLES
  up,
  now,          \* the peer's state: version, and lastIncludedIndex
  promised,     \* the version it has last answered a request with
  disk,         \* the two files
  tmp,          \* what is in the temporary file
  at, stage,    \* the file the Save under way is at, 0 without one, and its step
  save,         \* the arguments of Save
  failures,
  unsaved       \* history: the last write of raftstate.bin failed

peerVars == <<up, now, promised>>
vars     == <<peerVars, disk, tmp, at, stage, save, failures, unsaved>>

State    == [version : 0 .. MaxVersion, included : 0 .. MaxIncluded]
Snapshot == 0 .. MaxIncluded

\* What a peer starts with when there is no file.
NewPeer == [version |-> 0, included |-> 0]

\* Before it is synced, a crash may leave any part of what is written.
TornState    == [version |-> -1, included |-> -1]
TornSnapshot == -1
Torn(file)   == IF file = "raftstate" THEN TornState ELSE TornSnapshot

\* Mutant: the snapshot is saved first.
Order_SnapshotFirst == <<"snapshot", "raftstate">>

Order == <<"raftstate", "snapshot">>

File == Order[at]

Init ==
  /\ up = TRUE /\ now = NewPeer /\ promised = 0
  /\ disk = [raftstate |-> NewPeer, snapshot |-> 0]
  /\ tmp = TornSnapshot /\ at = 0 /\ stage = "Idle"
  /\ save = disk
  /\ failures = 0 /\ unsaved = FALSE

-----------------------------------------------------------------------------
\* The peer (raft.go, persist.go, election.go, replication.go)

Save(state, snapshot) ==
  /\ save' = [raftstate |-> state, snapshot |-> snapshot]
  /\ at' = 1 /\ stage' = "Write"

\* A new term, a vote, an entry appended or a suffix cut, and persist(), which saves
\* again the snapshot it reads from the disk.
Change ==
  /\ up /\ at = 0 /\ now.version < MaxVersion
  /\ now' = [now EXCEPT !.version = @ + 1]
  /\ Save(now', disk.snapshot)
  /\ UNCHANGED <<up, promised, disk, tmp, failures, unsaved>>

\* Snapshot, or InstallSnapshot: the log begins at i from now on.
Compact(i) ==
  /\ up /\ at = 0 /\ now.version < MaxVersion /\ now.included < i
  /\ now' = [version |-> now.version + 1, included |-> i]
  /\ Save(now', i)
  /\ UNCHANGED <<up, promised, disk, tmp, failures, unsaved>>

\* Mutant: a request is answered while its effects are being saved.
Answers_Early == up

Answers == up /\ at = 0

\* A vote, or entries that the leader may count.
Answer ==
  /\ Answers
  /\ promised' = now.version
  /\ UNCHANGED <<up, now, disk, tmp, at, stage, save, failures, unsaved>>

Crash ==
  /\ up
  /\ up' = FALSE /\ at' = 0 /\ stage' = "Idle"
  /\ UNCHANGED <<now, promised, disk, tmp, save, failures, unsaved>>

\* Mutant: nothing is read.
Found_Nothing == NewPeer

Found == disk.raftstate

\* Make and readPersist, which ends the process when the state does not decode.
Restart ==
  /\ ~up /\ disk.raftstate # TornState
  /\ up' = TRUE /\ now' = Found /\ promised' = Found.version
  /\ UNCHANGED <<disk, tmp, at, stage, save, failures, unsaved>>

-----------------------------------------------------------------------------
\* Save (disk.go): writeAtomic, twice

\* The next file's turn, or the end.
NextFile ==
  /\ at' = (at + 1) % 3
  /\ stage' = IF at = Len(Order) THEN "Idle" ELSE "Write"

\* A snapshot that is empty is not written: its file is removed at once.
Write ==
  /\ stage = "Write"
  /\ IF File = "snapshot" /\ save.snapshot = 0
     THEN disk' = [disk EXCEPT !.snapshot = 0] /\ NextFile /\ UNCHANGED tmp
     ELSE tmp' = Torn(File) /\ stage' = "Sync" /\ UNCHANGED <<disk, at>>
  /\ UNCHANGED <<peerVars, save, failures, unsaved>>

\* Mutant: what is written is not synced.
Synced_Not(file) == Torn(file)

Synced(file) == save[file]

Sync ==
  /\ stage = "Sync"
  /\ tmp' = Synced(File) /\ stage' = "Rename"
  /\ UNCHANGED <<peerVars, disk, at, save, failures, unsaved>>

Rename ==
  /\ stage = "Rename"
  /\ disk' = [disk EXCEPT ![File] = tmp]
  /\ unsaved' = (unsaved /\ File # "raftstate")
  /\ NextFile
  /\ UNCHANGED <<peerVars, tmp, save, failures>>

\* Any of these calls returns an error: the file stays as it is, and Save goes on.
Fail ==
  /\ stage # "Idle" /\ failures < MaxFailures
  /\ failures' = failures + 1
  /\ unsaved' = (unsaved \/ File = "raftstate")
  /\ NextFile
  /\ UNCHANGED <<peerVars, disk, tmp, save>>

-----------------------------------------------------------------------------
Next ==
  \/ Change \/ (\E i \in Snapshot : Compact(i))
  \/ Answer \/ Crash \/ Restart
  \/ Write \/ Sync \/ Rename \/ Fail

Spec == Init /\ [][Next]_vars

-----------------------------------------------------------------------------
\* Types, and that a peer that does nothing has its state on the disk, but for errors.
TypeOK ==
  /\ up \in BOOLEAN /\ now \in State /\ promised \in 0 .. MaxVersion
  /\ disk \in [raftstate : State \cup {TornState}, snapshot : Snapshot \cup {TornSnapshot}]
  /\ at \in 0 .. 2 /\ stage \in {"Idle", "Write", "Sync", "Rename"}
  /\ save \in [raftstate : State, snapshot : Snapshot]
  /\ failures \in 0 .. MaxFailures /\ unsaved \in BOOLEAN
  /\ at = 0 <=> stage = "Idle"
  /\ up /\ at = 0 => disk.raftstate = now \/ unsaved

\* Crash when it may, a peer finds files it can read: it does not end in log.Fatalf
\* (persist.go:51), and sends no half of a snapshot.
AlwaysReadable == disk.raftstate # TornState /\ disk.snapshot # TornSnapshot

\* A vote that was granted or an entry that was counted survives every crash
\* ("must survive crashes", architecture.md:112), but for a write that failed unnoticed.
PromisesSurvive == promised <= disk.raftstate.version \/ unsaved

\* As long as no write has failed, no crash leaves a snapshot of operations that the log
\* beside it still has: replayed after it, they would be executed twice.  An older
\* snapshot, or none, it may leave: Save is not atomic, as disk.go:40 says it is.
NeverAhead == failures = 0 => disk.snapshot <= disk.raftstate.included
=============================================================================
