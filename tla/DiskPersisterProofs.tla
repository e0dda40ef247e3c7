------------------------- MODULE DiskPersisterProofs -------------------------
(***************************************************************************)
(* The invariants of DiskPersister, for any number of changes, snapshots   *)
(* and failures.  One inductive invariant says what each step of Save      *)
(* knows of the files.                                                     *)
(***************************************************************************)
EXTENDS DiskPersister, TLAPS

\* While Save is under way it saves the state the peer has.
Saving ==
  at # 0 => up /\ save.raftstate = now /\ (stage = "Rename" => tmp = save[File])

\* raftstate.bin is the present state once Save has passed it.
Passed == at # 1 /\ up => disk.raftstate = now \/ unsaved

\* What is promised is not more than what there is.
Kept == promised <= now.version

\* Without failures both files lag behind the state, the snapshot more.
Lagging ==
  failures = 0 =>
    /\ ~unsaved
    /\ disk.raftstate.included <= now.included
    /\ at # 0 => save.snapshot <= now.included

IInv == TypeOK /\ AlwaysReadable /\ PromisesSurvive /\ NeverAhead /\ Saving /\ Passed /\ Kept /\ Lagging

LEMMA Files == at = 1 => File = "raftstate"
BY DEF File, Order

LEMMA Files2 == at = 2 => File = "snapshot"
BY DEF File, Order

LEMMA InitInv == Init => IInv
<1> SUFFICES ASSUME Init PROVE IInv  OBVIOUS
<1> USE BoundAssumption
<1>1. NewPeer \in State /\ 0 \in Snapshot /\ NewPeer.version = 0 /\ NewPeer.included = 0
  BY DEF NewPeer, State, Snapshot
<1>2. disk = [raftstate |-> NewPeer, snapshot |-> 0] /\ save = disk /\ now = NewPeer  BY DEF Init
<1>3. TypeOK
  <2>1. up \in BOOLEAN /\ unsaved \in BOOLEAN  BY DEF Init
  <2>2. promised \in 0 .. MaxVersion /\ failures \in 0 .. MaxFailures /\ at = 0 /\ stage = "Idle"  BY DEF Init
  <2>3. disk \in [raftstate : State \cup {TornState}, snapshot : Snapshot \cup {TornSnapshot}]  BY <1>1, <1>2
  <2>4. save \in [raftstate : State, snapshot : Snapshot]  BY <1>1, <1>2
  <2> QED  BY <1>1, <1>2, <2>1, <2>2, <2>3, <2>4 DEF TypeOK
<1>4. AlwaysReadable  BY <1>1, <1>2 DEF AlwaysReadable, TornState, TornSnapshot
<1>5. PromisesSurvive /\ NeverAhead /\ Kept  BY <1>1, <1>2 DEF Init, PromisesSurvive, NeverAhead, Kept
<1>6. Saving /\ Passed /\ Lagging  BY <1>1, <1>2 DEF Init, Saving, Passed, Lagging
<1> QED  BY <1>3, <1>4, <1>5, <1>6 DEF IInv

\* The peer begins a Save (Change, Compact).
LEMMA BeginInv ==
  ASSUME IInv, up, at = 0, now.version < MaxVersion,
         NEW i \in Snapshot, NEW s \in Snapshot, now.included <= i, failures = 0 => s <= i,
         now' = [version |-> now.version + 1, included |-> i],
         Save(now', s),
         UNCHANGED <<up, promised, disk, tmp, failures, unsaved>>
  PROVE  IInv'
<1> USE BoundAssumption DEF IInv
<1>1. now \in State /\ now.version \in Nat /\ now.included \in Nat /\ i \in Nat
  BY DEF TypeOK, State, Snapshot
<1>2. now' \in State /\ now'.version = now.version + 1 /\ now'.included = i
  BY <1>1 DEF State, Snapshot, TypeOK
<1>3. at' = 1 /\ stage' = "Write" /\ save' = [raftstate |-> now', snapshot |-> s]  BY DEF Save
<1>4. promised \in Nat  BY DEF TypeOK
<1>5. TypeOK'  BY <1>2, <1>3 DEF TypeOK
<1>6. AlwaysReadable' /\ PromisesSurvive' /\ NeverAhead'  BY DEF AlwaysReadable, PromisesSurvive, NeverAhead
<1>7. Saving' /\ Passed'  BY <1>3 DEF Saving, Passed
<1>8. Kept'  BY <1>1, <1>2, <1>4 DEF Kept
<1>9. Lagging'
  <2>1. failures = 0 => disk.raftstate.included \in Nat /\ disk.raftstate.included <= now.included
    BY DEF Lagging, TypeOK, State, AlwaysReadable
  <2> QED  BY <1>1, <1>2, <1>3, <2>1 DEF Lagging
<1> QED  BY <1>5, <1>6, <1>7, <1>8, <1>9

LEMMA ChangeInv == ASSUME IInv, Change PROVE IInv'
<1>1. now \in State /\ disk.snapshot \in Snapshot
  BY DEF IInv, TypeOK, AlwaysReadable
<1>2. now' = [version |-> now.version + 1, included |-> now.included]
  BY <1>1 DEF Change, State
<1>3. failures = 0 => disk.snapshot <= now.included
  <2>1. failures = 0 => disk.snapshot <= disk.raftstate.included /\ disk.raftstate.included <= now.included
    BY DEF IInv, NeverAhead, Lagging
  <2>2. disk.raftstate.included \in Int /\ disk.snapshot \in Int /\ now.included \in Int
    BY <1>1, BoundAssumption DEF IInv, TypeOK, State, TornState, Snapshot
  <2> QED  BY <2>1, <2>2
<1>4. now.included \in Snapshot /\ now.included <= now.included  BY <1>1, BoundAssumption DEF State, Snapshot
<1> QED  BY <1>1, <1>2, <1>3, <1>4, BeginInv DEF Change

LEMMA CompactInv == ASSUME IInv, NEW i \in Snapshot, Compact(i) PROVE IInv'
<1>1. now.included \in Int /\ i \in Int  BY BoundAssumption DEF IInv, TypeOK, State, Snapshot
<1>2. now.included <= i /\ i <= i  BY <1>1 DEF Compact
<1> QED  BY <1>2, BeginInv DEF Compact

\* The peer itself: nothing on the disk changes (Answer, Crash, Restart).
LEMMA PeerInv == ASSUME IInv, Answer \/ Crash \/ Restart PROVE IInv'
<1> USE BoundAssumption DEF IInv
<1>1. now \in State /\ disk.raftstate \in State /\ now.version \in Nat
  BY DEF TypeOK, AlwaysReadable, State
<1>2. CASE Answer
  <2>1. TypeOK' /\ AlwaysReadable' /\ NeverAhead' /\ Saving' /\ Passed' /\ Lagging'
    BY <1>1, <1>2 DEF Answer, TypeOK, AlwaysReadable, NeverAhead, Saving, Passed, Lagging, File, State
  <2>2. PromisesSurvive' /\ Kept'
    BY <1>1, <1>2 DEF Answer, Answers, PromisesSurvive, Kept, Passed
  <2> QED  BY <2>1, <2>2
<1>3. CASE Crash
  <2>1. up' = FALSE /\ at' = 0 /\ stage' = "Idle"
        /\ UNCHANGED <<now, promised, disk, tmp, save, failures, unsaved>>
    BY <1>3 DEF Crash
  <2>2. TypeOK'
    <3>1. up' \in BOOLEAN  BY <2>1
    <3>2. /\ now' \in State /\ promised' \in 0 .. MaxVersion
          /\ disk' \in [raftstate : State \cup {TornState}, snapshot : Snapshot \cup {TornSnapshot}]
          /\ save' \in [raftstate : State, snapshot : Snapshot]
          /\ failures' \in 0 .. MaxFailures /\ unsaved' \in BOOLEAN
      BY <2>1 DEF TypeOK
    <3> QED  BY <2>1, <3>1, <3>2 DEF TypeOK
  <2>3. AlwaysReadable' /\ PromisesSurvive' /\ NeverAhead' /\ Kept'
    BY <2>1 DEF AlwaysReadable, PromisesSurvive, NeverAhead, Kept
  <2>4. Saving' /\ Passed' /\ Lagging'  BY <2>1 DEF Saving, Passed, Lagging
  <2> QED  BY <2>2, <2>3, <2>4
<1>4. CASE Restart
  <2>1. now' = disk.raftstate /\ promised' = now'.version /\ at = 0
        /\ UNCHANGED <<disk, tmp, at, stage, save, failures, unsaved>>
    BY <1>4 DEF Restart, Found, Saving
  <2>2. now' \in State /\ now'.version \in 0 .. MaxVersion /\ now'.included \in Nat
    BY <1>1, <2>1 DEF State
  <2> QED
    BY <1>4, <2>1, <2>2 DEF Restart, TypeOK, AlwaysReadable, PromisesSurvive, NeverAhead, Saving, Passed, Kept, Lagging
<1> QED  BY <1>2, <1>3, <1>4

\* The end of one file's part of Save.
LEMMA NextFileEffect ==
  ASSUME at \in {1, 2}, NextFile
  PROVE  /\ at = 1 => at' = 2 /\ stage' = "Write"
         /\ at = 2 => at' = 0 /\ stage' = "Idle"
BY DEF NextFile, Order

LEMMA SaveInv == ASSUME IInv, Write \/ Sync \/ Rename \/ Fail PROVE IInv'
<1> USE BoundAssumption DEF IInv
<1>1. at \in {1, 2}  BY DEF TypeOK, Write, Sync, Rename, Fail
<1>2. UNCHANGED <<up, now, promised, save>> /\ up /\ save.raftstate = now
  BY <1>1 DEF Write, Sync, Rename, Fail, peerVars, Saving
<1>3. now \in State /\ disk.raftstate \in State /\ save.raftstate \in State /\ save.snapshot \in Snapshot
      /\ now.version \in Nat /\ now.included \in Nat /\ promised \in Nat
  BY DEF TypeOK, AlwaysReadable, State
<1>4. Kept'  BY <1>2 DEF Kept
<1>5. CASE (Write /\ ~(File = "snapshot" /\ save.snapshot = 0)) \/ Sync
  <2>1. /\ UNCHANGED <<disk, at, failures, unsaved>> /\ stage' \in {"Sync", "Rename"}
        /\ stage' = "Rename" => tmp' = save[File]
    BY <1>5 DEF Write, Sync, Synced
  <2>2. Saving'  BY <1>1, <1>2, <2>1, Files, Files2 DEF Saving, File
  <2> QED
    BY <1>1, <1>2, <1>4, <2>1, <2>2 DEF TypeOK, AlwaysReadable, PromisesSurvive, NeverAhead, Passed, Lagging
<1>6. CASE at = 1 /\ (Rename \/ Fail)
  <2>1. File = "raftstate" /\ NextFile /\ at' = 2 /\ stage' = "Write"
    BY <1>1, <1>6, Files, NextFileEffect DEF Rename, Fail
  <2>2. CASE Rename
    <3>1. disk' = [disk EXCEPT !.raftstate = now] /\ unsaved' = FALSE /\ UNCHANGED failures
      <4>1. disk' = [disk EXCEPT ![File] = tmp] /\ tmp = save[File] /\ unsaved' = (unsaved /\ File # "raftstate")
            /\ UNCHANGED failures
        BY <1>1, <2>2 DEF Rename, Saving
      <4>2. save[File] = now  BY <1>2, <2>1
      <4>3. unsaved' = FALSE  BY <4>1, <2>1
      <4> QED  BY <4>1, <4>2, <4>3, <2>1
    <3>2. disk'.raftstate = now /\ disk'.snapshot = disk.snapshot
          /\ disk' \in [raftstate : State \cup {TornState}, snapshot : Snapshot \cup {TornSnapshot}]
      BY <1>3, <3>1 DEF TypeOK
    <3>3. TypeOK'
      <4>1. unsaved' \in BOOLEAN /\ failures' \in 0 .. MaxFailures  BY <3>1 DEF TypeOK
      <4>2. up' \in BOOLEAN /\ now' \in State /\ promised' \in 0 .. MaxVersion
            /\ save' \in [raftstate : State, snapshot : Snapshot]
        BY <1>2 DEF TypeOK
      <4> QED  BY <2>1, <3>2, <4>1, <4>2 DEF TypeOK
    <3>4. AlwaysReadable'  BY <1>3, <3>2 DEF AlwaysReadable, State, TornState
    <3>5. PromisesSurvive' /\ Passed'  BY <1>2, <3>2 DEF PromisesSurvive, Kept, Passed
    <3>6. Saving'  BY <1>2, <2>1 DEF Saving
    <3>7. Lagging'  BY <1>2, <1>3, <1>6, <3>1, <3>2 DEF Lagging
    <3>8. NeverAhead'
      <4>1. disk.snapshot \in Int /\ disk.raftstate.included \in Int
        BY <1>3 DEF TypeOK, Snapshot, TornSnapshot, State
      <4> QED  BY <1>3, <3>1, <3>2, <4>1 DEF NeverAhead, Lagging
    <3> QED  BY <1>4, <3>3, <3>4, <3>5, <3>6, <3>7, <3>8
  <2>3. CASE Fail
    <3>1. UNCHANGED <<disk, tmp>> /\ unsaved' = TRUE /\ failures' = failures + 1 /\ failures < MaxFailures
      BY <2>1, <2>3 DEF Fail
    <3>2. failures \in Nat /\ failures' # 0 /\ failures' \in 0 .. MaxFailures  BY <3>1 DEF TypeOK
    <3>3. TypeOK'  BY <1>1, <1>2, <2>1, <3>1, <3>2 DEF TypeOK
    <3> QED
      BY <1>2, <1>4, <2>1, <3>1, <3>2, <3>3
         DEF AlwaysReadable, PromisesSurvive, NeverAhead, Saving, Passed, Lagging
  <2> QED  BY <1>6, <2>2, <2>3
<1>7. CASE at = 2 /\ (Rename \/ Fail \/ (Write /\ File = "snapshot" /\ save.snapshot = 0))
  <2>1. File = "snapshot" /\ NextFile /\ at' = 0 /\ stage' = "Idle"
    BY <1>1, <1>7, Files2, NextFileEffect DEF Rename, Fail, Write
  <2>2. disk' = disk \/ disk' = [disk EXCEPT !.snapshot = save.snapshot]
    BY <1>7, <2>1 DEF Rename, Fail, Write, Saving
  <2>3. unsaved' = unsaved /\ (failures' = failures \/ (disk' = disk /\ failures' = failures + 1 /\ failures < MaxFailures))
    <3>1. unsaved \in BOOLEAN  BY DEF TypeOK
    <3> QED  BY <1>7, <2>1, <3>1 DEF Rename, Fail, Write
  <2>4. disk'.raftstate = disk.raftstate /\ disk'.snapshot \in Snapshot
        /\ disk' \in [raftstate : State \cup {TornState}, snapshot : Snapshot \cup {TornSnapshot}]
        /\ disk'.snapshot \in {disk.snapshot, save.snapshot}
    BY <1>3, <2>2 DEF TypeOK, AlwaysReadable
  <2>5. failures \in Nat /\ failures' \in 0 .. MaxFailures /\ (failures' = 0 => failures = 0)
    BY <2>3 DEF TypeOK
  <2>6. disk.raftstate = now \/ unsaved  BY <1>2, <1>7 DEF Passed
  <2>7. TypeOK'  BY <1>1, <1>2, <2>1, <2>3, <2>4, <2>5, <2>6 DEF TypeOK
  <2>8. AlwaysReadable'
    BY <1>3, <2>4 DEF AlwaysReadable, Snapshot, TornSnapshot
  <2>9. PromisesSurvive' /\ Passed' /\ Saving'  BY <1>2, <2>1, <2>3, <2>4, <2>6 DEF PromisesSurvive, Passed, Saving
  <2>10. NeverAhead'  BY <1>7, <2>4, <2>5, <2>6 DEF NeverAhead, Lagging
  <2>11. Lagging'  BY <1>2, <2>1, <2>3, <2>4, <2>5 DEF Lagging
  <2> QED  BY <1>4, <2>7, <2>8, <2>9, <2>10, <2>11
<1>8. at = 1 => File # "snapshot"  BY Files
<1> QED  BY <1>1, <1>5, <1>6, <1>7, <1>8

LEMMA NextInv == IInv /\ [Next]_vars => IInv'
<1> SUFFICES ASSUME IInv, [Next]_vars PROVE IInv'  OBVIOUS
<1>1. CASE UNCHANGED vars
  BY <1>1 DEF vars, peerVars, IInv, TypeOK, AlwaysReadable, PromisesSurvive, NeverAhead, Saving, Passed, Kept, Lagging, File
<1>2. CASE Next  BY <1>2, ChangeInv, CompactInv, PeerInv, SaveInv DEF Next
<1> QED  BY <1>1, <1>2

\* The invariant of Save, step by step.
THEOREM SaveInOrder == Spec => []IInv
BY InitInv, NextInv, PTL DEF Spec

\* An idle peer's state is on its disk, but for errors.
THEOREM IdleIsSaved == Spec => []TypeOK
<1>1. IInv => TypeOK  BY DEF IInv
<1> QED  BY <1>1, SaveInOrder, PTL

\* No crash leaves half a file under its name (writeAtomic).
THEOREM FilesReadable == Spec => []AlwaysReadable
<1>1. IInv => AlwaysReadable  BY DEF IInv
<1> QED  BY <1>1, SaveInOrder, PTL

\* What a peer has answered it still knows after a crash.
THEOREM PromisesKept == Spec => []PromisesSurvive
<1>1. IInv => PromisesSurvive  BY DEF IInv
<1> QED  BY <1>1, SaveInOrder, PTL

\* No snapshot on the disk is ahead of the log beside it.
THEOREM SnapshotNeverAhead == Spec => []NeverAhead
<1>1. IInv => NeverAhead  BY DEF IInv
<1> QED  BY <1>1, SaveInOrder, PTL
=============================================================================
