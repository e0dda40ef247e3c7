------------------------------- MODULE MCRaft -------------------------------
EXTENDS RaftProperties, TLC

\* maxraftstate = -1
Never == -1

\* Peers and operations by number.  The states below tell them apart, so no run
\* declares a symmetry.
peer == CHOOSE f \in [1 .. 3 -> Server] : Cardinality({f[i] : i \in 1 .. 3}) = 3
op   == CHOOSE f \in [1 .. Cardinality(Command) -> Command] :
          Cardinality({f[i] : i \in 1 .. Cardinality(Command)}) = Cardinality(Command)
-----------------------------------------------------------------------------
\* Two conflicting logs: a leader of term 1 (peer 1) and one of term 2 (peer 2)
\* had each taken an operation and sent it to nobody.  Nothing is committed,
\* executed or in flight.
Conflict ==
  /\ log = (peer[1] :> <<[term |-> 1, cmd |-> op[1]]>> @@
            peer[2] :> <<[term |-> 2, cmd |-> op[2]]>> @@ peer[3] :> <<>>)
  /\ started = {op[1], op[2]}
  /\ restarts = 0 /\ chosen = {} /\ network = {}
  /\ lastIncludedIndex = [s \in Server |-> 0] /\ lastIncludedTerm = [s \in Server |-> 0]
  /\ snapshot = [s \in Server |-> <<>>] /\ pendingSnapshot = [s \in Server |-> NoSnapshot]
  /\ commitIndex = [s \in Server |-> 0] /\ lastApplied = [s \in Server |-> 0]
  /\ matchIndex = [s \in Server |-> [p \in Server |-> 0]]
  /\ snapshotDue = [s \in Server |-> {}]
  /\ applyCh = [s \in Server |-> <<>>] /\ sm = [s \in Server |-> <<>>]
  /\ smIndex = [s \in Server |-> 0]

\* All peers have crashed and come back in term 2.
RecoveredInit ==
  /\ Conflict
  /\ currentTerm = [s \in Server |-> 2]
  /\ votedFor = (peer[1] :> Nobody @@ peer[2] :> peer[2] @@ peer[3] :> peer[2])
  /\ role = [s \in Server |-> "Follower"] /\ votes = [s \in Server |-> {}]
  /\ nextIndex = [s \in Server |-> [p \in Server |-> 0]]

\* After that, peer 3 has elected peer 1 in term 3, of which peer 2 knows nothing.
LedInit ==
  /\ Conflict
  /\ currentTerm = (peer[1] :> 3 @@ peer[2] :> 2 @@ peer[3] :> 3)
  /\ votedFor = (peer[1] :> peer[1] @@ peer[2] :> peer[2] @@ peer[3] :> peer[1])
  /\ role = [s \in Server |-> IF s = peer[1] THEN "Leader" ELSE "Follower"]
  /\ votes = [s \in Server |-> IF s = peer[1] THEN {peer[1], peer[3]} ELSE {}]
  /\ nextIndex = [s \in Server |-> [p \in Server |-> IF s = peer[1] THEN 2 ELSE 0]]

RecoveredSpec     == RecoveredInit /\ [][Next]_vars
RecoveredLiveSpec == RecoveredSpec /\ Fairness({peer[1], peer[2]})
LedSpec           == LedInit /\ [][ConsensusNext]_vars
LedServiceSpec    == LedInit /\ [][Next]_vars

\* An operation taken in by a leader that no election follows is executed in the
\* end by every peer the leader can talk to, however far its log was behind.
StableLeaderDelivers ==
  \A s, p \in {peer[1], peer[2]} : TookIn(s, op[3]) ~> Executed(p, op[3])
=============================================================================
