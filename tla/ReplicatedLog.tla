---------------------------- MODULE ReplicatedLog ----------------------------
(***************************************************************************)
(* What a Raft group with its RSMs promises to the services above it: one  *)
(* growing sequence of operations, each at most once in it, of which every *)
(* replica has executed a prefix.  A replica that crashes starts over.     *)
(***************************************************************************)
EXTENDS Naturals, Sequences

CONSTANTS Replica, Op

VARIABLES chosen, executed

Prefixes(seq) == {SubSeq(seq, 1, n) : n \in 0 .. Len(seq)}

NoRepeats(seq) == \A i, j \in 1 .. Len(seq) : seq[i] = seq[j] => i = j

Init == chosen = <<>> /\ executed = [r \in Replica |-> <<>>]

\* Operations are decided, one or several at once, after those decided before.
Choose ==
  /\ Len(chosen') > Len(chosen) /\ chosen' \in Seq(Op)
  /\ chosen \in Prefixes(chosen') /\ NoRepeats(chosen')
  /\ UNCHANGED executed

\* A replica executes the next operations, or restores a state that has them.
Execute(r) ==
  /\ Len(executed'[r]) > Len(executed[r]) /\ executed'[r] \in Prefixes(chosen)
  /\ executed' = [executed EXCEPT ![r] = executed'[r]]
  /\ UNCHANGED chosen

Crash(r) ==
  /\ executed[r] # <<>>
  /\ executed' = [executed EXCEPT ![r] = <<>>]
  /\ UNCHANGED chosen

Next == Choose \/ \E r \in Replica : Execute(r) \/ Crash(r)

Spec == Init /\ [][Next]_<<chosen, executed>>
=============================================================================
