---------------------------- MODULE RaftLogProofs ----------------------------
(***************************************************************************)
(* Log matching and append-only leaders of module Raft, from its initial   *)
(* state, for any group and any bounds, with compaction and snapshots.     *)
(*                                                                         *)
(* A log, the entries of a request and the place a snapshot ends at are    *)
(* all pieces: a base, of which only the term is known, and what follows.  *)
(* All but two steps make pieces by cutting others, which keeps whatever   *)
(* is true of all pieces.  A leader that takes an operation in writes at   *)
(* an index where no piece has its term (LeadersAhead), since it alone     *)
(* writes in that term (TermsElected); and the merge of AppendEntries      *)
(* glues two pieces where they agree.                                      *)
(***************************************************************************)
EXTENDS RaftProofs

Piece == [base : Nat, term : Nat, entries : Seq(Entry)]

LogOf(s) == [base |-> lastIncludedIndex[s], term |-> lastIncludedTerm[s], entries |-> log[s]]

CarriedBy(m) ==
  IF m.kind = "AppendEntries"
    THEN [base |-> m.prevLogIndex, term |-> m.prevLogTerm, entries |-> m.entries]
    ELSE [base |-> m.index, term |-> m.indexTerm, entries |-> <<>>]

Calls == Received("AppendEntries") \cup Received("InstallSnapshot")

Pieces == {LogOf(s) : s \in Server} \cup {CarriedBy(m) : m \in Calls}

End(f)        == f.base + Len(f.entries)
Span(f)       == f.base .. End(f)
EntryAt(f, i) == f.entries[i - f.base]
TermAt(f, i)  == IF i = f.base THEN f.term ELSE EntryAt(f, i).term

\* At index k, f and g have the same as far as they can tell.
Same(f, g, k) ==
  /\ TermAt(f, k) = TermAt(g, k)
  /\ k > f.base /\ k > g.base => EntryAt(f, k) = EntryAt(g, k)

\* Where they have a term in common they have all that lies below in common.
Agree(f, g) ==
  \A i \in Span(f) \cap Span(g) : TermAt(f, i) = TermAt(g, i) =>
    \A k \in Span(f) \cap Span(g) : k <= i => Same(f, g, k)

\* f was cut out of g.
Part(f, g) == f.base >= g.base /\ End(f) <= End(g) /\ \A k \in Span(f) : Same(f, g, k)

-----------------------------------------------------------------------------
\* A majority voted for c in the term and c is the only one that can count them.
Voted(v, c, term) ==
  /\ currentTerm[v] > term \/ (currentTerm[v] = term /\ votedFor[v] = c)
  /\ \A d \in Server : term \in Granted(v, d) => d = c

Elected(c, term) == \E Q \in SUBSET Server : Majority(Q) /\ \A v \in Q : Voted(v, c, term)

\* c does not campaign in that term any more.
Settled(c, term) == currentTerm[c] > term \/ (currentTerm[c] = term /\ role[c] # "Candidate")

InOffice == \A s \in Server : role[s] # "Follower" => currentTerm[s] > 0

CallsElected == \A m \in Calls : m.src # m.dst /\ Elected(m.src, m.term)

TermsElected ==
  \A f \in Pieces : \A i \in Span(f) : TermAt(f, i) > 0 =>
    \E c \in Server : Elected(c, TermAt(f, i)) /\ Settled(c, TermAt(f, i))

LeadersAhead ==
  \A s \in Server : role[s] = "Leader" =>
    \A f \in Pieces : \A i \in Span(f) : TermAt(f, i) = currentTerm[s] => i <= LastLogIndex(s)

PiecesAgree == \A f, g \in Pieces : Agree(f, g)

LogInv == InOffice /\ CallsElected /\ TermsElected /\ LeadersAhead /\ PiecesAgree

-----------------------------------------------------------------------------
\* Pieces

LEMMA PieceTypes ==
  ASSUME NEW f \in Piece
  PROVE  /\ f.base \in Nat /\ f.term \in Nat /\ Len(f.entries) \in Nat
         /\ End(f) \in Nat /\ f.base \in Span(f) /\ TermAt(f, f.base) = f.term
         /\ \A i \in Span(f) : i \in Nat /\ TermAt(f, i) \in Nat
         /\ \A i \in f.base + 1 .. End(f) : EntryAt(f, i) \in Entry
  <1>1. f.base \in Nat /\ f.term \in Nat /\ f.entries \in Seq(Entry)
    BY DEF Piece
  <1>2. Len(f.entries) \in Nat /\ \A k \in 1 .. Len(f.entries) : f.entries[k] \in Entry
    BY <1>1, ElementOfSeq, LenProperties
  <1>3. \A i \in f.base + 1 .. End(f) : EntryAt(f, i) \in Entry
    BY <1>1, <1>2 DEF End, EntryAt
  <1>4. ASSUME NEW i \in Span(f)
        PROVE  i \in Nat /\ TermAt(f, i) \in Nat
    <2>1. CASE i = f.base
      BY <1>1, <2>1 DEF TermAt
    <2>2. CASE i # f.base
      <3>1. i \in f.base + 1 .. End(f)
        BY <1>1, <1>2, <2>2 DEF Span, End
      <3>2. QED BY <1>1, <1>2, <1>3, <2>2, <3>1 DEF TermAt, Entry, End
    <2>3. QED BY <2>1, <2>2
  <1>5. QED BY <1>1, <1>2, <1>3, <1>4 DEF End, Span, TermAt

LEMMA PiecesTyped == TypeOK => Pieces \subseteq Piece
  <1>. SUFFICES ASSUME TypeOK PROVE Pieces \subseteq Piece
    OBVIOUS
  <1>1. \A s \in Server : LogOf(s) \in Piece
    BY DEF TypeOK, LogTyped, LogOf, Piece
  <1>2. /\ Received("AppendEntries") \subseteq AppendRequests
        /\ Received("InstallSnapshot") \subseteq InstallRequests
    BY ReceivedTypes DEF TypeOK
  <1>3. \A m \in Received("AppendEntries") : CarriedBy(m) \in Piece
    BY <1>2 DEF AppendRequests, CarriedBy, Piece
  <1>4. \A m \in Received("InstallSnapshot") : CarriedBy(m) \in Piece
    <2>1. <<>> \in Seq(Entry)
      OBVIOUS
    <2>2. QED BY <1>2, <2>1 DEF InstallRequests, CarriedBy, Piece
  <1>5. QED BY <1>1, <1>3, <1>4 DEF Pieces, Calls

LEMMA LastIndexTyped == TypeOK => \A s \in Server : LastLogIndex(s) \in Nat
  BY LogTypes DEF TypeOK

\* Both hold after a step that keeps the types.
LEMMA TypedNext ==
  ASSUME TypeOK'
  PROVE  Pieces' \subseteq Piece /\ \A s \in Server : LastLogIndex(s)' \in Nat
  <1>1. (TypeOK => Pieces \subseteq Piece)'
    BY PiecesTyped, PTL
  <1>2. (TypeOK => \A s \in Server : LastLogIndex(s) \in Nat)'
    BY LastIndexTyped, PTL
  <1>3. QED BY <1>1, <1>2

\* The indexing of raft.go in these terms.
LEMMA LogPiece ==
  ASSUME NEW s \in Server
  PROVE  /\ LogOf(s) \in Pieces /\ LogOf(s).base = lastIncludedIndex[s]
         /\ LastLogIndex(s) = End(LogOf(s))
         /\ \A i : LogEntry(s, i) = EntryAt(LogOf(s), i) /\ LogTerm(s, i) = TermAt(LogOf(s), i)
  BY DEF LogOf, Pieces, LastLogIndex, End, LogEntry, LogTerm, EntryAt, TermAt

LEMMA AgreeIsSymmetric ==
  ASSUME NEW f, NEW g, Agree(f, g)
  PROVE  Agree(g, f)
  BY DEF Agree, Same

LEMMA PartsAgree ==
  ASSUME NEW f \in Piece, NEW g \in Piece, NEW h \in Piece, Part(f, g), Agree(g, h)
  PROVE  Agree(f, h)
  <1>1. Span(f) \subseteq Span(g) /\ f.base >= g.base
    BY PieceTypes DEF Part, Span
  <1>2. SUFFICES ASSUME NEW i \in Span(f) \cap Span(h), TermAt(f, i) = TermAt(h, i),
                        NEW k \in Span(f) \cap Span(h), k <= i
                 PROVE  Same(f, h, k)
    BY DEF Agree
  <1>3. Same(f, g, i) /\ Same(f, g, k)
    BY DEF Part
  <1>4. Same(g, h, k)
    BY <1>1, <1>2, <1>3 DEF Agree, Same
  <1>5. k > f.base => k > g.base
    BY <1>1, PieceTypes
  <1>6. QED BY <1>3, <1>4, <1>5 DEF Same

LEMMA PartOfItself == ASSUME NEW f \in Piece PROVE Part(f, f)
  BY PieceTypes DEF Part, Same

\* The tail of a piece, its first entry kept as a term only.
TailFrom(g, i) == [base |-> i, term |-> TermAt(g, i),
                   entries |-> SubSeq(g.entries, i + 1 - g.base, Len(g.entries))]

LEMMA TailIsPart ==
  ASSUME NEW g \in Piece, NEW i \in Span(g)
  PROVE  /\ TailFrom(g, i) \in Piece /\ Part(TailFrom(g, i), g)
         /\ End(TailFrom(g, i)) = End(g)
  <1>. DEFINE f == TailFrom(g, i)
              n == Len(g.entries)
              d == i - g.base
  <1>1. g.base \in Nat /\ n \in Nat /\ i \in Nat /\ TermAt(g, i) \in Nat
    BY PieceTypes
  <1>2. d \in 0 .. n /\ i = g.base + d /\ i + 1 - g.base = d + 1
    BY <1>1 DEF Span, End
  <1>3. \A k \in d + 1 .. n : g.entries[k] \in Entry
    <2>1. g.entries \in Seq(Entry)
      BY DEF Piece
    <2>2. QED BY <1>1, <1>2, <2>1, ElementOfSeq
  <1>4. f.base = i /\ f.term = TermAt(g, i) /\ f.entries = SubSeq(g.entries, d + 1, n)
    BY <1>2 DEF TailFrom
  <1>. HIDE DEF d, n
  <1>5. /\ f.entries \in Seq(Entry) /\ Len(f.entries) = n - d
        /\ \A k \in 1 .. n - d : f.entries[k] = g.entries[d + k]
    <2>1. /\ SubSeq(g.entries, d + 1, n) \in Seq(Entry)
          /\ Len(SubSeq(g.entries, d + 1, n)) = IF d + 1 <= n THEN n - (d + 1) + 1 ELSE 0
          /\ \A k \in 1 .. n - (d + 1) + 1 :
               SubSeq(g.entries, d + 1, n)[k] = g.entries[d + 1 + k - 1]
      <3>1. d + 1 \in Int /\ n \in Int
        BY <1>1, <1>2
      <3>2. QED BY <1>3, <3>1, SubSeqProperties
    <2>2. n - (d + 1) + 1 = n - d /\ \A k \in 1 .. n - d : d + 1 + k - 1 = d + k
      BY <1>1, <1>2
    <2>3. (IF d + 1 <= n THEN n - (d + 1) + 1 ELSE 0) = n - d
      BY <1>1, <1>2
    <2>. HIDE DEF f
    <2>4. QED BY <1>4, <2>1, <2>2, <2>3
  <1>6. f \in Piece
    <2>1. f = [base |-> f.base, term |-> f.term, entries |-> f.entries]
      BY DEF TailFrom
    <2>. HIDE DEF f
    <2>2. QED BY <1>1, <1>4, <1>5, <2>1 DEF Piece
  <1>. HIDE DEF f
  <1>7. End(f) = End(g)
    <2>1. End(f) = i + (n - d)
      BY <1>4, <1>5 DEF End
    <2>2. End(g) = g.base + n
      BY DEF End, n
    <2>3. i + (n - d) = g.base + n
      BY <1>1, <1>2
    <2>4. QED BY <2>1, <2>2, <2>3
  <1>8. ASSUME NEW k \in Span(f)
        PROVE  Same(f, g, k)
    <2>1. CASE k = i
      BY <1>1, <1>4, <2>1 DEF Same, TermAt
    <2>2. CASE k # i
      <3>1. k \in i .. i + (n - d)
        BY <1>4, <1>5 DEF Span, End
      <3>2. k - i \in 1 .. n - d /\ d + (k - i) = k - g.base /\ k # g.base
        BY <1>1, <1>2, <2>2, <3>1
      <3>3. EntryAt(f, k) = EntryAt(g, k)
        BY <1>4, <1>5, <3>2 DEF EntryAt
      <3>4. QED BY <1>4, <2>2, <3>2, <3>3 DEF Same, TermAt
    <2>3. QED BY <2>1, <2>2
  <1>9. f.base >= g.base /\ End(f) <= End(g)
    BY <1>1, <1>2, <1>4, <1>7, PieceTypes
  <1>10. QED BY <1>6, <1>7, <1>8, <1>9 DEF Part, f

\* What a snapshot tells of the log it was cut from.
LEMMA StubIsPart ==
  ASSUME NEW g \in Piece, NEW i \in Span(g)
  PROVE  Part([base |-> i, term |-> TermAt(g, i), entries |-> <<>>], g)
  <1>. DEFINE f == [base |-> i, term |-> TermAt(g, i), entries |-> <<>>]
  <1>1. Len(f.entries) = 0 /\ f.base = i /\ i \in Nat /\ f.base >= g.base /\ i <= End(g)
    BY PieceTypes DEF Span
  <1>2. End(f) = i /\ \A k \in Span(f) : k = i
    BY <1>1 DEF End, Span
  <1>3. Same(f, g, i)
    BY <1>1 DEF Same, TermAt
  <1>4. QED BY <1>1, <1>2, <1>3 DEF Part

-----------------------------------------------------------------------------
\* Offices

LEMMA VotedStays ==
  ASSUME TypeOK, TypeOK', GoodVotes, NEW v \in Server, NEW c \in Server, NEW term \in Nat,
         Voted(v, c, term)
  PROVE  Voted(v, c, term)'
  <1>1. currentTerm[v] \in Nat /\ currentTerm'[v] \in Nat /\ Nobody \notin Server
    BY ServerAssumption DEF TypeOK, ElectionTyped
  <1>2. currentTerm'[v] > term \/ (currentTerm'[v] = term /\ votedFor'[v] = c)
    BY <1>1 DEF Voted, GoodVotes, KeepsVotes
  <1>3. ASSUME NEW d \in Server, term \in Granted(v, d)'
        PROVE  d = c
    <2>1. CASE term \in Granted(v, d)
      BY <2>1 DEF Voted
    <2>2. CASE NewVote(v, d, term)
      BY <1>1, <2>2 DEF Voted, NewVote
    <2>3. QED BY <1>3, <2>1, <2>2 DEF GoodVotes
  <1>4. QED BY <1>2, <1>3 DEF Voted

LEMMA ElectedStays ==
  ASSUME TypeOK, TypeOK', GoodVotes, NEW c \in Server, NEW term \in Nat, Elected(c, term)
  PROVE  Elected(c, term)'
  <1>1. PICK Q \in SUBSET Server : Majority(Q) /\ \A v \in Q : Voted(v, c, term)
    BY DEF Elected
  <1>2. \A v \in Q : Voted(v, c, term)'
    BY <1>1, VotedStays
  <1>3. Majority(Q)'
    BY <1>1 DEF Majority
  <1>4. QED BY <1>2, <1>3 DEF Elected

LEMMA LeaderIsElected ==
  ASSUME TypeOK, VotesGenuine, NEW s \in Server, role[s] = "Leader"
  PROVE  Elected(s, currentTerm[s])
  <1>1. votes[s] \in SUBSET Server /\ Majority(votes[s])
    BY DEF TypeOK, ElectionTyped, VotesGenuine, LeaderElected
  <1>2. ASSUME NEW v \in votes[s]
        PROVE  Voted(v, s, currentTerm[s])
    <2>1. v \in Server /\ currentTerm[s] \in Granted(v, s)
      BY <1>1 DEF Granted
    <2>2. QED BY <2>1 DEF Voted, VotesGenuine, VotesBacked, VotesUnique
  <1>3. QED BY <1>1, <1>2 DEF Elected

\* Who is elected is the only one with a majority of votes in that term.
LEMMA ElectedOnce ==
  ASSUME NEW c \in Server, NEW d \in Server, NEW term, Elected(c, term),
         NEW Q \in SUBSET Server, Majority(Q), \A v \in Q : term \in Granted(v, d)
  PROVE  c = d
  <1>1. PICK R \in SUBSET Server : Majority(R) /\ \A v \in R : Voted(v, c, term)
    BY DEF Elected
  <1>2. PICK v \in Server : v \in Q /\ v \in R
    BY <1>1, MajoritiesMeet
  <1>3. QED BY <1>1, <1>2 DEF Voted

LEMMA OneLeader ==
  ASSUME TypeOK, VotesGenuine, NEW c \in Server, NEW s \in Server, role[s] = "Leader",
         Elected(c, currentTerm[s])
  PROVE  c = s
  <1>1. votes[s] \in SUBSET Server /\ Majority(votes[s])
    BY DEF TypeOK, ElectionTyped, VotesGenuine, LeaderElected
  <1>2. \A v \in votes[s] : currentTerm[s] \in Granted(v, s)
    BY DEF Granted
  <1>3. QED BY <1>1, <1>2, ElectedOnce

-----------------------------------------------------------------------------
\* Steps and offices

\* s has just got its majority.
Won(s) ==
  /\ role[s] = "Candidate" /\ votes'[s] \in SUBSET Server /\ Majority(votes'[s])
  /\ \A v \in votes'[s] : currentTerm[s] \in Granted(v, s)

RoleStep(s) ==
  /\ role'[s] = "Candidate" =>
       currentTerm'[s] > currentTerm[s] \/ (role[s] = "Candidate" /\ currentTerm'[s] = currentTerm[s])
  /\ role'[s] = "Leader" =>
       currentTerm'[s] = currentTerm[s] /\ (role[s] = "Leader" \/ Won(s))

\* Whoever is no follower after the step was the same before.
OfficesStay ==
  \A s \in Server : role'[s] # "Follower" =>
    role'[s] = role[s] /\ currentTerm'[s] = currentTerm[s]

LEMMA OfficesStayStep ==
  ASSUME OfficesStay, NEW s \in Server
  PROVE  RoleStep(s)
  BY DEF OfficesStay, RoleStep

LEMMA StepDownOffices ==
  ASSUME TypeOK, NEW s \in Server, NEW term, StepDown(s, term)
  PROVE  OfficesStay
  BY DEF StepDown, OfficesStay, TypeOK, ElectionTyped

LEMMA AdoptTermOffices ==
  ASSUME TypeOK, NEW s \in Server, NEW term \in Nat, AdoptTerm(s, term)
  PROVE  OfficesStay
  BY DEF AdoptTerm, Larger, OfficesStay, TypeOK, ElectionTyped

\* A vote reply deposes its receiver, or is one more vote for it.
LEMMA HandleVoteReplyOffices ==
  ASSUME TypeOK, TypeOK', NEW m \in Received("RequestVoteReply"), HandleVoteReply(m),
         NEW t \in Server
  PROVE  RoleStep(t)
  <1>. DEFINE s == m.dst
              wins == Majority(votes[s] \cup {m.src})
  <1>1. /\ currentTerm \in [Server -> Nat] /\ role \in [Server -> Role]
        /\ votes \in [Server -> SUBSET Server] /\ votes' \in [Server -> SUBSET Server]
        /\ network \subseteq Message
    BY DEF TypeOK, ElectionTyped
  <1>2. s \in Server /\ m.src \in Server
    BY <1>1, ReceivedTypes DEF VoteReplies
  <1>3. CASE m.term > currentTerm[s] /\ StepDown(s, m.term)
    BY <1>2, <1>3, StepDownOffices, OfficesStayStep
  <1>4. CASE ~(m.term > currentTerm[s] /\ StepDown(s, m.term))
    <2>1. /\ m.granted /\ role[s] = "Candidate" /\ currentTerm[s] = m.reqTerm
          /\ votes' = [votes EXCEPT ![s] = votes[s] \cup {m.src}]
          /\ role' = [role EXCEPT ![s] = IF wins THEN "Leader" ELSE role[s]]
          /\ UNCHANGED currentTerm
      BY <1>4 DEF HandleVoteReply, Counting
    <2>2. CASE t # s
      BY <1>1, <1>2, <2>1, <2>2 DEF RoleStep
    <2>3. CASE t = s
      <3>1. \A v \in votes'[s] : currentTerm[s] \in Granted(v, s)
        BY <1>1, <1>2, <2>1 DEF Granted
      <3>2. wins => Majority(votes'[s])
        BY <1>1, <1>2, <2>1
      <3>. HIDE DEF wins
      <3>3. wins => Won(s)
        BY <1>1, <1>2, <2>1, <3>1, <3>2 DEF Won
      <3>4. QED BY <1>1, <1>2, <2>1, <2>3, <3>3 DEF RoleStep
    <2>4. QED BY <2>2, <2>3
  <1>5. QED BY <1>3, <1>4

\* Nobody becomes a candidate but in a new term, nor a leader but by winning.
LEMMA StepsOfRoles ==
  ASSUME TypeOK, TypeOK', [Next]_vars, NEW t \in Server
  PROVE  RoleStep(t)
  <1>1. /\ currentTerm \in [Server -> Nat] /\ role \in [Server -> Role]
        /\ network \subseteq Message
    BY DEF TypeOK, ElectionTyped
  <1>2. CASE UNCHANGED <<role, currentTerm>>
    BY <1>2 DEF RoleStep
  <1>3. ASSUME NEW s \in Server, StartElection(s)
        PROVE  RoleStep(t)
    BY <1>1, <1>3 DEF StartElection, RoleStep
  <1>4. ASSUME NEW s \in Server, Restart(s)
        PROVE  RoleStep(t)
    BY <1>1, <1>4 DEF Restart, persistentVars, RoleStep
  <1>5. ASSUME NEW m \in Received("RequestVote"), HandleRequestVote(m)
        PROVE  RoleStep(t)
    <2>1. m.dst \in Server /\ m.term \in Nat
      BY <1>1, ReceivedTypes DEF VoteRequests
    <2>2. OfficesStay
      BY <1>1, <1>5, <2>1 DEF HandleRequestVote, Larger, OfficesStay
    <2>3. QED BY <2>2, OfficesStayStep
  <1>6. ASSUME NEW m \in Received("AppendEntries"), HandleAppendEntries(m)
        PROVE  RoleStep(t)
    <2>1. m.dst \in Server /\ m.term \in Nat
      BY <1>1, ReceivedTypes DEF AppendRequests
    <2>2. QED BY <1>2, <1>6, <2>1, AdoptTermOffices, OfficesStayStep DEF HandleAppendEntries
  <1>7. ASSUME NEW m \in Received("InstallSnapshot"), HandleInstallSnapshot(m)
        PROVE  RoleStep(t)
    <2>1. m.dst \in Server /\ m.term \in Nat
      BY <1>1, ReceivedTypes DEF InstallRequests
    <2>2. QED BY <1>2, <1>7, <2>1, AdoptTermOffices, OfficesStayStep DEF HandleInstallSnapshot
  <1>8. ASSUME NEW m \in Received("AppendEntriesReply"), HandleAppendReply(m)
        PROVE  RoleStep(t)
    <2>1. m.dst \in Server
      BY <1>1, ReceivedTypes DEF AppendReplies
    <2>2. QED BY <1>2, <1>8, <2>1, StepDownOffices, OfficesStayStep DEF HandleAppendReply
  <1>9. ASSUME NEW m \in Received("InstallSnapshotReply"), HandleSnapshotReply(m)
        PROVE  RoleStep(t)
    <2>1. m.dst \in Server
      BY <1>1, ReceivedTypes DEF InstallReplies
    <2>2. QED BY <1>2, <1>9, <2>1, StepDownOffices, OfficesStayStep DEF HandleSnapshotReply
  <1>10. CASE DeliveryNext
    BY <1>2, <1>10 DEF DeliveryNext, ApplierSnapshot, ApplierCommands, ReaderCommand, ReaderSnapshot
  <1>11. CASE ConsensusNext
    <2>1. ASSUME NEW s \in Server, NEW cmd \in Command, Start(s, cmd)
          PROVE  RoleStep(t)
      BY <1>2, <2>1 DEF Start
    <2>2. ASSUME NEW s \in Server, NEW p \in Server, SendAppendEntries(s, p) \/ SendSnapshot(s, p)
          PROVE  RoleStep(t)
      BY <1>2, <2>2 DEF SendAppendEntries, SendSnapshot
    <2>3. ASSUME NEW m \in network, Lose(m)
          PROVE  RoleStep(t)
      BY <1>2, <2>3 DEF Lose, persistentVars
    <2>4. QED
      BY <1>3, <1>4, <1>5, <1>6, <1>7, <1>8, <1>9, <1>11, <2>1, <2>2, <2>3,
         HandleVoteReplyOffices
      DEF ConsensusNext
  <1>12. QED BY <1>2, <1>10, <1>11 DEF Next, vars

-----------------------------------------------------------------------------
\* Steps and logs

\* The leader takes an operation in at i.
WrittenAt(f, i) ==
  \E s \in Server : /\ role[s] = "Leader" /\ role'[s] = "Leader" /\ currentTerm'[s] = currentTerm[s]
                    /\ TermAt(f, i) = currentTerm[s] /\ i = LastLogIndex(s)'

\* A call on its way was there before or has just been made by a leader.
CallsKept ==
  \A m \in Calls' : m \in Calls \/ (role[m.src] = "Leader" /\ m.term = currentTerm[m.src] /\ m.src # m.dst)

KeepsLog(s) ==
  /\ LastLogIndex(s)' >= LastLogIndex(s)
  /\ \A k \in Indices(s) : k > lastIncludedIndex'[s] => LogEntry(s, k)' = LogEntry(s, k)

LeadersKeepLogs ==
  \A s \in Server :
    role[s] = "Leader" /\ role'[s] = "Leader" /\ currentTerm'[s] = currentTerm[s] => KeepsLog(s)

\* A term that is somewhere at an index was so before or is a leader's own.
TermsKept ==
  \A f \in Pieces' : \A i \in Span(f) :
    (\E g \in Pieces : i \in Span(g) /\ TermAt(g, i) = TermAt(f, i)) \/ WrittenAt(f, i)

\* What every step does with logs.
GoodLogs == CallsKept /\ LeadersKeepLogs /\ TermsKept /\ PiecesAgree'

LEMMA SettledStays ==
  ASSUME TypeOK, TypeOK', GoodVotes, NEW c \in Server, NEW term \in Nat, RoleStep(c), Settled(c, term)
  PROVE  Settled(c, term)'
  <1>1. /\ currentTerm[c] \in Nat /\ currentTerm'[c] \in Nat /\ currentTerm'[c] >= currentTerm[c]
    BY DEF TypeOK, ElectionTyped, GoodVotes, KeepsVotes
  <1>2. QED BY <1>1 DEF Settled, RoleStep

LEMMA CallsStayElected ==
  ASSUME TypeOK, TypeOK', VotesGenuine, GoodVotes, CallsElected, CallsKept
  PROVE  CallsElected'
  <1>1. SUFFICES ASSUME NEW m \in Calls'
                 PROVE  m.src # m.dst /\ Elected(m.src, m.term)'
    BY DEF CallsElected
  <1>2. m.src \in Server /\ m.term \in Nat
    <2>1. (network \subseteq Message)' /\ m \in network'
      BY DEF TypeOK, Calls, Received
    <2>2. m \in AppendRequests \cup InstallRequests
      BY <1>1, <2>1 DEF Calls, Received, Message, VoteRequests, VoteReplies, AppendRequests,
         AppendReplies, InstallRequests, InstallReplies
    <2>3. QED BY <2>2 DEF AppendRequests, InstallRequests
  <1>3. m.src # m.dst /\ Elected(m.src, m.term)
    BY <1>1, <1>2, LeaderIsElected DEF CallsKept, CallsElected
  <1>4. QED BY <1>2, <1>3, ElectedStays

LEMMA TermsStayElected ==
  ASSUME TypeOK, TypeOK', VotesGenuine, GoodVotes, TermsElected, TermsKept,
         \A s \in Server : RoleStep(s)
  PROVE  TermsElected'
  <1>1. SUFFICES ASSUME NEW f \in Pieces', NEW i \in Span(f), TermAt(f, i) > 0
                 PROVE  \E c \in Server : (Elected(c, TermAt(f, i)) /\ Settled(c, TermAt(f, i)))'
    BY DEF TermsElected
  <1>2. TermAt(f, i) \in Nat
    <2>1. f \in Piece
      BY TypedNext
    <2>2. QED BY <2>1, PieceTypes
  <1>3. CASE \E g \in Pieces : i \in Span(g) /\ TermAt(g, i) = TermAt(f, i)
    <2>1. PICK c \in Server : Elected(c, TermAt(f, i)) /\ Settled(c, TermAt(f, i))
      BY <1>1, <1>3 DEF TermsElected
    <2>2. QED BY <1>2, <2>1, ElectedStays, SettledStays
  <1>4. CASE WrittenAt(f, i)
    <2>1. PICK s \in Server :
                 /\ role[s] = "Leader" /\ role'[s] = "Leader" /\ currentTerm'[s] = currentTerm[s]
                 /\ TermAt(f, i) = currentTerm[s]
      BY <1>4 DEF WrittenAt
    <2>2. Elected(s, TermAt(f, i))'
      BY <1>2, <2>1, LeaderIsElected, ElectedStays
    <2>3. Settled(s, TermAt(f, i))'
      BY <2>1 DEF Settled
    <2>4. QED BY <2>2, <2>3
  <1>5. QED BY <1>1, <1>3, <1>4 DEF TermsKept

LEMMA LeadersStayAhead ==
  ASSUME TypeOK, TypeOK', VotesGenuine, InOffice, TermsElected, LeadersAhead, TermsKept,
         LeadersKeepLogs, \A s \in Server : RoleStep(s)
  PROVE  LeadersAhead'
  <1>1. SUFFICES ASSUME NEW s \in Server, role'[s] = "Leader", NEW f \in Pieces',
                        NEW i \in Span(f), TermAt(f, i) = currentTerm'[s]
                 PROVE  i <= LastLogIndex(s)'
    BY DEF LeadersAhead
  <1>2. currentTerm'[s] = currentTerm[s] /\ (role[s] = "Leader" \/ Won(s))
    BY <1>1 DEF RoleStep
  <1>3. /\ LastLogIndex(s) \in Nat /\ LastLogIndex(s)' \in Nat /\ currentTerm[s] \in Nat
    BY LastIndexTyped, TypedNext DEF TypeOK, ElectionTyped
  <1>4. i \in Nat
    <2>1. f \in Piece
      BY TypedNext
    <2>2. QED BY <2>1, PieceTypes
  <1>5. CASE role[s] = "Leader"
    <2>1. CASE \E g \in Pieces : i \in Span(g) /\ TermAt(g, i) = TermAt(f, i)
      <3>1. i <= LastLogIndex(s)
        BY <1>1, <1>2, <1>5, <2>1 DEF LeadersAhead
      <3>2. LastLogIndex(s)' >= LastLogIndex(s)
        BY <1>1, <1>2, <1>5 DEF LeadersKeepLogs, KeepsLog
      <3>3. QED BY <1>3, <1>4, <3>1, <3>2
    <2>2. CASE WrittenAt(f, i)
      <3>1. PICK t \in Server : /\ role[t] = "Leader" /\ currentTerm[t] = currentTerm[s]
                                /\ i = LastLogIndex(t)'
        BY <1>1, <1>2, <2>2 DEF WrittenAt
      <3>2. t = s
        BY <1>5, <3>1, GenuineVotesElectOne DEF ElectionSafety
      <3>3. QED BY <1>3, <3>1, <3>2
    <2>3. QED BY <2>1, <2>2 DEF TermsKept
  <1>6. CASE Won(s)
    <2>1. role[s] = "Candidate" /\ currentTerm[s] > 0
      BY <1>6 DEF Won, InOffice
    <2>2. \A c \in Server : Elected(c, currentTerm[s]) => c = s
      BY <1>6, ElectedOnce DEF Won
    <2>3. CASE \E g \in Pieces : i \in Span(g) /\ TermAt(g, i) = TermAt(f, i)
      <3>1. PICK c \in Server : Elected(c, currentTerm[s]) /\ Settled(c, currentTerm[s])
        BY <1>1, <1>2, <2>1, <2>3 DEF TermsElected
      <3>2. c = s
        BY <2>2, <3>1
      <3>3. QED BY <1>3, <2>1, <3>1, <3>2 DEF Settled
    <2>4. CASE WrittenAt(f, i)
      <3>1. PICK t \in Server : role[t] = "Leader" /\ currentTerm[t] = currentTerm[s]
        BY <1>1, <1>2, <2>4 DEF WrittenAt
      <3>2. t = s
        BY <2>2, <3>1, LeaderIsElected
      <3>3. QED BY <2>1, <3>1, <3>2
    <2>5. QED BY <2>3, <2>4 DEF TermsKept
  <1>7. QED BY <1>2, <1>5, <1>6

LEMMA GoodLogsStay ==
  ASSUME TypeOK, TypeOK', VotesGenuine, GoodVotes, LogInv, GoodLogs, \A s \in Server : RoleStep(s)
  PROVE  LogInv'
  <1>1. InOffice'
    BY DEF LogInv, InOffice, RoleStep, Won, TypeOK, ElectionTyped, Role
  <1>2. QED
    BY <1>1, CallsStayElected, TermsStayElected, LeadersStayAhead DEF LogInv, GoodLogs

-----------------------------------------------------------------------------
\* Cutting and gluing

LEMMA CutPieces ==
  ASSUME TypeOK, TypeOK', PiecesAgree, \A f \in Pieces' : \E g \in Pieces : Part(f, g)
  PROVE  TermsKept /\ PiecesAgree'
  <1>1. Pieces \subseteq Piece
    BY PiecesTyped
  <1>2. Pieces' \subseteq Piece
    BY TypedNext
  <1>3. ASSUME NEW f \in Pieces', NEW g \in Pieces'
        PROVE  Agree(f, g)
    <2>1. PICK a \in Pieces : Part(f, a)
      OBVIOUS
    <2>2. PICK b \in Pieces : Part(g, b)
      OBVIOUS
    <2>3. Agree(a, b)
      BY DEF PiecesAgree
    <2>4. Agree(f, b)
      BY <1>1, <1>2, <2>1, <2>3, PartsAgree
    <2>5. Agree(g, f)
      BY <1>1, <1>2, <2>2, <2>4, AgreeIsSymmetric, PartsAgree
    <2>6. QED BY <2>5, AgreeIsSymmetric
  <1>4. ASSUME NEW f \in Pieces', NEW i \in Span(f)
        PROVE  \E g \in Pieces : i \in Span(g) /\ TermAt(g, i) = TermAt(f, i)
    <2>1. PICK g \in Pieces : Part(f, g)
      OBVIOUS
    <2>2. f \in Piece /\ g \in Piece
      BY <1>1, <1>2
    <2>3. i \in Span(g)
      BY <2>1, <2>2, PieceTypes DEF Part, Span
    <2>4. QED BY <2>1, <2>3 DEF Part, Same
  <1>5. QED BY <1>3, <1>4 DEF TermsKept, PiecesAgree

\* new follows f up to q and g from there on.
Glued(new, f, g, q) ==
  /\ q \in Span(f) \cap Span(g) /\ TermAt(f, q) = TermAt(g, q)
  /\ new.base = f.base /\ End(new) = End(g)
  /\ \A i \in Span(new) :
       /\ i <= q => Same(new, f, i)
       /\ i > q => TermAt(new, i) = TermAt(g, i) /\ EntryAt(new, i) = EntryAt(g, i)

LEMMA GluedAgrees ==
  ASSUME NEW new \in Piece, NEW f \in Piece, NEW g \in Piece, NEW h \in Piece, NEW q,
         Glued(new, f, g, q), Agree(f, h), Agree(g, h)
  PROVE  Agree(new, h)
  <1>1. /\ f.base \in Nat /\ g.base \in Nat /\ h.base \in Nat /\ End(f) \in Nat
        /\ End(g) \in Nat /\ End(h) \in Nat /\ q \in Nat
        /\ f.base <= q /\ q <= End(f) /\ g.base <= q /\ q <= End(g)
    BY PieceTypes DEF Glued, Span
  <1>2. SUFFICES ASSUME NEW i \in Span(new) \cap Span(h), TermAt(new, i) = TermAt(h, i),
                        NEW k \in Span(new) \cap Span(h), k <= i
                 PROVE  Same(new, h, k)
    BY DEF Agree
  <1>3. /\ i \in Nat /\ k \in Nat /\ h.base <= k /\ i <= End(h) /\ f.base <= k /\ i <= End(g)
        /\ new.base = f.base
    BY PieceTypes DEF Span, Glued
  <1>4. k <= q => Same(new, f, k)
    BY DEF Glued
  <1>5. i <= q => Same(new, f, i)
    BY DEF Glued
  <1>6. /\ k > q => TermAt(new, k) = TermAt(g, k) /\ EntryAt(new, k) = EntryAt(g, k)
        /\ i > q => TermAt(new, i) = TermAt(g, i)
    BY DEF Glued
  <1>7. CASE i <= q
    <2>1. i \in Span(f) \cap Span(h) /\ k \in Span(f) \cap Span(h) /\ k <= q
      BY <1>1, <1>2, <1>3, <1>7 DEF Span
    <2>2. Same(f, h, k)
      BY <1>2, <1>5, <1>7, <2>1 DEF Agree, Same
    <2>3. QED BY <1>3, <1>4, <2>1, <2>2 DEF Same
  <1>8. CASE i > q
    <2>1. i \in Span(g) \cap Span(h)
      BY <1>1, <1>2, <1>3, <1>8 DEF Span
    <2>2. \A j \in Span(g) \cap Span(h) : j <= i => Same(g, h, j)
      BY <1>2, <1>6, <1>8, <2>1 DEF Agree
    <2>3. CASE k > q
      <3>1. k \in Span(g) \cap Span(h) /\ k > g.base
        BY <1>1, <1>2, <1>3, <2>3 DEF Span
      <3>2. QED BY <1>2, <1>6, <2>2, <2>3, <3>1 DEF Same
    <2>4. CASE k <= q
      <3>1. q \in Span(g) \cap Span(h) /\ q \in Span(f) /\ k \in Span(f) \cap Span(h)
        BY <1>1, <1>2, <1>3, <1>8, <2>4 DEF Span
      <3>2. TermAt(f, q) = TermAt(h, q)
        BY <1>1, <1>3, <1>8, <2>2, <3>1 DEF Same, Glued
      <3>3. Same(f, h, k)
        BY <2>4, <3>1, <3>2 DEF Agree
      <3>4. QED BY <1>3, <1>4, <2>4, <3>3 DEF Same
    <2>5. QED BY <1>1, <1>3, <2>3, <2>4
  <1>9. QED BY <1>1, <1>3, <1>7, <1>8

-----------------------------------------------------------------------------
\* Steps that change no log

LEMMA SentLogs ==
  ASSUME TypeOK, TypeOK', PiecesAgree, UNCHANGED <<log, lastIncludedIndex, lastIncludedTerm>>,
         \A m \in Calls' : m \in Calls \/
           /\ role[m.src] = "Leader" /\ m.term = currentTerm[m.src] /\ m.src # m.dst
           /\ \E g \in Pieces : Part(CarriedBy(m), g)
  PROVE  GoodLogs
  <1>1. CallsKept
    BY DEF CallsKept
  <1>2. LeadersKeepLogs
    <2>1. \A s \in Server : LastLogIndex(s) \in Nat
      BY LastIndexTyped
    <2>2. QED BY <2>1 DEF LeadersKeepLogs, KeepsLog, LastLogIndex, LogEntry
  <1>3. ASSUME NEW f \in Pieces'
        PROVE  \E g \in Pieces : Part(f, g)
    <2>1. CASE f \in Pieces
      BY <2>1, PiecesTyped, PartOfItself
    <2>2. CASE \E m \in Calls' : f = CarriedBy(m) /\ m \notin Calls
      BY <2>2
    <2>3. f \in Pieces \/ \E m \in Calls' : f = CarriedBy(m) /\ m \notin Calls
      BY <1>3 DEF Pieces, LogOf, CarriedBy
    <2>4. QED BY <2>1, <2>2, <2>3
  <1>4. QED BY <1>1, <1>2, <1>3, CutPieces DEF GoodLogs

LEMMA QuietLogs ==
  ASSUME TypeOK, TypeOK', PiecesAgree, UNCHANGED <<log, lastIncludedIndex, lastIncludedTerm>>,
         \A m \in network' : m.kind \in {"AppendEntries", "InstallSnapshot"} => m \in network
  PROVE  GoodLogs
  <1>1. Calls' \subseteq Calls
    BY DEF Calls, Received
  <1>2. QED BY <1>1, SentLogs

LEMMA SendAppendEntriesLogs ==
  ASSUME TypeOK, TypeOK', PiecesAgree, NEW s \in Server, NEW p \in Server,
         SendAppendEntries(s, p)
  PROVE  GoodLogs
  <1>. DEFINE prev == nextIndex[s][p] - 1
              call == [kind |-> "AppendEntries", src |-> s, dst |-> p, term |-> currentTerm[s],
                       prevLogIndex |-> prev, prevLogTerm |-> LogTerm(s, prev),
                       entries |-> SubSeq(log[s], prev + 1 - lastIncludedIndex[s], Len(log[s])),
                       leaderCommit |-> commitIndex[s]]
  <1>1. /\ role[s] = "Leader" /\ p # s /\ prev \in lastIncludedIndex[s] .. LastLogIndex(s)
        /\ UNCHANGED <<log, lastIncludedIndex, lastIncludedTerm>>
    BY DEF SendAppendEntries, logVars
  <1>2. network' \subseteq network \cup {call}
    BY SendAllAdds DEF SendAppendEntries
  <1>3. CarriedBy(call) = TailFrom(LogOf(s), prev)
    BY DEF CarriedBy, TailFrom, LogOf, LogTerm, TermAt, LogEntry, EntryAt
  <1>4. LogOf(s) \in Pieces /\ LogOf(s) \in Piece /\ prev \in Span(LogOf(s))
    BY <1>1, LogPiece, PiecesTyped DEF Span
  <1>5. Part(CarriedBy(call), LogOf(s))
    BY <1>3, <1>4, TailIsPart
  <1>6. /\ call.src = s /\ call.dst = p /\ call.term = currentTerm[s]
    OBVIOUS
  <1>. HIDE DEF call
  <1>7. \A m \in Calls' : m \in Calls \/ m = call
    BY <1>2 DEF Calls, Received
  <1>8. QED BY <1>1, <1>4, <1>5, <1>6, <1>7, SentLogs

LEMMA SendSnapshotLogs ==
  ASSUME TypeOK, TypeOK', PiecesAgree, NEW s \in Server, NEW p \in Server, SendSnapshot(s, p)
  PROVE  GoodLogs
  <1>. DEFINE call == [kind |-> "InstallSnapshot", src |-> s, dst |-> p, term |-> currentTerm[s],
                       index |-> lastIncludedIndex[s], indexTerm |-> lastIncludedTerm[s],
                       data |-> snapshot[s]]
              base == LogOf(s).base
  <1>1. /\ role[s] = "Leader" /\ p # s
        /\ UNCHANGED <<log, lastIncludedIndex, lastIncludedTerm>>
    BY DEF SendSnapshot, logVars
  <1>2. network' \subseteq network \cup {call}
    BY SendAllAdds DEF SendSnapshot
  <1>3. CarriedBy(call) = [base |-> base, term |-> TermAt(LogOf(s), base), entries |-> <<>>]
    BY DEF CarriedBy, LogOf, TermAt
  <1>4. LogOf(s) \in Pieces /\ LogOf(s) \in Piece /\ base \in Span(LogOf(s))
    BY LogPiece, PiecesTyped, PieceTypes
  <1>5. Part(CarriedBy(call), LogOf(s))
    BY <1>3, <1>4, StubIsPart
  <1>6. /\ call.src = s /\ call.dst = p /\ call.term = currentTerm[s]
    OBVIOUS
  <1>. HIDE DEF call
  <1>7. \A m \in Calls' : m \in Calls \/ m = call
    BY <1>2 DEF Calls, Received
  <1>8. QED BY <1>1, <1>4, <1>5, <1>6, <1>7, SentLogs

-----------------------------------------------------------------------------
\* Steps that change one log

OthersKeepLogs(s) ==
  \A t \in Server \ {s} : /\ log'[t] = log[t] /\ lastIncludedIndex'[t] = lastIncludedIndex[t]
                          /\ lastIncludedTerm'[t] = lastIncludedTerm[t]

LEMMA OneLog ==
  ASSUME TypeOK, NEW s \in Server, OthersKeepLogs(s), Calls' \subseteq Calls
  PROVE  /\ CallsKept
         /\ \A f \in Pieces' : f \in Pieces \/ f = LogOf(s)'
         /\ \A t \in Server \ {s} : KeepsLog(t)
  <1>1. \A t \in Server \ {s} : LogOf(t)' = LogOf(t)
    BY DEF OthersKeepLogs, LogOf
  <1>2. ASSUME NEW f \in Pieces'
        PROVE  f \in Pieces \/ f = LogOf(s)'
    <2>1. CASE \E t \in Server : f = LogOf(t)'
      BY <1>1, <2>1 DEF Pieces
    <2>2. CASE \E m \in Calls' : f = CarriedBy(m)
      BY <2>2 DEF Pieces
    <2>3. QED BY <1>2, <2>1, <2>2 DEF Pieces, CarriedBy
  <1>3. ASSUME NEW t \in Server \ {s}
        PROVE  KeepsLog(t)
    <2>1. LastLogIndex(t) \in Nat
      BY LastIndexTyped
    <2>2. QED BY <2>1 DEF OthersKeepLogs, KeepsLog, LastLogIndex, LogEntry
  <1>4. QED BY <1>2, <1>3 DEF CallsKept

\* The log is cut, at the end of a snapshot.
LEMMA CutLog ==
  ASSUME TypeOK, TypeOK', PiecesAgree, NEW s \in Server, OthersKeepLogs(s), Calls' \subseteq Calls,
         NEW i \in Span(LogOf(s)), LogOf(s)' = TailFrom(LogOf(s), i)
  PROVE  GoodLogs
  <1>1. LogOf(s) \in Pieces /\ LogOf(s) \in Piece
    BY LogPiece, PiecesTyped
  <1>2. Part(LogOf(s)', LogOf(s)) /\ End(LogOf(s)') = End(LogOf(s)) /\ LogOf(s)' \in Piece
    BY <1>1, TailIsPart
  <1>3. \A f \in Pieces' : \E g \in Pieces : Part(f, g)
    BY <1>1, <1>2, OneLog, PiecesTyped, PartOfItself
  <1>4. KeepsLog(s)
    <2>1. /\ LastLogIndex(s) = End(LogOf(s)) /\ LastLogIndex(s) \in Nat
          /\ lastIncludedIndex[s] = LogOf(s).base
          /\ \A k : LogEntry(s, k) = EntryAt(LogOf(s), k)
      BY LogPiece, LastIndexTyped
    <2>2. /\ LastLogIndex(s)' = End(LogOf(s)') /\ lastIncludedIndex'[s] = LogOf(s)'.base
          /\ \A k : LogEntry(s, k)' = EntryAt(LogOf(s)', k)
      BY DEF LogOf, LastLogIndex, End, LogEntry, EntryAt
    <2>3. LastLogIndex(s)' >= LastLogIndex(s)
      BY <1>2, <2>1, <2>2
    <2>4. ASSUME NEW k \in Indices(s), k > lastIncludedIndex'[s]
          PROVE  LogEntry(s, k)' = LogEntry(s, k)
      <3>1. k \in Span(LogOf(s)') /\ k > LogOf(s)'.base /\ k > LogOf(s).base
        BY <1>1, <1>2, <2>1, <2>2, <2>4, PieceTypes DEF Indices, Span
      <3>2. Same(LogOf(s)', LogOf(s), k)
        BY <1>2, <3>1 DEF Part
      <3>3. QED BY <2>1, <2>2, <3>1, <3>2 DEF Same
    <2>5. QED BY <2>3, <2>4 DEF KeepsLog
  <1>5. QED BY <1>3, <1>4, OneLog, CutPieces DEF GoodLogs, LeadersKeepLogs

\* The reader compacts the log it reads from.
LEMMA ReaderCuts ==
  ASSUME TypeOK, NEW s \in Server, ReaderCommand(s), ~UNCHANGED logVars
  PROVE  /\ OthersKeepLogs(s) /\ CompactionIndex(s) \in Span(LogOf(s))
         /\ LogOf(s)' = TailFrom(LogOf(s), CompactionIndex(s))
  <1>. DEFINE index == CompactionIndex(s)
  <1>1. Compact(s, index, sm'[s]) /\ ~(index <= lastIncludedIndex[s])
    BY DEF ReaderCommand, Compact
  <1>2. /\ index <= LastLogIndex(s)
        /\ log' = [log EXCEPT ![s] =
             SubSeq(log[s], index + 1 - lastIncludedIndex[s], Len(log[s]))]
        /\ lastIncludedIndex' = [lastIncludedIndex EXCEPT ![s] = index]
        /\ lastIncludedTerm' = [lastIncludedTerm EXCEPT ![s] = LogTerm(s, index)]
    BY <1>1 DEF Compact
  <1>3. index \in Nat /\ lastIncludedIndex[s] \in Nat
    BY HeadOfApplyCh DEF CompactionIndex, ReaderCommand, TypeOK, LogTyped
  <1>. HIDE DEF index
  <1>4. /\ log \in [Server -> Seq(Entry)] /\ lastIncludedIndex \in [Server -> Nat]
        /\ lastIncludedTerm \in [Server -> Nat]
    BY DEF TypeOK, LogTyped
  <1>5. OthersKeepLogs(s)
    BY <1>2, <1>4 DEF OthersKeepLogs
  <1>6. index \in Span(LogOf(s))
    BY <1>1, <1>2, <1>3, LogPiece, LastIndexTyped DEF Span
  <1>7. LogOf(s)' = TailFrom(LogOf(s), index)
    BY <1>2, <1>4, LogPiece DEF LogOf, TailFrom
  <1>8. QED BY <1>5, <1>6, <1>7 DEF index

LEMMA ReaderCommandLogs ==
  ASSUME TypeOK, TypeOK', PiecesAgree, NEW s \in Server, ReaderCommand(s)
  PROVE  GoodLogs
  <1>1. Calls' \subseteq Calls /\ \A m \in network' : m \in network
    BY DEF ReaderCommand, Calls, Received
  <1>2. CASE UNCHANGED logVars
    BY <1>1, <1>2, QuietLogs DEF logVars
  <1>3. CASE ~UNCHANGED logVars
    BY <1>1, <1>3, ReaderCuts, CutLog
  <1>4. QED BY <1>2, <1>3

\* Start appends an entry of the leader's term.
LEMMA StartExtends ==
  ASSUME TypeOK, TypeOK', NEW s \in Server, NEW cmd \in Command, Start(s, cmd)
  PROVE  /\ role[s] = "Leader" /\ UNCHANGED <<currentTerm, role>>
         /\ OthersKeepLogs(s) /\ Calls' \subseteq Calls
         /\ LogOf(s)'.base = LogOf(s).base /\ LogOf(s)'.term = LogOf(s).term
         /\ End(LogOf(s)') = End(LogOf(s)) + 1
         /\ \A k \in LogOf(s).base + 1 .. End(LogOf(s)) : EntryAt(LogOf(s)', k) = EntryAt(LogOf(s), k)
         /\ \A k \in Span(LogOf(s)) : Same(LogOf(s)', LogOf(s), k)
         /\ EntryAt(LogOf(s)', End(LogOf(s)')) \in Entry
         /\ EntryAt(LogOf(s)', End(LogOf(s)')).term = currentTerm[s]
         /\ EntryAt(LogOf(s)', End(LogOf(s)')).cmd = cmd
         /\ TermAt(LogOf(s)', End(LogOf(s)')) = currentTerm[s]
  <1>. DEFINE old == LogOf(s)
              new == LogOf(s)'
              entry == [term |-> currentTerm[s], cmd |-> cmd]
              n == Len(log[s])
  <1>1. /\ log \in [Server -> Seq(Entry)] /\ log[s] \in Seq(Entry) /\ n \in Nat
        /\ entry \in Entry /\ currentTerm[s] \in Nat
    <2>1. log \in [Server -> Seq(Entry)] /\ currentTerm[s] \in Nat
      BY DEF TypeOK, LogTyped, ElectionTyped
    <2>2. QED BY <2>1, LenProperties DEF Entry
  <1>2. /\ role[s] = "Leader" /\ log' = [log EXCEPT ![s] = Append(log[s], entry)]
        /\ UNCHANGED <<currentTerm, role, lastIncludedIndex, lastIncludedTerm, network>>
    BY DEF Start
  <1>3. OthersKeepLogs(s) /\ Calls' \subseteq Calls
    BY <1>1, <1>2 DEF OthersKeepLogs, Calls, Received
  <1>4. /\ old \in Pieces /\ old \in Piece /\ LastLogIndex(s) = End(old)
        /\ lastIncludedIndex[s] = old.base
    BY LogPiece, PiecesTyped
  <1>5. /\ new.base = old.base /\ new.term = old.term /\ new.entries = Append(log[s], entry)
        /\ old.entries = log[s] /\ LastLogIndex(s)' = End(new)
        /\ \A k : LogEntry(s, k)' = EntryAt(new, k) /\ LogEntry(s, k) = EntryAt(old, k)
    BY <1>1, <1>2 DEF LogOf, LastLogIndex, End, LogEntry, EntryAt
  <1>6. /\ Len(new.entries) = n + 1 /\ new.entries[n + 1] = entry
        /\ \A k \in 1 .. n : new.entries[k] = log[s][k]
    <2>1. /\ Len(Append(log[s], entry)) = n + 1 /\ Append(log[s], entry)[n + 1] = entry
          /\ \A k \in 1 .. n : Append(log[s], entry)[k] = log[s][k]
      BY <1>1, AppendProperties
    <2>2. QED BY <1>5, <2>1
  <1>7. new \in Piece
    <2>1. new \in Pieces'
      BY DEF Pieces
    <2>2. QED BY <2>1, TypedNext
  <1>. HIDE DEF old, new
  <1>8. /\ old.base \in Nat /\ End(old) = old.base + n /\ End(new) = old.base + (n + 1)
        /\ End(new) = End(old) + 1
    <2>1. old.base \in Nat /\ End(old) = old.base + n /\ End(new) = old.base + (n + 1)
      BY <1>4, <1>5, <1>6, PieceTypes DEF End
    <2>2. n \in Nat
      BY <1>1
    <2>. HIDE DEF n
    <2>3. QED BY <2>1, <2>2
  <1>9. \A k \in old.base + 1 .. End(old) : EntryAt(new, k) = EntryAt(old, k)
    <2>1. n \in Nat /\ new.base = old.base /\ old.entries = log[s]
      BY <1>1, <1>5
    <2>2. SUFFICES ASSUME NEW k \in old.base + 1 .. End(old)
                   PROVE  EntryAt(new, k) = EntryAt(old, k)
      OBVIOUS
    <2>. HIDE DEF n
    <2>3. k - old.base \in 1 .. n
      BY <1>8, <2>1
    <2>4. new.entries[k - old.base] = log[s][k - old.base]
      BY <1>6, <2>3
    <2>5. QED BY <2>1, <2>4 DEF EntryAt
  <1>10. \A k \in Span(old) : Same(new, old, k)
    <2>1. SUFFICES ASSUME NEW k \in Span(old) PROVE Same(new, old, k)
      OBVIOUS
    <2>2. CASE k = old.base
      BY <1>5, <1>8, <2>2 DEF Same, TermAt
    <2>3. CASE k # old.base
      <3>1. k \in old.base + 1 .. End(old)
        BY <1>1, <1>8, <2>3 DEF Span
      <3>2. QED BY <1>5, <1>9, <2>3, <3>1 DEF Same, TermAt
    <2>4. QED BY <2>2, <2>3
  <1>11. EntryAt(new, End(new)) = entry /\ TermAt(new, End(new)) = currentTerm[s]
    <2>1. End(new) - new.base = n + 1 /\ End(new) # new.base
      BY <1>1, <1>5, <1>8
    <2>2. EntryAt(new, End(new)) = entry
      BY <1>6, <2>1 DEF EntryAt
    <2>3. QED BY <2>1, <2>2 DEF TermAt
  <1>12. QED BY <1>1, <1>2, <1>3, <1>5, <1>8, <1>9, <1>10, <1>11 DEF old, new

\* What a leader writes is higher up than anything of its term.
LEMMA StartLogs ==
  ASSUME TypeOK, TypeOK', LogInv, NEW s \in Server, NEW cmd \in Command, Start(s, cmd)
  PROVE  GoodLogs
  <1>. DEFINE old == LogOf(s)
              new == LogOf(s)'
  <1>1. role[s] = "Leader" /\ UNCHANGED <<currentTerm, role>> /\ OthersKeepLogs(s) /\ Calls' \subseteq Calls
    BY StartExtends
  <1>2. /\ new.base = old.base /\ new.term = old.term /\ End(new) = End(old) + 1
        /\ \A k \in old.base + 1 .. End(old) : EntryAt(new, k) = EntryAt(old, k)
        /\ \A k \in Span(old) : Same(new, old, k)
        /\ TermAt(new, End(new)) = currentTerm[s]
    BY StartExtends
  <1>3. /\ old \in Pieces /\ old \in Piece /\ LastLogIndex(s) = End(old)
        /\ lastIncludedIndex[s] = old.base /\ old.base \in Nat /\ End(old) \in Nat
    BY LogPiece, PiecesTyped, PieceTypes
  <1>4. /\ LastLogIndex(s)' = End(new)
        /\ \A k : LogEntry(s, k)' = EntryAt(new, k) /\ LogEntry(s, k) = EntryAt(old, k)
    BY DEF LogOf, LastLogIndex, End, LogEntry, EntryAt
  <1>5. new \in Piece
    <2>1. new \in Pieces'
      BY DEF Pieces
    <2>2. QED BY <2>1, TypedNext
  <1>. HIDE DEF old, new
  <1>6. \A i \in Span(new) : i \in Span(old) \/ i = End(new)
    <2>1. End(old) \in Nat
      BY <1>3, PieceTypes
    <2>2. QED BY <1>2, <2>1 DEF Span
  <1>7. ASSUME NEW h \in Pieces
         PROVE  Agree(new, h)
    <2>1. SUFFICES ASSUME NEW i \in Span(new) \cap Span(h), TermAt(new, i) = TermAt(h, i),
                          NEW k \in Span(new) \cap Span(h), k <= i
                   PROVE  Same(new, h, k)
      BY DEF Agree
    <2>2. h \in Piece /\ i \in Nat /\ k \in Nat
      BY <1>5, PiecesTyped, PieceTypes
    <2>3. i # End(new)
      <3>1. i = End(new) => i <= End(old)
        BY <1>1, <1>2, <1>3, <2>1 DEF LogInv, LeadersAhead
      <3>2. QED BY <1>2, <1>3, <3>1
    <2>4. i \in Span(old) /\ k \in Span(old)
      <3>1. i \in Span(old)
        BY <1>6, <2>3
      <3>2. QED BY <1>2, <1>3, <2>1, <2>2, <3>1 DEF Span
    <2>5. Same(new, old, i) /\ Same(new, old, k)
      BY <1>2, <2>4
    <2>6. Agree(old, h)
      BY <1>3 DEF LogInv, PiecesAgree
    <2>7. Same(old, h, k)
      BY <2>1, <2>4, <2>5, <2>6 DEF Agree, Same
    <2>8. QED BY <1>2, <2>5, <2>7 DEF Same
  <1>8. \A f \in Pieces' : f \in Pieces \/ f = new
    BY <1>1, OneLog DEF new
  <1>9. TermsKept
    <2>1. WrittenAt(new, End(new))
      BY <1>1, <1>2, <1>4 DEF WrittenAt
    <2>2. \A i \in Span(old) : TermAt(old, i) = TermAt(new, i)
      BY <1>2 DEF Same
    <2>3. QED BY <1>3, <1>6, <1>8, <2>1, <2>2 DEF TermsKept
  <1>10. PiecesAgree'
    <2>1. Agree(new, new)
      BY DEF Agree, Same
    <2>2. QED BY <1>7, <1>8, <2>1, AgreeIsSymmetric DEF PiecesAgree, LogInv
  <1>11. KeepsLog(s)
    <2>1. \A k \in Indices(s) : LogEntry(s, k)' = LogEntry(s, k)
      BY <1>2, <1>3, <1>4 DEF Indices
    <2>2. QED BY <1>2, <1>3, <1>4, <2>1 DEF KeepsLog
  <1>12. QED BY <1>1, <1>9, <1>10, <1>11, OneLog DEF GoodLogs, LeadersKeepLogs

-----------------------------------------------------------------------------
\* Steps that take a call in

\* A leader gets no call of its own term.
LEMMA NoCallToLeader ==
  ASSUME TypeOK, VotesGenuine, CallsElected, NEW m \in Calls, m.dst \in Server,
         m.src \in Server, role[m.dst] = "Leader"
  PROVE  m.term # currentTerm[m.dst]
  BY OneLeader DEF CallsElected

LEMMA AdoptTermLeaders ==
  ASSUME TypeOK, VotesGenuine, CallsElected, NEW m \in Calls, NEW s \in Server, m.dst = s,
         m.src \in Server, m.term \in Nat, m.term >= currentTerm[s], AdoptTerm(s, m.term),
         \A t \in Server \ {s} : KeepsLog(t)
  PROVE  LeadersKeepLogs
  <1>1. currentTerm \in [Server -> Nat] /\ role \in [Server -> Role]
    BY DEF TypeOK, ElectionTyped
  <1>2. ~(role[s] = "Leader" /\ currentTerm'[s] = currentTerm[s])
    <2>1. SUFFICES ASSUME role[s] = "Leader", currentTerm'[s] = currentTerm[s] PROVE FALSE
      OBVIOUS
    <2>2. m.term = currentTerm[s]
      BY <1>1, <2>1 DEF AdoptTerm, Larger
    <2>3. QED BY <2>1, <2>2, NoCallToLeader
  <1>3. QED BY <1>2 DEF LeadersKeepLogs

\* A snapshot cuts the log where it ends, or replaces a log that differs there.
LEMMA InstallCuts ==
  ASSUME TypeOK, NEW m \in Received("InstallSnapshot"), HandleInstallSnapshot(m),
         ~(m.term < currentTerm[m.dst] \/ m.index <= lastIncludedIndex[m.dst])
  PROVE  /\ m.dst \in Server /\ OthersKeepLogs(m.dst)
         /\ m.term >= currentTerm[m.dst] /\ AdoptTerm(m.dst, m.term)
         /\ m.index > lastIncludedIndex[m.dst]
         /\ IF m.index <= LastLogIndex(m.dst) /\ LogTerm(m.dst, m.index) = m.indexTerm
              THEN m.index \in Span(LogOf(m.dst)) /\ LogOf(m.dst)' = TailFrom(LogOf(m.dst), m.index)
              ELSE LogOf(m.dst)' = CarriedBy(m)
  <1>. DEFINE s == m.dst
  <1>1. /\ s \in Server /\ m.term \in Nat /\ m.index \in Nat
        /\ lastIncludedIndex[s] \in Nat /\ currentTerm[s] \in Nat
        /\ log \in [Server -> Seq(Entry)] /\ lastIncludedIndex \in [Server -> Nat]
        /\ lastIncludedTerm \in [Server -> Nat]
    BY ReceivedTypes DEF InstallRequests, TypeOK, LogTyped, ElectionTyped
  <1>2. /\ Install(m) /\ AdoptTerm(s, m.term) /\ m.term >= currentTerm[s]
        /\ m.index > lastIncludedIndex[s]
    BY <1>1 DEF HandleInstallSnapshot
  <1>3. /\ log' = [log EXCEPT ![s] = RetainedLog(m, s)]
        /\ lastIncludedIndex' = [lastIncludedIndex EXCEPT ![s] = m.index]
        /\ lastIncludedTerm' = [lastIncludedTerm EXCEPT ![s] = m.indexTerm]
    BY <1>2 DEF Install
  <1>4. OthersKeepLogs(s)
    BY <1>1, <1>3 DEF OthersKeepLogs
  <1>5. LogOf(s)' = [base |-> m.index, term |-> m.indexTerm, entries |-> RetainedLog(m, s)]
    BY <1>1, <1>3 DEF LogOf
  <1>6. CASE m.index <= LastLogIndex(s) /\ LogTerm(s, m.index) = m.indexTerm
    <2>1. m.index \in Span(LogOf(s))
      BY <1>1, <1>2, <1>6, LogPiece, LastIndexTyped DEF Span
    <2>2. LogOf(s)' = TailFrom(LogOf(s), m.index)
      BY <1>1, <1>5, <1>6, LogPiece DEF LogOf, TailFrom, RetainedLog
    <2>3. QED BY <1>1, <1>2, <1>4, <1>6, <2>1, <2>2
  <1>7. CASE ~(m.index <= LastLogIndex(s) /\ LogTerm(s, m.index) = m.indexTerm)
    <2>1. LogOf(s)' = CarriedBy(m)
      BY <1>5, <1>7 DEF RetainedLog, CarriedBy, Received
    <2>2. QED BY <1>1, <1>2, <1>4, <1>7, <2>1
  <1>8. QED BY <1>6, <1>7

LEMMA HandleInstallSnapshotLogs ==
  ASSUME TypeOK, TypeOK', VotesGenuine, LogInv, NEW m \in Received("InstallSnapshot"),
         HandleInstallSnapshot(m)
  PROVE  GoodLogs
  <1>. DEFINE s == m.dst
  <1>1. s \in Server /\ m.src \in Server /\ m.term \in Nat
    BY ReceivedTypes DEF InstallRequests, TypeOK
  <1>2. \A r \in network' : r.kind \in {"AppendEntries", "InstallSnapshot"} => r \in network
    BY AnswerAdds DEF HandleInstallSnapshot
  <1>3. Calls' \subseteq Calls /\ m \in Calls
    BY <1>2 DEF Calls, Received
  <1>4. CASE m.term < currentTerm[s] \/ m.index <= lastIncludedIndex[s]
    BY <1>2, <1>4, QuietLogs DEF HandleInstallSnapshot, logVars, LogInv
  <1>5. CASE ~(m.term < currentTerm[s] \/ m.index <= lastIncludedIndex[s])
    <2>1. OthersKeepLogs(s) /\ m.term >= currentTerm[s] /\ AdoptTerm(s, m.term)
      BY <1>5, InstallCuts
    <2>2. CASE m.index \in Span(LogOf(s)) /\ LogOf(s)' = TailFrom(LogOf(s), m.index)
      BY <1>1, <1>3, <2>1, <2>2, CutLog DEF LogInv
    <2>3. CASE LogOf(s)' = CarriedBy(m)
      <3>1. LogOf(s)' \in Pieces
        BY <1>3, <2>3 DEF Pieces
      <3>2. \A f \in Pieces' : \E g \in Pieces : Part(f, g)
        BY <1>1, <1>3, <2>1, <3>1, OneLog, PiecesTyped, PartOfItself
      <3>3. TermsKept /\ PiecesAgree'
        BY <3>2, CutPieces DEF LogInv
      <3>4. CallsKept /\ \A t \in Server \ {s} : KeepsLog(t)
        BY <1>1, <1>3, <2>1, OneLog
      <3>5. LeadersKeepLogs
        BY <1>1, <1>3, <2>1, <3>4, AdoptTermLeaders DEF LogInv
      <3>6. QED BY <3>3, <3>4, <3>5 DEF GoodLogs
    <2>4. QED BY <1>5, <2>2, <2>3, InstallCuts
  <1>6. QED BY <1>4, <1>5

\* What AppendEntries writes is glued together.
Splice(f, g, q) == [base |-> f.base, term |-> f.term,
                    entries |-> SubSeq(f.entries, 1, q - f.base)
                                  \o SubSeq(g.entries, q + 1 - g.base, Len(g.entries))]

LEMMA SpliceGlues ==
  ASSUME NEW f \in Piece, NEW g \in Piece, NEW q \in Span(f) \cap Span(g), q < End(g),
         TermAt(f, q) = TermAt(g, q), Splice(f, g, q) \in Piece
  PROVE  Glued(Splice(f, g, q), f, g, q)
  <1>. DEFINE new == Splice(f, g, q)
              l == Len(f.entries)
              n == Len(g.entries)
              a == q - f.base
              b == q - g.base
              head == SubSeq(f.entries, 1, a)
              tail == SubSeq(g.entries, b + 1, n)
  <1>1. /\ f.base \in Nat /\ g.base \in Nat /\ l \in Nat /\ n \in Nat /\ q \in Nat
        /\ End(g) = g.base + n /\ f.base <= q /\ g.base <= q /\ q <= f.base + l
    BY PieceTypes DEF Span, End
  <1>2. /\ a \in 0 .. l /\ b \in 0 .. n - 1 /\ a \in Int /\ b + 1 \in Int
        /\ q = f.base + a /\ q = g.base + b /\ q + 1 - g.base = b + 1
    <2>. HIDE DEF l, n
    <2>1. q < g.base + n
      BY <1>1
    <2>2. QED BY <1>1, <2>1
  <1>3. /\ \A k \in 1 .. a : f.entries[k] \in Entry
        /\ \A k \in b + 1 .. n : g.entries[k] \in Entry
    <2>1. f.entries \in Seq(Entry) /\ g.entries \in Seq(Entry)
      BY DEF Piece
    <2>. HIDE DEF a, b, l, n
    <2>2. \A k \in 1 .. a : k \in 1 .. l
      BY <1>1, <1>2
    <2>3. \A k \in b + 1 .. n : k \in 1 .. n
      BY <1>1, <1>2
    <2>. USE DEF a, b, l, n
    <2>4. QED BY <2>1, <2>2, <2>3, ElementOfSeq
  <1>4. new.base = f.base /\ new.term = f.term
    BY DEF Splice
  <1>5. new.entries = head \o tail
    BY <1>2 DEF Splice
  <1>. HIDE DEF a, b, l, n, new
  <1>6. /\ head \in Seq(Entry) /\ Len(head) = a
        /\ \A k \in 1 .. a : head[k] = f.entries[k]
    <2>1. /\ head \in Seq(Entry) /\ Len(head) = IF 1 <= a THEN a - 1 + 1 ELSE 0
          /\ \A k \in 1 .. a - 1 + 1 : head[k] = f.entries[1 + k - 1]
      BY <1>2, <1>3, SubSeqProperties
    <2>2. (IF 1 <= a THEN a - 1 + 1 ELSE 0) = a /\ a - 1 + 1 = a /\ \A k \in 1 .. a : 1 + k - 1 = k
      BY <1>2
    <2>. HIDE DEF head
    <2>3. QED BY <2>1, <2>2
  <1>7. /\ tail \in Seq(Entry) /\ Len(tail) = n - b
        /\ \A k \in 1 .. n - b : tail[k] = g.entries[b + k]
    <2>1. /\ tail \in Seq(Entry)
          /\ Len(tail) = IF b + 1 <= n THEN n - (b + 1) + 1 ELSE 0
          /\ \A k \in 1 .. n - (b + 1) + 1 : tail[k] = g.entries[b + 1 + k - 1]
      <3>1. n \in Int
        BY <1>1
      <3>2. QED BY <1>2, <1>3, <3>1, SubSeqProperties
    <2>2. /\ (IF b + 1 <= n THEN n - (b + 1) + 1 ELSE 0) = n - b /\ n - (b + 1) + 1 = n - b
          /\ \A k \in 1 .. n - b : b + 1 + k - 1 = b + k
      BY <1>1, <1>2
    <2>. HIDE DEF tail
    <2>3. QED BY <2>1, <2>2
  <1>. HIDE DEF head, tail
  <1>8. /\ Len(new.entries) = a + (n - b)
        /\ \A k \in 1 .. a : new.entries[k] = f.entries[k]
        /\ \A k \in 1 .. n - b : new.entries[a + k] = g.entries[b + k]
    <2>1. /\ Len(head \o tail) = Len(head) + Len(tail)
          /\ \A k \in 1 .. Len(head) + Len(tail) :
               (head \o tail)[k] = IF k <= Len(head) THEN head[k] ELSE tail[k - Len(head)]
      BY <1>6, <1>7, ConcatProperties
    <2>2. /\ Len(new.entries) = a + (n - b)
          /\ \A k \in 1 .. a + (n - b) : new.entries[k] = IF k <= a THEN head[k] ELSE tail[k - a]
      BY <1>5, <1>6, <1>7, <2>1
    <2>3. ASSUME NEW k \in 1 .. a
          PROVE  new.entries[k] = f.entries[k]
      <3>1. k \in 1 .. a + (n - b) /\ k <= a
        BY <1>1, <1>2
      <3>2. QED BY <1>6, <2>2, <3>1
    <2>4. ASSUME NEW k \in 1 .. n - b
          PROVE  new.entries[a + k] = g.entries[b + k]
      <3>1. a + k \in 1 .. a + (n - b) /\ ~(a + k <= a) /\ (a + k) - a = k
        BY <1>1, <1>2
      <3>2. QED BY <1>7, <2>2, <3>1
    <2>5. QED BY <2>2, <2>3, <2>4
  <1>9. End(new) = End(g)
    <2>1. End(new) = f.base + (a + (n - b))
      BY <1>4, <1>8 DEF End
    <2>2. f.base + (a + (n - b)) = g.base + n
      BY <1>1, <1>2
    <2>3. QED BY <1>1, <2>1, <2>2
  <1>10. ASSUME NEW i \in Span(new), i <= q
        PROVE  Same(new, f, i)
    <2>1. i \in Nat /\ f.base <= i
      BY <1>4, <1>10, PieceTypes DEF Span, new
    <2>2. CASE i = f.base
      BY <1>1, <1>4, <2>2 DEF Same, TermAt
    <2>3. CASE i # f.base
      <3>1. i - f.base \in 1 .. a
        BY <1>1, <1>2, <1>10, <2>1, <2>3
      <3>2. EntryAt(new, i) = EntryAt(f, i)
        BY <1>4, <1>8, <3>1 DEF EntryAt
      <3>3. QED BY <1>4, <2>3, <3>2 DEF Same, TermAt
    <2>4. QED BY <2>2, <2>3
  <1>11. ASSUME NEW i \in Span(new), i > q
         PROVE  TermAt(new, i) = TermAt(g, i) /\ EntryAt(new, i) = EntryAt(g, i)
    <2>1. i \in Nat /\ i <= End(g)
      BY <1>9, <1>11, PieceTypes DEF Span, new
    <2>2. i - q \in 1 .. n - b /\ a + (i - q) = i - f.base /\ b + (i - q) = i - g.base
      BY <1>1, <1>2, <1>11, <2>1
    <2>3. new.entries[i - f.base] = g.entries[i - g.base]
      BY <1>8, <2>2
    <2>4. i # f.base /\ i # g.base
      BY <1>1, <1>11, <2>1
    <2>5. QED BY <1>4, <2>3, <2>4 DEF TermAt, EntryAt
  <1>12. QED BY <1>4, <1>9, <1>10, <1>11 DEF Glued, new

\* The request is accepted and has something the log has not.
Merges(m) ==
  /\ m.term >= currentTerm[m.dst] /\ AdoptTerm(m.dst, m.term) /\ AcceptAppend(m)
  /\ \E k \in 1 .. Len(m.entries) : Differs(m, m.dst, k)

LEMMA LogMerges ==
  ASSUME NEW m, HandleAppendEntries(m), ~UNCHANGED log
  PROVE  Merges(m)
  BY DEF HandleAppendEntries, AcceptAppend, MergeEntries, Merges

\* The merge follows the log up to an index q and the request from there on; q is no
\* lower than it need be.
LEMMA MergeGlues ==
  ASSUME TypeOK, TypeOK', NEW m \in Received("AppendEntries"), HandleAppendEntries(m),
         Merges(m)
  PROVE  /\ m.dst \in Server /\ OthersKeepLogs(m.dst)
         /\ m.term >= currentTerm[m.dst] /\ AdoptTerm(m.dst, m.term)
         /\ \E q : /\ Glued(LogOf(m.dst)', LogOf(m.dst), CarriedBy(m), q) /\ q < End(CarriedBy(m))
                   /\ q < End(LogOf(m.dst)) =>
                        TermAt(LogOf(m.dst), q + 1) # TermAt(CarriedBy(m), q + 1)
  <1>. DEFINE s == m.dst
              f == LogOf(s)
              g == CarriedBy(m)
              new == LogOf(s)'
  <1>1. /\ s \in Server /\ m.prevLogIndex \in Nat
        /\ m.entries \in Seq(Entry) /\ log \in [Server -> Seq(Entry)]
        /\ lastIncludedIndex[s] \in Nat
    BY ReceivedTypes DEF AppendRequests, TypeOK, LogTyped
  <1>2. /\ m.term >= currentTerm[s] /\ AdoptTerm(s, m.term) /\ PrevMatches(m, s)
        /\ MergeEntries(m, s)
    BY DEF Merges, AcceptAppend
  <1>3. UNCHANGED <<lastIncludedIndex, lastIncludedTerm>>
    BY DEF HandleAppendEntries
  <1>4. PICK k \in 1 .. Len(m.entries) :
             /\ Differs(m, s, k) /\ \A l \in 1 .. k - 1 : ~Differs(m, s, l)
             /\ log' = [log EXCEPT ![s] =
                  SubSeq(log[s], 1, m.prevLogIndex + k - 1 - lastIncludedIndex[s])
                    \o SubSeq(m.entries, k, Len(m.entries))]
    BY <1>2 DEF MergeEntries, Merges
  <1>. DEFINE q == m.prevLogIndex + k - 1
              n == Len(m.entries)
  <1>5. n \in Nat /\ k \in Nat /\ 1 <= k /\ k <= n
    BY <1>1, LenProperties
  <1>6. q \in Nat /\ q >= m.prevLogIndex /\ q < m.prevLogIndex + n
    <2>. HIDE DEF n
    <2>1. QED BY <1>1, <1>5
  <1>7. /\ OthersKeepLogs(s)
        /\ new = [base |-> f.base, term |-> f.term,
                  entries |-> SubSeq(f.entries, 1, q - f.base) \o SubSeq(m.entries, k, n)]
    <2>1. log'[s] = SubSeq(log[s], 1, q - lastIncludedIndex[s]) \o SubSeq(m.entries, k, n)
      <3>. DEFINE at == m.prevLogIndex + k - 1 - lastIncludedIndex[s]
                  merged == SubSeq(log[s], 1, at) \o SubSeq(m.entries, k, n)
      <3>1. log' = [log EXCEPT ![s] = merged]
        BY <1>4
      <3>2. q - lastIncludedIndex[s] = at
        BY <1>1, <1>5
      <3>. HIDE DEF at
      <3>3. merged = SubSeq(log[s], 1, q - lastIncludedIndex[s]) \o SubSeq(m.entries, k, n)
        BY <3>2
      <3>. HIDE DEF merged, q
      <3>4. log'[s] = merged
        BY <1>1, <3>1
      <3>5. QED BY <3>3, <3>4
    <2>2. OthersKeepLogs(s)
      BY <1>1, <1>3, <1>4 DEF OthersKeepLogs
    <2>. HIDE DEF q, n
    <2>3. QED BY <1>3, <2>1, <2>2 DEF LogOf
  <1>8. g.base = m.prevLogIndex /\ g.term = m.prevLogTerm /\ g.entries = m.entries
    BY DEF CarriedBy, Received
  <1>9. f \in Piece /\ g \in Piece /\ new \in Piece /\ f \in Pieces /\ g \in Pieces
    <2>1. f \in Pieces /\ g \in Pieces /\ new \in Pieces'
      BY <1>1 DEF Pieces, Calls
    <2>2. QED BY <2>1, PiecesTyped, TypedNext
  <1>10. /\ LastLogIndex(s) = End(f) /\ f.base = lastIncludedIndex[s]
        /\ \A i : LogTerm(s, i) = TermAt(f, i)
    BY <1>1, LogPiece
  <1>11. End(g) = m.prevLogIndex + n
    BY <1>8 DEF End
  <1>12. q <= End(f) /\ f.base <= m.prevLogIndex /\ TermAt(f, q) = TermAt(g, q)
    <2>1. /\ f.base <= m.prevLogIndex /\ m.prevLogIndex <= End(f)
          /\ TermAt(f, m.prevLogIndex) = m.prevLogTerm
      BY <1>1, <1>2, <1>10, LastIndexTyped DEF PrevMatches, PrevInLog
    <2>2. CASE k = 1
      <3>1. q = m.prevLogIndex
        BY <1>1, <2>2
      <3>2. QED BY <1>8, <2>1, <3>1 DEF TermAt
    <2>3. CASE k # 1
      <3>1. k - 1 \in 1 .. k - 1 /\ q = m.prevLogIndex + (k - 1) /\ q # m.prevLogIndex
            /\ q - m.prevLogIndex = k - 1
        BY <1>1, <1>5, <2>3
      <3>2. ~Differs(m, s, k - 1)
        BY <1>4, <3>1
      <3>3. q <= End(f) /\ TermAt(f, q) = m.entries[k - 1].term
        BY <1>10, <3>1, <3>2 DEF Differs
      <3>4. TermAt(g, q) = m.entries[k - 1].term
        BY <1>8, <3>1 DEF TermAt, EntryAt
      <3>5. QED BY <2>1, <3>3, <3>4
    <2>4. QED BY <2>2, <2>3
  <1>13. q + 1 - g.base = k
    BY <1>1, <1>5, <1>8
  <1>. HIDE DEF q
  <1>14. new = Splice(f, g, q)
    BY <1>7, <1>8, <1>13 DEF Splice
  <1>. HIDE DEF f, g, new, n
  <1>15. q \in Span(f) \cap Span(g) /\ q < End(g)
    BY <1>1, <1>5, <1>6, <1>8, <1>9, <1>11, <1>12, PieceTypes DEF Span
  <1>16. Glued(new, f, g, q)
    BY <1>9, <1>12, <1>14, <1>15, SpliceGlues
  <1>17. q < End(f) => TermAt(f, q + 1) # TermAt(g, q + 1)
    <2>1. /\ q + 1 = m.prevLogIndex + k /\ q + 1 # g.base /\ (q + 1) - g.base = k
          /\ q \in Nat /\ End(f) \in Nat
      BY <1>1, <1>5, <1>8, <1>9, PieceTypes DEF q
    <2>2. TermAt(g, q + 1) = m.entries[k].term
      BY <1>8, <2>1 DEF TermAt, EntryAt
    <2>3. q + 1 <= End(f) => TermAt(f, q + 1) # m.entries[k].term
      BY <1>4, <1>10, <2>1 DEF Differs
    <2>4. QED BY <2>1, <2>2, <2>3
  <1>18. QED BY <1>1, <1>2, <1>7, <1>15, <1>16, <1>17 DEF f, g, new

LEMMA HandleAppendEntriesLogs ==
  ASSUME TypeOK, TypeOK', VotesGenuine, LogInv, NEW m \in Received("AppendEntries"),
         HandleAppendEntries(m)
  PROVE  GoodLogs
  <1>. DEFINE s == m.dst
              f == LogOf(s)
              g == CarriedBy(m)
              new == LogOf(s)'
  <1>1. /\ s \in Server /\ m.src \in Server /\ m.term \in Nat /\ m.prevLogIndex \in Nat
        /\ m.entries \in Seq(Entry) /\ log \in [Server -> Seq(Entry)]
        /\ lastIncludedIndex[s] \in Nat
    BY ReceivedTypes DEF AppendRequests, TypeOK, LogTyped
  <1>2. \A r \in network' : r.kind \in {"AppendEntries", "InstallSnapshot"} => r \in network
    <2>1. ASSUME NEW success, NEW xTerm, NEW xIndex, NEW xLen,
                 Answer(m, {AppendReply(m, success, xTerm, xIndex, xLen)})
          PROVE  \A r \in network' : r.kind \in {"AppendEntries", "InstallSnapshot"} => r \in network
      <3>1. AppendReply(m, success, xTerm, xIndex, xLen).kind = "AppendEntriesReply"
        BY DEF AppendReply
      <3>2. QED BY <2>1, <3>1, AnswerAdds
    <2>2. CASE RefuseAppend(m)
      BY <2>1, <2>2 DEF RefuseAppend
    <2>3. CASE AcceptAppend(m)
      BY <2>1, <2>3 DEF AcceptAppend
    <2>4. CASE Answer(m, {AppendReply(m, FALSE, 0, 0, 0)})
      BY <2>1, <2>4
    <2>5. QED BY <2>2, <2>3, <2>4 DEF HandleAppendEntries
  <1>3. Calls' \subseteq Calls /\ m \in Calls
    BY <1>2 DEF Calls, Received
  <1>4. UNCHANGED <<lastIncludedIndex, lastIncludedTerm>>
    BY DEF HandleAppendEntries
  <1>5. CASE UNCHANGED log
    BY <1>2, <1>4, <1>5, QuietLogs DEF LogInv
  <1>6. CASE ~UNCHANGED log
    <2>1. /\ OthersKeepLogs(s) /\ m.term >= currentTerm[s] /\ AdoptTerm(s, m.term)
      BY <1>6, LogMerges, MergeGlues
    <2>2. PICK q : Glued(new, f, g, q)
      BY <1>6, LogMerges, MergeGlues
    <2>3. f \in Piece /\ g \in Piece /\ new \in Piece /\ f \in Pieces /\ g \in Pieces
      <3>1. f \in Pieces /\ g \in Pieces /\ new \in Pieces'
        BY <1>1, <1>3 DEF Pieces
      <3>2. QED BY <3>1, PiecesTyped, TypedNext
    <2>. HIDE DEF f, g, new
    <2>4. /\ \A h \in Pieces' : h \in Pieces \/ h = new
          /\ CallsKept /\ \A t \in Server \ {s} : KeepsLog(t)
      BY <1>1, <1>3, <2>1, OneLog DEF new
    <2>5. \A h \in Pieces : Agree(new, h)
      BY <2>3, <2>2, GluedAgrees, PiecesTyped DEF LogInv, PiecesAgree
    <2>6. PiecesAgree'
      <3>1. Agree(new, new)
        BY DEF Agree, Same
      <3>2. QED BY <2>4, <2>5, <3>1, AgreeIsSymmetric DEF PiecesAgree, LogInv
    <2>7. TermsKept
      <3>1. ASSUME NEW i \in Span(new)
            PROVE  \E h \in Pieces : i \in Span(h) /\ TermAt(h, i) = TermAt(new, i)
        <4>1. /\ i \in Nat /\ q \in Nat /\ f.base <= i /\ i <= End(g) /\ g.base <= q
              /\ f.base \in Nat /\ g.base \in Nat /\ End(f) \in Nat /\ End(g) \in Nat
          BY <2>2, <2>3, PieceTypes DEF Span, Glued
        <4>2. CASE i <= q
          <5>1. i \in Span(f)
            BY <2>2, <4>1, <4>2 DEF Span, Glued
          <5>2. QED BY <2>3, <2>2, <4>2, <5>1 DEF Glued, Same
        <4>3. CASE i > q
          <5>1. i \in Span(g)
            BY <4>1, <4>3 DEF Span
          <5>2. QED BY <2>3, <2>2, <4>3, <5>1 DEF Glued
        <4>4. QED BY <4>1, <4>2, <4>3
      <3>2. QED BY <2>4, <3>1 DEF TermsKept
    <2>8. LeadersKeepLogs
      BY <1>1, <1>3, <2>1, <2>4, AdoptTermLeaders DEF LogInv
    <2>9. QED BY <2>4, <2>6, <2>7, <2>8 DEF GoodLogs
  <1>7. QED BY <1>5, <1>6

-----------------------------------------------------------------------------
\* All steps

\* Elections, replies, the applier and crashes make no piece.
LEMMA QuietSteps ==
  ASSUME TypeOK, TypeOK', PiecesAgree
  PROVE  /\ \A s \in Server : StartElection(s) \/ Restart(s) => GoodLogs
         /\ \A m \in Received("RequestVote") : HandleRequestVote(m) => GoodLogs
         /\ \A m \in Received("RequestVoteReply") : HandleVoteReply(m) => GoodLogs
         /\ \A m \in Received("AppendEntriesReply") : HandleAppendReply(m) => GoodLogs
         /\ \A m \in Received("InstallSnapshotReply") : HandleSnapshotReply(m) => GoodLogs
         /\ \A m \in network : Lose(m) => GoodLogs
         /\ \A s \in Server : ApplierSnapshot(s) \/ ApplierCommands(s) \/ ReaderSnapshot(s) => GoodLogs
  <1>1. ASSUME NEW s \in Server, StartElection(s) \/ Restart(s)
        PROVE  GoodLogs
    <2>1. CASE StartElection(s)
      <3>1. \A m \in network' : m.kind \in {"AppendEntries", "InstallSnapshot"} => m \in network
        BY <2>1, SendAllAdds DEF StartElection
      <3>2. QED BY <2>1, <3>1, QuietLogs DEF StartElection, logVars
    <2>2. CASE Restart(s)
      BY <2>2, QuietLogs DEF Restart, persistentVars
    <2>3. QED BY <1>1, <2>1, <2>2
  <1>2. ASSUME NEW m \in Received("RequestVote"), HandleRequestVote(m)
        PROVE  GoodLogs
    <2>1. \A r \in network' : r.kind \in {"AppendEntries", "InstallSnapshot"} => r \in network
      BY <1>2, AnswerAdds DEF HandleRequestVote
    <2>2. QED BY <1>2, <2>1, QuietLogs DEF HandleRequestVote, logVars
  <1>3. ASSUME NEW m, Answer(m, {}), UNCHANGED logVars
        PROVE  GoodLogs
    <2>1. network' \subseteq network
      BY <1>3, AnswerAdds
    <2>2. QED BY <1>3, <2>1, QuietLogs DEF logVars
  <1>4. ASSUME NEW m \in network, Lose(m)
        PROVE  GoodLogs
    BY <1>4, QuietLogs DEF Lose, persistentVars
  <1>5. ASSUME NEW s \in Server, ApplierSnapshot(s) \/ ApplierCommands(s) \/ ReaderSnapshot(s)
        PROVE  GoodLogs
    BY <1>5, QuietLogs DEF ApplierSnapshot, ApplierCommands, ReaderSnapshot, logVars
  <1>6. QED
    BY <1>1, <1>2, <1>3, <1>4, <1>5 DEF HandleVoteReply, HandleAppendReply, HandleSnapshotReply

LEMMA StepsKeepLogs ==
  ASSUME TypeOK, TypeOK', VotesGenuine, LogInv, [Next]_vars
  PROVE  GoodLogs
  <1>1. PiecesAgree
    BY DEF LogInv
  <1>2. CASE UNCHANGED vars
    BY <1>1, <1>2, QuietLogs DEF vars, logVars
  <1>3. CASE DeliveryNext
    BY <1>1, <1>3, QuietSteps, ReaderCommandLogs DEF DeliveryNext
  <1>4. CASE ConsensusNext
    BY <1>1, <1>4, QuietSteps, StartLogs, SendAppendEntriesLogs, SendSnapshotLogs,
       HandleAppendEntriesLogs, HandleInstallSnapshotLogs
    DEF ConsensusNext
  <1>5. QED BY <1>2, <1>3, <1>4 DEF Next

LEMMA InitLogs == Init => LogInv
  <1>. SUFFICES ASSUME Init PROVE LogInv
    OBVIOUS
  <1>. DEFINE empty == [base |-> 0, term |-> 0, entries |-> <<>>]
  <1>1. /\ \A s \in Server : role[s] = "Follower"
        /\ \A f \in Pieces : f = empty
        /\ Calls = {}
    BY DEF Init, Pieces, Calls, Received, LogOf
  <1>2. Span(empty) = {0} /\ TermAt(empty, 0) = 0
    BY DEF Span, End, TermAt
  <1>. HIDE DEF empty
  <1>3. \A i \in Span(empty) : TermAt(empty, i) = 0
    BY <1>2
  <1>4. InOffice /\ CallsElected /\ TermsElected /\ LeadersAhead
    BY <1>1, <1>3 DEF InOffice, CallsElected, TermsElected, LeadersAhead
  <1>5. PiecesAgree
    BY <1>1 DEF PiecesAgree, Agree, Same
  <1>6. QED BY <1>4, <1>5 DEF LogInv

\* The inductive invariant of replication: whatever AppendEntries, the persister or a
\* snapshot holds of a log agrees with every other, a term comes from the one peer
\* elected in it, and no one holds more of a leader's term than the leader does.
THEOREM LogsInOrder == Spec => []LogInv
  <1>1. Init => LogInv
    BY InitLogs
  <1>2. TypeOK /\ TypeOK' /\ VotesGenuine /\ LogInv /\ [Next]_vars => LogInv'
    <2>1. SUFFICES ASSUME TypeOK, TypeOK', VotesGenuine, LogInv, [Next]_vars
                   PROVE  LogInv'
      OBVIOUS
    <2>2. GoodVotes /\ GoodLogs /\ \A s \in Server : RoleStep(s)
      BY <2>1, StepsKeepVotes, StepsKeepLogs, StepsOfRoles
    <2>3. QED BY <2>1, <2>2, GoodLogsStay
  <1>3. QED BY <1>1, <1>2, TypeCorrect, VotesAreGenuine, PTL DEF Spec

\* Two logs with entries of one term at an index are the same up to there: what the
\* check of prevLogTerm and the truncation in AppendEntries are for, with whatever
\* compactions, snapshots, crashes and stale requests come in between.
THEOREM LogsMatch == Spec => []LogMatching
  <1>1. TypeOK /\ LogInv => LogMatching
    <2>1. SUFFICES ASSUME TypeOK, LogInv, NEW s \in Server, NEW t \in Server,
                          NEW i \in Indices(s) \cap Indices(t), LogTerm(s, i) = LogTerm(t, i),
                          NEW k \in Indices(s) \cap Indices(t), k <= i
                   PROVE  LogEntry(s, k) = LogEntry(t, k)
      BY DEF LogMatching
    <2>2. Agree(LogOf(s), LogOf(t))
      BY <2>1, LogPiece DEF LogInv, PiecesAgree
    <2>3. \A r \in {s, t} : \A j \in Indices(r) : j \in Span(LogOf(r)) /\ j > LogOf(r).base
      <3>1. SUFFICES ASSUME NEW r \in Server, NEW j \in Indices(r)
                     PROVE  j \in Span(LogOf(r)) /\ j > LogOf(r).base
        OBVIOUS
      <3>2. LastLogIndex(r) \in Nat /\ lastIncludedIndex[r] \in Nat
        BY <2>1, LastIndexTyped DEF TypeOK, LogTyped
      <3>3. QED BY <3>1, <3>2, LogPiece DEF Span, Indices
    <2>4. Same(LogOf(s), LogOf(t), k)
      BY <2>1, <2>2, <2>3, LogPiece DEF Agree
    <2>5. QED BY <2>1, <2>3, <2>4, LogPiece DEF Same
  <1>2. QED BY <1>1, TypeCorrect, LogsInOrder, PTL

\* A leader only appends: no late AppendEntries or InstallSnapshot of its own term
\* reaches it, and compaction drops the front alone.
THEOREM LeadersAppendOnly == Spec => LeaderAppendOnly
  <1>1. TypeOK /\ TypeOK' /\ VotesGenuine /\ LogInv /\ [Next]_vars =>
          \A s \in Server :
            role[s] = "Leader" /\ role'[s] = "Leader" /\ currentTerm'[s] = currentTerm[s] =>
              /\ LastLogIndex(s)' >= LastLogIndex(s)
              /\ \A k \in Indices(s) : k > lastIncludedIndex'[s] => LogEntry(s, k)' = LogEntry(s, k)
    BY StepsKeepLogs DEF GoodLogs, LeadersKeepLogs, KeepsLog
  <1>2. QED BY <1>1, TypeCorrect, VotesAreGenuine, LogsInOrder, PTL DEF Spec, LeaderAppendOnly
=============================================================================
