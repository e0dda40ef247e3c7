-------------------------- MODULE RaftCommitProofs --------------------------
(***************************************************************************)
(* What commits of module Raft are worth, from its initial state, for any  *)
(* group and any bounds, with compaction, snapshots and crashes.           *)
(*                                                                         *)
(* The line of a term is the log of the leader of that term from index 1   *)
(* on, what it has compacted included.  Lines branch as a tree: an entry   *)
(* of term u in another line is in the line of u, under the same entries   *)
(* (Nested).  Every log, request and snapshot is cut out of a line, so an  *)
(* index and the term found there say all that lies below.                 *)
(*                                                                         *)
(* An entry prevails in a set of peers if the line of every later term has *)
(* it and these peers keep it, and a candidate that one of them has voted  *)
(* for has it as well.  An entry of a leader's own term prevails in the    *)
(* peers that have acknowledged it, until a majority that has not moves on *)
(* to a later term.                                                        *)
(***************************************************************************)
EXTENDS RaftLogProofs

Lines == UNION {[U -> Seq(Entry)] : U \in SUBSET Nat}

TermIn(l, i) == IF i = 0 THEN 0 ELSE l[i].term

Share(k, l, n) == n <= Len(k) /\ n <= Len(l) /\ \A i \in 1 .. n : k[i] = l[i]

\* Piece f is cut out of l.
Under(f, l) ==
  /\ End(f) <= Len(l) /\ f.term = TermIn(l, f.base)
  /\ \A i \in f.base + 1 .. End(f) : EntryAt(f, i) = l[i]

Nested(L) ==
  /\ 0 \in DOMAIN L /\ L[0] = <<>>
  /\ \A t \in DOMAIN L : \A i \in 1 .. Len(L[t]) :
       /\ L[t][i].term \in DOMAIN L /\ L[t][i].term <= t
       /\ Share(L[L[t][i].term], L[t], i)

-----------------------------------------------------------------------------
\* Lines and what is cut out of them

LEMMA LineTypes ==
  ASSUME NEW L \in Lines, NEW t \in DOMAIN L
  PROVE  /\ t \in Nat /\ L[t] \in Seq(Entry) /\ Len(L[t]) \in Nat
         /\ \A i \in 1 .. Len(L[t]) : L[t][i] \in Entry
         /\ \A i \in 0 .. Len(L[t]) : TermIn(L[t], i) \in Nat
  <1>1. PICK U \in SUBSET Nat : L \in [U -> Seq(Entry)]
    BY DEF Lines
  <1>2. t \in Nat /\ L[t] \in Seq(Entry)
    BY <1>1
  <1>3. Len(L[t]) \in Nat /\ \A i \in 1 .. Len(L[t]) : L[t][i] \in Entry
    BY <1>2, ElementOfSeq, LenProperties
  <1>4. \A i \in 0 .. Len(L[t]) : TermIn(L[t], i) \in Nat
    BY <1>3 DEF TermIn, Entry
  <1>5. QED BY <1>2, <1>3, <1>4

LEMMA SharedBelow ==
  ASSUME NEW k \in Seq(Entry), NEW l \in Seq(Entry), NEW n \in Nat, Share(k, l, n),
         NEW i \in 0 .. n
  PROVE  Share(k, l, i) /\ Share(l, k, i) /\ TermIn(k, i) = TermIn(l, i)
  <1>1. Len(k) \in Nat /\ Len(l) \in Nat
    BY LenProperties
  <1>2. QED BY <1>1 DEF Share, TermIn

LEMMA SharedThrough ==
  ASSUME NEW k \in Seq(Entry), NEW l \in Seq(Entry), NEW h \in Seq(Entry), NEW n \in Nat,
         Share(k, l, n), Share(l, h, n)
  PROVE  Share(k, h, n)
  BY DEF Share

\* An index and the term found there say all that lies below.
LEMMA LinesMeet ==
  ASSUME NEW L \in Lines, Nested(L), NEW u \in DOMAIN L, NEW w \in DOMAIN L, NEW n \in Nat,
         n <= Len(L[u]), n <= Len(L[w]), TermIn(L[u], n) = TermIn(L[w], n)
  PROVE  Share(L[u], L[w], n)
  <1>1. CASE n = 0
    BY <1>1 DEF Share
  <1>2. CASE n # 0
    <2>1. n \in 1 .. Len(L[u]) /\ n \in 1 .. Len(L[w])
      BY <1>2, LineTypes
    <2>2. L[u][n].term = L[w][n].term
      BY <1>2 DEF TermIn
    <2>3. Share(L[L[u][n].term], L[u], n) /\ Share(L[L[u][n].term], L[w], n)
      BY <2>1, <2>2 DEF Nested
    <2>4. QED BY <2>3 DEF Share
  <1>3. QED BY <1>1, <1>2

LEMMA LinesAscend ==
  ASSUME NEW L \in Lines, Nested(L), NEW u \in DOMAIN L, NEW j \in 0 .. Len(L[u])
  PROVE  /\ TermIn(L[u], j) \in DOMAIN L /\ TermIn(L[u], j) <= u
         /\ Share(L[TermIn(L[u], j)], L[u], j)
         /\ \A i \in 0 .. j : TermIn(L[u], i) <= TermIn(L[u], j)
         /\ TermIn(L[u], j) = 0 => j = 0
  <1>1. u \in Nat /\ Len(L[u]) \in Nat /\ j \in Nat
    BY LineTypes
  <1>2. CASE j = 0
    BY <1>1, <1>2 DEF TermIn, Nested, Share
  <1>3. CASE j # 0
    <2>. DEFINE w == L[u][j].term
    <2>1. TermIn(L[u], j) = w /\ j \in 1 .. Len(L[u])
      BY <1>1, <1>3 DEF TermIn
    <2>2. w \in DOMAIN L /\ w <= u /\ Share(L[w], L[u], j)
      BY <2>1 DEF Nested
    <2>3. w \in Nat /\ L[w] \in Seq(Entry) /\ L[u] \in Seq(Entry) /\ Len(L[w]) \in Nat
      BY <2>2, LineTypes
    <2>. HIDE DEF w
    <2>4. w # 0
      <3>1. L[0] = <<>> => Len(L[0]) = 0
        OBVIOUS
      <3>2. w = 0 => j <= 0
        BY <2>2, <3>1 DEF Share, Nested
      <3>3. QED BY <1>1, <1>3, <3>2
    <2>5. ASSUME NEW i \in 0 .. j
          PROVE  TermIn(L[u], i) <= w
      <3>1. TermIn(L[w], i) = TermIn(L[u], i)
        BY <1>1, <2>2, <2>3, <2>5, SharedBelow
      <3>2. CASE i = 0
        BY <2>3, <3>2 DEF TermIn
      <3>3. CASE i # 0
        <4>1. i \in 1 .. Len(L[w])
          BY <1>1, <2>2, <2>3, <2>5, <3>3 DEF Share
        <4>2. L[w][i].term <= w
          BY <2>2, <4>1 DEF Nested
        <4>3. QED BY <3>1, <3>3, <4>2 DEF TermIn
      <3>4. QED BY <3>2, <3>3
    <2>6. QED BY <1>3, <2>1, <2>2, <2>4, <2>5
  <1>4. QED BY <1>2, <1>3

LEMMA UnderTerms ==
  ASSUME NEW f \in Piece, NEW l \in Seq(Entry), Under(f, l), NEW i \in Span(f)
  PROVE  i \in 0 .. Len(l) /\ TermAt(f, i) = TermIn(l, i)
  <1>1. f.base \in Nat /\ End(f) \in Nat /\ Len(l) \in Nat /\ i \in Nat /\ f.base <= i /\ i <= End(f)
    BY PieceTypes, LenProperties DEF Span
  <1>2. i # f.base => i \in f.base + 1 .. End(f) /\ i # 0
    BY <1>1
  <1>3. QED BY <1>1, <1>2 DEF Under, TermAt, TermIn

LEMMA UnderShared ==
  ASSUME NEW f \in Piece, NEW k \in Seq(Entry), NEW l \in Seq(Entry), Under(f, k),
         Share(k, l, End(f))
  PROVE  Under(f, l)
  <1>1. f.base \in Nat /\ End(f) \in Nat /\ f.base <= End(f)
    BY PieceTypes DEF Span
  <1>2. TermIn(k, f.base) = TermIn(l, f.base)
    BY <1>1, SharedBelow
  <1>3. QED BY <1>1, <1>2 DEF Under, Share

LEMMA UnderPart ==
  ASSUME NEW f \in Piece, NEW g \in Piece, NEW l \in Seq(Entry), Part(f, g), Under(g, l)
  PROVE  Under(f, l)
  <1>1. /\ f.base \in Nat /\ g.base \in Nat /\ End(f) \in Nat /\ End(g) \in Nat /\ Len(l) \in Nat
        /\ f.base \in Span(f) /\ TermAt(f, f.base) = f.term
        /\ f.base >= g.base /\ End(f) <= End(g)
    BY PieceTypes, LenProperties DEF Part
  <1>2. \A i \in Span(f) : i \in Span(g) /\ Same(f, g, i)
    BY <1>1 DEF Span, Part
  <1>3. f.term = TermIn(l, f.base)
    BY <1>1, <1>2, UnderTerms DEF Same
  <1>4. ASSUME NEW i \in f.base + 1 .. End(f)
        PROVE  EntryAt(f, i) = l[i]
    <2>1. i \in Span(f) /\ i > f.base /\ i > g.base /\ i \in g.base + 1 .. End(g)
      BY <1>1 DEF Span
    <2>2. QED BY <1>2, <2>1 DEF Same, Under
  <1>5. QED BY <1>1, <1>3, <1>4 DEF Under

\* A piece is also cut out of the line of the term of its last entry.
LEMMA UnderOwn ==
  ASSUME NEW L \in Lines, Nested(L), NEW u \in DOMAIN L, NEW f \in Piece, Under(f, L[u])
  PROVE  /\ TermAt(f, End(f)) \in DOMAIN L /\ TermAt(f, End(f)) <= u
         /\ Share(L[TermAt(f, End(f))], L[u], End(f)) /\ Under(f, L[TermAt(f, End(f))])
  <1>1. End(f) \in Span(f) /\ End(f) \in Nat
    BY PieceTypes DEF Span
  <1>2. L[u] \in Seq(Entry)
    BY LineTypes
  <1>3. End(f) \in 0 .. Len(L[u]) /\ TermAt(f, End(f)) = TermIn(L[u], End(f))
    BY <1>1, <1>2, UnderTerms
  <1>. DEFINE w == TermIn(L[u], End(f))
  <1>4. w \in DOMAIN L /\ w <= u /\ Share(L[w], L[u], End(f))
    BY <1>3, LinesAscend
  <1>. HIDE DEF w
  <1>5. L[w] \in Seq(Entry)
    BY <1>4, LineTypes
  <1>6. Share(L[u], L[w], End(f))
    BY <1>4 DEF Share
  <1>7. Under(f, L[w])
    BY <1>2, <1>5, <1>6, UnderShared
  <1>8. QED BY <1>3, <1>4, <1>7 DEF w

\* What is glued from pieces of two lines is cut out of the second.
LEMMA GluedUnder ==
  ASSUME NEW L \in Lines, Nested(L), NEW u \in DOMAIN L, NEW w \in DOMAIN L,
         NEW f \in Piece, NEW g \in Piece, NEW new \in Piece, NEW q,
         Under(f, L[u]), Under(g, L[w]), Glued(new, f, g, q)
  PROVE  Under(new, L[w])
  <1>1. L[u] \in Seq(Entry) /\ L[w] \in Seq(Entry) /\ Len(L[w]) \in Nat
    BY LineTypes
  <1>2. /\ f.base \in Nat /\ End(f) \in Nat /\ g.base \in Nat /\ End(g) \in Nat /\ q \in Nat
        /\ f.base <= q /\ q <= End(f) /\ g.base <= q /\ q <= End(g)
        /\ new.base = f.base /\ End(new) = End(g)
        /\ new.base \in Span(new) /\ TermAt(new, new.base) = new.term
    BY PieceTypes DEF Glued, Span
  <1>3. /\ q \in 0 .. Len(L[u]) /\ q \in 0 .. Len(L[w])
        /\ TermIn(L[u], q) = TermIn(L[w], q)
    BY <1>1, UnderTerms DEF Glued
  <1>4. Share(L[u], L[w], q)
    BY <1>1, <1>2, <1>3, LinesMeet
  <1>5. new.term = TermIn(L[w], new.base)
    <2>1. f.base \in Span(f) /\ TermAt(f, f.base) = f.term
      BY PieceTypes
    <2>2. new.term = f.term
      BY <1>2, <2>1 DEF Glued, Same
    <2>3. QED BY <1>1, <1>2, <1>4, <2>2, SharedBelow DEF Under
  <1>6. ASSUME NEW i \in new.base + 1 .. End(new)
        PROVE  EntryAt(new, i) = L[w][i]
    <2>1. i \in Nat /\ i \in Span(new) /\ i > f.base /\ i > new.base /\ i <= End(g)
      BY <1>2 DEF Span
    <2>2. CASE i <= q
      <3>1. EntryAt(new, i) = EntryAt(f, i)
        BY <2>1, <2>2 DEF Glued, Same
      <3>2. i \in f.base + 1 .. End(f) /\ i \in 1 .. q
        BY <1>2, <2>1, <2>2
      <3>3. QED BY <1>4, <3>1, <3>2 DEF Under, Share
    <2>3. CASE i > q
      <3>1. EntryAt(new, i) = EntryAt(g, i)
        BY <2>1, <2>3 DEF Glued
      <3>2. i \in g.base + 1 .. End(g)
        BY <1>2, <2>1, <2>3
      <3>3. QED BY <3>1, <3>2 DEF Under
    <2>4. QED BY <1>2, <2>1, <2>2, <2>3
  <1>7. QED BY <1>1, <1>2, <1>5, <1>6 DEF Under

\* The last term of a piece, which is the line it is cut out of.
Last(f) == TermAt(f, End(f))

Rooted(L, f) == Last(f) \in DOMAIN L /\ Under(f, L[Last(f)])

\* What f is cut from has an entry of term t at n.
Has(L, f, n, t) == n <= End(f) /\ TermIn(L[Last(f)], n) = t

\* M has all the lines of L, which may have become longer.
Extends(L, M) == \A t \in DOMAIN L : t \in DOMAIN M /\ Share(L[t], M[t], Len(L[t]))

LEMMA UnderHas ==
  ASSUME NEW L \in Lines, Nested(L), NEW u \in DOMAIN L, NEW f \in Piece, Under(f, L[u]),
         NEW n \in Nat, n <= End(f)
  PROVE  /\ Rooted(L, f) /\ Last(f) <= u /\ n <= Len(L[u])
         /\ Share(L[Last(f)], L[u], n) /\ Has(L, f, n, TermIn(L[u], n))
  <1>1. Rooted(L, f) /\ Last(f) <= u /\ Share(L[Last(f)], L[u], End(f))
    BY UnderOwn DEF Rooted, Last
  <1>2. L[Last(f)] \in Seq(Entry) /\ L[u] \in Seq(Entry) /\ End(f) \in Nat /\ Len(L[u]) \in Nat
    BY <1>1, LineTypes, PieceTypes DEF Rooted
  <1>3. Share(L[Last(f)], L[u], n) /\ TermIn(L[Last(f)], n) = TermIn(L[u], n)
    BY <1>1, <1>2, SharedBelow
  <1>4. QED BY <1>1, <1>2, <1>3 DEF Has, Under

\* An index whose term is in a line settles what is below.
LEMMA TakenHas ==
  ASSUME NEW L \in Lines, Nested(L), NEW u \in DOMAIN L, NEW f \in Piece, Rooted(L, f),
         NEW i \in Span(f), i <= Len(L[u]), TermAt(f, i) = TermIn(L[u], i),
         NEW n \in Nat, n <= i
  PROVE  Share(L[Last(f)], L[u], n) /\ Has(L, f, n, TermIn(L[u], n))
  <1>1. L[Last(f)] \in Seq(Entry) /\ L[u] \in Seq(Entry) /\ End(f) \in Nat /\ i \in Nat /\ i <= End(f)
    BY LineTypes, PieceTypes DEF Rooted, Span
  <1>2. i \in 0 .. Len(L[Last(f)]) /\ TermAt(f, i) = TermIn(L[Last(f)], i)
    BY <1>1, UnderTerms DEF Rooted
  <1>3. Share(L[Last(f)], L[u], i)
    <2>1. i <= Len(L[Last(f)])
      BY <1>1, <1>2, LenProperties
    <2>2. QED BY <1>1, <1>2, <2>1, LinesMeet DEF Rooted
  <1>4. Share(L[Last(f)], L[u], n) /\ TermIn(L[Last(f)], n) = TermIn(L[u], n)
    BY <1>1, <1>3, SharedBelow
  <1>5. QED BY <1>1, <1>4 DEF Has

LEMMA HasMeets ==
  ASSUME NEW L \in Lines, Nested(L), NEW u \in DOMAIN L, NEW f \in Piece, Rooted(L, f),
         NEW n \in Nat, NEW t, Has(L, f, n, t), n <= Len(L[u]), TermIn(L[u], n) = t
  PROVE  Share(L[Last(f)], L[u], n)
  <1>1. End(f) \in Nat /\ Len(L[Last(f)]) \in Nat
    BY LineTypes, PieceTypes DEF Rooted
  <1>2. n <= Len(L[Last(f)]) /\ TermIn(L[Last(f)], n) = TermIn(L[u], n)
    BY <1>1 DEF Has, Rooted, Under
  <1>3. QED BY <1>2, LinesMeet DEF Rooted

\* A piece under line L[u] goes on having what L[u] and it have in common, cut at the
\* front, continued by L[u] or replaced by a piece of L[u] that does not fit on it.
LEMMA CutHas ==
  ASSUME NEW f \in Piece, NEW new \in Piece, Part(new, f), End(new) = End(f)
  PROVE  Last(new) = Last(f)
  <1>1. End(new) \in Span(new)
    BY PieceTypes DEF Span
  <1>2. QED BY <1>1 DEF Part, Same, Last

LEMMA MergedHas ==
  ASSUME NEW L \in Lines, Nested(L), NEW u \in DOMAIN L, NEW f \in Piece, NEW g \in Piece,
         NEW new \in Piece, NEW q, Rooted(L, f), Under(g, L[u]), Glued(new, f, g, q), q < End(g),
         q < End(f) => TermAt(f, q + 1) # TermAt(g, q + 1),
         NEW n \in Nat, NEW t, Has(L, f, n, t), n <= Len(L[u]), TermIn(L[u], n) = t
  PROVE  Has(L, new, n, t)
  <1>1. /\ f.base \in Nat /\ g.base \in Nat /\ End(f) \in Nat /\ End(g) \in Nat
        /\ q \in Nat /\ f.base <= q /\ g.base <= q /\ End(new) = End(g)
    BY PieceTypes DEF Glued, Span
  <1>2. Share(L[Last(f)], L[u], n)
    BY HasMeets
  <1>3. L[Last(f)] \in Seq(Entry) /\ L[u] \in Seq(Entry)
    BY LineTypes DEF Rooted
  <1>4. n <= q
    <2>1. SUFFICES ASSUME q < n PROVE FALSE
      BY <1>1
    <2>2. n <= End(f) /\ q < End(f) /\ q + 1 \in 0 .. n /\ q + 1 \in Span(f) /\ q + 1 \in Span(g)
      BY <1>1, <2>1 DEF Has, Span
    <2>3. TermIn(L[Last(f)], q + 1) = TermIn(L[u], q + 1)
      BY <1>2, <1>3, <2>2, SharedBelow
    <2>4. TermAt(f, q + 1) = TermAt(g, q + 1)
      BY <1>3, <2>2, <2>3, UnderTerms DEF Rooted
    <2>5. QED BY <2>2, <2>4
  <1>5. n <= End(new)
    BY <1>1, <1>4
  <1>6. Under(new, L[u])
    BY GluedUnder DEF Rooted
  <1>7. QED BY <1>5, <1>6, UnderHas

LEMMA DroppedHas ==
  ASSUME NEW L \in Lines, Nested(L), NEW u \in DOMAIN L, NEW f \in Piece, NEW g \in Piece,
         Rooted(L, f), Under(g, L[u]), g.base = End(g), g.base > f.base,
         ~(g.base <= End(f) /\ TermAt(f, g.base) = g.term),
         NEW n \in Nat, NEW t, Has(L, f, n, t), n <= Len(L[u]), TermIn(L[u], n) = t
  PROVE  Has(L, g, n, t)
  <1>1. f.base \in Nat /\ g.base \in Nat /\ End(f) \in Nat /\ n <= End(f)
    BY PieceTypes DEF Has
  <1>2. Share(L[Last(f)], L[u], n)
    BY HasMeets
  <1>3. L[Last(f)] \in Seq(Entry) /\ L[u] \in Seq(Entry)
    BY LineTypes DEF Rooted
  <1>4. n < g.base
    <2>1. SUFFICES ASSUME g.base <= n PROVE FALSE
      BY <1>1
    <2>2. g.base \in 0 .. n /\ g.base \in Span(f) /\ g.base <= End(f)
      BY <1>1, <2>1 DEF Span
    <2>3. TermIn(L[Last(f)], g.base) = TermIn(L[u], g.base)
      BY <1>2, <1>3, <2>2, SharedBelow
    <2>4. TermAt(f, g.base) = g.term
      BY <1>3, <2>2, <2>3, UnderTerms DEF Rooted, Under
    <2>5. QED BY <2>2, <2>4
  <1>5. n <= End(g)
    BY <1>1, <1>4
  <1>6. QED BY <1>5, UnderHas

LEMMA LongerLines ==
  ASSUME NEW L \in Lines, NEW M \in Lines, Extends(L, M), NEW u \in DOMAIN L
  PROVE  /\ u \in DOMAIN M /\ Len(L[u]) <= Len(M[u])
         /\ \A n \in 0 .. Len(L[u]) : /\ n <= Len(M[u]) /\ TermIn(M[u], n) = TermIn(L[u], n)
                                      /\ Share(L[u], M[u], n)
         /\ \A f \in Piece : Under(f, L[u]) => Under(f, M[u])
  <1>1. u \in DOMAIN M /\ Share(L[u], M[u], Len(L[u]))
    BY DEF Extends
  <1>2. L[u] \in Seq(Entry) /\ M[u] \in Seq(Entry) /\ Len(L[u]) \in Nat /\ Len(M[u]) \in Nat
    BY <1>1, LineTypes
  <1>3. Len(L[u]) <= Len(M[u])
    BY <1>1 DEF Share
  <1>4. ASSUME NEW n \in 0 .. Len(L[u])
        PROVE  n <= Len(M[u]) /\ TermIn(M[u], n) = TermIn(L[u], n) /\ Share(L[u], M[u], n)
    BY <1>1, <1>2, <1>3, SharedBelow
  <1>5. ASSUME NEW f \in Piece, Under(f, L[u])
        PROVE  Under(f, M[u])
    <2>1. End(f) \in 0 .. Len(L[u])
      BY <1>2, <1>5, PieceTypes DEF Under
    <2>2. QED BY <1>2, <1>4, <1>5, <2>1, UnderShared
  <1>6. QED BY <1>1, <1>3, <1>4, <1>5

LEMMA LongerHas ==
  ASSUME NEW L \in Lines, NEW M \in Lines, Extends(L, M), NEW f \in Piece, Rooted(L, f)
  PROVE  /\ Rooted(M, f)
         /\ \A n \in Nat : \A t : Has(L, f, n, t) => Has(M, f, n, t)
  <1>1. Rooted(M, f)
    BY LongerLines DEF Rooted
  <1>2. ASSUME NEW n \in Nat, NEW t, Has(L, f, n, t)
        PROVE  Has(M, f, n, t)
    <2>1. n \in 0 .. Len(L[Last(f)])
      BY <1>2, PieceTypes, LineTypes DEF Has, Rooted, Under
    <2>2. QED BY <1>2, <2>1, LongerLines DEF Has, Rooted
  <1>3. QED BY <1>1, <1>2

-----------------------------------------------------------------------------
\* Which actions write what

LogsFrame ==
  \/ UNCHANGED <<log, lastIncludedIndex, lastIncludedTerm>>
  \/ \E s \in Server, cmd \in Command : Start(s, cmd)
  \/ \E m \in Received("AppendEntries") : HandleAppendEntries(m)
  \/ \E m \in Received("InstallSnapshot") : HandleInstallSnapshot(m)
  \/ \E s \in Server : ReaderCommand(s)

NetworkFrame ==
  \/ network' \subseteq network
  \/ \E s \in Server : StartElection(s)
  \/ \E s, p \in Server : SendAppendEntries(s, p) \/ SendSnapshot(s, p)
  \/ \E m \in Received("RequestVote") : HandleRequestVote(m)
  \/ \E m \in Received("AppendEntries") : HandleAppendEntries(m)
  \/ \E m \in Received("InstallSnapshot") : HandleInstallSnapshot(m)

LeadersFrame ==
  \/ \A s \in Server : role'[s] = "Leader" =>
       role[s] = "Leader" /\ matchIndex'[s] = matchIndex[s] /\ nextIndex'[s] = nextIndex[s]
  \/ \E m \in Received("RequestVoteReply") : HandleVoteReply(m)
  \/ \E m \in Received("AppendEntriesReply") : HandleAppendReply(m)
  \/ \E m \in Received("InstallSnapshotReply") : HandleSnapshotReply(m)

CommitsFrame ==
  \/ UNCHANGED <<commitIndex, chosen>>
  \/ \E m \in Received("AppendEntries") : HandleAppendEntries(m)
  \/ \E m \in Received("AppendEntriesReply") : HandleAppendReply(m)
  \/ \E m \in Received("InstallSnapshot") : HandleInstallSnapshot(m)
  \/ \E s \in Server : Restart(s)

DeliveryFrame ==
  \/ UNCHANGED <<applyCh, pendingSnapshot>>
  \/ \E m \in Received("InstallSnapshot") : HandleInstallSnapshot(m)
  \/ \E s \in Server : Restart(s)
  \/ DeliveryNext

Frames == LogsFrame /\ NetworkFrame /\ LeadersFrame /\ CommitsFrame /\ DeliveryFrame

\* A peer that forgets its leader's fields is no leader; the others keep theirs.
LEMMA ForgetFrame ==
  ASSUME TypeOK, NEW s \in Server,
         role' = [role EXCEPT ![s] = role'[s]],
         \/ ForgetIfFollower(s) /\ (role'[s] = "Leader" => role[s] = "Leader")
         \/ ForgetLeaderState(s) /\ role'[s] # "Leader"
  PROVE  \A t \in Server : role'[t] = "Leader" =>
           role[t] = "Leader" /\ matchIndex'[t] = matchIndex[t] /\ nextIndex'[t] = nextIndex[t]
  <1>1. /\ role \in [Server -> Role] /\ matchIndex \in [Server -> [Server -> Nat]]
        /\ nextIndex \in [Server -> [Server -> Nat]]
    BY DEF TypeOK, ElectionTyped, LeaderTyped
  <1>2. CASE ForgetLeaderState(s) /\ role'[s] # "Leader"
    BY <1>1, <1>2 DEF ForgetLeaderState
  <1>3. CASE ForgetIfFollower(s) /\ (role'[s] = "Leader" => role[s] = "Leader")
    <2>1. CASE role'[s] = "Follower"
      BY <1>1, <1>3, <2>1 DEF ForgetIfFollower, ForgetLeaderState
    <2>2. CASE role'[s] # "Follower"
      BY <1>1, <1>3, <2>2 DEF ForgetIfFollower, leaderVars
    <2>3. QED BY <2>1, <2>2
  <1>4. QED BY <1>2, <1>3

LEMMA StepFrames ==
  ASSUME TypeOK, [Next]_vars
  PROVE  Frames
  <1>1. /\ currentTerm \in [Server -> Nat] /\ role \in [Server -> Role]
        /\ network \subseteq Message
    BY DEF TypeOK, ElectionTyped
  <1>2. ASSUME UNCHANGED <<role, leaderVars>>
        PROVE  LeadersFrame
    BY <1>2 DEF LeadersFrame, leaderVars
  <1>3. CASE UNCHANGED vars
    BY <1>2, <1>3 DEF vars, Frames, LogsFrame, NetworkFrame, CommitsFrame, DeliveryFrame, logVars,
       commitVars, rsmVars
  <1>4. CASE DeliveryNext
    BY <1>2, <1>4 DEF DeliveryNext, ApplierSnapshot, ApplierCommands, ReaderCommand, ReaderSnapshot,
       Frames, LogsFrame, NetworkFrame, CommitsFrame, DeliveryFrame, logVars, commitVars
  <1>5. ASSUME NEW s \in Server, StartElection(s)
        PROVE  Frames
    <2>1. LeadersFrame
      <3>1. role' = [role EXCEPT ![s] = "Candidate"] /\ ForgetLeaderState(s)
        BY <1>5 DEF StartElection
      <3>2. role'[s] = "Candidate"
        BY <1>1, <3>1
      <3>3. QED BY <3>1, <3>2, ForgetFrame DEF LeadersFrame
    <2>2. QED BY <1>5, <2>1 DEF StartElection, Frames, LogsFrame, NetworkFrame, CommitsFrame,
                 DeliveryFrame, logVars, commitVars, rsmVars
  <1>6. ASSUME NEW s \in Server, Restart(s)
        PROVE  Frames
    <2>1. LeadersFrame
      <3>1. role' = [role EXCEPT ![s] = "Follower"] /\ ForgetLeaderState(s)
        BY <1>6 DEF Restart
      <3>2. role'[s] = "Follower"
        BY <1>1, <3>1
      <3>3. QED BY <3>1, <3>2, ForgetFrame DEF LeadersFrame
    <2>2. QED BY <1>6, <2>1 DEF Restart, Frames, LogsFrame, NetworkFrame, CommitsFrame,
                 DeliveryFrame, persistentVars
  <1>7. ASSUME NEW s \in Server, NEW cmd \in Command, Start(s, cmd)
        PROVE  Frames
    BY <1>2, <1>7 DEF Start, Frames, LogsFrame, NetworkFrame, CommitsFrame, DeliveryFrame,
       commitVars, rsmVars
  <1>8. ASSUME NEW s \in Server, NEW p \in Server, SendAppendEntries(s, p)
        PROVE  Frames
    BY <1>2, <1>8 DEF SendAppendEntries, Frames, LogsFrame, NetworkFrame, CommitsFrame,
       DeliveryFrame, logVars, commitVars, rsmVars
  <1>9. ASSUME NEW s \in Server, NEW p \in Server, SendSnapshot(s, p)
        PROVE  Frames
    <2>1. LeadersFrame
      BY <1>9 DEF SendSnapshot, LeadersFrame
    <2>2. QED BY <1>9, <2>1 DEF SendSnapshot, Frames, LogsFrame, NetworkFrame, CommitsFrame,
                 DeliveryFrame, logVars, commitVars, rsmVars
  <1>10. ASSUME NEW m \in Received("RequestVote"), HandleRequestVote(m)
         PROVE  Frames
    <2>1. m.dst \in Server
      BY <1>1, ReceivedTypes DEF VoteRequests
    <2>2. LeadersFrame
      <3>1. /\ role' = [role EXCEPT ![m.dst] = IF m.term > currentTerm[m.dst] THEN "Follower"
                                                                         ELSE role[m.dst]]
            /\ ForgetIfFollower(m.dst)
        BY <1>10 DEF HandleRequestVote
      <3>2. role'[m.dst] = "Leader" => role[m.dst] = "Leader"
        BY <1>1, <2>1, <3>1
      <3>3. role' = [role EXCEPT ![m.dst] = role'[m.dst]]
        BY <1>1, <2>1, <3>1
      <3>4. QED BY <2>1, <3>1, <3>2, <3>3, ForgetFrame DEF LeadersFrame
    <2>3. QED BY <1>10, <2>2 DEF HandleRequestVote, Frames, LogsFrame, NetworkFrame, CommitsFrame,
                 DeliveryFrame, logVars, commitVars, rsmVars
  <1>11. ASSUME NEW m, Answer(m, {})
         PROVE  NetworkFrame
    BY <1>11, AnswerAdds DEF NetworkFrame
  <1>12. ASSUME NEW m \in Received("RequestVoteReply"), HandleVoteReply(m)
         PROVE  Frames
    BY <1>11, <1>12 DEF HandleVoteReply, Frames, LogsFrame, LeadersFrame, CommitsFrame,
       DeliveryFrame, logVars, commitVars, rsmVars
  <1>13. ASSUME NEW s \in Server, NEW term \in Nat, AdoptTerm(s, term)
         PROVE  LeadersFrame
    <2>1. /\ role' = [role EXCEPT ![s] =
                IF term > currentTerm[s] \/ role[s] = "Candidate" THEN "Follower" ELSE role[s]]
          /\ ForgetIfFollower(s)
      BY <1>13 DEF AdoptTerm
    <2>2. role'[s] = "Leader" => role[s] = "Leader"
      BY <1>1, <2>1
    <2>3. role' = [role EXCEPT ![s] = role'[s]]
      BY <1>1, <2>1
    <2>4. QED BY <2>1, <2>2, <2>3, ForgetFrame DEF LeadersFrame
  <1>14. ASSUME NEW m \in Received("AppendEntries"), HandleAppendEntries(m)
         PROVE  Frames
    <2>1. m.dst \in Server /\ m.term \in Nat
      BY <1>1, ReceivedTypes DEF AppendRequests
    <2>2. LeadersFrame
      BY <1>2, <1>13, <1>14, <2>1 DEF HandleAppendEntries
    <2>3. QED BY <1>14, <2>2 DEF HandleAppendEntries, Frames, LogsFrame, NetworkFrame,
                 CommitsFrame, DeliveryFrame, rsmVars
  <1>15. ASSUME NEW m \in Received("InstallSnapshot"), HandleInstallSnapshot(m)
         PROVE  Frames
    <2>1. m.dst \in Server /\ m.term \in Nat
      BY <1>1, ReceivedTypes DEF InstallRequests
    <2>2. LeadersFrame
      BY <1>2, <1>13, <1>15, <2>1 DEF HandleInstallSnapshot
    <2>3. QED BY <1>15, <2>2 DEF Frames, LogsFrame, NetworkFrame, CommitsFrame, DeliveryFrame
  <1>16. ASSUME NEW m \in Received("AppendEntriesReply"), HandleAppendReply(m)
         PROVE  Frames
    BY <1>11, <1>16 DEF HandleAppendReply, Frames, LogsFrame, LeadersFrame, CommitsFrame,
       DeliveryFrame, logVars, rsmVars
  <1>17. ASSUME NEW m \in Received("InstallSnapshotReply"), HandleSnapshotReply(m)
         PROVE  Frames
    BY <1>11, <1>17 DEF HandleSnapshotReply, Frames, LogsFrame, LeadersFrame, CommitsFrame,
       DeliveryFrame, logVars, commitVars, rsmVars
  <1>18. ASSUME NEW m \in network, Lose(m)
         PROVE  Frames
    BY <1>2, <1>18 DEF Lose, persistentVars, Frames, LogsFrame, NetworkFrame, CommitsFrame,
       DeliveryFrame, commitVars, rsmVars
  <1>19. QED
    BY <1>3, <1>4, <1>5, <1>6, <1>7, <1>8, <1>9, <1>10, <1>12, <1>14, <1>15, <1>16, <1>17, <1>18
    DEF Next, ConsensusNext
-----------------------------------------------------------------------------
\* What a step may do to a log

\* s obeys call m, as a follower of its term.
Heeds(s, m) ==
  /\ m.dst = s /\ m.term >= currentTerm[s] /\ currentTerm'[s] = m.term
  /\ role'[s] = "Follower"

\* The front of the log goes, or nothing.
Cut(s) == Part(LogOf(s)', LogOf(s)) /\ End(LogOf(s)') = End(LogOf(s))

\* new is f and one entry of term t.
Continues(new, f, t) ==
  /\ new.base = f.base /\ new.term = f.term /\ End(new) = End(f) + 1
  /\ \A i \in f.base + 1 .. End(f) : EntryAt(new, i) = EntryAt(f, i)
  /\ EntryAt(new, End(new)) \in Entry
  /\ EntryAt(new, End(new)).term = t /\ Last(new) = t

Leads(s, term) == role[s] = "Leader" /\ currentTerm[s] = term

\* Leader s takes an operation in.
Written(s) ==
  /\ role[s] = "Leader" /\ UNCHANGED <<currentTerm, role, leaderVars, network>>
  /\ \A d \in Server \ {s} : LogOf(d)' = LogOf(d)
  /\ Continues(LogOf(s)', LogOf(s), currentTerm[s])
  /\ \E cmd \in Command : Start(s, cmd)

AppendCalls   == Received("AppendEntries")
SnapshotCalls == Received("InstallSnapshot")

Merged(s) ==
  \E m \in AppendCalls : \E q :
    /\ Heeds(s, m) /\ Glued(LogOf(s)', LogOf(s), CarriedBy(m), q)
    /\ q < End(CarriedBy(m))
    /\ q < End(LogOf(s)) => TermAt(LogOf(s), q + 1) # TermAt(CarriedBy(m), q + 1)

\* A snapshot that does not fit replaces the log.
Dropped(s) ==
  \E m \in SnapshotCalls :
    /\ Heeds(s, m) /\ LogOf(s)' = CarriedBy(m)
    /\ m.index > LogOf(s).base
    /\ ~(m.index <= End(LogOf(s)) /\ TermAt(LogOf(s), m.index) = m.indexTerm)

LEMMA CallTypes ==
  ASSUME TypeOK, NEW m \in Calls
  PROVE  /\ m.dst \in Server /\ m.src \in Server /\ m.term \in Nat
         /\ CarriedBy(m) \in Piece /\ CarriedBy(m) \in Pieces
         /\ m \in SnapshotCalls => /\ CarriedBy(m).base = m.index /\ CarriedBy(m).term = m.indexTerm
                                   /\ End(CarriedBy(m)) = m.index /\ m.index \in Nat
         /\ m \in AppendCalls => /\ CarriedBy(m).base = m.prevLogIndex /\ m.leaderCommit \in Nat
                                 /\ End(CarriedBy(m)) = m.prevLogIndex + Len(m.entries)
  <1>1. m \in AppendRequests \cup InstallRequests
    BY ReceivedTypes DEF TypeOK, Calls
  <1>2. m.dst \in Server /\ m.src \in Server /\ m.term \in Nat
    BY <1>1 DEF AppendRequests, InstallRequests
  <1>3. CarriedBy(m) \in Pieces /\ CarriedBy(m) \in Piece
    BY PiecesTyped DEF Pieces
  <1>4. ASSUME m \in SnapshotCalls
        PROVE  /\ CarriedBy(m).base = m.index /\ CarriedBy(m).term = m.indexTerm
               /\ End(CarriedBy(m)) = m.index /\ m.index \in Nat
    <2>1. m \in InstallRequests /\ m.kind = "InstallSnapshot"
      BY <1>4, ReceivedTypes DEF TypeOK, SnapshotCalls, Received
    <2>2. m.index \in Nat /\ CarriedBy(m) = [base |-> m.index, term |-> m.indexTerm, entries |-> <<>>]
      BY <2>1 DEF InstallRequests, CarriedBy
    <2>3. QED BY <2>2 DEF End
  <1>5. ASSUME m \in AppendCalls
        PROVE  /\ CarriedBy(m).base = m.prevLogIndex /\ m.leaderCommit \in Nat
               /\ End(CarriedBy(m)) = m.prevLogIndex + Len(m.entries)
    <2>1. m \in AppendRequests /\ m.kind = "AppendEntries"
      BY <1>5, ReceivedTypes DEF TypeOK, AppendCalls, Received
    <2>2. QED BY <2>1 DEF AppendRequests, CarriedBy, End
  <1>6. QED BY <1>2, <1>3, <1>4, <1>5

LEMMA LogOfTyped ==
  ASSUME TypeOK, NEW s \in Server
  PROVE  /\ LogOf(s) \in Piece /\ LogOf(s) \in Pieces
         /\ LogOf(s).base = lastIncludedIndex[s]
         /\ LastLogIndex(s) = End(LogOf(s)) /\ LastLogTerm(s) = Last(LogOf(s))
         /\ \A i : LogEntry(s, i) = EntryAt(LogOf(s), i) /\ LogTerm(s, i) = TermAt(LogOf(s), i)
         /\ Indices(s) = LogOf(s).base + 1 .. End(LogOf(s))
  BY LogPiece, PiecesTyped DEF LastLogTerm, Last, Indices

LEMMA HeedsCall ==
  ASSUME TypeOK, VotesGenuine, LogInv, NEW m \in Calls, m.term >= currentTerm[m.dst],
         AdoptTerm(m.dst, m.term)
  PROVE  Heeds(m.dst, m)
  <1>. DEFINE s == m.dst
  <1>1. s \in Server /\ m.src \in Server /\ m.term \in Nat
    BY CallTypes
  <1>2. /\ currentTerm \in [Server -> Nat] /\ role \in [Server -> Role]
        /\ role[s] = "Leader" => m.term # currentTerm[s]
    BY <1>1, NoCallToLeader DEF TypeOK, ElectionTyped, LogInv
  <1>3. /\ currentTerm' = [currentTerm EXCEPT ![s] = Larger(currentTerm[s], m.term)]
        /\ role' = [role EXCEPT ![s] =
             IF m.term > currentTerm[s] \/ role[s] = "Candidate" THEN "Follower" ELSE role[s]]
    BY DEF AdoptTerm
  <1>4. currentTerm'[s] = m.term
    BY <1>1, <1>2, <1>3 DEF Larger
  <1>5. role'[s] = "Follower"
    BY <1>1, <1>2, <1>3 DEF Role
  <1>6. QED BY <1>4, <1>5 DEF Heeds

LEMMA SameLogIsCut ==
  ASSUME TypeOK, NEW s \in Server, LogOf(s)' = LogOf(s)
  PROVE  Cut(s)
  BY LogOfTyped, PartOfItself DEF Cut

LEMMA TailIsCut ==
  ASSUME TypeOK, NEW s \in Server, NEW i \in Span(LogOf(s)), LogOf(s)' = TailFrom(LogOf(s), i)
  PROVE  Cut(s)
  BY LogOfTyped, TailIsPart DEF Cut

LEMMA LogChanges ==
  ASSUME TypeOK, TypeOK', VotesGenuine, LogInv, [Next]_vars, NEW s \in Server
  PROVE  Cut(s) \/ Written(s) \/ Merged(s) \/ Dropped(s)
  <1>1. SUFFICES ASSUME LogOf(s)' # LogOf(s)
                 PROVE  Cut(s) \/ Written(s) \/ Merged(s) \/ Dropped(s)
    BY SameLogIsCut
  <1>2. ~UNCHANGED <<log, lastIncludedIndex, lastIncludedTerm>>
    BY <1>1 DEF LogOf
  <1>3. ASSUME NEW t \in Server, OthersKeepLogs(t)
        PROVE  s = t
    BY <1>1, <1>3 DEF OthersKeepLogs, LogOf
  <1>4. LogsFrame
    BY StepFrames DEF Frames
  <1>5. ASSUME NEW t \in Server, NEW cmd \in Command, Start(t, cmd)
        PROVE  Written(s)
    <2>1. t = s
      BY <1>3, <1>5, StartExtends
    <2>2. role[s] = "Leader" /\ Continues(LogOf(s)', LogOf(s), currentTerm[s])
      BY <1>5, <2>1, StartExtends DEF Continues, Last
    <2>3. UNCHANGED <<currentTerm, role, leaderVars, network>>
      BY <1>5 DEF Start
    <2>4. \A d \in Server \ {s} : LogOf(d)' = LogOf(d)
      BY <1>5, <2>1, StartExtends DEF OthersKeepLogs, LogOf
    <2>5. QED BY <1>5, <2>1, <2>2, <2>3, <2>4 DEF Written
  <1>6. ASSUME NEW m \in Received("AppendEntries"), HandleAppendEntries(m)
        PROVE  Merged(s)
    <2>1. UNCHANGED <<lastIncludedIndex, lastIncludedTerm>>
      BY <1>6 DEF HandleAppendEntries
    <2>2. ~UNCHANGED log /\ m \in AppendCalls /\ m \in Calls
      BY <1>2, <2>1 DEF AppendCalls, Calls
    <2>3. m.dst = s /\ m.term >= currentTerm[s] /\ AdoptTerm(s, m.term)
      BY <1>3, <1>6, <2>2, LogMerges, MergeGlues
    <2>4. Heeds(s, m)
      BY <2>2, <2>3, HeedsCall
    <2>5. QED BY <1>6, <2>2, <2>3, <2>4, LogMerges, MergeGlues DEF Merged
  <1>7. ASSUME NEW m \in Received("InstallSnapshot"), HandleInstallSnapshot(m)
        PROVE  Cut(s) \/ Dropped(s)
    <2>1. ~(m.term < currentTerm[m.dst] \/ m.index <= lastIncludedIndex[m.dst])
      BY <1>2, <1>7 DEF HandleInstallSnapshot, logVars
    <2>2. m.dst = s /\ m.term >= currentTerm[s] /\ AdoptTerm(s, m.term)
      BY <1>3, <1>7, <2>1, InstallCuts
    <2>3. m \in SnapshotCalls /\ m \in Calls
      BY DEF SnapshotCalls, Calls
    <2>4. Heeds(s, m)
      BY <2>2, <2>3, HeedsCall
    <2>5. CASE m.index <= LastLogIndex(s) /\ LogTerm(s, m.index) = m.indexTerm
      BY <1>7, <2>1, <2>2, <2>5, InstallCuts, TailIsCut
    <2>6. CASE ~(m.index <= LastLogIndex(s) /\ LogTerm(s, m.index) = m.indexTerm)
      <3>1. LogOf(s)' = CarriedBy(m) /\ m.index > lastIncludedIndex[s]
        BY <1>7, <2>1, <2>2, <2>6, InstallCuts
      <3>2. QED BY <2>3, <2>4, <2>6, <3>1, LogOfTyped DEF Dropped
    <2>7. QED BY <2>5, <2>6
  <1>8. ASSUME NEW t \in Server, ReaderCommand(t)
        PROVE  Cut(s)
    <2>1. ~UNCHANGED logVars
      BY <1>2 DEF logVars
    <2>2. QED BY <1>3, <1>8, <2>1, ReaderCuts, TailIsCut
  <1>9. QED BY <1>2, <1>4, <1>5, <1>6, <1>7, <1>8 DEF LogsFrame
-----------------------------------------------------------------------------
\* What a step may send

KeepsLogs == \A s \in Server : LogOf(s)' = LogOf(s)

\* m.src makes call m as a leader.
Calling(m) ==
  /\ Leads(m.src, m.term) /\ Leads(m.src, m.term)' /\ KeepsLogs /\ UNCHANGED commitIndex
  /\ Part(CarriedBy(m), LogOf(m.src))
  /\ m.kind = "AppendEntries" => /\ End(CarriedBy(m)) = End(LogOf(m.src))
                                 /\ m.leaderCommit = commitIndex[m.src]
  /\ m.kind = "InstallSnapshot" => m.index = LogOf(m.src).base

\* After the step the log of s goes as far as piece g and ends there like it.
Takes(s, g) == End(g) \in Span(LogOf(s)') /\ TermAt(LogOf(s)', End(g)) = Last(g)

\* r is what m.dst may answer to m.
AnswersAppend(r, m) ==
  /\ r.src = m.dst /\ r.dst = m.src /\ r.reqTerm = m.term /\ r.match = End(CarriedBy(m))
  /\ r.success => Heeds(m.dst, m) /\ Takes(m.dst, CarriedBy(m))
  /\ r.xIndex <= CarriedBy(m).base
  /\ r.xTerm = -1 => \/ r.xLen <= CarriedBy(m).base
                     \/ m.term >= currentTerm[m.dst] /\ r.xLen = LogOf(m.dst).base + 1

LEMMA SameLogs ==
  ASSUME UNCHANGED <<log, lastIncludedIndex, lastIncludedTerm>>
  PROVE  KeepsLogs
  BY DEF KeepsLogs, LogOf

LEMMA CallsMade ==
  ASSUME TypeOK, [Next]_vars, NEW m \in Calls'
  PROVE  m \in Calls \/ Calling(m)
  <1>1. SUFFICES ASSUME m \notin network PROVE Calling(m)
    BY DEF Calls, Received
  <1>2. m \in network' /\ m.kind \in {"AppendEntries", "InstallSnapshot"}
    BY DEF Calls, Received
  <1>3. ASSUME NEW s \in Server, StartElection(s)
        PROVE  FALSE
    BY <1>1, <1>2, <1>3, SendAllAdds DEF StartElection
  <1>4. ASSUME NEW r, HandleRequestVote(r)
        PROVE  FALSE
    BY <1>1, <1>2, <1>4, AnswerAdds DEF HandleRequestVote
  <1>5. ASSUME NEW r, HandleAppendEntries(r)
        PROVE  FALSE
    <2>1. ASSUME NEW success, NEW xTerm, NEW xIndex, NEW xLen,
                 Answer(r, {AppendReply(r, success, xTerm, xIndex, xLen)})
          PROVE  FALSE
      BY <1>1, <1>2, <2>1, AnswerAdds DEF AppendReply
    <2>2. QED BY <1>5, <2>1 DEF HandleAppendEntries, RefuseAppend, AcceptAppend
  <1>6. ASSUME NEW r, HandleInstallSnapshot(r)
        PROVE  FALSE
    BY <1>1, <1>2, <1>6, AnswerAdds DEF HandleInstallSnapshot
  <1>7. ASSUME NEW s \in Server, NEW p \in Server, SendAppendEntries(s, p)
        PROVE  Calling(m)
    <2>. DEFINE prev == nextIndex[s][p] - 1
                call == [kind |-> "AppendEntries", src |-> s, dst |-> p, term |-> currentTerm[s],
                         prevLogIndex |-> prev, prevLogTerm |-> LogTerm(s, prev),
                         entries |-> SubSeq(log[s], prev + 1 - lastIncludedIndex[s], Len(log[s])),
                         leaderCommit |-> commitIndex[s]]
    <2>1. m = call
      BY <1>1, <1>2, <1>7, SendAllAdds DEF SendAppendEntries
    <2>2. /\ role[s] = "Leader" /\ prev \in lastIncludedIndex[s] .. LastLogIndex(s)
          /\ UNCHANGED <<log, lastIncludedIndex, lastIncludedTerm, currentTerm, role, commitIndex>>
      BY <1>7 DEF SendAppendEntries, logVars, commitVars
    <2>3. CarriedBy(m) = TailFrom(LogOf(s), prev)
      BY <2>1 DEF CarriedBy, TailFrom, LogOf, LogTerm, TermAt, LogEntry, EntryAt
    <2>4. LogOf(s) \in Piece /\ prev \in Span(LogOf(s))
      BY <2>2, LogOfTyped DEF Span
    <2>5. Part(CarriedBy(m), LogOf(s)) /\ End(CarriedBy(m)) = End(LogOf(s))
      BY <2>3, <2>4, TailIsPart
    <2>6. m.src = s /\ m.term = currentTerm[s] /\ m.leaderCommit = commitIndex[s]
          /\ m.kind = "AppendEntries"
      BY <2>1
    <2>7. QED BY <2>2, <2>5, <2>6, SameLogs DEF Calling, Leads
  <1>8. ASSUME NEW s \in Server, NEW p \in Server, SendSnapshot(s, p)
        PROVE  Calling(m)
    <2>. DEFINE base == LogOf(s).base
                call == [kind |-> "InstallSnapshot", src |-> s, dst |-> p, term |-> currentTerm[s],
                         index |-> lastIncludedIndex[s], indexTerm |-> lastIncludedTerm[s],
                         data |-> snapshot[s]]
    <2>1. m = call
      BY <1>1, <1>2, <1>8, SendAllAdds DEF SendSnapshot
    <2>2. /\ role[s] = "Leader"
          /\ UNCHANGED <<log, lastIncludedIndex, lastIncludedTerm, currentTerm, role, commitIndex>>
      BY <1>8 DEF SendSnapshot, logVars, commitVars
    <2>3. CarriedBy(m) = [base |-> base, term |-> TermAt(LogOf(s), base), entries |-> <<>>]
      BY <2>1 DEF CarriedBy, LogOf, TermAt
    <2>4. LogOf(s) \in Piece /\ base \in Span(LogOf(s))
      BY LogOfTyped, PieceTypes
    <2>5. Part(CarriedBy(m), LogOf(s))
      BY <2>3, <2>4, StubIsPart
    <2>6. m.src = s /\ m.term = currentTerm[s] /\ m.index = base /\ m.kind = "InstallSnapshot"
      BY <2>1 DEF LogOf
    <2>7. QED BY <2>2, <2>5, <2>6, SameLogs DEF Calling, Leads
  <1>9. CASE network' \subseteq network
    BY <1>1, <1>2, <1>9
  <1>10. QED BY <1>3, <1>4, <1>5, <1>6, <1>7, <1>8, <1>9, StepFrames DEF Frames, NetworkFrame

LEMMA AcceptTakes ==
  ASSUME TypeOK, TypeOK', VotesGenuine, LogInv, NEW m \in AppendCalls, HandleAppendEntries(m),
         m.term >= currentTerm[m.dst], AdoptTerm(m.dst, m.term), AcceptAppend(m)
  PROVE  Heeds(m.dst, m) /\ Takes(m.dst, CarriedBy(m))
  <1>. DEFINE s == m.dst
              g == CarriedBy(m)
              n == Len(m.entries)
  <1>1. m \in Calls /\ m \in Received("AppendEntries")
    BY DEF Calls, AppendCalls
  <1>2. /\ s \in Server /\ g \in Piece /\ g.base = m.prevLogIndex /\ End(g) = m.prevLogIndex + n
        /\ g.entries = m.entries /\ g.term = m.prevLogTerm /\ g.base \in Nat /\ n \in Nat
    <2>1. g.entries = m.entries /\ g.term = m.prevLogTerm
      BY <1>1 DEF CarriedBy, Received
    <2>2. s \in Server /\ g \in Piece /\ g.base = m.prevLogIndex /\ End(g) = m.prevLogIndex + n
      BY <1>1, CallTypes
    <2>3. QED BY <2>1, <2>2, PieceTypes
  <1>3. Heeds(s, m)
    BY <1>1, HeedsCall
  <1>4. CASE \E k \in 1 .. n : Differs(m, s, k)
    <2>1. PICK q : Glued(LogOf(s)', LogOf(s), g, q) /\ q < End(g)
      BY <1>1, <1>4, MergeGlues DEF Merges
    <2>2. LogOf(s)' \in Piece
      <3>1. LogOf(s)' \in Pieces'
        BY <1>2 DEF Pieces
      <3>2. QED BY <3>1, TypedNext
    <2>3. End(LogOf(s)') = End(g) /\ End(g) \in Nat
      BY <1>2, <2>1, PieceTypes DEF Glued
    <2>4. End(g) \in Span(LogOf(s)')
      BY <2>2, <2>3, PieceTypes DEF Span
    <2>5. QED BY <1>3, <2>1, <2>4 DEF Glued, Takes, Last
  <1>5. CASE \A k \in 1 .. n : ~Differs(m, s, k)
    <2>1. /\ PrevInLog(m, s) /\ LogTerm(s, m.prevLogIndex) = m.prevLogTerm
          /\ log' = log
      BY <1>5 DEF AcceptAppend, PrevMatches, MergeEntries
    <2>2. LogOf(s)' = LogOf(s)
      BY <2>1 DEF HandleAppendEntries, LogOf
    <2>3. /\ LogOf(s) \in Piece /\ LastLogIndex(s) = End(LogOf(s))
          /\ LogOf(s).base = lastIncludedIndex[s] /\ \A i : LogTerm(s, i) = TermAt(LogOf(s), i)
      BY <1>2, LogOfTyped
    <2>4. m.prevLogIndex \in Span(LogOf(s)) /\ TermAt(LogOf(s), m.prevLogIndex) = m.prevLogTerm
      BY <2>1, <2>3 DEF PrevInLog, Span
    <2>5. CASE n = 0
      BY <1>2, <1>3, <2>2, <2>4, <2>5 DEF Takes, Last, TermAt
    <2>6. CASE n # 0
      <3>1. n \in 1 .. n
        BY <1>2, <2>6
      <3>2. m.prevLogIndex + n <= LastLogIndex(s) /\ LogTerm(s, m.prevLogIndex + n) = m.entries[n].term
        BY <1>5, <3>1 DEF Differs
      <3>. HIDE DEF n
      <3>3. End(g) \in Span(LogOf(s))
        BY <1>2, <2>3, <2>4, <3>2, PieceTypes DEF Span
      <3>4. TermAt(LogOf(s), End(g)) = m.entries[n].term
        BY <1>2, <2>3, <3>2
      <3>5. End(g) # g.base /\ End(g) - g.base = n
        BY <1>2, <2>6
      <3>6. Last(g) = m.entries[n].term
        BY <1>2, <3>5 DEF Last, TermAt, EntryAt
      <3>7. QED BY <1>3, <2>2, <3>3, <3>4, <3>6 DEF Takes
    <2>7. QED BY <2>5, <2>6
  <1>6. QED BY <1>4, <1>5

LEMMA OnlyAnswer ==
  ASSUME NEW m, NEW a, Answer(m, {a}), NEW r \in network', r \notin network
  PROVE  r = a
  BY AnswerAdds

LEMMA AppendsAnswered ==
  ASSUME TypeOK, TypeOK', VotesGenuine, LogInv, NEW m \in AppendCalls, HandleAppendEntries(m),
         NEW r \in network', r \notin network
  PROVE  r.kind = "AppendEntriesReply" /\ AnswersAppend(r, m)
  <1>. DEFINE s == m.dst
              g == CarriedBy(m)
  <1>1. m \in Calls
    BY DEF Calls, AppendCalls
  <1>2. /\ s \in Server /\ g \in Piece /\ g.base = m.prevLogIndex /\ g.base \in Nat
        /\ End(g) = m.prevLogIndex + Len(m.entries)
        /\ LastLogIndex(s) = End(LogOf(s)) /\ LogOf(s).base = lastIncludedIndex[s]
        /\ LogOf(s).base \in Nat /\ End(LogOf(s)) \in Nat
    BY <1>1, CallTypes, PieceTypes, LogOfTyped
  <1>3. ASSUME NEW success, NEW xTerm, NEW xIndex, NEW xLen,
               r = AppendReply(m, success, xTerm, xIndex, xLen)
        PROVE  /\ r.kind = "AppendEntriesReply" /\ r.success = success /\ r.xTerm = xTerm
               /\ r.xIndex = xIndex /\ r.xLen = xLen /\ r.src = m.dst /\ r.dst = m.src
               /\ r.reqTerm = m.term /\ r.match = End(g)
    BY <1>2, <1>3 DEF AppendReply
  <1>. HIDE DEF s, g
  <1>4. CASE m.term < currentTerm[s] /\ Answer(m, {AppendReply(m, FALSE, 0, 0, 0)})
    <2>1. /\ r.kind = "AppendEntriesReply" /\ r.success = FALSE /\ r.xTerm = 0
          /\ r.xIndex = 0 /\ r.src = m.dst /\ r.dst = m.src /\ r.reqTerm = m.term
          /\ r.match = End(g)
      <3>1. r = AppendReply(m, FALSE, 0, 0, 0)
        BY <1>4, OnlyAnswer
      <3>2. QED BY <1>3, <3>1
    <2>2. QED BY <1>2, <2>1 DEF AnswersAppend, g
  <1>5. CASE m.term >= currentTerm[s] /\ RefuseAppend(m)
    <2>1. CASE /\ m.prevLogIndex > LastLogIndex(s)
               /\ Answer(m, {AppendReply(m, FALSE, -1, -1, LastLogIndex(s) + 1)})
      <3>1. /\ r.kind = "AppendEntriesReply" /\ r.success = FALSE /\ r.xIndex = -1
            /\ r.xLen = LastLogIndex(s) + 1 /\ r.src = m.dst /\ r.dst = m.src
            /\ r.reqTerm = m.term /\ r.match = End(g)
        <4>1. r = AppendReply(m, FALSE, -1, -1, LastLogIndex(s) + 1)
          BY <2>1, OnlyAnswer
        <4>2. QED BY <1>3, <4>1
      <3>2. r.xLen <= g.base /\ r.xIndex <= g.base
        BY <1>2, <2>1, <3>1
      <3>3. QED BY <3>1, <3>2 DEF AnswersAppend, g
    <2>2. CASE /\ m.prevLogIndex < lastIncludedIndex[s]
               /\ Answer(m, {AppendReply(m, FALSE, -1, -1, lastIncludedIndex[s] + 1)})
      <3>1. /\ r.kind = "AppendEntriesReply" /\ r.success = FALSE /\ r.xIndex = -1
            /\ r.xLen = lastIncludedIndex[s] + 1 /\ r.src = m.dst /\ r.dst = m.src
            /\ r.reqTerm = m.term /\ r.match = End(g)
        <4>1. r = AppendReply(m, FALSE, -1, -1, lastIncludedIndex[s] + 1)
          BY <2>2, OnlyAnswer
        <4>2. QED BY <1>3, <4>1
      <3>2. QED BY <1>2, <1>5, <3>1 DEF AnswersAppend, g, s
    <2>3. CASE \E x \in lastIncludedIndex[s] .. m.prevLogIndex :
                 PrevInLog(m, s) /\ Answer(m, {AppendReply(m, FALSE, LogTerm(s, m.prevLogIndex), x,
                                                           LastLogIndex(s) + 1)})
      <3>1. PICK x \in lastIncludedIndex[s] .. m.prevLogIndex :
              PrevInLog(m, s) /\ Answer(m, {AppendReply(m, FALSE, LogTerm(s, m.prevLogIndex), x,
                                                        LastLogIndex(s) + 1)})
        BY <2>3
      <3>2. /\ r.kind = "AppendEntriesReply" /\ r.success = FALSE /\ r.xIndex = x
            /\ r.xTerm = LogTerm(s, m.prevLogIndex) /\ r.src = m.dst /\ r.dst = m.src
            /\ r.reqTerm = m.term /\ r.match = End(g)
        <4>1. r = AppendReply(m, FALSE, LogTerm(s, m.prevLogIndex), x, LastLogIndex(s) + 1)
          BY <3>1, OnlyAnswer
        <4>2. QED BY <1>3, <4>1
      <3>3. LogTerm(s, m.prevLogIndex) \in Nat
        BY <1>2, <3>1, LogTypes DEF PrevInLog, TypeOK
      <3>4. r.xTerm # -1 /\ r.xIndex <= g.base
        BY <1>2, <3>1, <3>2, <3>3
      <3>5. QED BY <3>2, <3>4 DEF AnswersAppend, g
    <2>4. QED BY <1>5, <2>1, <2>2, <2>3 DEF RefuseAppend, s
  <1>6. CASE m.term >= currentTerm[s] /\ AdoptTerm(s, m.term) /\ AcceptAppend(m)
    <2>1. Heeds(s, m) /\ Takes(s, g)
      BY <1>6, AcceptTakes DEF s, g
    <2>2. Answer(m, {AppendReply(m, TRUE, 0, 0, 0)})
      BY <1>6 DEF AcceptAppend
    <2>3. /\ r.kind = "AppendEntriesReply" /\ r.xTerm = 0 /\ r.xIndex = 0
          /\ r.src = m.dst /\ r.dst = m.src /\ r.reqTerm = m.term /\ r.match = End(g)
      <3>1. r = AppendReply(m, TRUE, 0, 0, 0)
        BY <2>2, OnlyAnswer
      <3>2. QED BY <1>3, <3>1
    <2>4. QED BY <1>2, <2>1, <2>3 DEF AnswersAppend, g, s
  <1>7. QED BY <1>4, <1>5, <1>6 DEF HandleAppendEntries, s

\* r.src asks for votes with the end of its log.
Requesting(r) ==
  /\ KeepsLogs /\ r.term = currentTerm'[r.src]
  /\ r.lastLogIndex = End(LogOf(r.src)) /\ r.lastLogTerm = Last(LogOf(r.src))

Repeats(r, m) == r.dst = m.src /\ r.reqTerm = m.term

LEMMA Sent ==
  ASSUME TypeOK, TypeOK', VotesGenuine, LogInv, [Next]_vars, NEW r \in network', r \notin network
  PROVE  \/ r.kind = "RequestVote" /\ Requesting(r)
         \/ r.kind = "RequestVoteReply" /\ \E m \in Received("RequestVote") : Repeats(r, m)
         \/ r.kind \in {"AppendEntries", "InstallSnapshot"}
         \/ r.kind = "AppendEntriesReply" /\ \E m \in AppendCalls : AnswersAppend(r, m)
         \/ /\ r.kind = "InstallSnapshotReply"
            /\ \E m \in SnapshotCalls : Repeats(r, m) /\ r.index = m.index
  <1>1. NetworkFrame
    BY StepFrames DEF Frames
  <1>2. ASSUME NEW s \in Server, StartElection(s)
        PROVE  r.kind = "RequestVote" /\ Requesting(r)
    <2>1. PICK p \in Server :
            r = [kind |-> "RequestVote", src |-> s, dst |-> p, term |-> currentTerm[s] + 1,
                 lastLogIndex |-> LastLogIndex(s), lastLogTerm |-> LastLogTerm(s)]
      BY <1>2, SendAllAdds DEF StartElection
    <2>2. /\ KeepsLogs /\ currentTerm' = [currentTerm EXCEPT ![s] = currentTerm[s] + 1]
          /\ currentTerm \in [Server -> Nat]
      BY <1>2, SameLogs DEF StartElection, logVars, TypeOK, ElectionTyped
    <2>3. r.kind = "RequestVote" /\ r.src = s /\ r.term = currentTerm'[s]
      BY <2>1, <2>2
    <2>4. r.lastLogIndex = End(LogOf(s)) /\ r.lastLogTerm = Last(LogOf(s))
      BY <2>1, LogOfTyped
    <2>5. QED BY <2>2, <2>3, <2>4 DEF Requesting
  <1>3. ASSUME NEW s \in Server, NEW p \in Server, SendAppendEntries(s, p)
        PROVE  r.kind = "AppendEntries"
    BY <1>3, SendAllAdds DEF SendAppendEntries
  <1>4. ASSUME NEW s \in Server, NEW p \in Server, SendSnapshot(s, p)
        PROVE  r.kind = "InstallSnapshot"
    BY <1>4, SendAllAdds DEF SendSnapshot
  <1>5. ASSUME NEW m \in Received("RequestVote"), HandleRequestVote(m)
        PROVE  r.kind = "RequestVoteReply" /\ Repeats(r, m)
    <2>1. r = [kind |-> "RequestVoteReply", src |-> m.dst, dst |-> m.src, reqTerm |-> m.term,
               term |-> currentTerm[m.dst], granted |-> Grants(m, m.dst)]
      BY <1>5, AnswerAdds DEF HandleRequestVote
    <2>2. QED BY <2>1 DEF Repeats
  <1>6. ASSUME NEW m \in Received("AppendEntries"), HandleAppendEntries(m)
        PROVE  r.kind = "AppendEntriesReply" /\ \E c \in AppendCalls : AnswersAppend(r, c)
    BY <1>6, AppendsAnswered DEF AppendCalls
  <1>7. ASSUME NEW m \in Received("InstallSnapshot"), HandleInstallSnapshot(m)
        PROVE  r.kind = "InstallSnapshotReply" /\ Repeats(r, m) /\ r.index = m.index
    <2>1. r = [kind |-> "InstallSnapshotReply", src |-> m.dst, dst |-> m.src,
               reqTerm |-> m.term, term |-> currentTerm[m.dst], index |-> m.index]
      BY <1>7, AnswerAdds DEF HandleInstallSnapshot
    <2>2. QED BY <2>1 DEF Repeats
  <1>8. QED BY <1>1, <1>2, <1>3, <1>4, <1>5, <1>6, <1>7 DEF NetworkFrame, SnapshotCalls

-----------------------------------------------------------------------------
\* What a step may do to a leader's book-keeping, to commitIndex and on the way up

\* s has become leader.
Wins(s) ==
  /\ Won(s) /\ role'[s] = "Leader" /\ UNCHANGED currentTerm /\ KeepsLogs
  /\ \A d \in Server \ {s} : role'[d] = role[d]
  /\ \A p \in Server : matchIndex'[s][p] = 0 /\ nextIndex'[s][p] = End(LogOf(s)) + 1

AppendAcks   == {r \in Received("AppendEntriesReply") : r.success}
SnapshotAcks == Received("InstallSnapshotReply")

\* A leader's matchIndex of p moves by what p has acknowledged.
MatchMoves(s, p) ==
  \/ matchIndex'[s][p] = matchIndex[s][p]
  \/ \E r \in AppendAcks : /\ r.dst = s /\ r.src = p /\ r.reqTerm = currentTerm[s]
                           /\ matchIndex'[s][p] = Larger(matchIndex[s][p], r.match)
  \/ \E r \in SnapshotAcks : /\ r.dst = s /\ r.reqTerm = currentTerm[s]
                             /\ matchIndex'[s][p] = Larger(matchIndex[s][p], r.index)

\* Its nextIndex follows, or goes where a refusal hints.
NextMoves(s, p) ==
  \/ nextIndex'[s][p] = nextIndex[s][p]
  \/ nextIndex'[s][p] = matchIndex'[s][p] + 1
  \/ \E r \in Received("AppendEntriesReply") : \E n \in Int :
       /\ r.dst = s /\ r.reqTerm = currentTerm[s] /\ nextIndex'[s][p] = Larger(n, 1)
       /\ \/ r.xTerm = -1 /\ n = r.xLen
          \/ n = r.xIndex
          \/ n - 1 \in LogOf(s).base .. End(LogOf(s))

LeaderMoves(s) ==
  \/ Wins(s)
  \/ role[s] = "Leader" /\ \A p \in Server : MatchMoves(s, p) /\ NextMoves(s, p)

LEMMA LeadersMove ==
  ASSUME TypeOK, TypeOK', [Next]_vars, NEW s \in Server, role'[s] = "Leader"
  PROVE  LeaderMoves(s)
  <1>1. /\ matchIndex \in [Server -> [Server -> Nat]] /\ nextIndex \in [Server -> [Server -> Nat]]
        /\ role \in [Server -> Role] /\ network \subseteq Message
        /\ currentTerm \in [Server -> Nat]
    BY DEF TypeOK, LeaderTyped, ElectionTyped
  <1>2. ASSUME role[s] = "Leader", matchIndex'[s] = matchIndex[s], nextIndex'[s] = nextIndex[s]
        PROVE  LeaderMoves(s)
    BY <1>2 DEF LeaderMoves, MatchMoves, NextMoves
  <1>3. ASSUME NEW d \in Server, NEW term, StepDown(d, term)
        PROVE  LeaderMoves(s)
    <2>1. role' = [role EXCEPT ![d] = "Follower"] /\ ForgetIfFollower(d)
      BY <1>3 DEF StepDown
    <2>2. role'[d] = "Follower"
      BY <1>1, <2>1
    <2>3. role[s] = "Leader" /\ matchIndex'[s] = matchIndex[s] /\ nextIndex'[s] = nextIndex[s]
      BY <2>1, <2>2, ForgetFrame
    <2>4. QED BY <1>2, <2>3
  <1>4. ASSUME NEW m \in Received("RequestVoteReply"), HandleVoteReply(m)
        PROVE  LeaderMoves(s)
    <2>. DEFINE d == m.dst
                wins == Majority(votes[d] \cup {m.src})
    <2>1. d \in Server
      BY <1>1, ReceivedTypes DEF VoteReplies
    <2>2. CASE StepDown(d, m.term)
      BY <1>3, <2>1, <2>2
    <2>3. CASE ~StepDown(d, m.term)
      <3>1. /\ role[d] = "Candidate"
            /\ UNCHANGED currentTerm
            /\ role' = [role EXCEPT ![d] = IF wins THEN "Leader" ELSE role[d]]
            /\ nextIndex' = [nextIndex EXCEPT ![d] =
                 IF wins THEN [p \in Server |-> FirstNextIndex(d)] ELSE nextIndex[d]]
            /\ matchIndex' = [matchIndex EXCEPT ![d] =
                 IF wins THEN [p \in Server |-> 0] ELSE matchIndex[d]]
            /\ KeepsLogs
        BY <1>4, <2>3, SameLogs DEF HandleVoteReply, Counting, logVars
      <3>2. CASE s # d
        BY <1>1, <1>2, <2>1, <3>1, <3>2
      <3>3. CASE s = d
        <4>1. Won(s)
          <5>1. RoleStep(s)
            BY StepsOfRoles
          <5>2. QED BY <3>1, <3>3, <5>1 DEF RoleStep
        <4>2. wins
          BY <1>1, <2>1, <3>1, <3>3
        <4>. HIDE DEF wins
        <4>3. \A p \in Server : matchIndex'[s][p] = 0 /\ nextIndex'[s][p] = FirstNextIndex(s)
          BY <1>1, <2>1, <3>1, <3>3, <4>2
        <4>4. FirstNextIndex(s) = End(LogOf(s)) + 1
          BY LogOfTyped DEF FirstNextIndex
        <4>5. \A v \in Server \ {s} : role'[v] = role[v]
          BY <1>1, <2>1, <3>1, <3>3
        <4>6. QED BY <3>1, <4>1, <4>3, <4>4, <4>5 DEF LeaderMoves, Wins
      <3>4. QED BY <3>2, <3>3
    <2>4. QED BY <2>2, <2>3
  <1>5. ASSUME NEW m \in Received("AppendEntriesReply"), HandleAppendReply(m)
        PROVE  LeaderMoves(s)
    <2>. DEFINE d == m.dst
                p == m.src
    <2>1. /\ d \in Server /\ p \in Server /\ m.xLen \in Int /\ m.xIndex \in Int
          /\ role[d] = "Leader" /\ currentTerm[d] = m.reqTerm
      BY <1>1, <1>5, ReceivedTypes DEF AppendReplies, HandleAppendReply
    <2>2. CASE StepDown(d, m.term)
      BY <1>3, <2>1, <2>2
    <2>3. CASE /\ m.success /\ role' = role
               /\ matchIndex' = [matchIndex EXCEPT ![d][p] = Matched(d, p, m.match)]
               /\ nextIndex' = [nextIndex EXCEPT ![d][p] = Matched(d, p, m.match) + 1]
      <3>1. s = d => matchIndex'[s][p] = Larger(matchIndex[s][p], m.match)
                     /\ nextIndex'[s][p] = matchIndex'[s][p] + 1
        BY <1>1, <2>1, <2>3 DEF Matched
      <3>2. \A v \in Server : s # d \/ v # p =>
              matchIndex'[s][v] = matchIndex[s][v] /\ nextIndex'[s][v] = nextIndex[s][v]
        BY <1>1, <2>1, <2>3
      <3>3. m \in AppendAcks
        BY <2>3 DEF AppendAcks
      <3>4. \A v \in Server : MatchMoves(s, v) /\ NextMoves(s, v)
        BY <2>1, <3>1, <3>2, <3>3 DEF MatchMoves, NextMoves
      <3>5. QED BY <2>3, <3>4 DEF LeaderMoves
    <2>4. CASE /\ role' = role /\ matchIndex' = matchIndex
               /\ \E n \in {m.xLen, m.xIndex} \cup lastIncludedIndex[d] + 1 .. LastLogIndex(d) + 1 :
                    BacksUpTo(d, m, n) /\ nextIndex' = [nextIndex EXCEPT ![d][p] = Larger(n, 1)]
      <3>1. PICK n \in {m.xLen, m.xIndex} \cup lastIncludedIndex[d] + 1 .. LastLogIndex(d) + 1 :
                    BacksUpTo(d, m, n) /\ nextIndex' = [nextIndex EXCEPT ![d][p] = Larger(n, 1)]
        BY <2>4
      <3>2. n \in Int
        BY <2>1, <3>1
      <3>3. \/ m.xTerm = -1 /\ n = m.xLen
            \/ n = m.xIndex
            \/ n - 1 \in LogOf(d).base .. End(LogOf(d))
        BY <2>1, <3>1, LogOfTyped DEF BacksUpTo
      <3>4. s = d => nextIndex'[s][p] = Larger(n, 1)
        BY <1>1, <2>1, <3>1
      <3>5. \A v \in Server : s # d \/ v # p => nextIndex'[s][v] = nextIndex[s][v]
        BY <1>1, <2>1, <3>1
      <3>6. \A v \in Server : MatchMoves(s, v) /\ NextMoves(s, v)
        BY <2>1, <2>4, <3>2, <3>3, <3>4, <3>5 DEF MatchMoves, NextMoves
      <3>7. QED BY <2>4, <3>6 DEF LeaderMoves
    <2>5. QED BY <1>5, <2>2, <2>3, <2>4 DEF HandleAppendReply
  <1>6. ASSUME NEW m \in Received("InstallSnapshotReply"), HandleSnapshotReply(m)
        PROVE  LeaderMoves(s)
    <2>. DEFINE d == m.dst
                p == m.src
    <2>1. /\ d \in Server /\ p \in Server /\ role[d] = "Leader" /\ currentTerm[d] = m.reqTerm
      BY <1>1, <1>6, ReceivedTypes DEF InstallReplies, HandleSnapshotReply
    <2>2. CASE StepDown(d, m.term)
      BY <1>3, <2>1, <2>2
    <2>3. CASE /\ role' = role
               /\ matchIndex' = [matchIndex EXCEPT ![d][p] = Matched(d, p, m.index)]
               /\ nextIndex' = [nextIndex EXCEPT ![d][p] = Matched(d, p, m.index) + 1]
      <3>1. s = d => matchIndex'[s][p] = Larger(matchIndex[s][p], m.index)
                     /\ nextIndex'[s][p] = matchIndex'[s][p] + 1
        BY <1>1, <2>1, <2>3 DEF Matched
      <3>2. \A v \in Server : s # d \/ v # p =>
              matchIndex'[s][v] = matchIndex[s][v] /\ nextIndex'[s][v] = nextIndex[s][v]
        BY <1>1, <2>1, <2>3
      <3>3. m \in SnapshotAcks
        BY DEF SnapshotAcks
      <3>4. \A v \in Server : MatchMoves(s, v) /\ NextMoves(s, v)
        BY <2>1, <3>1, <3>2, <3>3 DEF MatchMoves, NextMoves
      <3>5. QED BY <2>3, <3>4 DEF LeaderMoves
    <2>4. QED BY <1>6, <2>2, <2>3 DEF HandleSnapshotReply
  <1>7. QED BY <1>2, <1>4, <1>5, <1>6, StepFrames DEF Frames, LeadersFrame
\* v has acknowledged index n to leader s.
Acked(s, v, n) ==
  \/ v = s \/ matchIndex[s][v] >= n
  \/ \E r \in AppendAcks : r.src = v /\ r.dst = s /\ r.reqTerm = currentTerm[s] /\ r.match >= n

Ackers(s, n) == {v \in Server : Acked(s, v, n)}

\* Leader s commits up to n.
Commits(s, n) ==
  /\ Leads(s, currentTerm[s]) /\ KeepsLogs
  /\ n \in Indices(s) /\ n > commitIndex[s] /\ LogTerm(s, n) = currentTerm[s]
  /\ \E Q \in SUBSET Ackers(s, n) : Majority(Q)
  /\ commitIndex' = [commitIndex EXCEPT ![s] = n]
  /\ chosen' = chosen \cup {[index |-> k, entry |-> LogEntry(s, k)] :
                            k \in {i \in Indices(s) : commitIndex[s] < i /\ i <= n}}

\* Index i is on its way to the state machine of s.
OnTheWay(s, i) ==
  \/ \E k \in 1 .. Len(applyCh[s]) : i = applyCh[s][k].index
  \/ pendingSnapshot[s].valid /\ i = pendingSnapshot[s].index

\* commitIndex stays, or takes over what a call says, or goes back in a crash.
Stays(s) ==
  /\ commitIndex'[s] = commitIndex[s]
  /\ LogOf(s)'.base = LogOf(s).base \/ OnTheWay(s, LogOf(s)'.base)

TakesCommit(s) ==
  \E m \in AppendCalls :
    /\ Heeds(s, m) /\ Takes(s, CarriedBy(m)) /\ LogOf(s)'.base = LogOf(s).base
    /\ m.leaderCommit > commitIndex[s]
    /\ commitIndex'[s] = Smaller(m.leaderCommit, End(LogOf(s)'))

TakesSnapshot(s) ==
  \E m \in SnapshotCalls :
    /\ Heeds(s, m) /\ LogOf(s)'.base = m.index /\ LogOf(s)'.term = m.indexTerm
    /\ commitIndex'[s] = Larger(commitIndex[s], m.index)

Falls(s) ==
  commitIndex'[s] = LogOf(s).base /\ LogOf(s)' = LogOf(s) /\ \A i : ~OnTheWay(s, i)'

Follows(s) == Stays(s) \/ TakesCommit(s) \/ TakesSnapshot(s) \/ Falls(s)

LEMMA CommitsMove ==
  ASSUME TypeOK, TypeOK', VotesGenuine, LogInv, [Next]_vars
  PROVE  \/ \E s \in Server : \E n : Commits(s, n)
         \/ UNCHANGED chosen /\ \A s \in Server : Follows(s)
  <1>1. /\ commitIndex \in [Server -> Nat] /\ matchIndex \in [Server -> [Server -> Nat]]
        /\ network \subseteq Message
    BY DEF TypeOK, CommitTyped, LeaderTyped
  <1>2. \A s \in Server : /\ commitIndex'[s] = commitIndex[s]
                          /\ lastIncludedIndex'[s] = lastIncludedIndex[s]
                          => Follows(s)
    BY DEF Follows, Stays, LogOf
  <1>3. ASSUME NEW m \in Received("InstallSnapshot"), HandleInstallSnapshot(m)
        PROVE  UNCHANGED chosen /\ \A s \in Server : Follows(s)
    <2>1. m \in SnapshotCalls /\ m \in Calls /\ UNCHANGED chosen
      BY <1>3 DEF SnapshotCalls, Calls, HandleInstallSnapshot
    <2>2. CASE m.term < currentTerm[m.dst] \/ m.index <= lastIncludedIndex[m.dst]
      BY <1>2, <1>3, <2>1, <2>2 DEF HandleInstallSnapshot, logVars
    <2>3. CASE ~(m.term < currentTerm[m.dst] \/ m.index <= lastIncludedIndex[m.dst])
      <3>. DEFINE d == m.dst
      <3>1. /\ d \in Server /\ OthersKeepLogs(d) /\ m.term >= currentTerm[d]
            /\ AdoptTerm(d, m.term)
        BY <1>3, <2>3, InstallCuts
      <3>2. Heeds(d, m)
        BY <2>1, <3>1, HeedsCall
      <3>3. /\ commitIndex' = [commitIndex EXCEPT ![d] = Larger(commitIndex[d], m.index)]
            /\ lastIncludedIndex' = [lastIncludedIndex EXCEPT ![d] = m.index]
            /\ lastIncludedTerm' = [lastIncludedTerm EXCEPT ![d] = m.indexTerm]
        BY <1>3, <2>3 DEF HandleInstallSnapshot, Install
      <3>4. LogOf(d)'.base = m.index /\ LogOf(d)'.term = m.indexTerm
        BY <3>1, <3>3 DEF LogOf, TypeOK, LogTyped
      <3>5. Follows(d)
        BY <1>1, <2>1, <3>1, <3>2, <3>3, <3>4 DEF Follows, TakesSnapshot
      <3>6. \A s \in Server \ {d} : Follows(s)
        BY <1>1, <1>2, <3>1, <3>3 DEF OthersKeepLogs
      <3>7. QED BY <2>1, <3>5, <3>6
    <2>4. QED BY <2>2, <2>3
  <1>4. ASSUME NEW m \in Received("AppendEntries"), HandleAppendEntries(m)
        PROVE  UNCHANGED chosen /\ \A s \in Server : Follows(s)
    <2>. DEFINE d == m.dst
    <2>1. /\ m \in AppendCalls /\ m \in Calls /\ UNCHANGED <<chosen, lastIncludedIndex>>
      BY <1>4 DEF AppendCalls, Calls, HandleAppendEntries
    <2>2. CASE UNCHANGED commitIndex
      BY <1>2, <2>1, <2>2
    <2>3. CASE ~UNCHANGED commitIndex
      <3>1. d \in Server /\ m.term >= currentTerm[d] /\ AdoptTerm(d, m.term) /\ AcceptAppend(m)
        BY <1>4, <2>1, <2>3, CallTypes DEF HandleAppendEntries
      <3>2. Heeds(d, m) /\ Takes(d, CarriedBy(m))
        BY <1>4, <2>1, <3>1, AcceptTakes
      <3>3. commitIndex' = [commitIndex EXCEPT ![d] =
              IF m.leaderCommit > commitIndex[d]
                THEN CommitUpTo(m, lastIncludedIndex[d] + Len(log'[d])) ELSE commitIndex[d]]
        BY <3>1 DEF AcceptAppend
      <3>4. m.leaderCommit > commitIndex[d]
        BY <1>1, <2>3, <3>3
      <3>5. End(LogOf(d)') = lastIncludedIndex[d] + Len(log'[d]) /\ LogOf(d)'.base = LogOf(d).base
        BY <2>1 DEF End, LogOf
      <3>6. commitIndex'[d] = Smaller(m.leaderCommit, End(LogOf(d)'))
        BY <1>1, <3>1, <3>3, <3>4, <3>5 DEF CommitUpTo
      <3>7. Follows(d)
        BY <2>1, <3>2, <3>4, <3>5, <3>6 DEF Follows, TakesCommit
      <3>8. \A s \in Server \ {d} : Follows(s)
        BY <1>1, <1>2, <2>1, <3>3
      <3>9. QED BY <2>1, <3>7, <3>8
    <2>4. QED BY <2>2, <2>3
  <1>5. ASSUME NEW t \in Server, Restart(t)
        PROVE  UNCHANGED chosen /\ \A s \in Server : Follows(s)
    <2>1. /\ commitIndex' = [commitIndex EXCEPT ![t] = lastIncludedIndex[t]]
          /\ UNCHANGED <<log, lastIncludedIndex, lastIncludedTerm, chosen>>
          /\ applyCh'[t] = <<>> /\ ~pendingSnapshot'[t].valid
      BY <1>5 DEF Restart, persistentVars, NoSnapshot, TypeOK, RsmTyped, CommitTyped
    <2>2. Follows(t)
      <3>1. Len(applyCh'[t]) = 0
        BY <2>1
      <3>2. \A i : ~OnTheWay(t, i)'
        BY <2>1, <3>1 DEF OnTheWay
      <3>3. QED BY <1>1, <2>1, <3>2 DEF Follows, Falls, LogOf
    <2>3. QED BY <1>1, <1>2, <2>1, <2>2
  <1>6. ASSUME NEW m \in Received("AppendEntriesReply"), HandleAppendReply(m)
        PROVE  \/ \E s \in Server : \E n : Commits(s, n)
               \/ UNCHANGED chosen /\ \A s \in Server : Follows(s)
    <2>. DEFINE s == m.dst
                p == m.src
    <2>1. /\ s \in Server /\ p \in Server /\ role[s] = "Leader" /\ currentTerm[s] = m.reqTerm
          /\ UNCHANGED <<log, lastIncludedIndex, lastIncludedTerm>> /\ m.match \in Nat
      BY <1>1, <1>6, ReceivedTypes DEF AppendReplies, HandleAppendReply, logVars
    <2>2. CASE UNCHANGED <<commitIndex, chosen>>
      BY <1>2, <2>1, <2>2
    <2>3. CASE ~UNCHANGED <<commitIndex, chosen>>
      <3>1. /\ m.success /\ AdvanceCommit(s, matchIndex'[s])
            /\ matchIndex' = [matchIndex EXCEPT ![s][p] = Matched(s, p, m.match)]
        BY <1>6, <2>3 DEF HandleAppendReply
      <3>2. PICK n \in Committable(s, matchIndex'[s]) :
              /\ commitIndex' = [commitIndex EXCEPT ![s] = n]
              /\ chosen' = chosen \cup {[index |-> k, entry |-> LogEntry(s, k)] :
                                        k \in {i \in Indices(s) : commitIndex[s] < i /\ i <= n}}
        BY <2>3, <3>1 DEF AdvanceCommit
      <3>3. /\ n \in Indices(s) /\ n > commitIndex[s] /\ LogTerm(s, n) = currentTerm[s]
            /\ Majority({s} \cup {v \in Server \ {s} : matchIndex'[s][v] >= n})
        BY <3>2 DEF Committable
      <3>. DEFINE Q == {s} \cup {v \in Server \ {s} : matchIndex'[s][v] >= n}
      <3>4. ASSUME NEW v \in Q
            PROVE  v \in Ackers(s, n)
        <4>1. CASE v = s
          BY <2>1, <4>1 DEF Ackers, Acked
        <4>2. CASE v # s /\ v # p
          <5>1. matchIndex'[s][v] = matchIndex[s][v]
            BY <1>1, <2>1, <3>1, <4>2
          <5>2. QED BY <4>2, <5>1 DEF Ackers, Acked
        <4>3. CASE v # s /\ v = p
          <5>1. matchIndex'[s][v] = Larger(matchIndex[s][v], m.match)
            BY <1>1, <2>1, <3>1, <4>3 DEF Matched
          <5>2. matchIndex[s][v] >= n \/ m.match >= n
            BY <4>3, <5>1 DEF Larger
          <5>3. m \in AppendAcks
            BY <3>1 DEF AppendAcks
          <5>4. QED BY <2>1, <4>3, <5>2, <5>3 DEF Ackers, Acked
        <4>4. QED BY <4>1, <4>2, <4>3
      <3>5. Q \in SUBSET Ackers(s, n) /\ Majority(Q)
        BY <3>3, <3>4
      <3>6. KeepsLogs
        BY <2>1, SameLogs
      <3>. HIDE DEF Q
      <3>7. Commits(s, n)
        BY <2>1, <3>2, <3>3, <3>5, <3>6 DEF Commits, Leads
      <3>8. QED BY <2>1, <3>7
    <2>4. QED BY <2>2, <2>3
  <1>7. CASE UNCHANGED <<commitIndex, chosen>>
    <2>1. ASSUME NEW s \in Server, NEW t \in Server, ReaderCommand(t)
          PROVE  Follows(s)
      <3>1. CASE lastIncludedIndex'[s] = lastIncludedIndex[s]
        BY <1>2, <1>7, <3>1
      <3>2. CASE lastIncludedIndex'[s] # lastIncludedIndex[s]
        <4>1. ~UNCHANGED logVars
          BY <3>2 DEF logVars
        <4>2. s = t /\ LogOf(s)'.base = CompactionIndex(s)
          BY <2>1, <3>2, <4>1, ReaderCuts DEF OthersKeepLogs, TailFrom
        <4>3. applyCh[s] # <<>> /\ applyCh[s] \in Seq(Applied)
          BY <2>1, <4>2 DEF ReaderCommand, TypeOK, RsmTyped, Applied
        <4>4. 1 \in 1 .. Len(applyCh[s]) /\ Head(applyCh[s]) = applyCh[s][1]
          BY <4>3, HeadTailProperties, EmptySeq, LenProperties
        <4>5. QED BY <1>7, <4>2, <4>4 DEF Follows, Stays, OnTheWay, CompactionIndex
      <3>3. QED BY <3>1, <3>2
    <2>2. ASSUME NEW t \in Server, NEW cmd \in Command, Start(t, cmd)
          PROVE  \A s \in Server : Follows(s)
      BY <1>2, <1>7, <2>2 DEF Start
    <2>3. CASE UNCHANGED <<log, lastIncludedIndex, lastIncludedTerm>>
      BY <1>2, <1>7, <2>3
    <2>4. QED BY <1>3, <1>4, <1>7, <2>1, <2>2, <2>3, StepFrames DEF Frames, LogsFrame
  <1>8. QED BY <1>3, <1>4, <1>5, <1>6, <1>7, StepFrames DEF Frames, CommitsFrame
\* What the applier takes up is committed.
LEMMA DeliveryMoves ==
  ASSUME TypeOK, TypeOK', [Next]_vars, NEW s \in Server, NEW i, OnTheWay(s, i)'
  PROVE  OnTheWay(s, i) \/ i <= commitIndex'[s]
  <1>1. /\ commitIndex \in [Server -> Nat] /\ applyCh \in [Server -> Seq(Applied)]
        /\ pendingSnapshot \in [Server -> [valid : BOOLEAN, index : Nat, data : Seq(Command)]]
        /\ network \subseteq Message
    BY DEF TypeOK, CommitTyped, RsmTyped, Applied
  <1>2. ASSUME applyCh'[s] = applyCh[s], pendingSnapshot'[s] = pendingSnapshot[s]
        PROVE  OnTheWay(s, i)
    BY <1>2 DEF OnTheWay
  <1>3. ASSUME NEW m \in Received("InstallSnapshot"), HandleInstallSnapshot(m)
        PROVE  OnTheWay(s, i) \/ i <= commitIndex'[s]
    <2>. DEFINE d == m.dst
    <2>1. applyCh' = applyCh /\ m.index \in Nat
      BY <1>1, <1>3, ReceivedTypes DEF HandleInstallSnapshot, rsmVars, InstallRequests
    <2>2. CASE pendingSnapshot'[s] = pendingSnapshot[s]
      BY <1>2, <2>1, <2>2
    <2>3. CASE pendingSnapshot'[s] # pendingSnapshot[s]
      <3>1. /\ pendingSnapshot' = [pendingSnapshot EXCEPT ![d] =
                 [valid |-> TRUE, index |-> m.index, data |-> m.data]]
            /\ commitIndex' = [commitIndex EXCEPT ![d] = Larger(commitIndex[d], m.index)]
        BY <1>3, <2>3 DEF HandleInstallSnapshot, Install
      <3>2. s = d
        BY <1>1, <2>3, <3>1
      <3>3. pendingSnapshot'[s].index = m.index /\ commitIndex'[s] = Larger(commitIndex[s], m.index)
        BY <1>1, <3>1, <3>2
      <3>4. m.index <= commitIndex'[s]
        BY <1>1, <2>1, <3>3 DEF Larger
      <3>5. QED BY <2>1, <3>3, <3>4 DEF OnTheWay
    <2>4. QED BY <2>2, <2>3
  <1>4. ASSUME NEW t \in Server, Restart(t)
        PROVE  OnTheWay(s, i)
    <2>1. /\ applyCh' = [applyCh EXCEPT ![t] = <<>>]
          /\ pendingSnapshot' = [pendingSnapshot EXCEPT ![t] = NoSnapshot]
      BY <1>4 DEF Restart
    <2>2. CASE s # t
      BY <1>1, <1>2, <2>1, <2>2
    <2>3. CASE s = t
      <3>1. applyCh'[s] = <<>> /\ pendingSnapshot'[s] = NoSnapshot
        BY <1>1, <2>1, <2>3
      <3>2. Len(applyCh'[s]) = 0
        BY <3>1
      <3>3. QED BY <3>1, <3>2 DEF OnTheWay, NoSnapshot
    <2>4. QED BY <2>2, <2>3
  <1>5. ASSUME NEW t \in Server, ApplierSnapshot(t)
        PROVE  OnTheWay(s, i)
    <2>. DEFINE msg == Apply(TRUE, pendingSnapshot[t].index, pendingSnapshot[t].data)
    <2>1. /\ pendingSnapshot[t].valid
          /\ applyCh' = [applyCh EXCEPT ![t] = Append(applyCh[t], msg)]
          /\ pendingSnapshot' = [pendingSnapshot EXCEPT ![t] = NoSnapshot]
      BY <1>5 DEF ApplierSnapshot
    <2>2. CASE s # t
      BY <1>1, <1>2, <2>1, <2>2
    <2>3. CASE s = t
      <3>1. applyCh'[s] = Append(applyCh[s], msg) /\ pendingSnapshot'[s] = NoSnapshot
        BY <1>1, <2>1, <2>3
      <3>2. PICK k \in 1 .. Len(applyCh'[s]) : i = applyCh'[s][k].index
        <4>1. ~pendingSnapshot'[s].valid
          BY <3>1 DEF NoSnapshot
        <4>2. QED BY <4>1 DEF OnTheWay
      <3>3. msg.index = pendingSnapshot[s].index /\ msg \in Applied
        BY <1>1, <2>3 DEF Apply, Applied
      <3>. HIDE DEF msg
      <3>4. applyCh[s] \in Seq(Applied) /\ Len(applyCh[s]) \in Nat
        BY <1>1, LenProperties
      <3>5. /\ Len(applyCh'[s]) = Len(applyCh[s]) + 1
            /\ \A j \in 1 .. Len(applyCh[s]) : applyCh'[s][j] = applyCh[s][j]
            /\ applyCh'[s][Len(applyCh[s]) + 1] = msg
        BY <3>1, <3>3, <3>4, AppendProperties
      <3>6. CASE k \in 1 .. Len(applyCh[s])
        BY <3>2, <3>5, <3>6 DEF OnTheWay
      <3>7. CASE k = Len(applyCh[s]) + 1
        BY <2>1, <2>3, <3>2, <3>3, <3>5, <3>7 DEF OnTheWay
      <3>8. QED BY <3>2, <3>4, <3>5, <3>6, <3>7
    <2>4. QED BY <2>2, <2>3
  <1>6. ASSUME NEW t \in Server, ApplierCommands(t)
        PROVE  OnTheWay(s, i) \/ i <= commitIndex'[s]
    <2>. DEFINE from == Larger(lastApplied[t], lastIncludedIndex[t])
                cmds == Commands(t, from, commitIndex[t])
                msgs == [k \in 1 .. Len(cmds) |-> Apply(FALSE, from + k, <<cmds[k]>>)]
    <2>1. /\ applyCh' = [applyCh EXCEPT ![t] = applyCh[t] \o msgs]
          /\ UNCHANGED <<pendingSnapshot, commitIndex>>
      BY <1>6 DEF ApplierCommands
    <2>2. CASE s # t
      BY <1>1, <1>2, <2>1, <2>2
    <2>3. CASE s = t
      <3>1. applyCh'[s] = applyCh[s] \o msgs /\ pendingSnapshot'[s] = pendingSnapshot[s]
        BY <1>1, <2>1, <2>3
      <3>2. from \in Nat /\ commitIndex[t] \in Nat
        BY <1>1 DEF TypeOK, CommitTyped, LogTyped, Larger
      <3>3. Len(cmds) \in Nat /\ (Len(cmds) > 0 => from + Len(cmds) = commitIndex[t])
        <4>1. CASE commitIndex[t] >= from
          <5>1. commitIndex[t] - from \in Nat
            BY <3>2, <4>1
          <5>2. Len(cmds) = commitIndex[t] - from
            BY <5>1 DEF Commands
          <5>. HIDE DEF cmds, from
          <5>3. QED BY <3>2, <5>1, <5>2
        <4>2. CASE commitIndex[t] < from
          <5>1. 1 .. commitIndex[t] - from = 1 .. 0
            BY <3>2, <4>2
          <5>2. cmds = [k \in 1 .. 0 |-> LogEntry(t, from + k).cmd]
            BY <5>1 DEF Commands
          <5>3. Len(cmds) = 0
            BY <5>2
          <5>4. QED BY <5>3
        <4>3. QED BY <3>2, <4>1, <4>2
      <3>4. msgs \in Seq([snap : {FALSE}, index : Nat, cmds : {<<cmds[k]>> : k \in 1 .. Len(cmds)}])
        BY <3>2, <3>3 DEF Apply
      <3>. DEFINE n == Len(cmds)
                  old == applyCh[s]
      <3>5. /\ Len(msgs) = n /\ \A j \in 1 .. n : msgs[j].index = from + j
        BY <3>3 DEF Apply
      <3>6. old \in Seq(Applied) /\ Len(old) \in Nat
        BY <1>1, LenProperties
      <3>. HIDE DEF cmds, msgs, from, n, old
      <3>7. PICK T : old \in Seq(T) /\ msgs \in Seq(T)
        <4>1. \E T : old \in Seq(T) /\ msgs \in Seq(T)
          <5>. DEFINE T == {old[j] : j \in 1 .. Len(old)} \cup {msgs[j] : j \in 1 .. Len(msgs)}
          <5>1. old \in Seq(T)
            BY <3>6
          <5>2. msgs \in Seq(T)
            BY <3>4
          <5>3. QED BY <5>1, <5>2
        <4>2. QED BY <4>1
      <3>8. /\ Len(old \o msgs) = Len(old) + n
            /\ \A j \in 1 .. Len(old) + n :
                 (old \o msgs)[j] = IF j <= Len(old) THEN old[j] ELSE msgs[j - Len(old)]
        BY <3>5, <3>7, ConcatProperties
      <3>9. CASE pendingSnapshot'[s].valid /\ i = pendingSnapshot'[s].index
        BY <3>1, <3>9 DEF OnTheWay
      <3>10. ASSUME NEW k \in 1 .. Len(applyCh'[s]), i = applyCh'[s][k].index
             PROVE  OnTheWay(s, i) \/ i <= commitIndex'[s]
        <4>1. k \in 1 .. Len(old) + n /\ n \in Nat
          BY <3>1, <3>3, <3>8, <3>10 DEF old, n
        <4>2. CASE k <= Len(old)
          BY <3>1, <3>6, <3>8, <3>10, <4>1, <4>2 DEF OnTheWay, old
        <4>3. CASE k > Len(old)
          <5>1. k - Len(old) \in 1 .. n
            BY <3>6, <4>1, <4>3
          <5>2. i = from + (k - Len(old))
            <6>1. applyCh'[s][k] = msgs[k - Len(old)]
              BY <3>1, <3>6, <3>8, <4>1, <4>3 DEF old
            <6>2. QED BY <3>5, <3>10, <5>1, <6>1
          <5>3. from + n = commitIndex[t] /\ n \in Nat
            BY <3>3, <5>1 DEF n
          <5>4. i <= commitIndex[t]
            BY <3>2, <3>6, <5>1, <5>2, <5>3
          <5>5. QED BY <2>1, <2>3, <5>4
        <4>4. QED BY <3>6, <4>1, <4>2, <4>3
      <3>11. QED BY <3>9, <3>10 DEF OnTheWay
    <2>4. QED BY <2>2, <2>3
  <1>7. ASSUME NEW t \in Server, applyCh[t] # <<>>, pendingSnapshot' = pendingSnapshot,
               applyCh' = [applyCh EXCEPT ![t] = Tail(applyCh[t])]
        PROVE  OnTheWay(s, i)
    <2>1. CASE s # t
      BY <1>1, <1>2, <1>7, <2>1
    <2>2. CASE s = t
      <3>1. applyCh'[s] = Tail(applyCh[s]) /\ applyCh[s] \in Seq(Applied) /\ Len(applyCh[s]) \in Nat
        BY <1>1, <1>7, <2>2, LenProperties
      <3>2. /\ Len(applyCh'[s]) = Len(applyCh[s]) - 1
            /\ \A k \in 1 .. Len(applyCh'[s]) : applyCh'[s][k] = applyCh[s][k + 1]
        <4>1. /\ Len(Tail(applyCh[s])) = Len(applyCh[s]) - 1
              /\ \A k \in 1 .. Len(Tail(applyCh[s])) : Tail(applyCh[s])[k] = applyCh[s][k + 1]
          BY <1>7, <2>2, <3>1, HeadTailProperties
        <4>2. QED BY <3>1, <4>1
      <3>3. CASE pendingSnapshot'[s].valid /\ i = pendingSnapshot'[s].index
        BY <1>7, <3>3 DEF OnTheWay
      <3>4. ASSUME NEW k \in 1 .. Len(applyCh'[s]), i = applyCh'[s][k].index
            PROVE  OnTheWay(s, i)
        <4>1. k + 1 \in 1 .. Len(applyCh[s]) /\ i = applyCh[s][k + 1].index
          BY <3>1, <3>2, <3>4
        <4>2. QED BY <4>1 DEF OnTheWay
      <3>5. QED BY <3>3, <3>4 DEF OnTheWay
    <2>3. QED BY <2>1, <2>2
  <1>8. ASSUME NEW t \in Server, ReaderCommand(t) \/ ReaderSnapshot(t)
        PROVE  OnTheWay(s, i)
    BY <1>7, <1>8 DEF ReaderCommand, ReaderSnapshot, commitVars
  <1>9. QED
    BY <1>2, <1>3, <1>4, <1>5, <1>6, <1>8, StepFrames DEF Frames, DeliveryFrame, DeliveryNext
-----------------------------------------------------------------------------
\* All logs and calls are cut out of lines

\* A line was led by whoever was elected for it.
TermsUsed(L) ==
  \A t \in DOMAIN L : t > 0 => \E c \in Server : Elected(c, t) /\ Settled(c, t)

LogsUnder(L) ==
  \A s \in Server : Rooted(L, LogOf(s)) /\ Last(LogOf(s)) <= currentTerm[s]

\* A leader has the whole line of its term, and no one is known to match more.
LeadersUnder(L) ==
  \A s \in Server : role[s] = "Leader" =>
    /\ currentTerm[s] \in DOMAIN L /\ Under(LogOf(s), L[currentTerm[s]])
    /\ End(LogOf(s)) = Len(L[currentTerm[s]])
    /\ \A p \in Server : matchIndex[s][p] <= End(LogOf(s))

CallsUnder(L) ==
  \A m \in Calls : m.term \in DOMAIN L /\ Under(CarriedBy(m), L[m.term])

RepliesUnder(L) ==
  /\ \A r \in Received("AppendEntriesReply") \cup SnapshotAcks : r.reqTerm \in DOMAIN L
  /\ \A r \in AppendAcks : r.match <= Len(L[r.reqTerm])

\* A leader still has the snapshots it sent, or later ones.
SnapshotsBehind ==
  /\ \A m \in SnapshotCalls : Leads(m.src, m.term) => m.index <= LogOf(m.src).base
  /\ \A r \in SnapshotAcks : Leads(r.dst, r.reqTerm) => r.index <= LogOf(r.dst).base

LinesInv(L) ==
  /\ Nested(L) /\ TermsUsed(L) /\ LogsUnder(L) /\ LeadersUnder(L) /\ CallsUnder(L)
  /\ RepliesUnder(L) /\ SnapshotsBehind

\* M are the lines after a step: one more for who wins, one longer for who writes.
Grows(L, M) ==
  /\ Extends(L, M) /\ Nested(M)
  /\ \A t \in DOMAIN M \ DOMAIN L : \E s \in Server :
       /\ Wins(s) /\ t = currentTerm[s] /\ Len(M[t]) = End(LogOf(s))
       /\ Share(L[Last(LogOf(s))], M[t], End(LogOf(s)))
  /\ \A s \in Server : role'[s] = "Leader" =>
       /\ currentTerm'[s] \in DOMAIN M /\ Under(LogOf(s)', M[currentTerm'[s]])
       /\ End(LogOf(s)') = Len(M[currentTerm'[s]])

\* The types and the invariants proved of elections and logs, on both sides of a step.
Sound == TypeOK /\ VotesGenuine /\ LogInv

Step == Sound /\ Sound' /\ GoodVotes /\ [Next]_vars /\ \A s \in Server : RoleStep(s)

LEMMA SoundSteps ==
  ASSUME Sound, TypeOK', [Next]_vars
  PROVE  Step
  <1>1. GoodVotes /\ GoodLogs /\ \A s \in Server : RoleStep(s)
    BY StepsKeepVotes, StepsKeepLogs, StepsOfRoles DEF Sound
  <1>2. VotesGenuine' /\ LogInv'
    BY <1>1, GoodVotesStayGenuine, GoodLogsStay DEF Sound
  <1>3. QED BY <1>1, <1>2 DEF Step, Sound

\* A winner's term is new.
LEMMA WonIsNew ==
  ASSUME Step, NEW L \in Lines, LinesInv(L), NEW s \in Server, Wins(s)
  PROVE  /\ currentTerm[s] \notin DOMAIN L /\ currentTerm[s] \in Nat /\ currentTerm[s] > 0
  <1>1. currentTerm[s] \in Nat /\ currentTerm[s] > 0
    BY DEF Step, Sound, Wins, Won, LogInv, InOffice, TypeOK, ElectionTyped
  <1>2. ASSUME currentTerm[s] \in DOMAIN L
        PROVE  FALSE
    <2>1. PICK c \in Server : Elected(c, currentTerm[s]) /\ Settled(c, currentTerm[s])
      BY <1>1, <1>2 DEF LinesInv, TermsUsed
    <2>2. c = s
      BY <2>1, ElectedOnce DEF Wins, Won
    <2>3. QED BY <1>1, <2>1, <2>2 DEF Settled, Wins, Won
  <1>3. QED BY <1>1, <1>2

LEMMA WinnerGrows ==
  ASSUME Step, NEW L \in Lines, LinesInv(L), NEW s \in Server, Wins(s)
  PROVE  \E M \in Lines : Grows(L, M)
  <1>. DEFINE t == currentTerm[s]
              f == LogOf(s)
              n == End(f)
              l == L[Last(f)]
              new == SubSeq(l, 1, n)
              M == [u \in DOMAIN L \cup {t} |-> IF u = t THEN new ELSE L[u]]
  <1>1. t \notin DOMAIN L /\ t \in Nat /\ t > 0
    BY WonIsNew
  <1>2. Nested(L) /\ Last(f) \in DOMAIN L /\ Under(f, l) /\ Last(f) <= t
    BY DEF LinesInv, LogsUnder, Rooted
  <1>3. f \in Piece /\ n \in Nat
    BY LogOfTyped, PieceTypes DEF Step, Sound
  <1>4. l \in Seq(Entry) /\ n <= Len(l) /\ Last(f) \in Nat
    BY <1>2, LineTypes DEF Under
  <1>5. new \in Seq(Entry) /\ Len(new) = n /\ \A i \in 1 .. n : new[i] = l[i]
    <2>1. Len(l) \in Nat
      BY <1>4, LenProperties
    <2>2. CASE n = 0
      BY <1>4, <2>2, SubSeqProperties
    <2>3. CASE n > 0
      <3>1. 1 \in 1 .. n + 1 /\ n \in 0 .. Len(l)
        BY <1>3, <1>4, <2>1, <2>3
      <3>2. QED BY <1>3, <1>4, <2>1, <3>1, SubSeqProperties
    <2>4. QED BY <1>3, <2>2, <2>3
  <1>. HIDE DEF new, l, n, f, t
  <1>6. Share(l, new, n)
    BY <1>4, <1>5 DEF Share
  <1>7. M[t] = new /\ \A u \in DOMAIN L : u # t /\ M[u] = L[u]
    BY <1>1
  <1>8. DOMAIN M = DOMAIN L \cup {t}
    OBVIOUS
  <1>9. M \in Lines
    <2>1. DOMAIN L \cup {t} \subseteq Nat /\ \A u \in DOMAIN L : L[u] \in Seq(Entry)
      BY <1>1, LineTypes
    <2>2. M \in [DOMAIN L \cup {t} -> Seq(Entry)]
      BY <1>5, <2>1
    <2>3. QED BY <2>1, <2>2 DEF Lines
  <1>. HIDE DEF M
  <1>10. Extends(L, M)
    <2>1. \A u \in DOMAIN L : Len(L[u]) \in Nat
      BY LineTypes
    <2>2. QED BY <1>7, <1>8, <2>1 DEF Extends, Share
  <1>11. Nested(M)
    <2>1. 0 \in DOMAIN M /\ M[0] = <<>>
      BY <1>2, <1>7, <1>8 DEF Nested
    <2>2. ASSUME NEW u \in DOMAIN L, NEW i \in 1 .. Len(M[u])
          PROVE  /\ M[u][i].term \in DOMAIN M /\ M[u][i].term <= u
                 /\ Share(M[M[u][i].term], M[u], i)
      BY <1>2, <1>7, <1>8, <2>2 DEF Nested
    <2>3. ASSUME NEW i \in 1 .. Len(M[t])
          PROVE  /\ M[t][i].term \in DOMAIN M /\ M[t][i].term <= t
                 /\ Share(M[M[t][i].term], M[t], i)
      <3>1. i \in 1 .. n /\ i \in 1 .. Len(l) /\ M[t][i] = l[i]
        BY <1>3, <1>4, <1>5, <1>7, LenProperties
      <3>2. l[i].term \in DOMAIN L /\ l[i].term <= Last(f) /\ Share(L[l[i].term], l, i)
        BY <1>2, <3>1 DEF Nested, l
      <3>3. l[i].term \in Nat /\ L[l[i].term] \in Seq(Entry)
        BY <3>2, LineTypes
      <3>4. Share(l, new, i)
        BY <1>3, <1>4, <1>5, <1>6, <3>1, SharedBelow
      <3>5. Share(L[l[i].term], new, i)
        BY <1>3, <1>4, <1>5, <3>1, <3>2, <3>3, <3>4, SharedThrough
      <3>6. l[i].term <= t
        BY <1>1, <1>2, <1>4, <3>2, <3>3
      <3>7. QED BY <1>7, <1>8, <3>1, <3>2, <3>5, <3>6
    <2>4. QED BY <1>8, <2>1, <2>2, <2>3 DEF Nested
  <1>12. ASSUME NEW u \in DOMAIN M \ DOMAIN L
         PROVE  \E d \in Server :
                  /\ Wins(d) /\ u = currentTerm[d] /\ Len(M[u]) = End(LogOf(d))
                  /\ Share(L[Last(LogOf(d))], M[u], End(LogOf(d)))
    BY <1>5, <1>6, <1>7, <1>8 DEF t, f, n, l
  <1>13. ASSUME NEW d \in Server, role'[d] = "Leader"
         PROVE  /\ currentTerm'[d] \in DOMAIN M /\ Under(LogOf(d)', M[currentTerm'[d]])
                /\ End(LogOf(d)') = Len(M[currentTerm'[d]])
    <2>1. currentTerm'[d] = currentTerm[d] /\ LogOf(d)' = LogOf(d)
      BY DEF Wins, KeepsLogs
    <2>2. CASE d = s
      <3>1. Under(f, new)
        BY <1>2, <1>3, <1>4, <1>5, <1>6, UnderShared DEF n
      <3>2. QED BY <1>5, <1>7, <1>8, <2>1, <2>2, <3>1 DEF t, f, n
    <2>3. CASE d # s
      <3>1. role[d] = "Leader"
        BY <1>13, <2>3 DEF Wins
      <3>2. QED BY <1>7, <1>8, <2>1, <3>1 DEF LinesInv, LeadersUnder
    <2>4. QED BY <2>2, <2>3
  <1>14. QED BY <1>9, <1>10, <1>11, <1>12, <1>13 DEF Grows
LEMMA WriterGrows ==
  ASSUME Step, NEW L \in Lines, LinesInv(L), NEW s \in Server, Written(s)
  PROVE  \E M \in Lines : Grows(L, M)
  <1>. DEFINE t == currentTerm[s]
              f == LogOf(s)
              n == End(f)
              l == L[t]
              e == EntryAt(LogOf(s)', End(LogOf(s)'))
              new == Append(l, e)
              M == [L EXCEPT ![t] = new]
  <1>1. /\ t \in DOMAIN L /\ Under(f, l) /\ n = Len(l) /\ role[s] = "Leader" /\ Nested(L)
        /\ Continues(LogOf(s)', f, t) /\ UNCHANGED <<currentTerm, role>>
        /\ \A d \in Server \ {s} : LogOf(d)' = LogOf(d)
    BY DEF LinesInv, LeadersUnder, Written
  <1>2. t \in Nat /\ t > 0
    BY <1>1 DEF Step, Sound, LogInv, InOffice, TypeOK, ElectionTyped
  <1>3. f \in Piece /\ f.base \in Nat /\ n \in Nat /\ f.base <= n
    BY LogOfTyped, PieceTypes DEF Step, Sound, Span
  <1>4. l \in Seq(Entry) /\ e \in Entry /\ e.term = t
    BY <1>1, LineTypes DEF Continues
  <1>5. ElectionSafety
    BY GenuineVotesElectOne DEF Step, Sound
  <1>. HIDE DEF t, f, n, l, e
  <1>6. /\ new \in Seq(Entry) /\ Len(new) = n + 1 /\ new[n + 1] = e
        /\ \A i \in 1 .. n : new[i] = l[i]
    BY <1>1, <1>4, AppendProperties
  <1>. HIDE DEF new
  <1>7. M[t] = new /\ DOMAIN M = DOMAIN L /\ \A u \in DOMAIN L : u # t => M[u] = L[u]
    BY <1>1 DEF l
  <1>8. M \in Lines
    <2>1. DOMAIN L \subseteq Nat /\ \A u \in DOMAIN L : L[u] \in Seq(Entry)
      BY LineTypes
    <2>2. M \in [DOMAIN L -> Seq(Entry)]
      <3>1. L = [u \in DOMAIN L |-> L[u]]
        BY DEF Lines
      <3>2. L \in [DOMAIN L -> Seq(Entry)]
        BY <2>1, <3>1
      <3>3. QED BY <1>6, <3>2
    <2>3. QED BY <2>1, <2>2 DEF Lines
  <1>. HIDE DEF M
  <1>9. Extends(L, M)
    <2>1. ASSUME NEW u \in DOMAIN L
          PROVE  u \in DOMAIN M /\ Share(L[u], M[u], Len(L[u]))
      <3>1. Len(L[u]) \in Nat
        BY LineTypes
      <3>2. CASE u = t
        BY <1>1, <1>3, <1>6, <1>7, <3>2 DEF Share, l
      <3>3. CASE u # t
        BY <1>7, <3>1, <3>3 DEF Share
      <3>4. QED BY <3>2, <3>3
    <2>2. QED BY <2>1 DEF Extends
  <1>10. Nested(M)
    <2>1. 0 \in DOMAIN M /\ M[0] = <<>>
      BY <1>1, <1>2, <1>7 DEF Nested
    <2>2. ASSUME NEW u \in DOMAIN M, NEW i \in 1 .. Len(M[u])
          PROVE  /\ M[u][i].term \in DOMAIN M /\ M[u][i].term <= u
                 /\ Share(M[M[u][i].term], M[u], i)
      <3>1. /\ u \in DOMAIN L /\ u \in Nat /\ Len(L[u]) \in Nat /\ M[u] \in Seq(Entry)
            /\ L[u] \in Seq(Entry) /\ Len(M[u]) \in Nat
        BY <1>7, <1>8, LineTypes
      <3>2. CASE i <= Len(L[u])
        <4>. DEFINE w == L[u][i].term
        <4>1. i \in 1 .. Len(L[u]) /\ Share(L[u], M[u], i)
          BY <1>8, <1>9, <3>1, <3>2, LongerLines
        <4>2. M[u][i] = L[u][i]
          BY <4>1 DEF Share
        <4>3. w \in DOMAIN L /\ w <= u /\ Share(L[w], L[u], i)
          BY <1>1, <3>1, <4>1 DEF Nested
        <4>. HIDE DEF w
        <4>4. L[w] \in Seq(Entry) /\ M[w] \in Seq(Entry) /\ Len(L[w]) \in Nat /\ i \in Nat
          BY <1>7, <1>8, <4>1, <4>3, LineTypes
        <4>5. i \in 0 .. Len(L[w])
          BY <4>3, <4>4 DEF Share
        <4>6. Share(L[w], M[w], i)
          BY <1>8, <1>9, <4>3, <4>5, LongerLines
        <4>7. Share(M[w], L[w], i)
          BY <4>6 DEF Share
        <4>8. Share(M[w], M[u], i)
          BY <3>1, <4>1, <4>3, <4>4, <4>7, SharedThrough
        <4>9. QED BY <1>7, <4>2, <4>3, <4>8 DEF w
      <3>3. CASE i > Len(L[u])
        <4>1. u = t
          BY <1>7, <3>1, <3>3
        <4>2. i = n + 1
          BY <1>1, <1>3, <1>6, <1>7, <3>1, <3>3, <4>1 DEF l
        <4>3. M[u][i].term = t
          BY <1>4, <1>6, <1>7, <4>1, <4>2
        <4>4. Share(M[t], M[t], i)
          BY <3>1, <4>1 DEF Share
        <4>5. QED BY <1>2, <1>7, <4>1, <4>3, <4>4
      <3>4. QED BY <3>1, <3>2, <3>3
    <2>3. QED BY <2>1, <2>2 DEF Nested
  <1>11. ASSUME NEW d \in Server, role'[d] = "Leader"
         PROVE  /\ currentTerm'[d] \in DOMAIN M /\ Under(LogOf(d)', M[currentTerm'[d]])
                /\ End(LogOf(d)') = Len(M[currentTerm'[d]])
    <2>1. role[d] = "Leader" /\ currentTerm'[d] = currentTerm[d]
      BY <1>1, <1>11
    <2>2. CASE d = s
      <3>. DEFINE g == LogOf(s)'
      <3>1. /\ g.base = f.base /\ g.term = f.term /\ End(g) = n + 1
            /\ \A i \in f.base + 1 .. n : EntryAt(g, i) = EntryAt(f, i)
            /\ EntryAt(g, n + 1) = e
        BY <1>1 DEF Continues, n, e
      <3>. HIDE DEF g
      <3>2. g.term = TermIn(new, g.base)
        <4>1. Share(l, new, n)
          BY <1>1, <1>3, <1>6 DEF Share
        <4>2. TermIn(l, f.base) = TermIn(new, f.base)
          BY <1>3, <1>4, <1>6, <4>1, SharedBelow
        <4>3. QED BY <1>1, <3>1, <4>2 DEF Under
      <3>3. \A i \in g.base + 1 .. End(g) : EntryAt(g, i) = new[i]
        <4>1. SUFFICES ASSUME NEW i \in f.base + 1 .. n + 1
                       PROVE  EntryAt(g, i) = new[i]
          BY <3>1
        <4>2. CASE i = n + 1
          BY <1>6, <3>1, <4>2
        <4>3. CASE i # n + 1
          <5>1. i \in f.base + 1 .. n /\ i \in 1 .. n
            BY <1>3, <4>1, <4>3
          <5>2. EntryAt(f, i) = l[i]
            BY <1>1, <5>1 DEF Under, n
          <5>3. QED BY <1>6, <3>1, <5>1, <5>2
        <4>4. QED BY <4>2, <4>3
      <3>4. Under(g, new) /\ End(g) = Len(new)
        BY <1>3, <1>6, <3>1, <3>2, <3>3 DEF Under
      <3>5. QED BY <1>1, <1>7, <2>1, <2>2, <3>4 DEF g, t
    <2>3. CASE d # s
      <3>1. currentTerm[d] # t
        BY <1>1, <1>5, <2>1, <2>3 DEF ElectionSafety, t
      <3>2. QED BY <1>1, <1>7, <2>1, <2>3, <3>1 DEF LinesInv, LeadersUnder
    <2>4. QED BY <2>2, <2>3
  <1>12. QED BY <1>7, <1>8, <1>9, <1>10, <1>11 DEF Grows

\* Who leads after the step led before it, with the same log or a longer one.
LEMMA LeaderKeeps ==
  ASSUME Step, NEW s \in Server, role'[s] = "Leader", ~Wins(s)
  PROVE  /\ role[s] = "Leader" /\ currentTerm'[s] = currentTerm[s]
         /\ \A p \in Server : MatchMoves(s, p) /\ NextMoves(s, p)
         /\ Cut(s) \/ Written(s)
         /\ LogOf(s)'.base >= LogOf(s).base /\ End(LogOf(s)') >= End(LogOf(s))
  <1>1. /\ role[s] = "Leader" /\ currentTerm'[s] = currentTerm[s]
        /\ \A p \in Server : MatchMoves(s, p) /\ NextMoves(s, p)
    BY LeadersMove DEF LeaderMoves, Step, Sound, RoleStep, Won
  <1>2. Cut(s) \/ Written(s)
    BY LogChanges DEF Step, Sound, Merged, Dropped, Heeds
  <1>3. LogOf(s)'.base >= LogOf(s).base /\ End(LogOf(s)') >= End(LogOf(s))
    <2>1. LogOf(s).base \in Nat /\ End(LogOf(s)) \in Nat
      BY LogOfTyped, PieceTypes DEF Step, Sound
    <2>2. QED BY <1>2, <2>1 DEF Cut, Part, Written, Continues
  <1>4. QED BY <1>1, <1>2, <1>3

LEMMA LogOfStays ==
  ASSUME Step, NEW s \in Server
  PROVE  LogOf(s) \in Piece /\ LogOf(s)' \in Piece
  <1>1. LogOf(s)' \in Pieces'
    BY DEF Pieces
  <1>2. QED BY <1>1, LogOfTyped, TypedNext DEF Step, Sound

LEMMA CalmGrows ==
  ASSUME Step, NEW L \in Lines, LinesInv(L), \A s \in Server : ~Wins(s) /\ ~Written(s)
  PROVE  Grows(L, L)
  <1>1. Extends(L, L)
    <2>1. \A u \in DOMAIN L : Len(L[u]) \in Nat
      BY LineTypes
    <2>2. QED BY <2>1 DEF Extends, Share
  <1>2. ASSUME NEW s \in Server, role'[s] = "Leader"
        PROVE  /\ currentTerm'[s] \in DOMAIN L /\ Under(LogOf(s)', L[currentTerm'[s]])
               /\ End(LogOf(s)') = Len(L[currentTerm'[s]])
    <2>1. role[s] = "Leader" /\ currentTerm'[s] = currentTerm[s] /\ Cut(s)
      BY <1>2, LeaderKeeps
    <2>2. /\ currentTerm[s] \in DOMAIN L /\ Under(LogOf(s), L[currentTerm[s]])
          /\ End(LogOf(s)) = Len(L[currentTerm[s]])
      BY <2>1 DEF LinesInv, LeadersUnder
    <2>3. L[currentTerm[s]] \in Seq(Entry)
      BY <2>2, LineTypes
    <2>4. Under(LogOf(s)', L[currentTerm[s]])
      BY <2>1, <2>2, <2>3, LogOfStays, UnderPart DEF Cut
    <2>5. QED BY <2>1, <2>2, <2>4 DEF Cut
  <1>3. QED BY <1>1, <1>2 DEF Grows, LinesInv

LEMMA LinesGrow ==
  ASSUME Step, NEW L \in Lines, LinesInv(L)
  PROVE  \E M \in Lines : Grows(L, M)
  BY WinnerGrows, WriterGrows, CalmGrows
\* What a lemma says of the state before a step it says of the state after it.
LEMMA CallSources == TypeOK => \A m \in Calls : m.src \in Server /\ CarriedBy(m) \in Piece
  BY CallTypes

LEMMA CallsNext ==
  ASSUME TypeOK'
  PROVE  \A m \in Calls' : m.src \in Server /\ CarriedBy(m) \in Piece
  <1>1. (TypeOK => \A m \in Calls : m.src \in Server /\ CarriedBy(m) \in Piece)'
    BY CallSources, PTL
  <1>2. QED BY <1>1 DEF CarriedBy

LEMMA LeadersElected ==
  TypeOK /\ VotesGenuine => \A c \in Server : role[c] = "Leader" => Elected(c, currentTerm[c])
  BY LeaderIsElected

LEMMA ElectedNext ==
  ASSUME TypeOK', VotesGenuine'
  PROVE  \A c \in Server : role'[c] = "Leader" => Elected(c, currentTerm[c])'
  <1>1. (TypeOK /\ VotesGenuine =>
           \A c \in Server : role[c] = "Leader" => Elected(c, currentTerm[c]))'
    BY LeadersElected, PTL
  <1>2. QED BY <1>1

\* What the leader has learnt of its followers does not pass the end of its log.
LEMMA MatchesBounded ==
  ASSUME Step, NEW L \in Lines, LinesInv(L), NEW s \in Server, role'[s] = "Leader"
  PROVE  \A p \in Server : matchIndex'[s][p] <= End(LogOf(s))
  <1>1. LogOf(s).base \in Nat /\ End(LogOf(s)) \in Nat /\ LogOf(s).base <= End(LogOf(s))
    BY LogOfTyped, PieceTypes DEF Step, Sound, Span
  <1>2. CASE Wins(s)
    BY <1>1, <1>2 DEF Wins
  <1>3. CASE ~Wins(s)
    <2>1. SUFFICES ASSUME NEW p \in Server
                   PROVE  matchIndex'[s][p] <= End(LogOf(s))
      OBVIOUS
    <2>2. role[s] = "Leader" /\ MatchMoves(s, p)
      BY <1>3, LeaderKeeps
    <2>3. matchIndex[s][p] <= End(LogOf(s)) /\ End(LogOf(s)) = Len(L[currentTerm[s]])
      BY <2>2 DEF LinesInv, LeadersUnder
    <2>4. ASSUME NEW r \in AppendAcks, r.reqTerm = currentTerm[s]
          PROVE  r.match <= End(LogOf(s))
      BY <2>3, <2>4 DEF LinesInv, RepliesUnder
    <2>5. ASSUME NEW r \in SnapshotAcks, r.dst = s, r.reqTerm = currentTerm[s]
          PROVE  r.index <= End(LogOf(s))
      <3>1. r.index <= LogOf(s).base
        BY <2>2, <2>5 DEF LinesInv, SnapshotsBehind, Leads
      <3>2. r.index \in Nat
        BY ReceivedTypes DEF Step, Sound, TypeOK, SnapshotAcks, InstallReplies
      <3>3. QED BY <1>1, <3>1, <3>2
    <2>6. QED BY <2>2, <2>3, <2>4, <2>5 DEF MatchMoves, Larger
  <1>4. QED BY <1>2, <1>3

\* Every log is cut out of the lines as they are after the step.
LEMMA LogsStayUnder ==
  ASSUME Step, NEW L \in Lines, LinesInv(L), NEW M \in Lines, Grows(L, M)
  PROVE  LogsUnder(M)'
  <1>1. SUFFICES ASSUME NEW s \in Server
                 PROVE  Rooted(M, LogOf(s)') /\ Last(LogOf(s)') <= currentTerm'[s]
    BY DEF LogsUnder, Rooted
  <1>. DEFINE f == LogOf(s)
              new == LogOf(s)'
  <1>2. f \in Piece /\ new \in Piece
    BY LogOfStays
  <1>3. Nested(L) /\ Rooted(L, f) /\ Last(f) <= currentTerm[s] /\ Extends(L, M) /\ Nested(M)
    BY DEF LinesInv, LogsUnder, Grows
  <1>4. currentTerm[s] \in Nat /\ currentTerm'[s] \in Nat /\ currentTerm'[s] >= currentTerm[s]
    BY DEF Step, Sound, TypeOK, ElectionTyped, GoodVotes, KeepsVotes
  <1>5. Last(f) \in Nat
    BY <1>3, LineTypes DEF Rooted
  <1>. HIDE DEF new, f
  <1>6. CASE Cut(s)
    <2>1. Part(new, f) /\ End(new) = End(f)
      BY <1>6 DEF Cut, new, f
    <2>2. Last(new) = Last(f)
      BY <1>2, <2>1, CutHas
    <2>3. L[Last(f)] \in Seq(Entry)
      BY <1>3, LineTypes DEF Rooted
    <2>4. Rooted(L, new)
      BY <1>2, <1>3, <2>1, <2>2, <2>3, UnderPart DEF Rooted
    <2>5. QED BY <1>2, <1>3, <1>4, <1>5, <2>2, <2>4, LongerHas DEF new
  <1>7. ASSUME NEW u \in DOMAIN M, Under(new, M[u]), u <= currentTerm'[s]
        PROVE  Rooted(M, new) /\ Last(new) <= currentTerm'[s]
    <2>1. 0 <= End(new)
      BY <1>2, PieceTypes
    <2>2. Rooted(M, new) /\ Last(new) <= u
      BY <1>2, <1>3, <1>7, <2>1, UnderHas
    <2>3. Last(new) \in Nat /\ u \in Nat
      BY <2>2, LineTypes DEF Rooted
    <2>4. QED BY <1>4, <1>7, <2>2, <2>3
  <1>8. ASSUME NEW m \in Calls, Heeds(s, m), Under(new, L[m.term])
        PROVE  Rooted(M, new) /\ Last(new) <= currentTerm'[s]
    <2>1. m.term \in DOMAIN L /\ m.term = currentTerm'[s]
      BY <1>8 DEF LinesInv, CallsUnder, Heeds
    <2>2. m.term \in DOMAIN M /\ Under(new, M[m.term])
      BY <1>2, <1>3, <1>8, <2>1, LongerLines
    <2>3. QED BY <1>4, <1>7, <2>1, <2>2
  <1>9. CASE Written(s)
    <2>1. role'[s] = "Leader"
      BY <1>9 DEF Written
    <2>2. currentTerm'[s] \in DOMAIN M /\ Under(new, M[currentTerm'[s]])
      BY <2>1 DEF Grows, new
    <2>3. QED BY <1>4, <1>7, <2>2 DEF new
  <1>10. CASE Merged(s)
    <2>0. PICK m \in AppendCalls : \E q : Heeds(s, m) /\ Glued(new, f, CarriedBy(m), q)
      BY <1>10 DEF Merged, new, f
    <2>1. PICK q : Heeds(s, m) /\ Glued(new, f, CarriedBy(m), q)
      BY <2>0
    <2>2. m \in Calls
      BY DEF Calls, AppendCalls
    <2>3. CarriedBy(m) \in Piece /\ m.term \in DOMAIN L /\ Under(CarriedBy(m), L[m.term])
      BY <2>2, CallTypes DEF LinesInv, CallsUnder, Step, Sound
    <2>4. Under(new, L[m.term])
      BY <1>2, <1>3, <2>1, <2>3, GluedUnder DEF Rooted
    <2>5. QED BY <1>8, <2>1, <2>2, <2>4 DEF new
  <1>11. CASE Dropped(s)
    <2>1. PICK m \in SnapshotCalls : Heeds(s, m) /\ new = CarriedBy(m)
      BY <1>11 DEF Dropped, new
    <2>2. m \in Calls
      BY DEF Calls, SnapshotCalls
    <2>3. Under(new, L[m.term])
      BY <2>1, <2>2 DEF LinesInv, CallsUnder
    <2>4. QED BY <1>8, <2>1, <2>2, <2>3 DEF new
  <1>12. QED BY <1>6, <1>9, <1>10, <1>11, LogChanges DEF Step, Sound

LEMMA LeadersStayUnder ==
  ASSUME Step, NEW L \in Lines, LinesInv(L), NEW M \in Lines, Grows(L, M)
  PROVE  LeadersUnder(M)'
  <1>1. SUFFICES ASSUME NEW s \in Server, role'[s] = "Leader"
                 PROVE  /\ currentTerm'[s] \in DOMAIN M /\ Under(LogOf(s)', M[currentTerm'[s]])
                        /\ End(LogOf(s)') = Len(M[currentTerm'[s]])
                        /\ \A p \in Server : matchIndex'[s][p] <= End(LogOf(s)')
    BY DEF LeadersUnder
  <1>2. End(LogOf(s)') >= End(LogOf(s)) /\ End(LogOf(s)) \in Nat /\ End(LogOf(s)') \in Nat
    <2>1. End(LogOf(s)) \in Nat /\ End(LogOf(s)') \in Nat
      BY LogOfStays, PieceTypes
    <2>2. Wins(s) => LogOf(s)' = LogOf(s)
      BY DEF Wins, KeepsLogs
    <2>3. QED BY <1>1, <2>1, <2>2, LeaderKeeps
  <1>3. \A p \in Server : matchIndex'[s][p] \in Nat /\ matchIndex'[s][p] <= End(LogOf(s))
    BY <1>1, MatchesBounded DEF Step, Sound, TypeOK, LeaderTyped
  <1>4. QED BY <1>1, <1>2, <1>3 DEF Grows

LEMMA CallsStayUnder ==
  ASSUME Step, NEW L \in Lines, LinesInv(L), NEW M \in Lines, Grows(L, M)
  PROVE  CallsUnder(M)'
  <1>1. SUFFICES ASSUME NEW m \in Calls'
                 PROVE  m.term \in DOMAIN M /\ Under(CarriedBy(m), M[m.term])
    BY DEF CallsUnder, CarriedBy
  <1>2. CarriedBy(m) \in Piece
    <2>1. CarriedBy(m) \in Pieces'
      BY DEF Pieces, CarriedBy
    <2>2. QED BY <2>1, TypedNext DEF Step, Sound
  <1>3. m.term \in DOMAIN L /\ Under(CarriedBy(m), L[m.term])
    <2>1. CASE m \in Calls
      BY <2>1 DEF LinesInv, CallsUnder
    <2>2. CASE Calling(m)
      <3>1. m.src \in Server
        BY CallsNext DEF Step, Sound
      <3>2. role[m.src] = "Leader" /\ currentTerm[m.src] = m.term /\ Part(CarriedBy(m), LogOf(m.src))
        BY <2>2 DEF Calling, Leads
      <3>3. m.term \in DOMAIN L /\ Under(LogOf(m.src), L[m.term])
        BY <3>1, <3>2 DEF LinesInv, LeadersUnder
      <3>4. LogOf(m.src) \in Piece /\ L[m.term] \in Seq(Entry)
        BY <3>1, <3>3, LogOfStays, LineTypes
      <3>5. QED BY <1>2, <3>2, <3>3, <3>4, UnderPart
    <2>3. QED BY <2>1, <2>2, CallsMade DEF Step, Sound
  <1>4. QED BY <1>2, <1>3, LongerLines DEF Grows

LEMMA RepliesStayUnder ==
  ASSUME Step, NEW L \in Lines, LinesInv(L), NEW M \in Lines, Grows(L, M)
  PROVE  RepliesUnder(M)'
  <1>1. \A u \in DOMAIN L : /\ u \in DOMAIN M /\ Len(L[u]) <= Len(M[u])
                            /\ Len(L[u]) \in Nat /\ Len(M[u]) \in Nat
    BY LongerLines, LineTypes DEF Grows
  <1>2. ASSUME NEW r \in network', r.kind \in {"AppendEntriesReply", "InstallSnapshotReply"}
        PROVE  /\ r.reqTerm \in DOMAIN L
               /\ r.kind = "AppendEntriesReply" /\ r.success => r.match <= Len(L[r.reqTerm])
    <2>1. CASE r \in network
      <3>1. r \in Received("AppendEntriesReply") \cup SnapshotAcks
        BY <1>2, <2>1 DEF Received, SnapshotAcks
      <3>2. r.kind = "AppendEntriesReply" /\ r.success => r \in AppendAcks
        BY <2>1 DEF AppendAcks, Received
      <3>3. QED BY <3>1, <3>2 DEF LinesInv, RepliesUnder
    <2>2. CASE r \notin network
      <3>1. ASSUME NEW m \in AppendCalls, AnswersAppend(r, m)
            PROVE  r.reqTerm \in DOMAIN L /\ r.match <= Len(L[r.reqTerm])
        <4>1. m \in Calls
          BY DEF AppendCalls, Calls
        <4>2. QED BY <3>1, <4>1 DEF AnswersAppend, LinesInv, CallsUnder, Under
      <3>2. ASSUME NEW m \in SnapshotCalls, Repeats(r, m)
            PROVE  r.reqTerm \in DOMAIN L
        <4>1. m \in Calls
          BY DEF SnapshotCalls, Calls
        <4>2. QED BY <3>2, <4>1 DEF Repeats, LinesInv, CallsUnder
      <3>3. QED BY <1>2, <2>2, <3>1, <3>2, Sent DEF Step, Sound
    <2>3. QED BY <2>1, <2>2
  <1>3. \A r \in (Received("AppendEntriesReply") \cup SnapshotAcks)' : r.reqTerm \in DOMAIN M
    BY <1>1, <1>2 DEF Received, SnapshotAcks
  <1>4. ASSUME NEW r \in AppendAcks'
        PROVE  r.match <= Len(M[r.reqTerm])
    <2>1. r \in network' /\ r.kind = "AppendEntriesReply" /\ r.success
      BY DEF AppendAcks, Received
    <2>2. r.match \in Nat
      <3>1. r \in Message
        BY <2>1 DEF Step, Sound, TypeOK
      <3>2. QED BY <2>1, <3>1 DEF Message, VoteRequests, VoteReplies, AppendRequests, AppendReplies,
                   InstallRequests, InstallReplies
    <2>3. QED BY <1>1, <1>2, <2>1, <2>2
  <1>5. QED BY <1>3, <1>4 DEF RepliesUnder

LEMMA SnapshotsStayBehind ==
  ASSUME Step, NEW L \in Lines, LinesInv(L)
  PROVE  SnapshotsBehind'
  <1>1. ASSUME NEW s \in Server, NEW m, Leads(s, m)', m \in DOMAIN L
        PROVE  Leads(s, m) /\ LogOf(s)'.base >= LogOf(s).base
    <2>1. ~Wins(s)
      BY <1>1, WonIsNew DEF Wins, Leads
    <2>2. QED BY <1>1, <2>1, LeaderKeeps DEF Leads
  <1>2. \A s \in Server : LogOf(s).base \in Nat /\ LogOf(s)'.base \in Nat
    BY LogOfStays, PieceTypes
  <1>3. ASSUME NEW m \in SnapshotCalls
        PROVE  /\ m.src \in Server /\ m.index \in Nat /\ m.term \in DOMAIN L
               /\ Leads(m.src, m.term)' => m.index <= LogOf(m.src)'.base
    <2>1. m \in Calls
      BY DEF SnapshotCalls, Calls
    <2>2. m.src \in Server /\ m.index \in Nat /\ m.term \in DOMAIN L
      BY <2>1, CallTypes DEF LinesInv, CallsUnder, Step, Sound
    <2>3. Leads(m.src, m.term) => m.index <= LogOf(m.src).base
      BY DEF LinesInv, SnapshotsBehind
    <2>4. QED BY <1>1, <1>2, <2>2, <2>3
  <1>4. ASSUME NEW m \in SnapshotCalls', Leads(m.src, m.term)'
        PROVE  m.index <= LogOf(m.src)'.base
    <2>1. m \in Calls' /\ m.kind = "InstallSnapshot"
      BY DEF SnapshotCalls, Calls, Received
    <2>2. CASE m \in Calls
      <3>1. m \in SnapshotCalls
        BY <2>1, <2>2 DEF SnapshotCalls, Calls, Received
      <3>2. QED BY <1>3, <1>4, <3>1
    <2>3. CASE Calling(m)
      <3>1. m.src \in Server
        BY <2>1, CallsNext DEF Step, Sound
      <3>2. m.index = LogOf(m.src).base /\ LogOf(m.src)' = LogOf(m.src)
        BY <2>1, <2>3, <3>1 DEF Calling, KeepsLogs
      <3>3. QED BY <1>2, <3>1, <3>2
    <2>4. QED BY <2>1, <2>2, <2>3, CallsMade DEF Step, Sound
  <1>5. ASSUME NEW r \in SnapshotAcks', Leads(r.dst, r.reqTerm)'
        PROVE  r.index <= LogOf(r.dst)'.base
    <2>1. r \in network' /\ r.kind = "InstallSnapshotReply"
      BY DEF SnapshotAcks, Received
    <2>2. CASE r \in network
      <3>1. r \in SnapshotAcks
        BY <2>1, <2>2 DEF SnapshotAcks, Received
      <3>2. r.dst \in Server /\ r.index \in Nat
        BY <3>1, ReceivedTypes DEF Step, Sound, TypeOK, SnapshotAcks, InstallReplies
      <3>3. r.reqTerm \in DOMAIN L
        BY <3>1 DEF LinesInv, RepliesUnder
      <3>4. Leads(r.dst, r.reqTerm) => r.index <= LogOf(r.dst).base
        BY <3>1 DEF LinesInv, SnapshotsBehind
      <3>5. QED BY <1>1, <1>2, <1>5, <3>2, <3>3, <3>4
    <2>3. CASE r \notin network
      <3>1. PICK m \in SnapshotCalls : Repeats(r, m) /\ r.index = m.index
        BY <2>1, <2>3, Sent DEF Step, Sound
      <3>2. r.dst = m.src /\ r.reqTerm = m.term
        BY <3>1 DEF Repeats
      <3>3. QED BY <1>3, <1>5, <3>1, <3>2
    <2>4. QED BY <2>2, <2>3
  <1>6. QED BY <1>4, <1>5 DEF SnapshotsBehind

\* The lines of a step's end are in order as those of its start are.
LEMMA LinesStay ==
  ASSUME Step, NEW L \in Lines, LinesInv(L), NEW M \in Lines, Grows(L, M)
  PROVE  LinesInv(M)'
  <1>1. Nested(M)
    BY DEF Grows
  <1>2. TermsUsed(M)'
    <2>1. SUFFICES ASSUME NEW t \in DOMAIN M, t > 0
                   PROVE  \E c \in Server : (Elected(c, t) /\ Settled(c, t))'
      BY DEF TermsUsed
    <2>2. t \in Nat
      BY LineTypes
    <2>3. CASE t \in DOMAIN L
      <3>1. PICK c \in Server : Elected(c, t) /\ Settled(c, t)
        BY <2>1, <2>3 DEF LinesInv, TermsUsed
      <3>2. QED BY <2>2, <3>1, ElectedStays, SettledStays DEF Step, Sound
    <2>4. CASE t \notin DOMAIN L
      <3>1. PICK s \in Server : Wins(s) /\ t = currentTerm[s]
        BY <2>4 DEF Grows
      <3>2. role'[s] = "Leader" /\ currentTerm'[s] = t
        BY <3>1 DEF Wins
      <3>3. Elected(s, currentTerm[s])'
        BY <3>2, ElectedNext DEF Step, Sound
      <3>4. Elected(s, t)'
        BY <3>2, <3>3 DEF Elected, Voted, Granted
      <3>5. Settled(s, t)'
        BY <3>2 DEF Settled
      <3>6. QED BY <3>4, <3>5
    <2>5. QED BY <2>3, <2>4
  <1>3. QED
    BY <1>1, <1>2, LogsStayUnder, LeadersStayUnder, CallsStayUnder, RepliesStayUnder,
       SnapshotsStayBehind
    DEF LinesInv, Nested
-----------------------------------------------------------------------------
\* What prevails goes on prevailing

\* A request of the election still going on says what the candidate has.
RequestsTrue ==
  \A m \in Received("RequestVote") :
    /\ m.term <= currentTerm[m.src]
    /\ role[m.src] = "Candidate" /\ currentTerm[m.src] = m.term =>
         m.lastLogIndex = End(LogOf(m.src)) /\ m.lastLogTerm = Last(LogOf(m.src))

\* No vote is on its way to a candidate that has not asked for it.
VotesAsked == \A r \in Received("RequestVoteReply") : r.reqTerm <= currentTerm[r.dst]

Asking == RequestsTrue /\ VotesAsked

\* Every line of term t or later has an entry of term t at n, the peers in A keep it,
\* and so does every candidate that one of them has voted for.
Prevails(L, n, t, A) ==
  /\ t \in DOMAIN L
  /\ \A u \in DOMAIN L : u >= t => n <= Len(L[u]) /\ TermIn(L[u], n) = t
  /\ \A v \in A : currentTerm[v] >= t /\ Has(L, LogOf(v), n, t)
  /\ \A v \in A : \A c \in Server :
       role[c] = "Candidate" /\ currentTerm[c] > t /\ currentTerm[c] \in Granted(v, c) =>
         Has(L, LogOf(c), n, t)

LEMMA AskingStays ==
  ASSUME Step, Asking
  PROVE  Asking'
  <1>1. \A s \in Server : /\ currentTerm[s] \in Nat /\ currentTerm'[s] \in Nat
                          /\ currentTerm'[s] >= currentTerm[s]
    BY DEF Step, Sound, TypeOK, ElectionTyped, GoodVotes, KeepsVotes
  <1>2. ASSUME NEW m \in Received("RequestVote")
        PROVE  m.src \in Server /\ m.term \in Nat
    BY ReceivedTypes DEF Step, Sound, TypeOK, VoteRequests
  <1>3. ASSUME NEW m \in Received("RequestVote")'
        PROVE  /\ m.term <= currentTerm'[m.src]
               /\ role'[m.src] = "Candidate" /\ currentTerm'[m.src] = m.term =>
                    m.lastLogIndex = End(LogOf(m.src)') /\ m.lastLogTerm = Last(LogOf(m.src)')
    <2>. DEFINE c == m.src
    <2>1. m \in network' /\ m.kind = "RequestVote"
      BY DEF Received
    <2>2. CASE m \in network
      <3>1. /\ m \in Received("RequestVote") /\ c \in Server /\ m.term \in Nat
            /\ m.term <= currentTerm[c]
        BY <1>2, <2>1, <2>2 DEF Received, Asking, RequestsTrue
      <3>2. ASSUME role'[c] = "Candidate", currentTerm'[c] = m.term
            PROVE  m.lastLogIndex = End(LogOf(c)') /\ m.lastLogTerm = Last(LogOf(c)')
        <4>1. role[c] = "Candidate" /\ currentTerm[c] = m.term
          BY <1>1, <3>1, <3>2 DEF Step, RoleStep
        <4>2. m.lastLogIndex = End(LogOf(c)) /\ m.lastLogTerm = Last(LogOf(c))
          BY <3>1, <4>1 DEF Asking, RequestsTrue
        <4>3. Cut(c)
          BY <3>1, <3>2, <4>1, LogChanges DEF Step, Sound, Written, Merged, Dropped, Heeds
        <4>4. End(LogOf(c)') = End(LogOf(c)) /\ Last(LogOf(c)') = Last(LogOf(c))
          BY <3>1, <4>3, LogOfStays, CutHas DEF Cut
        <4>5. QED BY <4>2, <4>4
      <3>3. QED BY <1>1, <3>1, <3>2
    <2>3. CASE m \notin network
      <3>1. Requesting(m)
        BY <2>1, <2>3, Sent DEF Step, Sound
      <3>2. c \in Server /\ m.term \in Nat
        <4>1. m \in Message
          BY <2>1 DEF Step, Sound, TypeOK
        <4>2. QED BY <2>1, <4>1 DEF Message, VoteRequests, VoteReplies, AppendRequests,
                     AppendReplies, InstallRequests, InstallReplies
      <3>3. QED BY <1>1, <3>1, <3>2 DEF Requesting, KeepsLogs
    <2>4. QED BY <2>2, <2>3
  <1>4. ASSUME NEW r \in Received("RequestVoteReply")'
        PROVE  r.reqTerm <= currentTerm'[r.dst]
    <2>1. r \in network' /\ r.kind = "RequestVoteReply"
      BY DEF Received
    <2>2. CASE r \in network
      <3>1. r \in Received("RequestVoteReply")
        BY <2>1, <2>2 DEF Received
      <3>2. r.dst \in Server /\ r.reqTerm \in Nat /\ r.reqTerm <= currentTerm[r.dst]
        BY <3>1, ReceivedTypes DEF Asking, VotesAsked, Step, Sound, TypeOK, VoteReplies
      <3>3. QED BY <1>1, <3>2
    <2>3. CASE r \notin network
      <3>1. PICK m \in Received("RequestVote") : Repeats(r, m)
        BY <2>1, <2>3, Sent DEF Step, Sound
      <3>2. r.dst = m.src /\ r.reqTerm = m.term /\ m.term <= currentTerm[m.src]
        BY <3>1 DEF Repeats, Asking, RequestsTrue
      <3>3. QED BY <1>1, <1>2, <3>2
    <2>4. QED BY <2>2, <2>3
  <1>5. QED BY <1>3, <1>4 DEF Asking, RequestsTrue, VotesAsked

\* A peer keeps what all lines from its term on have.
LEMMA HasStays ==
  ASSUME Step, NEW L \in Lines, LinesInv(L), NEW M \in Lines, Grows(L, M), NEW v \in Server,
         NEW n \in Nat, NEW t, Has(L, LogOf(v), n, t),
         \A u \in DOMAIN L : u >= currentTerm[v] => n <= Len(L[u]) /\ TermIn(L[u], n) = t
  PROVE  Has(M, LogOf(v)', n, t)
  <1>. DEFINE f == LogOf(v)
              new == LogOf(v)'
  <1>1. f \in Piece /\ new \in Piece /\ End(f) \in Nat
    BY LogOfStays, PieceTypes
  <1>2. Rooted(L, f) /\ Extends(L, M) /\ Nested(M) /\ Has(L, f, n, t)
    BY DEF LinesInv, LogsUnder, Grows
  <1>. HIDE DEF f, new
  <1>3. Rooted(M, f) /\ Has(M, f, n, t)
    BY <1>1, <1>2, LongerHas
  <1>4. ASSUME NEW u \in DOMAIN L, u >= currentTerm[v]
        PROVE  u \in DOMAIN M /\ n <= Len(M[u]) /\ TermIn(M[u], n) = t
    <2>1. n \in 0 .. Len(L[u]) /\ TermIn(L[u], n) = t
      BY <1>4, LineTypes
    <2>2. QED BY <1>2, <2>1, LongerLines
  <1>5. ASSUME NEW m \in Calls, Heeds(v, m)
        PROVE  /\ m.term \in DOMAIN M /\ n <= Len(M[m.term]) /\ TermIn(M[m.term], n) = t
               /\ CarriedBy(m) \in Piece /\ Under(CarriedBy(m), M[m.term])
    <2>1. m.term \in DOMAIN L /\ Under(CarriedBy(m), L[m.term]) /\ m.term >= currentTerm[v]
      BY <1>5 DEF LinesInv, CallsUnder, Heeds
    <2>2. CarriedBy(m) \in Piece
      BY CallTypes DEF Step, Sound
    <2>3. QED BY <1>2, <1>4, <2>1, <2>2, LongerLines
  <1>6. CASE Cut(v)
    <2>1. Part(new, f) /\ End(new) = End(f)
      BY <1>6 DEF Cut, new, f
    <2>2. QED BY <1>1, <1>3, <2>1, CutHas DEF Has, new
  <1>7. CASE Written(v)
    <2>1. /\ role[v] = "Leader" /\ role'[v] = "Leader" /\ currentTerm'[v] = currentTerm[v]
          /\ End(new) = End(f) + 1
      BY <1>7 DEF Written, Continues, new, f
    <2>. DEFINE u == currentTerm[v]
    <2>2. u \in DOMAIN L /\ u \in DOMAIN M /\ Under(new, M[u])
      BY <2>1 DEF LinesInv, LeadersUnder, Grows, new
    <2>3. u >= currentTerm[v]
      BY DEF Step, Sound, TypeOK, ElectionTyped
    <2>4. n <= End(new)
      BY <1>1, <1>2, <2>1 DEF Has
    <2>5. TermIn(M[u], n) = t
      BY <1>4, <2>2, <2>3
    <2>6. QED BY <1>1, <1>2, <2>2, <2>4, <2>5, UnderHas DEF new
  <1>8. CASE Merged(v)
    <2>0. PICK m \in AppendCalls : \E q :
            /\ Heeds(v, m) /\ Glued(new, f, CarriedBy(m), q) /\ q < End(CarriedBy(m))
            /\ q < End(f) => TermAt(f, q + 1) # TermAt(CarriedBy(m), q + 1)
      BY <1>8 DEF Merged, new, f
    <2>1. PICK q :
            /\ Heeds(v, m) /\ Glued(new, f, CarriedBy(m), q) /\ q < End(CarriedBy(m))
            /\ q < End(f) => TermAt(f, q + 1) # TermAt(CarriedBy(m), q + 1)
      BY <2>0
    <2>2. m \in Calls
      BY DEF Calls, AppendCalls
    <2>3. QED BY <1>1, <1>2, <1>3, <1>5, <2>1, <2>2, MergedHas DEF new
  <1>9. CASE Dropped(v)
    <2>1. PICK m \in SnapshotCalls :
            /\ Heeds(v, m) /\ new = CarriedBy(m) /\ m.index > f.base
            /\ ~(m.index <= End(f) /\ TermAt(f, m.index) = m.indexTerm)
      BY <1>9 DEF Dropped, new, f
    <2>2. m \in Calls
      BY DEF Calls, SnapshotCalls
    <2>. DEFINE g == CarriedBy(m)
    <2>3. g.base = m.index /\ g.term = m.indexTerm /\ End(g) = m.index
      BY <2>2, CallTypes DEF Step, Sound
    <2>4. /\ g \in Piece /\ Under(g, M[m.term]) /\ m.term \in DOMAIN M
          /\ n <= Len(M[m.term]) /\ TermIn(M[m.term], n) = t
      BY <1>5, <2>1, <2>2
    <2>. HIDE DEF g
    <2>5. /\ g.base = End(g) /\ g.base > f.base
          /\ ~(g.base <= End(f) /\ TermAt(f, g.base) = g.term)
      BY <2>1, <2>3
    <2>6. Has(M, g, n, t)
      BY <1>1, <1>2, <1>3, <2>4, <2>5, DroppedHas
    <2>7. QED BY <2>1, <2>6 DEF g, new
  <1>10. QED BY <1>6, <1>7, <1>8, <1>9, LogChanges DEF Step, Sound

\* What the check of RequestVote is for: a log that is up to date has what prevails.
LEMMA UpToDateHas ==
  ASSUME NEW L \in Lines, Nested(L), NEW f \in Piece, NEW g \in Piece, Rooted(L, f), Rooted(L, g),
         NEW n \in Nat, NEW t \in Nat, Has(L, f, n, t),
         \A u \in DOMAIN L : u >= t => n <= Len(L[u]) /\ TermIn(L[u], n) = t,
         Last(g) > Last(f) \/ (Last(g) = Last(f) /\ End(g) >= End(f))
  PROVE  Has(L, g, n, t)
  <1>1. /\ Last(f) \in DOMAIN L /\ Last(g) \in DOMAIN L /\ Last(f) \in Nat /\ Last(g) \in Nat
        /\ L[Last(f)] \in Seq(Entry) /\ L[Last(g)] \in Seq(Entry)
        /\ End(f) \in Nat /\ End(g) \in Nat /\ End(f) \in Span(f) /\ End(g) \in Span(g)
        /\ Len(L[Last(f)]) \in Nat /\ Len(L[Last(g)]) \in Nat
    BY LineTypes, PieceTypes DEF Rooted, Span
  <1>2. /\ End(f) \in 0 .. Len(L[Last(f)]) /\ TermIn(L[Last(f)], End(f)) = Last(f)
        /\ End(g) \in 0 .. Len(L[Last(g)]) /\ TermIn(L[Last(g)], End(g)) = Last(g)
    BY <1>1, UnderTerms DEF Rooted, Last
  <1>3. n <= End(f) /\ TermIn(L[Last(f)], n) = t
    BY DEF Has
  <1>4. t <= Last(f)
    <2>1. n \in 0 .. End(f)
      BY <1>1, <1>3
    <2>2. TermIn(L[Last(f)], n) <= TermIn(L[Last(f)], End(f))
      BY <1>1, <1>2, <2>1, LinesAscend
    <2>3. QED BY <1>2, <1>3, <2>2
  <1>5. CASE Last(g) = Last(f) /\ End(g) >= End(f)
    BY <1>1, <1>3, <1>5 DEF Has
  <1>6. CASE Last(g) > Last(f)
    <2>1. n <= Len(L[Last(g)]) /\ TermIn(L[Last(g)], n) = t /\ Last(g) > t
      BY <1>1, <1>4, <1>6
    <2>2. n <= End(g)
      <3>1. SUFFICES ASSUME End(g) < n PROVE FALSE
        BY <1>1
      <3>2. n \in 0 .. Len(L[Last(g)]) /\ End(g) \in 0 .. n
        BY <1>1, <2>1, <3>1
      <3>3. TermIn(L[Last(g)], End(g)) <= TermIn(L[Last(g)], n)
        BY <1>1, <3>2, LinesAscend
      <3>4. QED BY <1>1, <1>2, <2>1, <3>3
    <2>3. QED BY <2>1, <2>2 DEF Has
  <1>7. QED BY <1>5, <1>6
\* What prevails in A goes on prevailing there as long as nobody wins a later term
\* without the vote of one of them.
LEMMA PrevailsStays ==
  ASSUME Step, NEW L \in Lines, LinesInv(L), NEW M \in Lines, Grows(L, M), Asking,
         NEW n \in Nat, NEW t \in Nat, NEW A \in SUBSET Server, Prevails(L, n, t, A),
         \A c \in Server : Wins(c) /\ currentTerm[c] > t => votes'[c] \cap A # {}
  PROVE  Prevails(M, n, t, A)'
  <1>1. \A s \in Server : /\ currentTerm[s] \in Nat /\ currentTerm'[s] \in Nat
                          /\ currentTerm'[s] >= currentTerm[s]
    BY DEF Step, Sound, TypeOK, ElectionTyped, GoodVotes, KeepsVotes
  <1>2. /\ t \in DOMAIN L /\ t \in DOMAIN M /\ Extends(L, M) /\ Nested(L)
        /\ \A s \in Server : Rooted(L, LogOf(s)) /\ LogOf(s) \in Piece
    BY LogOfStays DEF Prevails, Grows, Extends, LinesInv, LogsUnder
  <1>3. ASSUME NEW u \in DOMAIN M, u >= t
        PROVE  n <= Len(M[u]) /\ TermIn(M[u], n) = t
    <2>1. CASE u \in DOMAIN L
      <3>1. n <= Len(L[u]) /\ TermIn(L[u], n) = t
        BY <1>3, <2>1 DEF Prevails
      <3>2. n \in 0 .. Len(L[u])
        BY <2>1, <3>1, LineTypes
      <3>3. QED BY <1>2, <2>1, <3>1, <3>2, LongerLines
    <2>2. CASE u \notin DOMAIN L
      <3>1. PICK s \in Server : /\ Wins(s) /\ u = currentTerm[s] /\ Len(M[u]) = End(LogOf(s))
                                /\ Share(L[Last(LogOf(s))], M[u], End(LogOf(s)))
        BY <2>2 DEF Grows
      <3>2. u > t
        BY <1>1, <1>2, <1>3, <2>2, <3>1
      <3>3. PICK v : v \in votes'[s] /\ v \in A
        BY <3>1, <3>2
      <3>4. role[s] = "Candidate" /\ currentTerm[s] \in Granted(v, s)
        BY <3>1, <3>3 DEF Wins, Won
      <3>5. n <= End(LogOf(s)) /\ TermIn(L[Last(LogOf(s))], n) = t
        BY <3>1, <3>2, <3>3, <3>4 DEF Prevails, Has
      <3>6. /\ End(LogOf(s)) \in Nat /\ M[u] \in Seq(Entry) /\ L[Last(LogOf(s))] \in Seq(Entry)
        BY <1>2, PieceTypes, LineTypes DEF Rooted
      <3>7. n \in 0 .. End(LogOf(s))
        BY <3>5, <3>6
      <3>8. TermIn(L[Last(LogOf(s))], n) = TermIn(M[u], n)
        BY <3>1, <3>6, <3>7, SharedBelow
      <3>9. QED BY <3>1, <3>5, <3>8
    <2>3. QED BY <2>1, <2>2
  <1>4. ASSUME NEW c \in Server, currentTerm[c] >= t, Has(L, LogOf(c), n, t)
        PROVE  Has(M, LogOf(c)', n, t)
    <2>1. ASSUME NEW u \in DOMAIN L, u >= currentTerm[c]
          PROVE  n <= Len(L[u]) /\ TermIn(L[u], n) = t
      <3>1. u \in Nat /\ u >= t
        BY <1>1, <1>4, <2>1, LineTypes
      <3>2. QED BY <3>1 DEF Prevails
    <2>2. QED BY <1>4, <2>1, HasStays
  <1>5. ASSUME NEW v \in A
        PROVE  v \in Server /\ currentTerm'[v] >= t /\ Has(M, LogOf(v)', n, t)
    <2>1. v \in Server /\ currentTerm[v] >= t /\ Has(L, LogOf(v), n, t)
      BY DEF Prevails
    <2>2. QED BY <1>1, <1>4, <2>1
  <1>6. ASSUME NEW v \in A, NEW c \in Server, role'[c] = "Candidate", currentTerm'[c] > t,
               currentTerm'[c] \in Granted(v, c)'
        PROVE  Has(M, LogOf(c)', n, t)
    <2>. DEFINE u == currentTerm'[c]
    <2>1. ASSUME u <= currentTerm[c]
          PROVE  role[c] = "Candidate" /\ currentTerm[c] = u
      BY <1>1, <1>6, <2>1 DEF Step, RoleStep
    <2>2. CASE u \in Granted(v, c)
      <3>1. u <= currentTerm[c]
        <4>1. CASE u = currentTerm[c]
          BY <1>1, <4>1
        <4>2. CASE \E r \in Received("RequestVoteReply") : r.dst = c /\ u = r.reqTerm
          BY <4>2 DEF Asking, VotesAsked
        <4>3. QED BY <2>2, <4>1, <4>2 DEF Granted, Received
      <3>2. role[c] = "Candidate" /\ currentTerm[c] = u
        BY <2>1, <3>1
      <3>3. Has(L, LogOf(c), n, t)
        BY <1>6, <2>2, <3>2 DEF Prevails
      <3>4. currentTerm[c] >= t
        BY <1>1, <1>6, <3>2
      <3>5. QED BY <1>4, <3>3, <3>4
    <2>3. CASE NewVote(v, c, u)
      <3>1. CASE v = c
        BY <1>5, <3>1
      <3>2. CASE v # c
        <4>1. PICK m \in Received("RequestVote") :
                m.src = c /\ m.dst = v /\ m.term = u /\ LogUpToDate(m, v)
          BY <2>3, <3>2 DEF NewVote
        <4>2. u <= currentTerm[c]
          BY <4>1 DEF Asking, RequestsTrue
        <4>3. role[c] = "Candidate" /\ currentTerm[c] = u
          BY <2>1, <4>2
        <4>4. m.lastLogIndex = End(LogOf(c)) /\ m.lastLogTerm = Last(LogOf(c))
          BY <4>1, <4>3 DEF Asking, RequestsTrue
        <4>5. v \in Server /\ Has(L, LogOf(v), n, t)
          BY <1>5 DEF Prevails
        <4>6. LastLogIndex(v) = End(LogOf(v)) /\ LastLogTerm(v) = Last(LogOf(v))
          BY <4>5, LogOfTyped DEF Step, Sound
        <4>7. \/ Last(LogOf(c)) > Last(LogOf(v))
              \/ Last(LogOf(c)) = Last(LogOf(v)) /\ End(LogOf(c)) >= End(LogOf(v))
          BY <4>1, <4>4, <4>6 DEF LogUpToDate
        <4>8. \A w \in DOMAIN L : w >= t => n <= Len(L[w]) /\ TermIn(L[w], n) = t
          BY DEF Prevails
        <4>9. Has(L, LogOf(c), n, t)
          BY <1>2, <4>5, <4>7, <4>8, UpToDateHas
        <4>10. currentTerm[c] >= t
          BY <1>1, <1>6, <4>3
        <4>11. QED BY <1>4, <4>9, <4>10
      <3>3. QED BY <3>1, <3>2
    <2>4. v \in Server
      OBVIOUS
    <2>5. QED BY <1>6, <2>2, <2>3, <2>4 DEF Step, GoodVotes
  <1>7. QED BY <1>2, <1>3, <1>5, <1>6 DEF Prevails

\* Entry n, of term t, is on a majority of the disks for good.
CommitPoint(L, n, t) == \E Q \in SUBSET Server : Majority(Q) /\ Prevails(L, n, t, Q)

LEMMA CommitPointStays ==
  ASSUME Step, NEW L \in Lines, LinesInv(L), NEW M \in Lines, Grows(L, M), Asking,
         NEW n \in Nat, NEW t \in Nat, CommitPoint(L, n, t)
  PROVE  CommitPoint(M, n, t)'
  <1>1. PICK Q \in SUBSET Server : Majority(Q) /\ Prevails(L, n, t, Q)
    BY DEF CommitPoint
  <1>2. ASSUME NEW c \in Server, Wins(c)
        PROVE  votes'[c] \cap Q # {}
    BY <1>1, <1>2, MajoritiesMeet DEF Wins, Won
  <1>3. Prevails(M, n, t, Q)'
    BY <1>1, <1>2, PrevailsStays
  <1>4. Majority(Q)'
    BY <1>1 DEF Majority
  <1>5. QED BY <1>3, <1>4 DEF CommitPoint
-----------------------------------------------------------------------------
\* What a leader counts

\* A majority that has not acknowledged index n to s votes in later terms.
Dead(s, n) ==
  \E R \in SUBSET Server : /\ Majority(R)
                           /\ \A v \in R : currentTerm[v] > currentTerm[s] /\ ~Acked(s, v, n)

\* An entry of the leader's own term can still be committed or prevails where it is.
Standing(L) ==
  \A s \in Server : role[s] = "Leader" =>
    \A n \in Indices(s) : LogTerm(s, n) = currentTerm[s] =>
      Dead(s, n) \/ Prevails(L, n, currentTerm[s], Ackers(s, n))

\* v acknowledges n to s in this step: it now has what s sent it.
NewAck(s, v, n) ==
  \E m \in AppendCalls : /\ m.term = currentTerm[s] /\ Heeds(v, m)
                         /\ Takes(v, CarriedBy(m)) /\ n <= End(CarriedBy(m))

LEMMA AckersGrow ==
  ASSUME Step, NEW L \in Lines, LinesInv(L), NEW s \in Server, role'[s] = "Leader", ~Wins(s),
         NEW n \in Nat, n > LogOf(s).base, NEW v \in Server, Acked(s, v, n)'
  PROVE  Acked(s, v, n) \/ NewAck(s, v, n)
  <1>1. /\ role[s] = "Leader" /\ currentTerm'[s] = currentTerm[s] /\ MatchMoves(s, v)
    BY LeaderKeeps
  <1>2. /\ matchIndex[s][v] \in Nat /\ LogOf(s).base \in Nat
    <2>1. LogOf(s).base \in Nat
      BY LogOfStays, PieceTypes
    <2>2. matchIndex[s][v] \in Nat
      BY DEF Step, Sound, TypeOK, LeaderTyped
    <2>3. QED BY <2>1, <2>2
  <1>3. CASE v = s
    BY <1>3 DEF Acked
  <1>4. CASE matchIndex'[s][v] >= n
    <2>1. CASE matchIndex'[s][v] = matchIndex[s][v]
      BY <1>4, <2>1 DEF Acked
    <2>2. CASE \E r \in AppendAcks : /\ r.dst = s /\ r.src = v /\ r.reqTerm = currentTerm[s]
                                     /\ matchIndex'[s][v] = Larger(matchIndex[s][v], r.match)
      <3>1. PICK r \in AppendAcks : /\ r.dst = s /\ r.src = v /\ r.reqTerm = currentTerm[s]
                                    /\ matchIndex'[s][v] = Larger(matchIndex[s][v], r.match)
        BY <2>2
      <3>2. matchIndex[s][v] >= n \/ r.match >= n
        BY <1>4, <3>1 DEF Larger
      <3>3. QED BY <3>1, <3>2 DEF Acked
    <2>3. CASE \E r \in SnapshotAcks : /\ r.dst = s /\ r.reqTerm = currentTerm[s]
                                       /\ matchIndex'[s][v] = Larger(matchIndex[s][v], r.index)
      <3>1. PICK r \in SnapshotAcks : /\ r.dst = s /\ r.reqTerm = currentTerm[s]
                                      /\ matchIndex'[s][v] = Larger(matchIndex[s][v], r.index)
        BY <2>3
      <3>2. r.index <= LogOf(s).base
        BY <1>1, <3>1 DEF LinesInv, SnapshotsBehind, Leads
      <3>3. r.index \in Nat
        BY <3>1, ReceivedTypes DEF Step, Sound, TypeOK, SnapshotAcks, InstallReplies
      <3>4. matchIndex[s][v] >= n
        BY <1>2, <1>4, <3>1, <3>2, <3>3 DEF Larger
      <3>5. QED BY <3>4 DEF Acked
    <2>4. QED BY <1>1, <2>1, <2>2, <2>3 DEF MatchMoves
  <1>5. CASE \E r \in AppendAcks' :
               r.src = v /\ r.dst = s /\ r.reqTerm = currentTerm'[s] /\ r.match >= n
    <2>1. PICK r \in AppendAcks' :
            r.src = v /\ r.dst = s /\ r.reqTerm = currentTerm'[s] /\ r.match >= n
      BY <1>5
    <2>2. r \in network' /\ r.kind = "AppendEntriesReply" /\ r.success
      BY DEF AppendAcks, Received
    <2>3. CASE r \in network
      <3>1. r \in AppendAcks
        BY <2>2, <2>3 DEF AppendAcks, Received
      <3>2. QED BY <1>1, <2>1, <3>1 DEF Acked
    <2>4. CASE r \notin network
      <3>1. PICK m \in AppendCalls : AnswersAppend(r, m)
        BY <2>2, <2>4, Sent DEF Step, Sound
      <3>2. QED BY <1>1, <2>1, <2>2, <3>1 DEF AnswersAppend, NewAck
    <2>5. QED BY <2>3, <2>4
  <1>6. QED BY <1>3, <1>4, <1>5 DEF Acked

LEMMA NewAckHas ==
  ASSUME Step, NEW L \in Lines, LinesInv(L), NEW M \in Lines, Grows(L, M), NEW s \in Server,
         NEW t \in Nat, t = currentTerm[s], NEW n \in Nat, NEW v \in Server, NewAck(s, v, n),
         n <= Len(M[t]), TermIn(M[t], n) = t
  PROVE  currentTerm'[v] = t /\ Has(M, LogOf(v)', n, t)
  <1>1. PICK m \in AppendCalls : /\ m.term = t /\ Heeds(v, m)
                                 /\ Takes(v, CarriedBy(m)) /\ n <= End(CarriedBy(m))
    BY DEF NewAck
  <1>. DEFINE g == CarriedBy(m)
              new == LogOf(v)'
  <1>2. m \in Calls
    BY DEF AppendCalls, Calls
  <1>3. t \in DOMAIN L /\ Under(g, L[t]) /\ g \in Piece /\ Extends(L, M) /\ Nested(M)
    BY <1>1, <1>2, CallTypes DEF LinesInv, CallsUnder, Grows, Step, Sound
  <1>4. t \in DOMAIN M /\ Under(g, M[t])
    BY <1>3, LongerLines
  <1>5. Rooted(M, new) /\ new \in Piece
    BY LogsStayUnder, LogOfStays DEF LogsUnder
  <1>6. End(g) \in Span(new) /\ TermAt(new, End(g)) = Last(g)
    BY <1>1 DEF Takes
  <1>. HIDE DEF g, new
  <1>7. /\ End(g) \in Span(g) /\ End(g) \in Nat /\ M[t] \in Seq(Entry)
    BY <1>3, <1>4, PieceTypes, LineTypes DEF Span
  <1>8. End(g) <= Len(M[t]) /\ TermAt(g, End(g)) = TermIn(M[t], End(g))
    BY <1>3, <1>4, <1>7, UnderTerms DEF Under
  <1>9. Has(M, new, n, TermIn(M[t], n))
    BY <1>1, <1>3, <1>4, <1>5, <1>6, <1>7, <1>8, TakenHas DEF Last, g
  <1>10. QED BY <1>1, <1>9 DEF Heeds, new

\* Who has moved on to a later term acknowledges nothing more.
LEMMA LateDoNotAck ==
  ASSUME Step, NEW L \in Lines, LinesInv(L), NEW s \in Server, role'[s] = "Leader", ~Wins(s),
         NEW n \in Nat, n > LogOf(s).base, NEW v \in Server, currentTerm[v] > currentTerm[s],
         ~Acked(s, v, n)
  PROVE  currentTerm'[v] > currentTerm'[s] /\ ~Acked(s, v, n)'
  <1>1. /\ currentTerm[v] \in Nat /\ currentTerm'[v] \in Nat /\ currentTerm'[v] >= currentTerm[v]
        /\ currentTerm'[s] = currentTerm[s] /\ currentTerm[s] \in Nat
    BY LeaderKeeps DEF Step, Sound, TypeOK, ElectionTyped, GoodVotes, KeepsVotes
  <1>2. ~NewAck(s, v, n)
    BY <1>1 DEF NewAck, Heeds
  <1>3. QED BY <1>1, <1>2, AckersGrow
\* An entry the leader had before the step.
LEMMA StandingKept ==
  ASSUME Step, NEW L \in Lines, LinesInv(L), NEW M \in Lines, Grows(L, M), Asking, Standing(L),
         NEW s \in Server, role'[s] = "Leader", ~Wins(s), NEW n \in Nat, n \in Indices(s),
         LogTerm(s, n) = currentTerm[s], NEW t \in Nat, t = currentTerm[s]
  PROVE  Dead(s, n)' \/ Prevails(M, n, currentTerm[s], Ackers(s, n))'
  <1>1. /\ role[s] = "Leader" /\ currentTerm'[s] = t /\ LogOf(s).base \in Nat
        /\ LogOf(s) \in Piece /\ n > LogOf(s).base /\ n \in Span(LogOf(s))
        /\ TermAt(LogOf(s), n) = t
    <2>1. LogOf(s) \in Piece /\ LogOf(s).base \in Nat /\ End(LogOf(s)) \in Nat
      BY LogOfStays, PieceTypes
    <2>2. n \in LogOf(s).base + 1 .. End(LogOf(s)) /\ TermAt(LogOf(s), n) = t
      BY LogOfTyped DEF Step, Sound
    <2>3. QED BY <2>1, <2>2, LeaderKeeps DEF Span
  <1>2. \A v \in Server : /\ currentTerm[v] \in Nat /\ currentTerm'[v] \in Nat
                          /\ currentTerm'[v] >= currentTerm[v]
    BY DEF Step, Sound, TypeOK, ElectionTyped, GoodVotes, KeepsVotes
  <1>3. ASSUME NEW R \in SUBSET Server, Majority(R),
               \A v \in R : currentTerm[v] > t /\ ~Acked(s, v, n)
        PROVE  Dead(s, n)'
    <2>1. \A v \in R : currentTerm'[v] > currentTerm'[s] /\ ~Acked(s, v, n)'
      BY <1>1, <1>3, LateDoNotAck
    <2>2. Majority(R)'
      BY <1>3 DEF Majority
    <2>3. QED BY <2>1, <2>2 DEF Dead
  <1>4. CASE Dead(s, n)
    BY <1>3, <1>4 DEF Dead
  <1>5. CASE Prevails(L, n, t, Ackers(s, n))
    <2>1. PICK A \in SUBSET Server : A = Ackers(s, n)
      BY DEF Ackers
    <2>2. CASE \E c \in Server : Wins(c) /\ currentTerm[c] > t /\ votes'[c] \cap A = {}
      <3>1. PICK c \in Server : Wins(c) /\ currentTerm[c] > t /\ votes'[c] \cap A = {}
        BY <2>2
      <3>2. /\ votes'[c] \in SUBSET Server /\ Majority(votes'[c])
            /\ \A v \in votes'[c] : currentTerm[c] \in Granted(v, c)
        BY <3>1 DEF Wins, Won
      <3>3. ASSUME NEW v \in votes'[c]
            PROVE  currentTerm[v] > t /\ ~Acked(s, v, n)
        <4>1. currentTerm[v] >= currentTerm[c]
          BY <1>2, <3>2 DEF Step, Sound, VotesGenuine, VotesBacked
        <4>2. v \notin Ackers(s, n)
          BY <2>1, <3>1
        <4>3. QED BY <1>2, <3>1, <3>2, <4>1, <4>2 DEF Ackers
      <3>4. QED BY <1>3, <3>2, <3>3
    <2>3. CASE \A c \in Server : Wins(c) /\ currentTerm[c] > t => votes'[c] \cap A # {}
      <3>1. Prevails(M, n, t, A)'
        BY <1>5, <2>1, <2>3, PrevailsStays
      <3>2. /\ t \in DOMAIN M
            /\ \A u \in DOMAIN M : u >= t => n <= Len(M[u]) /\ TermIn(M[u], n) = t
        BY <3>1 DEF Prevails
      <3>3. t >= t
        OBVIOUS
      <3>4. n <= Len(M[t]) /\ TermIn(M[t], n) = t
        BY <3>2, <3>3
      <3>5. ASSUME NEW v \in Server, Acked(s, v, n)', v \notin A
            PROVE  /\ currentTerm'[v] = t /\ Has(M, LogOf(v)', n, t)
                   /\ \A c \in Server : currentTerm'[c] \in Granted(v, c)' => currentTerm'[c] <= t
        <4>1. NewAck(s, v, n)
          BY <1>1, <2>1, <3>5, AckersGrow DEF Ackers
        <4>2. currentTerm'[v] = t /\ Has(M, LogOf(v)', n, t)
          BY <3>4, <4>1, NewAckHas
        <4>3. ASSUME NEW c \in Server, currentTerm'[c] \in Granted(v, c)'
              PROVE  currentTerm'[c] <= t
          <5>1. currentTerm'[v] >= currentTerm'[c]
            BY <1>2, <4>3 DEF Step, Sound, VotesGenuine, VotesBacked
          <5>2. QED BY <1>2, <4>2, <5>1
        <4>4. QED BY <4>2, <4>3
      <3>6. ASSUME NEW v \in Server, Acked(s, v, n)'
            PROVE  /\ currentTerm'[v] >= t /\ Has(M, LogOf(v)', n, t)
                   /\ \A c \in Server : role'[c] = "Candidate" /\ currentTerm'[c] > t
                                        /\ currentTerm'[c] \in Granted(v, c)' =>
                        Has(M, LogOf(c)', n, t)
        <4>1. CASE v \in A
          BY <3>1, <4>1 DEF Prevails
        <4>2. CASE v \notin A
          BY <1>2, <3>5, <3>6, <4>2
        <4>3. QED BY <4>1, <4>2
      <3>7. Prevails(M, n, currentTerm[s], Ackers(s, n))'
        BY <1>1, <3>2, <3>6 DEF Prevails, Ackers
      <3>8. QED BY <3>7
    <2>4. QED BY <2>2, <2>3
  <1>6. QED BY <1>1, <1>4, <1>5 DEF Standing

\* The entry the leader has just written.
LEMMA StandingWritten ==
  ASSUME Step, NEW L \in Lines, LinesInv(L), NEW M \in Lines, Grows(L, M), NEW s \in Server,
         role'[s] = "Leader", Written(s), NEW t \in Nat, t = currentTerm[s],
         NEW n \in Nat, n > End(LogOf(s)), n <= End(LogOf(s)'),
         n <= Len(M[t]), TermIn(M[t], n) = t
  PROVE  Dead(s, n)' \/ Prevails(M, n, currentTerm[s], Ackers(s, n))'
  <1>1. /\ role[s] = "Leader" /\ UNCHANGED <<currentTerm, role, network>> /\ currentTerm'[s] = t
        /\ t \in DOMAIN L /\ End(LogOf(s)) = Len(L[t])
    BY DEF Written, LinesInv, LeadersUnder
  <1>2. t \in DOMAIN M /\ Under(LogOf(s)', M[t]) /\ Nested(M) /\ Extends(L, M)
    BY <1>1 DEF Grows
  <1>3. \A c \in Server : ~Wins(c)
    BY <1>1 DEF Wins, Won
  <1>4. \A u \in DOMAIN M : u \in DOMAIN L
    BY <1>3 DEF Grows
  <1>5. \A v \in Server : currentTerm[v] \in Nat /\ currentTerm'[v] = currentTerm[v]
    BY <1>1 DEF Step, Sound, TypeOK, ElectionTyped
  <1>6. ASSUME NEW v \in Server, Acked(s, v, n)'
        PROVE  v = s
    <2>1. SUFFICES ASSUME v # s PROVE FALSE
      OBVIOUS
    <2>2. matchIndex'[s][v] \in Nat /\ matchIndex'[s][v] <= End(LogOf(s)) /\ End(LogOf(s)) \in Nat
      BY MatchesBounded, LogOfStays, PieceTypes DEF Step, Sound, TypeOK, LeaderTyped
    <2>3. PICK r \in AppendAcks' : r.reqTerm = t /\ r.match >= n
      BY <1>1, <1>6, <2>1, <2>2 DEF Acked
    <2>4. r \in AppendAcks
      BY <1>1 DEF AppendAcks, Received
    <2>5. r.match <= Len(L[t])
      BY <2>3, <2>4 DEF LinesInv, RepliesUnder
    <2>6. r.match \in Nat
      BY <2>4, ReceivedTypes DEF Step, Sound, TypeOK, AppendAcks, AppendReplies
    <2>7. QED BY <1>1, <2>2, <2>3, <2>5, <2>6
  <1>7. CASE \E u \in DOMAIN L : u > t
    <2>1. PICK u \in DOMAIN L : u > t
      BY <1>7
    <2>2. u \in Nat /\ u > 0
      BY <2>1, LineTypes
    <2>3. PICK c \in Server : Elected(c, u)
      BY <2>2 DEF LinesInv, TermsUsed
    <2>4. PICK Q \in SUBSET Server : Majority(Q) /\ \A v \in Q : Voted(v, c, u)
      BY <2>3 DEF Elected
    <2>5. \A v \in Q : currentTerm'[v] > currentTerm'[s] /\ v # s
      BY <1>1, <1>5, <2>1, <2>2, <2>4 DEF Voted
    <2>6. \A v \in Q : currentTerm'[v] > currentTerm'[s] /\ ~Acked(s, v, n)'
      BY <1>6, <2>5
    <2>7. Majority(Q)'
      BY <2>4 DEF Majority
    <2>8. QED BY <2>6, <2>7 DEF Dead
  <1>8. CASE \A u \in DOMAIN L : ~(u > t)
    <2>1. ASSUME NEW u \in DOMAIN M, u >= t
          PROVE  n <= Len(M[u]) /\ TermIn(M[u], n) = t
      <3>1. u = t
        <4>1. u \in Nat
          BY LineTypes
        <4>2. QED BY <1>4, <1>8, <2>1, <4>1
      <3>2. QED BY <3>1
    <2>2. currentTerm'[s] >= t /\ Has(M, LogOf(s)', n, t)
      <3>1. LogOf(s)' \in Piece
        BY LogOfStays
      <3>2. Has(M, LogOf(s)', n, TermIn(M[t], n))
        BY <1>2, <3>1, UnderHas
      <3>3. QED BY <1>1, <3>2
    <2>3. ASSUME NEW c \in Server, currentTerm'[c] \in Granted(s, c)'
          PROVE  ~(currentTerm'[c] > t)
      <3>1. currentTerm'[s] >= currentTerm'[c]
        BY <1>5, <2>3 DEF Step, Sound, VotesGenuine, VotesBacked
      <3>2. QED BY <1>1, <1>5, <3>1
    <2>4. Prevails(M, n, currentTerm[s], Ackers(s, n))'
      BY <1>1, <1>2, <1>6, <2>1, <2>2, <2>3 DEF Prevails, Ackers
    <2>5. QED BY <2>4
  <1>9. QED BY <1>7, <1>8

LEMMA StandingStays ==
  ASSUME Step, NEW L \in Lines, LinesInv(L), NEW M \in Lines, Grows(L, M), Asking, Standing(L)
  PROVE  Standing(M)'
  <1>1. SUFFICES ASSUME NEW s \in Server, role'[s] = "Leader", NEW n \in Indices(s)',
                        LogTerm(s, n)' = currentTerm'[s]
                 PROVE  Dead(s, n)' \/ Prevails(M, n, currentTerm[s], Ackers(s, n))'
    BY DEF Standing
  <1>. DEFINE f == LogOf(s)
              new == LogOf(s)'
  <1>2. f \in Piece /\ new \in Piece
    BY LogOfStays
  <1>3. /\ f.base \in Nat /\ End(f) \in Nat /\ new.base \in Nat /\ End(new) \in Nat
    BY <1>2, PieceTypes
  <1>4. PICK t \in Nat : t = currentTerm'[s]
    BY DEF Step, Sound, TypeOK, ElectionTyped
  <1>5. n \in new.base + 1 .. End(new) /\ TermAt(new, n) = t
    BY <1>1, <1>4 DEF Indices, LogTerm, LastLogIndex, LogEntry, LogOf, End, TermAt, EntryAt
  <1>6. n \in Nat /\ n \in Span(new)
    BY <1>3, <1>5 DEF Span
  <1>7. ~Wins(s)
    <2>1. SUFFICES ASSUME Wins(s) PROVE FALSE
      OBVIOUS
    <2>2. new = f /\ currentTerm[s] = t
      BY <1>4, <2>1 DEF Wins, KeepsLogs
    <2>3. Rooted(L, f) /\ Nested(L) /\ L[Last(f)] \in Seq(Entry)
      BY LineTypes DEF LinesInv, LogsUnder, Rooted
    <2>4. n \in 0 .. Len(L[Last(f)]) /\ t = TermIn(L[Last(f)], n)
      BY <1>2, <1>5, <1>6, <2>2, <2>3, UnderTerms DEF Rooted
    <2>5. t \in DOMAIN L
      BY <2>3, <2>4, LinesAscend DEF Rooted
    <2>6. QED BY <2>1, <2>2, <2>5, WonIsNew
  <1>8. /\ role[s] = "Leader" /\ currentTerm[s] = t /\ new.base >= f.base
        /\ Cut(s) \/ Written(s)
    BY <1>1, <1>4, <1>7, LeaderKeeps
  <1>9. t \in DOMAIN M /\ Under(new, M[t]) /\ Extends(L, M)
    BY <1>1, <1>4 DEF Grows
  <1>10. n <= Len(M[t]) /\ TermIn(M[t], n) = t
    <2>1. M[t] \in Seq(Entry) /\ Len(M[t]) \in Nat
      BY <1>9, LineTypes
    <2>2. n \in 0 .. Len(M[t]) /\ TermAt(new, n) = TermIn(M[t], n)
      BY <1>2, <1>6, <1>9, <2>1, UnderTerms
    <2>3. QED BY <1>5, <2>1, <2>2
  <1>11. CASE n <= End(f)
    <2>1. n \in f.base + 1 .. End(f) /\ n \in Span(f)
      BY <1>3, <1>5, <1>6, <1>8, <1>11 DEF Span
    <2>2. t \in DOMAIN L /\ Under(f, L[t]) /\ L[t] \in Seq(Entry)
      BY <1>8, LineTypes DEF LinesInv, LeadersUnder
    <2>3. n \in 0 .. Len(L[t]) /\ TermAt(f, n) = TermIn(L[t], n)
      BY <1>2, <2>1, <2>2, UnderTerms
    <2>4. TermAt(f, n) = t
      BY <1>9, <1>10, <2>2, <2>3, LongerLines
    <2>5. n \in Indices(s) /\ LogTerm(s, n) = currentTerm[s]
      BY <1>8, <2>1, <2>4, LogOfTyped DEF Step, Sound
    <2>6. QED BY <1>1, <1>6, <1>7, <1>8, <2>5, StandingKept
  <1>12. CASE n > End(f)
    <2>1. Written(s)
      <3>1. ~Cut(s)
        BY <1>3, <1>5, <1>12 DEF Cut
      <3>2. QED BY <1>8, <3>1
    <2>2. n <= End(new)
      BY <1>3, <1>5
    <2>3. QED BY <1>1, <1>6, <1>8, <1>10, <1>12, <2>1, <2>2, StandingWritten
  <1>13. QED BY <1>3, <1>6, <1>11, <1>12
-----------------------------------------------------------------------------
\* What is committed

\* Index i is not above one of the points in P that was committed in term t or before.
Safe(L, T, P, i, t) == \E n \in P : i <= n /\ TermIn(L[T], n) <= t

\* P are the indices that leaders have committed at, all in the line of T, N the last.
Points(L, N, T, P) ==
  /\ T \in DOMAIN L /\ N \in P /\ N <= Len(L[T]) /\ TermIn(L[T], N) = T
  /\ \A n \in P : n <= N /\ CommitPoint(L, n, TermIn(L[T], n))

\* All lines from term t on agree on what was committed in t or before.
LEMMA SafeLine ==
  ASSUME NEW L \in Lines, Nested(L), NEW N \in Nat, NEW T \in Nat, NEW P \in SUBSET Nat,
         Points(L, N, T, P), NEW i \in Nat, NEW t \in Nat, Safe(L, T, P, i, t)
  PROVE  /\ T \in DOMAIN L /\ i <= N /\ i \in 0 .. Len(L[T])
         /\ \A u \in DOMAIN L : u >= t => /\ i <= Len(L[u]) /\ Share(L[u], L[T], i)
                                          /\ TermIn(L[u], i) = TermIn(L[T], i)
  <1>1. PICK n \in P : i <= n /\ TermIn(L[T], n) <= t
    BY DEF Safe
  <1>2. /\ T \in DOMAIN L /\ n \in Nat /\ n <= N /\ N <= Len(L[T])
        /\ CommitPoint(L, n, TermIn(L[T], n))
    BY DEF Points
  <1>3. L[T] \in Seq(Entry) /\ Len(L[T]) \in Nat
    BY <1>2, LineTypes
  <1>4. n \in 0 .. Len(L[T]) /\ i \in 0 .. n /\ i \in 0 .. Len(L[T]) /\ i <= N
    BY <1>1, <1>2, <1>3
  <1>5. TermIn(L[T], n) \in Nat
    BY <1>2, <1>4, LineTypes
  <1>6. ASSUME NEW u \in DOMAIN L, u >= t
        PROVE  /\ i <= Len(L[u]) /\ Share(L[u], L[T], i)
               /\ TermIn(L[u], i) = TermIn(L[T], i)
    <2>1. u \in Nat /\ L[u] \in Seq(Entry) /\ Len(L[u]) \in Nat
      BY LineTypes
    <2>2. u >= TermIn(L[T], n)
      BY <1>1, <1>5, <1>6, <2>1
    <2>3. n <= Len(L[u]) /\ TermIn(L[u], n) = TermIn(L[T], n)
      BY <1>2, <2>2 DEF CommitPoint, Prevails
    <2>4. Share(L[u], L[T], n)
      BY <1>2, <1>3, <1>4, <2>3, LinesMeet
    <2>5. Share(L[u], L[T], i) /\ TermIn(L[u], i) = TermIn(L[T], i)
      BY <1>2, <1>3, <1>4, <2>1, <2>4, SharedBelow
    <2>6. QED BY <2>5 DEF Share
  <1>7. QED BY <1>2, <1>4, <1>6

\* The lines grow behind the last point only.
LEMMA TermsStay ==
  ASSUME NEW L \in Lines, NEW M \in Lines, Grows(L, M),
         NEW N \in Nat, NEW T \in Nat, NEW P \in SUBSET Nat, Points(L, N, T, P)
  PROVE  \A i \in 0 .. N : TermIn(M[T], i) = TermIn(L[T], i) /\ TermIn(L[T], i) \in Nat
  <1>1. T \in DOMAIN L /\ N <= Len(L[T]) /\ Extends(L, M)
    BY DEF Points, Grows
  <1>2. L[T] \in Seq(Entry) /\ Len(L[T]) \in Nat
    BY <1>1, LineTypes
  <1>3. T \in DOMAIN M /\ Len(L[T]) <= Len(M[T]) /\ Share(L[T], M[T], Len(L[T]))
    BY <1>1 DEF Extends, Share
  <1>4. QED
    <2>1. SUFFICES ASSUME NEW i \in 0 .. N
                   PROVE  TermIn(M[T], i) = TermIn(L[T], i) /\ TermIn(L[T], i) \in Nat
      OBVIOUS
    <2>2. i \in 0 .. Len(L[T])
      BY <1>1, <1>2
    <2>3. QED BY <1>1, <2>2, LongerLines, LineTypes

\* The points hold in the lines as they are after a step.
LEMMA PointsStay ==
  ASSUME Step, NEW L \in Lines, LinesInv(L), NEW M \in Lines, Grows(L, M), Asking,
         NEW N \in Nat, NEW T \in Nat, NEW P \in SUBSET Nat, Points(L, N, T, P)
  PROVE  /\ Points(M, N, T, P)'
         /\ \A i \in 0 .. N : TermIn(M[T], i) = TermIn(L[T], i)
         /\ \A k \in 1 .. N : M[T][k] = L[T][k]
         /\ \A i \in Nat, t \in Nat : Safe(L, T, P, i, t) => Safe(M, T, P, i, t)
  <1>1. /\ T \in DOMAIN L /\ N \in P /\ N <= Len(L[T]) /\ TermIn(L[T], N) = T
        /\ \A n \in P : n \in Nat /\ n <= N /\ CommitPoint(L, n, TermIn(L[T], n))
        /\ Extends(L, M)
    BY DEF Points, Grows
  <1>2. L[T] \in Seq(Entry) /\ Len(L[T]) \in Nat
    BY <1>1, LineTypes
  <1>3. T \in DOMAIN M /\ Len(L[T]) <= Len(M[T]) /\ Share(L[T], M[T], Len(L[T]))
    BY <1>1 DEF Extends, Share
  <1>4. ASSUME NEW i \in 0 .. N
        PROVE  /\ TermIn(M[T], i) = TermIn(L[T], i) /\ TermIn(L[T], i) \in Nat
    BY TermsStay
  <1>5. \A k \in 1 .. N : M[T][k] = L[T][k]
    BY <1>1, <1>2, <1>3 DEF Share
  <1>6. \A n \in P : n \in 0 .. N
    BY <1>1
  <1>7. \A i \in Nat, t \in Nat : Safe(L, T, P, i, t) => Safe(M, T, P, i, t)
    BY <1>4, <1>6 DEF Safe
  <1>8. ASSUME NEW n \in P
        PROVE  n <= N /\ CommitPoint(M, n, TermIn(M[T], n))'
    <2>1. PICK t \in Nat : t = TermIn(L[T], n)
      BY <1>4, <1>6
    <2>2. CommitPoint(M, n, t)' /\ t = TermIn(M[T], n)
      BY <1>1, <1>4, <1>6, <2>1, CommitPointStays
    <2>3. QED BY <1>1, <2>2
  <1>9. N <= Len(M[T]) /\ TermIn(M[T], N) = T
    <2>1. Len(M[T]) \in Nat /\ N \in 0 .. N
      BY <1>3, LineTypes
    <2>2. QED BY <1>1, <1>2, <1>3, <1>4, <2>1
  <1>10. QED BY <1>1, <1>3, <1>4, <1>5, <1>7, <1>8, <1>9 DEF Points

\* A point that was just committed is in one line with those before it.
LEMMA PointAdded ==
  ASSUME NEW L \in Lines, Nested(L), NEW N \in Nat, NEW T \in Nat, NEW P \in SUBSET Nat,
         Points(L, N, T, P), NEW n \in Nat, NEW t \in DOMAIN L, n <= Len(L[t]),
         TermIn(L[t], n) = t, CommitPoint(L, n, t)
  PROVE  \E T2 \in Nat : /\ Points(L, Larger(N, n), T2, P \cup {n}) /\ T2 \in DOMAIN L
                         /\ Share(L[T], L[T2], N) /\ Share(L[t], L[T2], n)
  <1>1. /\ T \in DOMAIN L /\ N \in P /\ N <= Len(L[T]) /\ TermIn(L[T], N) = T
        /\ \A p \in P : p \in Nat /\ p <= N /\ CommitPoint(L, p, TermIn(L[T], p))
    BY DEF Points
  <1>2. /\ t \in Nat /\ L[t] \in Seq(Entry) /\ Len(L[t]) \in Nat
        /\ L[T] \in Seq(Entry) /\ Len(L[T]) \in Nat
    BY <1>1, LineTypes
  <1>3. T <= t => N <= Len(L[t]) /\ TermIn(L[t], N) = T
    BY <1>1, <1>2 DEF CommitPoint, Prevails
  <1>4. t <= T => n <= Len(L[T]) /\ TermIn(L[T], n) = t
    BY <1>1, <1>2 DEF CommitPoint, Prevails
  <1>5. CASE n > N
    <2>1. T <= t
      <3>1. SUFFICES ASSUME t < T PROVE FALSE
        BY <1>2
      <3>2. n <= Len(L[T]) /\ TermIn(L[T], n) = t
        BY <1>2, <1>4, <3>1
      <3>3. n \in 0 .. Len(L[T]) /\ N \in 0 .. n
        BY <1>2, <1>5, <3>2
      <3>4. TermIn(L[T], N) <= TermIn(L[T], n)
        BY <1>1, <3>3, LinesAscend
      <3>5. QED BY <1>1, <1>2, <3>1, <3>2, <3>4
    <2>2. Share(L[T], L[t], N)
      BY <1>1, <1>3, <2>1, LinesMeet
    <2>3. Share(L[t], L[t], n)
      BY <1>2 DEF Share
    <2>4. ASSUME NEW p \in P
          PROVE  p <= n /\ CommitPoint(L, p, TermIn(L[t], p))
      <3>1. p \in 0 .. N
        BY <1>1
      <3>2. TermIn(L[t], p) = TermIn(L[T], p)
        BY <1>2, <2>2, <3>1, SharedBelow
      <3>3. QED BY <1>1, <1>5, <3>1, <3>2
    <2>5. Larger(N, n) = n
      BY <1>5 DEF Larger
    <2>6. Points(L, n, t, P \cup {n})
      BY <2>4 DEF Points
    <2>7. QED BY <1>2, <2>2, <2>3, <2>5, <2>6
  <1>6. CASE n <= N
    <2>1. t <= T
      <3>1. SUFFICES ASSUME T < t PROVE FALSE
        BY <1>2
      <3>2. N <= Len(L[t]) /\ TermIn(L[t], N) = T
        BY <1>2, <1>3, <3>1
      <3>3. N \in 0 .. Len(L[t]) /\ n \in 0 .. N
        BY <1>2, <1>6, <3>2
      <3>4. TermIn(L[t], n) <= TermIn(L[t], N)
        BY <3>3, LinesAscend
      <3>5. QED BY <1>1, <1>2, <3>1, <3>2, <3>4
    <2>2. n <= Len(L[T]) /\ TermIn(L[T], n) = t
      BY <1>4, <2>1
    <2>3. Share(L[t], L[T], n)
      BY <1>1, <2>2, LinesMeet
    <2>4. Share(L[T], L[T], N)
      BY <1>1 DEF Share
    <2>5. Larger(N, n) = N
      BY <1>6 DEF Larger
    <2>6. Points(L, N, T, P \cup {n})
      BY <1>1, <1>6, <2>2 DEF Points
    <2>7. QED BY <1>1, <2>3, <2>4, <2>5, <2>6
  <1>7. n > N \/ n <= N
    OBVIOUS
  <1>8. QED BY ONLY <1>5, <1>6, <1>7
\* What s has at index i is committed, in its term or before.
Kept(L, T, P, s, i) == Safe(L, T, P, i, currentTerm[s]) /\ Has(L, LogOf(s), i, TermIn(L[T], i))

CommitsSafe(L, T, P) ==
  \A s \in Server : LogOf(s).base <= commitIndex[s] /\ Kept(L, T, P, s, commitIndex[s])

\* So is what a leader tells others to take for committed.
CallsSafe(L, T, P) ==
  /\ \A m \in AppendCalls : /\ m.leaderCommit <= End(CarriedBy(m))
                            /\ Safe(L, T, P, m.leaderCommit, m.term)
  /\ \A m \in SnapshotCalls : Safe(L, T, P, m.index, m.term)

DeliverySafe == \A s \in Server : \A i \in Nat : OnTheWay(s, i) => i <= commitIndex[s]

LEMMA SafeBelow ==
  ASSUME NEW L \in Lines, NEW T \in DOMAIN L, NEW P \in SUBSET Nat, \A n \in P : n <= Len(L[T]),
         NEW i \in Nat, NEW t \in Nat, Safe(L, T, P, i, t),
         NEW j \in Nat, j <= i, NEW u \in Nat, u >= t
  PROVE  Safe(L, T, P, j, u)
  <1>1. PICK n \in P : i <= n /\ TermIn(L[T], n) <= t
    BY DEF Safe
  <1>2. n \in 0 .. Len(L[T])
    BY LineTypes
  <1>3. n \in Nat /\ TermIn(L[T], n) \in Nat
    BY <1>2, LineTypes
  <1>4. j <= n /\ TermIn(L[T], n) <= u
    BY <1>1, <1>3
  <1>5. QED BY <1>4 DEF Safe

LEMMA PointsTyped ==
  ASSUME NEW L \in Lines, NEW N \in Nat, NEW T \in Nat, NEW P \in SUBSET Nat, Points(L, N, T, P)
  PROVE  T \in DOMAIN L /\ (\A n \in P : n <= Len(L[T])) /\ Len(L[T]) \in Nat
  <1>1. Len(L[T]) \in Nat
    BY LineTypes DEF Points
  <1>2. QED BY <1>1 DEF Points

LEMMA KeptStays ==
  ASSUME Step, NEW L \in Lines, LinesInv(L), NEW M \in Lines, Grows(L, M), Asking,
         NEW N \in Nat, NEW T \in Nat, NEW P \in SUBSET Nat, Points(L, N, T, P),
         NEW s \in Server, NEW i \in Nat, Kept(L, T, P, s, i)
  PROVE  Kept(M, T, P, s, i)'
  <1>1. /\ currentTerm[s] \in Nat /\ currentTerm'[s] \in Nat /\ currentTerm'[s] >= currentTerm[s]
    BY DEF Step, Sound, TypeOK, ElectionTyped, GoodVotes, KeepsVotes
  <1>2. Safe(L, T, P, i, currentTerm[s]) /\ Has(L, LogOf(s), i, TermIn(L[T], i)) /\ Nested(L)
    BY DEF Kept, LinesInv
  <1>3. i <= N /\ \A u \in DOMAIN L : u >= currentTerm[s] =>
                    i <= Len(L[u]) /\ TermIn(L[u], i) = TermIn(L[T], i)
    BY <1>1, <1>2, SafeLine
  <1>4. Has(M, LogOf(s)', i, TermIn(L[T], i))
    BY <1>2, <1>3, HasStays
  <1>5. TermIn(M[T], i) = TermIn(L[T], i)
    <2>1. \A k \in 0 .. N : TermIn(M[T], k) = TermIn(L[T], k)
      BY TermsStay
    <2>2. i \in 0 .. N
      BY <1>3
    <2>3. QED BY <2>1, <2>2
  <1>6. Safe(L, T, P, i, currentTerm'[s])
    <2>1. T \in DOMAIN L /\ (\A n \in P : n <= Len(L[T])) /\ i <= i
      BY PointsTyped
    <2>2. PICK t \in Nat : t = currentTerm'[s]
      BY <1>1
    <2>3. Safe(L, T, P, i, t)
      BY <1>1, <1>2, <2>1, <2>2, SafeBelow
    <2>4. QED BY <2>2, <2>3
  <1>7. Safe(M, T, P, i, currentTerm'[s])
    BY <1>1, <1>6, PointsStay
  <1>8. QED BY <1>4, <1>5, <1>7 DEF Kept

\* What a call says is committed, up to where the log agrees with its line.
LEMMA KeptTaken ==
  ASSUME Step, NEW L \in Lines, LinesInv(L), NEW M \in Lines, Grows(L, M), Asking,
         NEW N \in Nat, NEW T \in Nat, NEW P \in SUBSET Nat, Points(L, N, T, P),
         NEW s \in Server, NEW m \in Calls, Heeds(s, m),
         NEW j \in Span(LogOf(s)'), TermAt(LogOf(s)', j) = TermAt(CarriedBy(m), j),
         j \in Span(CarriedBy(m)), NEW i \in Nat, i <= j, Safe(L, T, P, i, m.term)
  PROVE  Kept(M, T, P, s, i)'
  <1>. DEFINE g == CarriedBy(m)
              new == LogOf(s)'
              u == m.term
  <1>1. /\ u \in DOMAIN L /\ Under(g, L[u]) /\ g \in Piece /\ u \in Nat /\ Nested(L)
        /\ Extends(L, M) /\ Nested(M) /\ currentTerm'[s] = u
    BY CallTypes DEF LinesInv, CallsUnder, Grows, Step, Sound, Heeds
  <1>2. u \in DOMAIN M /\ Under(g, M[u])
    BY <1>1, LongerLines
  <1>3. Rooted(M, new) /\ new \in Piece
    BY LogsStayUnder, LogOfStays DEF LogsUnder
  <1>4. j \in Span(new) /\ j \in Span(g) /\ TermAt(new, j) = TermAt(g, j)
    OBVIOUS
  <1>. HIDE DEF g, new, u
  <1>5. M[u] \in Seq(Entry) /\ Len(M[u]) \in Nat /\ L[u] \in Seq(Entry) /\ Len(L[u]) \in Nat
    BY <1>1, <1>2, LineTypes
  <1>6. j \in 0 .. Len(M[u]) /\ TermAt(g, j) = TermIn(M[u], j)
    BY <1>1, <1>2, <1>4, <1>5, UnderTerms
  <1>7. Has(M, new, i, TermIn(M[u], i))
    <2>1. j <= Len(M[u])
      BY <1>5, <1>6
    <2>2. QED BY <1>1, <1>2, <1>3, <1>4, <1>6, <2>1, TakenHas
  <1>8. /\ i <= N /\ i <= Len(L[u]) /\ TermIn(L[u], i) = TermIn(L[T], i)
    <2>1. Safe(L, T, P, i, u)
      BY DEF u
    <2>2. i <= N /\ \A w \in DOMAIN L : w >= u =>
                      i <= Len(L[w]) /\ TermIn(L[w], i) = TermIn(L[T], i)
      BY <1>1, <2>1, SafeLine
    <2>3. u >= u
      BY <1>1
    <2>4. QED BY <1>1, <2>2, <2>3
  <1>9. TermIn(M[u], i) = TermIn(L[u], i)
    <2>1. i \in 0 .. Len(L[u])
      BY <1>5, <1>8
    <2>2. QED BY <1>1, <2>1, LongerLines
  <1>10. TermIn(M[T], i) = TermIn(L[T], i)
    <2>1. i \in 0 .. N
      BY <1>8
    <2>2. QED BY <2>1, PointsStay
  <1>11. Safe(M, T, P, i, u)
    <2>1. Safe(L, T, P, i, u)
      BY DEF u
    <2>2. QED BY <1>1, <2>1, PointsStay
  <1>12. Has(M, new, i, TermIn(M[T], i))
    BY <1>7, <1>8, <1>9, <1>10
  <1>13. QED BY <1>1, <1>11, <1>12 DEF Kept, new

\* What is below what s keeps it keeps as well.
LEMMA KeptBelow ==
  ASSUME TypeOK, NEW L \in Lines, LinesInv(L), NEW N \in Nat, NEW T \in Nat, NEW P \in SUBSET Nat,
         Points(L, N, T, P), NEW s \in Server, NEW i \in Nat, Kept(L, T, P, s, i),
         NEW j \in Nat, j <= i
  PROVE  Kept(L, T, P, s, j)
  <1>. DEFINE f == LogOf(s)
  <1>1. /\ f \in Piece /\ currentTerm[s] \in Nat /\ Nested(L) /\ Rooted(L, f)
    BY LogOfTyped DEF TypeOK, ElectionTyped, LinesInv, LogsUnder
  <1>2. Safe(L, T, P, i, currentTerm[s]) /\ Has(L, f, i, TermIn(L[T], i))
    BY DEF Kept
  <1>. HIDE DEF f
  <1>3. T \in DOMAIN L /\ i <= Len(L[T]) /\ Len(L[T]) \in Nat /\ L[T] \in Seq(Entry)
    <2>1. T \in DOMAIN L /\ i \in 0 .. Len(L[T])
      BY <1>1, <1>2, SafeLine
    <2>2. QED BY <2>1, LineTypes
  <1>4. Share(L[Last(f)], L[T], i) /\ L[Last(f)] \in Seq(Entry)
    BY <1>1, <1>2, <1>3, HasMeets, LineTypes DEF Rooted
  <1>5. TermIn(L[Last(f)], j) = TermIn(L[T], j)
    <2>1. j \in 0 .. i
      OBVIOUS
    <2>2. QED BY <1>3, <1>4, <2>1, SharedBelow
  <1>6. End(f) \in Nat /\ j <= End(f)
    BY <1>1, <1>2, PieceTypes DEF Has
  <1>7. Safe(L, T, P, j, currentTerm[s])
    BY <1>1, <1>2, PointsTyped, SafeBelow
  <1>8. QED BY <1>5, <1>6, <1>7 DEF Kept, Has, f
-----------------------------------------------------------------------------
\* How what is committed gets around

\* s moves its commitIndex up to a point, its log being what it was.
Advances(L, T, P, s) ==
  /\ LogOf(s)' = LogOf(s) /\ commitIndex'[s] > commitIndex[s]
  /\ Kept(L, T, P, s, commitIndex'[s])

\* s keeps its commitIndex and all that is on the way to its state machine, or crashes.
Holding(s) == commitIndex'[s] >= commitIndex[s] \/ \A i : ~OnTheWay(s, i)'

LEMMA TakenCommitIsSafe ==
  ASSUME Step, NEW L \in Lines, LinesInv(L), NEW M \in Lines, Grows(L, M), Asking,
         NEW N \in Nat, NEW T \in Nat, NEW P \in SUBSET Nat, Points(L, N, T, P),
         CommitsSafe(L, T, P), CallsSafe(L, T, P), NEW s \in Server, TakesCommit(s)
  PROVE  /\ LogOf(s)'.base <= commitIndex'[s] /\ Kept(M, T, P, s, commitIndex[s])'
         /\ commitIndex'[s] >= commitIndex[s]
  <1>1. PICK m \in AppendCalls :
          /\ Heeds(s, m) /\ Takes(s, CarriedBy(m)) /\ LogOf(s)'.base = LogOf(s).base
          /\ m.leaderCommit > commitIndex[s]
          /\ commitIndex'[s] = Smaller(m.leaderCommit, End(LogOf(s)'))
    BY DEF TakesCommit
  <1>2. m \in Calls
    BY DEF AppendCalls, Calls
  <1>. DEFINE g == CarriedBy(m)
              new == LogOf(s)'
  <1>3. g \in Piece /\ new \in Piece /\ m.leaderCommit \in Nat /\ commitIndex[s] \in Nat
    BY <1>1, <1>2, CallTypes, LogOfStays DEF Step, Sound, TypeOK, CommitTyped
  <1>4. /\ End(g) \in Nat /\ End(g) \in Span(g) /\ End(new) \in Nat /\ new.base \in Nat
        /\ End(g) \in Span(new) /\ TermAt(new, End(g)) = TermAt(g, End(g))
    <2>1. End(g) \in Span(new) /\ TermAt(new, End(g)) = TermAt(g, End(g))
      BY <1>1 DEF Takes, Last
    <2>. HIDE DEF g, new
    <2>2. /\ End(g) \in Nat /\ End(g) \in Span(g) /\ End(new) \in Nat /\ new.base \in Nat
      BY <1>3, PieceTypes DEF Span
    <2>3. QED BY <2>1, <2>2
  <1>5. m.leaderCommit <= End(g) /\ Safe(L, T, P, m.leaderCommit, m.term)
        /\ new.base <= commitIndex[s]
    BY <1>1 DEF CallsSafe, CommitsSafe
  <1>6. End(g) <= End(new)
    BY <1>4 DEF Span
  <1>7. commitIndex'[s] = m.leaderCommit
    BY <1>1, <1>3, <1>4, <1>5, <1>6 DEF Smaller
  <1>8. PICK i \in Nat : i = m.leaderCommit
    BY <1>3
  <1>9. Kept(M, T, P, s, i)'
    BY <1>1, <1>2, <1>4, <1>5, <1>8, KeptTaken
  <1>10. Kept(M, T, P, s, commitIndex[s])'
    BY <1>7, <1>8, <1>9
  <1>11. new.base <= commitIndex'[s] /\ commitIndex'[s] >= commitIndex[s]
    BY <1>1, <1>3, <1>4, <1>5, <1>7
  <1>12. QED BY <1>10, <1>11

LEMMA TakenSnapshotIsSafe ==
  ASSUME Step, NEW L \in Lines, LinesInv(L), NEW M \in Lines, Grows(L, M), Asking,
         NEW N \in Nat, NEW T \in Nat, NEW P \in SUBSET Nat, Points(L, N, T, P),
         CommitsSafe(L, T, P), CallsSafe(L, T, P), NEW s \in Server, TakesSnapshot(s)
  PROVE  /\ LogOf(s)'.base <= commitIndex'[s] /\ Kept(M, T, P, s, commitIndex[s])'
         /\ commitIndex'[s] >= commitIndex[s]
  <1>1. PICK m \in SnapshotCalls :
          /\ Heeds(s, m) /\ LogOf(s)'.base = m.index /\ LogOf(s)'.term = m.indexTerm
          /\ commitIndex'[s] = Larger(commitIndex[s], m.index)
    BY DEF TakesSnapshot
  <1>2. m \in Calls
    BY DEF SnapshotCalls, Calls
  <1>. DEFINE g == CarriedBy(m)
              new == LogOf(s)'
  <1>3. /\ g \in Piece /\ new \in Piece /\ m.index \in Nat /\ commitIndex[s] \in Nat
        /\ g.base = m.index /\ g.term = m.indexTerm /\ End(g) = m.index
    BY <1>1, <1>2, CallTypes, LogOfStays DEF Step, Sound, TypeOK, CommitTyped
  <1>4. /\ m.index \in Span(new) /\ m.index \in Span(g)
        /\ TermAt(new, m.index) = TermAt(g, m.index)
    BY <1>1, <1>3, PieceTypes DEF TermAt
  <1>5. Safe(L, T, P, m.index, m.term)
    BY <1>1 DEF CallsSafe
  <1>6. commitIndex'[s] >= commitIndex[s] /\ new.base <= commitIndex'[s]
    BY <1>1, <1>3 DEF Larger
  <1>7. CASE commitIndex[s] > m.index
    <2>1. commitIndex'[s] = commitIndex[s]
      BY <1>1, <1>7 DEF Larger
    <2>2. PICK i \in Nat : i = commitIndex[s]
      BY <1>3
    <2>3. Kept(L, T, P, s, i)
      BY <2>2 DEF CommitsSafe
    <2>4. Kept(M, T, P, s, i)'
      BY <2>3, KeptStays
    <2>5. Kept(M, T, P, s, commitIndex[s])'
      BY <2>1, <2>2, <2>4
    <2>6. QED BY <1>6, <2>5
  <1>8. CASE ~(commitIndex[s] > m.index)
    <2>1. commitIndex'[s] = m.index
      BY <1>1, <1>8 DEF Larger
    <2>2. PICK i \in Nat : i = m.index
      BY <1>3
    <2>3. i <= i
      OBVIOUS
    <2>4. Kept(M, T, P, s, i)'
      BY <1>1, <1>2, <1>4, <1>5, <2>2, <2>3, KeptTaken
    <2>5. Kept(M, T, P, s, commitIndex[s])'
      BY <2>1, <2>2, <2>4
    <2>6. QED BY <1>6, <2>5
  <1>9. QED BY <1>7, <1>8

LEMMA CommitsStay ==
  ASSUME Step, NEW L \in Lines, LinesInv(L), NEW M \in Lines, Grows(L, M), Asking,
         NEW N \in Nat, NEW T \in Nat, NEW P \in SUBSET Nat, Points(L, N, T, P),
         CommitsSafe(L, T, P), CallsSafe(L, T, P), DeliverySafe, NEW s \in Server,
         Follows(s) \/ Advances(L, T, P, s)
  PROVE  /\ LogOf(s)'.base <= commitIndex'[s] /\ Kept(M, T, P, s, commitIndex[s])'
         /\ Holding(s)
  <1>1. /\ commitIndex[s] \in Nat /\ commitIndex'[s] \in Nat /\ LogOf(s).base \in Nat
        /\ LogOf(s)'.base \in Nat
    BY LogOfStays, PieceTypes DEF Step, Sound, TypeOK, CommitTyped
  <1>2. PICK i \in Nat : i = commitIndex'[s]
    BY <1>1
  <1>3. LogOf(s).base <= commitIndex[s] /\ Kept(L, T, P, s, commitIndex[s])
    BY DEF CommitsSafe
  <1>4. ASSUME Kept(L, T, P, s, i)
        PROVE  Kept(M, T, P, s, commitIndex[s])'
    <2>1. Kept(M, T, P, s, i)'
      BY <1>4, KeptStays
    <2>2. QED BY <1>2, <2>1
  <1>5. CASE Stays(s)
    <2>1. LogOf(s)'.base <= commitIndex'[s] /\ i = commitIndex[s]
      BY <1>1, <1>2, <1>3, <1>5 DEF Stays, DeliverySafe
    <2>2. Holding(s)
      BY <1>1, <1>5 DEF Stays, Holding
    <2>3. QED BY <1>3, <1>4, <2>1, <2>2
  <1>6. CASE TakesCommit(s)
    BY <1>6, TakenCommitIsSafe DEF Holding
  <1>7. CASE TakesSnapshot(s)
    BY <1>7, TakenSnapshotIsSafe DEF Holding
  <1>8. CASE Falls(s)
    <2>1. i = LogOf(s).base /\ LogOf(s)' = LogOf(s) /\ Holding(s)
      BY <1>2, <1>8 DEF Falls, Holding
    <2>2. i <= commitIndex[s]
      BY <1>3, <2>1
    <2>3. Kept(L, T, P, s, i)
      BY <1>1, <1>3, <2>2, KeptBelow DEF Step, Sound
    <2>4. LogOf(s)'.base <= commitIndex'[s]
      BY <1>1, <1>2, <2>1
    <2>5. QED BY <1>4, <2>1, <2>3, <2>4
  <1>9. CASE Advances(L, T, P, s)
    <2>1. LogOf(s)'.base <= commitIndex'[s] /\ Holding(s) /\ Kept(L, T, P, s, i)
      BY <1>1, <1>2, <1>3, <1>9 DEF Advances, Holding
    <2>2. QED BY <1>4, <2>1
  <1>10. QED BY <1>5, <1>6, <1>7, <1>8, <1>9 DEF Follows

LEMMA CallsStaySafe ==
  ASSUME Step, NEW L \in Lines, LinesInv(L), NEW M \in Lines, Grows(L, M), Asking,
         NEW N \in Nat, NEW T \in Nat, NEW P \in SUBSET Nat, Points(L, N, T, P),
         CommitsSafe(L, T, P), CallsSafe(L, T, P)
  PROVE  CallsSafe(M, T, P)'
  <1>1. ASSUME NEW m \in Calls
        PROVE  /\ m.term \in Nat
               /\ m \in AppendCalls => m.leaderCommit \in Nat
               /\ m \in SnapshotCalls => m.index \in Nat
    BY CallTypes DEF Step, Sound
  <1>2. \A i \in Nat, t \in Nat : Safe(L, T, P, i, t) => Safe(M, T, P, i, t)
    BY PointsStay
  <1>3. ASSUME NEW m \in Calls', Calling(m)
        PROVE  LET s == m.src IN
               /\ s \in Server /\ currentTerm[s] = m.term /\ commitIndex[s] \in Nat
               /\ m.term \in Nat /\ Safe(L, T, P, commitIndex[s], m.term)
               /\ commitIndex[s] <= End(LogOf(s)) /\ LogOf(s).base <= commitIndex[s]
               /\ LogOf(s).base \in Nat
    <2>1. m.src \in Server
      BY CallsNext DEF Step, Sound
    <2>2. currentTerm[m.src] = m.term /\ m.term \in Nat /\ commitIndex[m.src] \in Nat
      BY <1>3, <2>1 DEF Calling, Leads, Step, Sound, TypeOK, ElectionTyped, CommitTyped
    <2>3. LogOf(m.src).base <= commitIndex[m.src] /\ LogOf(m.src).base \in Nat
      BY <2>1, LogOfStays, PieceTypes DEF CommitsSafe
    <2>4. Kept(L, T, P, m.src, commitIndex[m.src])
      BY <2>1 DEF CommitsSafe
    <2>5. QED BY <2>1, <2>2, <2>3, <2>4 DEF Kept, Has
  <1>4. ASSUME NEW m \in AppendCalls'
        PROVE  m.leaderCommit <= End(CarriedBy(m)) /\ Safe(M, T, P, m.leaderCommit, m.term)
    <2>1. m \in Calls' /\ m.kind = "AppendEntries"
      BY DEF AppendCalls, Calls, Received
    <2>2. CASE m \in Calls
      <3>1. m \in AppendCalls
        BY <2>1, <2>2 DEF AppendCalls, Calls, Received
      <3>2. QED BY <1>1, <1>2, <2>2, <3>1 DEF CallsSafe
    <2>3. CASE Calling(m)
      <3>1. End(CarriedBy(m)) = End(LogOf(m.src)) /\ m.leaderCommit = commitIndex[m.src]
        BY <2>1, <2>3 DEF Calling
      <3>2. /\ m.term \in Nat /\ m.leaderCommit \in Nat /\ m.leaderCommit <= End(CarriedBy(m))
            /\ Safe(L, T, P, m.leaderCommit, m.term)
        BY <1>3, <2>1, <2>3, <3>1
      <3>3. QED BY <1>2, <3>2
    <2>4. QED BY <2>1, <2>2, <2>3, CallsMade DEF Step, Sound
  <1>5. ASSUME NEW m \in SnapshotCalls'
        PROVE  Safe(M, T, P, m.index, m.term)
    <2>1. m \in Calls' /\ m.kind = "InstallSnapshot"
      BY DEF SnapshotCalls, Calls, Received
    <2>2. CASE m \in Calls
      <3>1. m \in SnapshotCalls
        BY <2>1, <2>2 DEF SnapshotCalls, Calls, Received
      <3>2. QED BY <1>1, <1>2, <2>2, <3>1 DEF CallsSafe
    <2>3. CASE Calling(m)
      <3>1. m.index = LogOf(m.src).base
        BY <2>1, <2>3 DEF Calling
      <3>2. /\ m.term \in Nat /\ m.index \in Nat /\ commitIndex[m.src] \in Nat
            /\ m.index <= commitIndex[m.src] /\ Safe(L, T, P, commitIndex[m.src], m.term)
        BY <1>3, <2>1, <2>3, <3>1
      <3>3. T \in DOMAIN L /\ (\A n \in P : n <= Len(L[T])) /\ m.term >= m.term
        BY <3>2, PointsTyped
      <3>4. Safe(L, T, P, m.index, m.term)
        BY <3>2, <3>3, SafeBelow
      <3>5. QED BY <1>2, <3>2, <3>4
    <2>4. QED BY <2>1, <2>2, <2>3, CallsMade DEF Step, Sound
  <1>6. QED BY <1>4, <1>5 DEF CallsSafe, CarriedBy, End

LEMMA DeliveryStaysSafe ==
  ASSUME Step, DeliverySafe, \A s \in Server : Holding(s)
  PROVE  DeliverySafe'
  <1>1. SUFFICES ASSUME NEW s \in Server, NEW i \in Nat, OnTheWay(s, i)'
                 PROVE  i <= commitIndex'[s]
    BY DEF DeliverySafe
  <1>2. commitIndex[s] \in Nat /\ commitIndex'[s] \in Nat
    BY DEF Step, Sound, TypeOK, CommitTyped
  <1>3. OnTheWay(s, i) \/ i <= commitIndex'[s]
    BY <1>1, DeliveryMoves DEF Step, Sound
  <1>4. commitIndex'[s] >= commitIndex[s]
    BY <1>1 DEF Holding
  <1>5. QED BY <1>2, <1>3, <1>4 DEF DeliverySafe
\* A leader calls for what is in its log or next in it, whatever a refusal hints at.
NextBounded(L) ==
  /\ \A s \in Server : role[s] = "Leader" =>
       \A p \in Server : nextIndex[s][p] \in 1 .. End(LogOf(s)) + 1
  /\ \A r \in Received("AppendEntriesReply") :
       /\ r.xIndex <= Len(L[r.reqTerm]) + 1
       /\ r.xTerm = -1 => r.xLen <= Len(L[r.reqTerm]) + 1

LEMMA LeadersNextStays ==
  ASSUME Step, NEW L \in Lines, LinesInv(L), NextBounded(L), NEW s \in Server,
         role'[s] = "Leader", NEW p \in Server
  PROVE  nextIndex'[s][p] \in 1 .. End(LogOf(s)') + 1
  <1>1. End(LogOf(s)) \in Nat /\ End(LogOf(s)') \in Nat /\ LogOf(s).base \in Nat
    BY LogOfStays, PieceTypes
  <1>2. CASE Wins(s)
    <2>1. nextIndex'[s][p] = End(LogOf(s)) + 1 /\ LogOf(s)' = LogOf(s)
      BY <1>2 DEF Wins, KeepsLogs
    <2>2. QED BY <1>1, <2>1
  <1>3. CASE ~Wins(s)
    <2>1. /\ role[s] = "Leader" /\ NextMoves(s, p) /\ End(LogOf(s)') >= End(LogOf(s))
      BY <1>3, LeaderKeeps
    <2>2. matchIndex'[s][p] <= End(LogOf(s)) /\ matchIndex'[s][p] \in Nat
      BY MatchesBounded DEF Step, Sound, TypeOK, LeaderTyped
    <2>3. End(LogOf(s)) = Len(L[currentTerm[s]])
      BY <2>1 DEF LinesInv, LeadersUnder
    <2>4. nextIndex'[s][p] \in 1 .. End(LogOf(s)) + 1
      <3>1. CASE nextIndex'[s][p] = nextIndex[s][p]
        BY <2>1, <3>1 DEF NextBounded
      <3>2. CASE nextIndex'[s][p] = matchIndex'[s][p] + 1
        BY <1>1, <2>2, <3>2
      <3>3. ASSUME NEW r \in Received("AppendEntriesReply"), NEW n \in Int,
                   r.reqTerm = currentTerm[s], nextIndex'[s][p] = Larger(n, 1),
                   \/ r.xTerm = -1 /\ n = r.xLen
                   \/ n = r.xIndex
                   \/ n - 1 \in LogOf(s).base .. End(LogOf(s))
            PROVE  nextIndex'[s][p] \in 1 .. End(LogOf(s)) + 1
        <4>1. r.xIndex <= End(LogOf(s)) + 1 /\ (r.xTerm = -1 => r.xLen <= End(LogOf(s)) + 1)
          BY <2>3, <3>3 DEF NextBounded
        <4>2. n <= End(LogOf(s)) + 1
          BY <1>1, <3>3, <4>1
        <4>3. QED BY <1>1, <3>3, <4>2 DEF Larger
      <3>4. QED BY <2>1, <3>1, <3>2, <3>3 DEF NextMoves
    <2>5. QED BY <1>1, <2>1, <2>4
  <1>4. QED BY <1>2, <1>3

LEMMA NextStays ==
  ASSUME Step, NEW L \in Lines, LinesInv(L), NEW M \in Lines, Grows(L, M), NextBounded(L),
         NEW N \in Nat, NEW T \in Nat, NEW P \in SUBSET Nat, Points(L, N, T, P),
         CommitsSafe(L, T, P)
  PROVE  NextBounded(M)'
  <1>1. \A u \in DOMAIN L : /\ u \in DOMAIN M /\ Len(L[u]) <= Len(M[u])
                            /\ Len(L[u]) \in Nat /\ Len(M[u]) \in Nat
    BY LongerLines, LineTypes DEF Grows
  <1>2. ASSUME NEW r \in Received("AppendEntriesReply")'
        PROVE  /\ r.xIndex <= Len(M[r.reqTerm]) + 1
               /\ r.xTerm = -1 => r.xLen <= Len(M[r.reqTerm]) + 1
    <2>1. r \in network' /\ r.kind = "AppendEntriesReply"
      BY DEF Received
    <2>2. r.xIndex \in Int /\ r.xLen \in Int
      <3>1. r \in Message
        BY <2>1 DEF Step, Sound, TypeOK
      <3>2. QED BY <2>1, <3>1 DEF Message, VoteRequests, VoteReplies, AppendRequests, AppendReplies,
                   InstallRequests, InstallReplies
    <2>3. CASE r \in network
      <3>1. r \in Received("AppendEntriesReply")
        BY <2>1, <2>3 DEF Received
      <3>2. r.reqTerm \in DOMAIN L
        BY <3>1 DEF LinesInv, RepliesUnder
      <3>3. /\ r.xIndex <= Len(L[r.reqTerm]) + 1
            /\ r.xTerm = -1 => r.xLen <= Len(L[r.reqTerm]) + 1
        BY <3>1 DEF NextBounded
      <3>4. QED BY <1>1, <2>2, <3>2, <3>3
    <2>4. CASE r \notin network
      <3>1. PICK m \in AppendCalls : AnswersAppend(r, m)
        BY <2>1, <2>4, Sent DEF Step, Sound
      <3>2. m \in Calls
        BY DEF AppendCalls, Calls
      <3>. DEFINE g == CarriedBy(m)
                  u == m.term
                  d == m.dst
      <3>3. /\ u \in DOMAIN L /\ End(g) <= Len(L[u]) /\ g \in Piece /\ d \in Server
            /\ u \in Nat /\ r.reqTerm = u /\ Nested(L)
        BY <3>1, <3>2, CallTypes DEF AnswersAppend, LinesInv, CallsUnder, Under, Step, Sound
      <3>4. /\ r.xIndex <= g.base
            /\ r.xTerm = -1 => \/ r.xLen <= g.base
                               \/ u >= currentTerm[d] /\ r.xLen = LogOf(d).base + 1
        BY <3>1 DEF AnswersAppend
      <3>5. g.base \in Nat /\ End(g) \in Nat /\ g.base <= End(g)
        <4>. HIDE DEF g
        <4>1. g.base \in Span(g) /\ g.base \in Nat /\ End(g) \in Nat
          BY <3>3, PieceTypes
        <4>2. QED BY <4>1 DEF Span
      <3>6. ASSUME u >= currentTerm[d]
            PROVE  LogOf(d).base <= Len(L[u]) /\ LogOf(d).base \in Nat
        <4>1. /\ currentTerm[d] \in Nat /\ commitIndex[d] \in Nat /\ LogOf(d).base \in Nat
              /\ LogOf(d).base <= commitIndex[d]
          BY <3>3, LogOfStays, PieceTypes
          DEF Step, Sound, TypeOK, ElectionTyped, CommitTyped, CommitsSafe
        <4>2. Safe(L, T, P, commitIndex[d], currentTerm[d])
          BY <3>3 DEF CommitsSafe, Kept
        <4>3. \A w \in DOMAIN L : w >= currentTerm[d] => commitIndex[d] <= Len(L[w])
          BY <3>3, <4>1, <4>2, SafeLine
        <4>4. commitIndex[d] <= Len(L[u]) /\ Len(L[u]) \in Nat
          BY <1>1, <3>3, <3>6, <4>3
        <4>5. QED BY <4>1, <4>4
      <3>. HIDE DEF g, u, d
      <3>7. Len(L[u]) \in Nat /\ Len(M[u]) \in Nat /\ Len(L[u]) <= Len(M[u])
        BY <1>1, <3>3
      <3>8. r.xIndex <= Len(M[u]) + 1
        BY <2>2, <3>3, <3>4, <3>5, <3>7
      <3>9. ASSUME r.xTerm = -1
            PROVE  r.xLen <= Len(M[u]) + 1
        <4>1. CASE r.xLen <= g.base
          BY <2>2, <3>3, <3>5, <3>7, <4>1
        <4>2. CASE u >= currentTerm[d] /\ r.xLen = LogOf(d).base + 1
          BY <3>6, <3>7, <4>2
        <4>3. QED BY <3>4, <3>9, <4>1, <4>2
      <3>10. QED BY <3>3, <3>8, <3>9
    <2>5. QED BY <2>3, <2>4
  <1>3. QED BY <1>2, LeadersNextStays DEF NextBounded
-----------------------------------------------------------------------------
\* A leader commits

ChosenUpTo(l, n) == {[index |-> k, entry |-> l[k]] : k \in 1 .. n}

\* The entry a leader commits is a point: its majority is not dead.
LEMMA CommitIsPoint ==
  ASSUME TypeOK, NEW L \in Lines, LinesInv(L), Standing(L), NEW s \in Server, NEW n,
         Commits(s, n), NEW t \in Nat, t = currentTerm[s]
  PROVE  /\ n \in Nat /\ n \in LogOf(s).base + 1 .. End(LogOf(s))
         /\ t \in DOMAIN L /\ Under(LogOf(s), L[t]) /\ n <= Len(L[t])
         /\ TermIn(L[t], n) = t /\ CommitPoint(L, n, t)
  <1>. DEFINE f == LogOf(s)
  <1>1. /\ role[s] = "Leader" /\ n \in Indices(s) /\ LogTerm(s, n) = t
    BY DEF Commits, Leads
  <1>2. PICK Q \in SUBSET Ackers(s, n) : Majority(Q)
    BY DEF Commits
  <1>3. Q \in SUBSET Server /\ \A v \in Q : Acked(s, v, n)
    BY DEF Ackers
  <1>4. ~Dead(s, n)
    <2>1. SUFFICES ASSUME NEW R \in SUBSET Server, Majority(R), \A v \in R : ~Acked(s, v, n)
                   PROVE  FALSE
      BY DEF Dead
    <2>2. PICK v : v \in R /\ v \in Q
      BY <1>2, <1>3, <2>1, MajoritiesMeet
    <2>3. QED BY <1>3, <2>1, <2>2
  <1>5. Prevails(L, n, t, Ackers(s, n))
    BY <1>1, <1>4 DEF Standing
  <1>6. CommitPoint(L, n, t)
    <2>1. Prevails(L, n, t, Q)
      BY <1>5 DEF Prevails
    <2>2. QED BY <1>2, <1>3, <2>1 DEF CommitPoint
  <1>7. /\ f \in Piece /\ n \in f.base + 1 .. End(f) /\ f.base \in Nat /\ End(f) \in Nat
    BY <1>1, LogOfTyped, PieceTypes
  <1>8. t \in DOMAIN L /\ Under(f, L[t])
    BY <1>1 DEF LinesInv, LeadersUnder
  <1>9. t >= t
    OBVIOUS
  <1>10. n <= Len(L[t]) /\ TermIn(L[t], n) = t
    BY <1>5, <1>8, <1>9 DEF Prevails
  <1>11. n \in Nat
    BY <1>7
  <1>12. QED BY <1>6, <1>7, <1>8, <1>10, <1>11

\* What is safe by the points before it is safe by those with one more.
LEMMA SafeRaised ==
  ASSUME TypeOK, NEW L \in Lines, LinesInv(L), NEW N \in Nat, NEW T \in Nat, NEW P \in SUBSET Nat,
         Points(L, N, T, P), NEW T2 \in DOMAIN L, NEW P2 \in SUBSET Nat, P \subseteq P2,
         Share(L[T], L[T2], N)
  PROVE  /\ \A i, t : Safe(L, T, P, i, t) => Safe(L, T2, P2, i, t)
         /\ CommitsSafe(L, T, P) => CommitsSafe(L, T2, P2)
         /\ CallsSafe(L, T, P) => CallsSafe(L, T2, P2)
  <1>1. T \in DOMAIN L /\ L[T] \in Seq(Entry) /\ L[T2] \in Seq(Entry) /\ Nested(L)
    BY LineTypes DEF Points, LinesInv
  <1>2. \A i \in 0 .. N : TermIn(L[T2], i) = TermIn(L[T], i)
    BY <1>1, SharedBelow
  <1>3. \A n \in P : n \in 0 .. N
    BY DEF Points
  <1>4. ASSUME NEW i, NEW t, Safe(L, T, P, i, t)
        PROVE  Safe(L, T2, P2, i, t)
    BY <1>2, <1>3, <1>4 DEF Safe
  <1>5. ASSUME NEW s \in Server, Kept(L, T, P, s, commitIndex[s])
        PROVE  Kept(L, T2, P2, s, commitIndex[s])
    <2>1. commitIndex[s] \in Nat /\ currentTerm[s] \in Nat
      BY DEF TypeOK, CommitTyped, ElectionTyped
    <2>2. /\ Safe(L, T, P, commitIndex[s], currentTerm[s])
          /\ Has(L, LogOf(s), commitIndex[s], TermIn(L[T], commitIndex[s]))
      BY <1>5 DEF Kept
    <2>3. commitIndex[s] <= N
      BY <1>1, <2>1, <2>2, SafeLine
    <2>4. commitIndex[s] \in 0 .. N
      BY <2>1, <2>3
    <2>5. TermIn(L[T2], commitIndex[s]) = TermIn(L[T], commitIndex[s])
      BY <1>2, <2>4
    <2>6. QED BY <1>4, <2>2, <2>5 DEF Kept
  <1>6. CommitsSafe(L, T, P) => CommitsSafe(L, T2, P2)
    BY <1>5 DEF CommitsSafe
  <1>7. CallsSafe(L, T, P) => CallsSafe(L, T2, P2)
    BY <1>4 DEF CallsSafe
  <1>8. QED BY <1>4, <1>6, <1>7

\* The entries a leader commits continue those committed before.
LEMMA ChosenContinues ==
  ASSUME Step, NEW L \in Lines, LinesInv(L), Standing(L), NEW N \in Nat, NEW T \in Nat,
         NEW P \in SUBSET Nat, Points(L, N, T, P), CommitsSafe(L, T, P),
         chosen = ChosenUpTo(L[T], N), NEW s \in Server, NEW n \in Nat, Commits(s, n),
         NEW t \in Nat, t = currentTerm[s], NEW T2 \in DOMAIN L,
         Share(L[T], L[T2], N), Share(L[t], L[T2], n)
  PROVE  chosen' = ChosenUpTo(L[T2], Larger(N, n))
  <1>. DEFINE f == LogOf(s)
              c == commitIndex[s]
              l == L[T2]
              K == {i \in Indices(s) : c < i /\ i <= n}
  <1>1. /\ n \in f.base + 1 .. End(f) /\ t \in DOMAIN L /\ Under(f, L[t])
        /\ f.base \in Nat /\ End(f) \in Nat /\ c \in Nat
    BY CommitIsPoint, LogOfStays, PieceTypes DEF Step, Sound, TypeOK, CommitTyped
  <1>2. f.base <= c /\ c <= N /\ c < n
    <2>1. f.base <= c /\ Safe(L, T, P, c, currentTerm[s])
      BY DEF CommitsSafe, Kept
    <2>2. c <= N
      BY <1>1, <2>1, SafeLine DEF LinesInv
    <2>3. c < n
      BY <1>1 DEF Commits
    <2>4. QED BY <2>1, <2>2, <2>3
  <1>3. chosen' = chosen \cup {[index |-> k, entry |-> LogEntry(s, k)] : k \in K}
    BY DEF Commits
  <1>4. \A k : LogEntry(s, k) = EntryAt(f, k)
    BY LogOfTyped DEF Step, Sound
  <1>5. Indices(s) = f.base + 1 .. End(f)
    BY LogOfTyped DEF Step, Sound
  <1>. HIDE DEF f, c, l
  <1>6. \A k \in K : k \in 1 .. n /\ LogEntry(s, k) = l[k]
    <2>1. SUFFICES ASSUME NEW k \in K PROVE k \in 1 .. n /\ LogEntry(s, k) = l[k]
      OBVIOUS
    <2>2. k \in f.base + 1 .. End(f) /\ k <= n /\ k \in 1 .. n
      BY <1>1, <1>5
    <2>3. LogEntry(s, k) = L[t][k]
      BY <1>1, <1>4, <2>2 DEF Under
    <2>4. L[t][k] = l[k]
      BY <2>2 DEF Share, l
    <2>5. QED BY <2>2, <2>3, <2>4
  <1>7. \A k \in 1 .. N : L[T][k] = l[k]
    BY DEF Share, l
  <1>8. \A k \in c + 1 .. n : k \in K
    BY <1>1, <1>2, <1>5
  <1>9. chosen' \subseteq ChosenUpTo(l, Larger(N, n))
    <2>1. SUFFICES ASSUME NEW e \in chosen' PROVE e \in ChosenUpTo(l, Larger(N, n))
      OBVIOUS
    <2>2. /\ \A k \in 1 .. N : k \in 1 .. Larger(N, n)
          /\ \A k \in 1 .. n : k \in 1 .. Larger(N, n)
      BY DEF Larger
    <2>3. CASE e \in chosen
      BY <1>7, <2>2, <2>3 DEF ChosenUpTo
    <2>4. CASE e \in {[index |-> k, entry |-> LogEntry(s, k)] : k \in K}
      BY <1>6, <2>2, <2>4 DEF ChosenUpTo
    <2>5. QED BY <1>3, <2>1, <2>3, <2>4
  <1>10. ChosenUpTo(l, Larger(N, n)) \subseteq chosen'
    <2>1. SUFFICES ASSUME NEW k \in 1 .. Larger(N, n)
                   PROVE  [index |-> k, entry |-> l[k]] \in chosen'
      BY DEF ChosenUpTo
    <2>2. CASE k <= N
      <3>1. k \in 1 .. N
        BY <2>2
      <3>2. [index |-> k, entry |-> l[k]] \in chosen
        BY <1>7, <3>1 DEF ChosenUpTo
      <3>3. QED BY <1>3, <3>2
    <2>3. CASE k > N
      <3>1. k \in c + 1 .. n
        BY <1>1, <1>2, <2>3 DEF Larger
      <3>2. k \in K /\ LogEntry(s, k) = l[k]
        BY <1>6, <1>8, <3>1
      <3>3. QED BY <1>3, <3>2
    <2>4. k <= N \/ k > N
      OBVIOUS
    <2>5. QED BY <2>2, <2>3, <2>4
  <1>11. QED BY <1>9, <1>10 DEF l

\* When leader s commits n, the points before and n put the new commitIndex where it is.
LEMMA CommitRaises ==
  ASSUME Step, NEW L \in Lines, LinesInv(L), Standing(L), NEW N \in Nat, NEW T \in Nat,
         NEW P \in SUBSET Nat, Points(L, N, T, P), CommitsSafe(L, T, P), CallsSafe(L, T, P),
         chosen = ChosenUpTo(L[T], N), NEW s \in Server, NEW n, Commits(s, n)
  PROVE  \E N2 \in Nat, T2 \in Nat, P2 \in SUBSET Nat :
           /\ Points(L, N2, T2, P2) /\ CommitsSafe(L, T2, P2) /\ CallsSafe(L, T2, P2)
           /\ chosen' = ChosenUpTo(L[T2], N2)
           /\ \A d \in Server : Follows(d) \/ Advances(L, T2, P2, d)
  <1>1. PICK t \in Nat : t = currentTerm[s]
    BY DEF Step, Sound, TypeOK, ElectionTyped
  <1>. DEFINE f == LogOf(s)
              P2 == P \cup {n}
              N2 == Larger(N, n)
  <1>2. /\ n \in Nat /\ t \in DOMAIN L /\ Under(f, L[t]) /\ n <= Len(L[t]) /\ n <= End(f)
        /\ TermIn(L[t], n) = t /\ CommitPoint(L, n, t) /\ Nested(L) /\ f \in Piece
    <2>1. /\ n \in Nat /\ n \in f.base + 1 .. End(f)
          /\ t \in DOMAIN L /\ Under(f, L[t]) /\ n <= Len(L[t])
          /\ TermIn(L[t], n) = t /\ CommitPoint(L, n, t)
      BY <1>1, CommitIsPoint DEF Step, Sound
    <2>2. f \in Piece /\ f.base \in Nat /\ End(f) \in Nat
      BY LogOfStays, PieceTypes
    <2>3. QED BY <2>1, <2>2 DEF LinesInv
  <1>3. PICK T2 \in Nat : /\ Points(L, N2, T2, P2) /\ T2 \in DOMAIN L
                          /\ Share(L[T], L[T2], N) /\ Share(L[t], L[T2], n)
    BY <1>2, PointAdded
  <1>4. N2 \in Nat /\ P2 \in SUBSET Nat /\ P \subseteq P2
    BY <1>2 DEF Larger
  <1>5. CommitsSafe(L, T2, P2) /\ CallsSafe(L, T2, P2)
    BY <1>3, <1>4, SafeRaised DEF Step, Sound
  <1>6. chosen' = ChosenUpTo(L[T2], N2)
    BY <1>1, <1>2, <1>3, ChosenContinues
  <1>7. commitIndex' = [commitIndex EXCEPT ![s] = n] /\ n > commitIndex[s] /\ KeepsLogs
    BY DEF Commits
  <1>8. commitIndex \in [Server -> Nat]
    BY DEF Step, Sound, TypeOK, CommitTyped
  <1>9. Advances(L, T2, P2, s)
    <2>1. TermIn(L[T2], n) = t
      <3>1. L[t] \in Seq(Entry) /\ L[T2] \in Seq(Entry) /\ n \in 0 .. n
        BY <1>2, <1>3, LineTypes
      <3>2. QED BY <1>2, <1>3, <3>1, SharedBelow
    <2>2. Safe(L, T2, P2, n, t)
      <3>1. n <= n /\ t <= t
        BY <1>2
      <3>2. QED BY <2>1, <3>1 DEF Safe
    <2>3. Has(L, f, n, t)
      <3>1. Has(L, f, n, TermIn(L[t], n))
        BY <1>2, UnderHas
      <3>2. QED BY <1>2, <3>1
    <2>4. commitIndex'[s] = n
      BY <1>7, <1>8
    <2>5. QED BY <1>1, <1>7, <2>1, <2>2, <2>3, <2>4 DEF Advances, KeepsLogs, Kept
  <1>10. ASSUME NEW d \in Server, d # s
         PROVE  Follows(d)
    <2>1. commitIndex'[d] = commitIndex[d] /\ LogOf(d)' = LogOf(d)
      BY <1>7, <1>8, <1>10 DEF KeepsLogs
    <2>2. QED BY <2>1 DEF Follows, Stays
  <1>11. \A d \in Server : Follows(d) \/ Advances(L, T2, P2, d)
    BY <1>9, <1>10
  <1>. HIDE DEF N2, P2
  <1>12. QED BY <1>3, <1>4, <1>5, <1>6, <1>11
-----------------------------------------------------------------------------
\* The invariant

\* chosen is the line of T up to N; commitIndex, calls and deliveries stay within it.
CommitInv(L, N, T, P) ==
  /\ Asking /\ Standing(L) /\ Points(L, N, T, P) /\ chosen = ChosenUpTo(L[T], N)
  /\ CommitsSafe(L, T, P) /\ CallsSafe(L, T, P) /\ DeliverySafe /\ NextBounded(L)

SafeInv ==
  \E L \in Lines, N \in Nat, T \in Nat, P \in SUBSET Nat : LinesInv(L) /\ CommitInv(L, N, T, P)

\* In a step that moves commitIndex to where the points allow it all of it carries over.
LEMMA CommitsCarry ==
  ASSUME Step, NEW L \in Lines, LinesInv(L), NEW M \in Lines, Grows(L, M), Asking,
         NEW N \in Nat, NEW T \in Nat, NEW P \in SUBSET Nat, Points(L, N, T, P),
         CommitsSafe(L, T, P), CallsSafe(L, T, P), DeliverySafe,
         chosen' = ChosenUpTo(L[T], N),
         \A s \in Server : Follows(s) \/ Advances(L, T, P, s)
  PROVE  /\ Points(M, N, T, P)' /\ chosen' = ChosenUpTo(M[T], N)
         /\ CommitsSafe(M, T, P)' /\ CallsSafe(M, T, P)' /\ DeliverySafe'
  <1>1. Points(M, N, T, P)' /\ \A k \in 1 .. N : M[T][k] = L[T][k]
    BY PointsStay
  <1>2. chosen' = ChosenUpTo(M[T], N)
    BY <1>1 DEF ChosenUpTo
  <1>3. ASSUME NEW s \in Server
        PROVE  /\ LogOf(s)'.base <= commitIndex'[s] /\ Kept(M, T, P, s, commitIndex[s])'
               /\ Holding(s)
    BY CommitsStay
  <1>4. CommitsSafe(M, T, P)'
    BY <1>3 DEF CommitsSafe
  <1>5. CallsSafe(M, T, P)'
    BY CallsStaySafe
  <1>6. DeliverySafe'
    BY <1>3, DeliveryStaysSafe
  <1>7. QED BY <1>1, <1>2, <1>4, <1>5, <1>6

LEMMA CommitInvStays ==
  ASSUME Step, NEW L \in Lines, LinesInv(L), NEW M \in Lines, Grows(L, M),
         NEW N \in Nat, NEW T \in Nat, NEW P \in SUBSET Nat, CommitInv(L, N, T, P)
  PROVE  \E N2 \in Nat, T2 \in Nat, P2 \in SUBSET Nat : CommitInv(M, N2, T2, P2)'
  <1>1. /\ Asking /\ Standing(L) /\ Points(L, N, T, P) /\ chosen = ChosenUpTo(L[T], N)
        /\ CommitsSafe(L, T, P) /\ CallsSafe(L, T, P) /\ DeliverySafe /\ NextBounded(L)
    BY DEF CommitInv
  <1>2. Asking' /\ Standing(M)' /\ NextBounded(M)'
    BY <1>1, AskingStays, StandingStays, NextStays
  <1>3. CASE \E s \in Server : \E n : Commits(s, n)
    <2>1. PICK N2 \in Nat, T2 \in Nat, P2 \in SUBSET Nat :
            /\ Points(L, N2, T2, P2) /\ CommitsSafe(L, T2, P2) /\ CallsSafe(L, T2, P2)
            /\ chosen' = ChosenUpTo(L[T2], N2)
            /\ \A d \in Server : Follows(d) \/ Advances(L, T2, P2, d)
      BY <1>1, <1>3, CommitRaises
    <2>2. /\ Points(M, N2, T2, P2)' /\ chosen' = ChosenUpTo(M[T2], N2)
          /\ CommitsSafe(M, T2, P2)' /\ CallsSafe(M, T2, P2)' /\ DeliverySafe'
      BY <1>1, <2>1, CommitsCarry
    <2>3. CommitInv(M, N2, T2, P2)'
      BY <1>2, <2>2 DEF CommitInv
    <2>4. QED BY <2>3
  <1>4. CASE UNCHANGED chosen /\ \A s \in Server : Follows(s)
    <2>1. chosen' = ChosenUpTo(L[T], N)
      BY <1>1, <1>4
    <2>2. /\ Points(M, N, T, P)' /\ chosen' = ChosenUpTo(M[T], N)
          /\ CommitsSafe(M, T, P)' /\ CallsSafe(M, T, P)' /\ DeliverySafe'
      BY <1>1, <1>4, <2>1, CommitsCarry
    <2>3. CommitInv(M, N, T, P)'
      BY <1>2, <2>2 DEF CommitInv
    <2>4. QED BY <2>3
  <1>5. QED BY <1>3, <1>4, CommitsMove DEF Step, Sound

\* At first there is one empty line, under which nothing is committed.
LEMMA InitSafe == Init => SafeInv
  <1>. SUFFICES ASSUME Init PROVE SafeInv
    OBVIOUS
  <1>. DEFINE L == [u \in {0} |-> <<>>]
  <1>1. /\ L \in Lines /\ DOMAIN L = {0} /\ L[0] = <<>> /\ Len(L[0]) = 0
    <2>1. {0} \in SUBSET Nat /\ <<>> \in Seq(Entry) /\ Len(<<>>) = 0
      OBVIOUS
    <2>2. L \in [{0} -> Seq(Entry)]
      BY <2>1
    <2>3. L \in Lines
      BY <2>1, <2>2 DEF Lines
    <2>4. QED BY <2>1, <2>3
  <1>. HIDE DEF L
  <1>2. /\ network = {} /\ chosen = {}
        /\ \A s \in Server : /\ currentTerm[s] = 0 /\ role[s] = "Follower" /\ commitIndex[s] = 0
                             /\ LogOf(s) = [base |-> 0, term |-> 0, entries |-> <<>>]
                             /\ applyCh[s] = <<>> /\ ~pendingSnapshot[s].valid
    BY DEF Init, LogOf, NoSnapshot
  <1>3. \A s \in Server : /\ LogOf(s).base = 0 /\ LogOf(s).term = 0 /\ End(LogOf(s)) = 0
                          /\ Last(LogOf(s)) = 0
    BY <1>2 DEF End, Last, TermAt
  <1>4. Calls = {} /\ \A kind : Received(kind) = {}
    BY <1>2 DEF Calls, Received
  <1>5. LinesInv(L)
    <2>1. Nested(L)
      BY <1>1 DEF Nested
    <2>2. TermsUsed(L)
      BY <1>1 DEF TermsUsed
    <2>3. LogsUnder(L)
      BY <1>1, <1>2, <1>3 DEF LogsUnder, Rooted, Under, TermIn
    <2>4. LeadersUnder(L) /\ CallsUnder(L) /\ RepliesUnder(L) /\ SnapshotsBehind
      BY <1>2, <1>4
      DEF LeadersUnder, CallsUnder, RepliesUnder, SnapshotsBehind, SnapshotAcks, AppendAcks,
          SnapshotCalls
    <2>5. QED BY <2>1, <2>2, <2>3, <2>4 DEF LinesInv
  <1>6. CommitPoint(L, 0, 0)
    <2>1. Majority(Server)
      <3>1. Cardinality(Server) \in Nat /\ Cardinality(Server) # 0
        BY ServerAssumption, FS_CardinalityType, FS_EmptySet
      <3>2. QED BY <3>1 DEF Majority
    <2>2. Prevails(L, 0, 0, Server)
      BY <1>1, <1>2, <1>3 DEF Prevails, TermIn, Has
    <2>3. QED BY <2>1, <2>2 DEF CommitPoint
  <1>7. Points(L, 0, 0, {0})
    BY <1>1, <1>6 DEF Points, TermIn
  <1>8. Safe(L, 0, {0}, 0, 0)
    BY DEF Safe, TermIn
  <1>9. CommitInv(L, 0, 0, {0})
    <2>1. Asking /\ NextBounded(L) /\ Standing(L)
      BY <1>2, <1>4 DEF Asking, RequestsTrue, VotesAsked, NextBounded, Standing
    <2>2. chosen = ChosenUpTo(L[0], 0)
      BY <1>2 DEF ChosenUpTo
    <2>3. CommitsSafe(L, 0, {0})
      BY <1>2, <1>3, <1>8 DEF CommitsSafe, Kept, Has, TermIn
    <2>4. CallsSafe(L, 0, {0})
      BY <1>4 DEF CallsSafe, AppendCalls, SnapshotCalls
    <2>5. DeliverySafe
      <3>1. \A s \in Server : 1 .. Len(applyCh[s]) = {}
        BY <1>2
      <3>2. QED BY <1>2, <3>1 DEF DeliverySafe, OnTheWay
    <2>6. QED BY <1>7, <2>1, <2>2, <2>3, <2>4, <2>5 DEF CommitInv
  <1>10. QED BY <1>1, <1>5, <1>9 DEF SafeInv

\* What leaders commit is one growing line that every commitIndex, request and
\* snapshot follows, across elections, truncations, compactions and crashes
\* (HandleAppendReply, AppendEntries, InstallSnapshot, Make).
THEOREM CommitsInOrder == Spec => []SafeInv
  <1>1. TypeOK /\ VotesGenuine /\ LogInv /\ SafeInv /\ TypeOK' /\ [Next]_vars => SafeInv'
    <2>1. SUFFICES ASSUME TypeOK, VotesGenuine, LogInv, SafeInv, TypeOK', [Next]_vars
                   PROVE  SafeInv'
      OBVIOUS
    <2>2. Step
      BY <2>1, SoundSteps DEF Sound
    <2>3. PICK L \in Lines, N \in Nat, T \in Nat, P \in SUBSET Nat :
            LinesInv(L) /\ CommitInv(L, N, T, P)
      BY <2>1 DEF SafeInv
    <2>4. PICK M \in Lines : Grows(L, M)
      BY <2>2, <2>3, LinesGrow
    <2>5. LinesInv(M)'
      BY <2>2, <2>3, <2>4, LinesStay
    <2>6. \E N2 \in Nat, T2 \in Nat, P2 \in SUBSET Nat : CommitInv(M, N2, T2, P2)'
      BY <2>2, <2>3, <2>4, CommitInvStays
    <2>7. QED BY <2>5, <2>6 DEF SafeInv
  <1>2. QED BY <1>1, InitSafe, TypeCorrect, VotesAreGenuine, LogsInOrder, PTL DEF Spec
-----------------------------------------------------------------------------
\* What follows for the logs

\* Who has the last point has all that is committed.
LEMMA LastPointHolds ==
  ASSUME TypeOK, NEW L \in Lines, LinesInv(L), NEW N \in Nat, NEW T \in Nat, NEW P \in SUBSET Nat,
         CommitInv(L, N, T, P), NEW s \in Server, Has(L, LogOf(s), N, T), NEW c \in chosen
  PROVE  Holds(s, c)
  <1>. DEFINE f == LogOf(s)
  <1>1. PICK k \in 1 .. N : c = [index |-> k, entry |-> L[T][k]]
    BY DEF CommitInv, ChosenUpTo
  <1>2. /\ T \in DOMAIN L /\ N <= Len(L[T]) /\ TermIn(L[T], N) = T /\ Nested(L)
        /\ f \in Piece /\ Rooted(L, f)
    BY LogOfTyped DEF CommitInv, Points, LinesInv, LogsUnder
  <1>3. /\ LastLogIndex(s) = End(f) /\ LogEntry(s, k) = EntryAt(f, k)
        /\ f.base = lastIncludedIndex[s]
    BY LogOfTyped
  <1>. HIDE DEF f
  <1>4. Share(L[Last(f)], L[T], N) /\ N <= End(f) /\ Under(f, L[Last(f)])
    BY <1>2, HasMeets DEF f, Has, Rooted
  <1>5. f.base \in Nat /\ End(f) \in Nat
    BY <1>2, PieceTypes
  <1>6. CASE k > f.base
    <2>1. k \in f.base + 1 .. End(f)
      BY <1>4, <1>5, <1>6
    <2>2. EntryAt(f, k) = L[T][k]
      BY <1>4, <2>1 DEF Under, Share
    <2>3. QED BY <1>1, <1>3, <1>4, <1>5, <2>1, <2>2 DEF Holds
  <1>7. CASE k <= f.base
    BY <1>1, <1>3, <1>7 DEF Holds
  <1>8. QED BY <1>5, <1>6, <1>7

LEMMA LeadersHaveAll ==
  ASSUME TypeOK, SafeInv
  PROVE  LeaderCompleteness
  <1>1. PICK L \in Lines, N \in Nat, T \in Nat, P \in SUBSET Nat :
          LinesInv(L) /\ CommitInv(L, N, T, P)
    BY DEF SafeInv
  <1>2. SUFFICES ASSUME NEW s \in Server, role[s] = "Leader",
                        \A d \in Server : currentTerm[d] <= currentTerm[s]
                 PROVE  \A c \in chosen : Holds(s, c)
    BY DEF LeaderCompleteness
  <1>3. /\ T \in DOMAIN L /\ N <= Len(L[T]) /\ CommitPoint(L, N, T) /\ Nested(L)
    BY <1>1 DEF CommitInv, Points, LinesInv
  <1>4. PICK Q \in SUBSET Server : Majority(Q) /\ Prevails(L, N, T, Q)
    BY <1>3 DEF CommitPoint
  <1>5. PICK v \in Server : v \in Q
    BY <1>4, MajoritiesMeet
  <1>6. currentTerm[s] \in Nat /\ currentTerm[v] \in Nat /\ currentTerm[s] >= T
    BY <1>2, <1>4, <1>5 DEF Prevails, TypeOK, ElectionTyped
  <1>7. /\ currentTerm[s] \in DOMAIN L /\ Under(LogOf(s), L[currentTerm[s]])
        /\ End(LogOf(s)) = Len(L[currentTerm[s]])
    BY <1>1, <1>2 DEF LinesInv, LeadersUnder
  <1>8. N <= End(LogOf(s)) /\ TermIn(L[currentTerm[s]], N) = T
    BY <1>4, <1>6, <1>7 DEF Prevails
  <1>9. LogOf(s) \in Piece
    BY LogOfTyped
  <1>10. Has(L, LogOf(s), N, TermIn(L[currentTerm[s]], N))
    BY <1>3, <1>7, <1>8, <1>9, UnderHas
  <1>11. QED BY <1>1, <1>8, <1>10, LastPointHolds

LEMMA MajorityHasAll ==
  ASSUME TypeOK, SafeInv
  PROVE  ChosenDurable
  <1>1. PICK L \in Lines, N \in Nat, T \in Nat, P \in SUBSET Nat :
          LinesInv(L) /\ CommitInv(L, N, T, P)
    BY DEF SafeInv
  <1>2. CommitPoint(L, N, T)
    BY <1>1 DEF CommitInv, Points
  <1>3. PICK Q \in SUBSET Server : Majority(Q) /\ Prevails(L, N, T, Q)
    BY <1>2 DEF CommitPoint
  <1>4. SUFFICES ASSUME NEW c \in chosen
                 PROVE  Majority({s \in Server : Holds(s, c)})
    BY DEF ChosenDurable
  <1>. DEFINE H == {s \in Server : Holds(s, c)}
  <1>5. \A v \in Q : Has(L, LogOf(v), N, T)
    BY <1>3 DEF Prevails
  <1>6. Q \subseteq H
    BY <1>1, <1>5, LastPointHolds
  <1>7. H \in SUBSET Server
    OBVIOUS
  <1>. HIDE DEF H
  <1>8. Majority(H)
    <2>1. IsFiniteSet(Server) /\ IsFiniteSet(H)
      BY <1>7, ServerAssumption, FS_Subset
    <2>2. Cardinality(Q) <= Cardinality(H)
      BY <1>6, <2>1, FS_Subset
    <2>3. IsFiniteSet(Q)
      BY <1>6, <2>1, FS_Subset
    <2>4. Cardinality(Q) \in Nat /\ Cardinality(H) \in Nat /\ Cardinality(Server) \in Nat
      BY <2>1, <2>3, FS_CardinalityType
    <2>5. QED BY <1>3, <2>2, <2>4 DEF Majority
  <1>9. QED BY <1>8 DEF H

LEMMA CommittedEntries ==
  ASSUME TypeOK, SafeInv
  PROVE  CommittedAgree
  <1>1. PICK L \in Lines, N \in Nat, T \in Nat, P \in SUBSET Nat :
          LinesInv(L) /\ CommitInv(L, N, T, P)
    BY DEF SafeInv
  <1>2. SUFFICES ASSUME NEW s \in Server, NEW k \in lastIncludedIndex[s] + 1 .. commitIndex[s]
                 PROVE  k <= LastLogIndex(s) /\ [index |-> k, entry |-> LogEntry(s, k)] \in chosen
    BY DEF CommittedAgree
  <1>. DEFINE f == LogOf(s)
              i == commitIndex[s]
  <1>3. /\ Safe(L, T, P, i, currentTerm[s]) /\ Has(L, f, i, TermIn(L[T], i))
        /\ i \in Nat /\ currentTerm[s] \in Nat /\ Points(L, N, T, P)
    BY <1>1 DEF CommitInv, CommitsSafe, Kept, TypeOK, CommitTyped, ElectionTyped
  <1>4. /\ LastLogIndex(s) = End(f) /\ LogEntry(s, k) = EntryAt(f, k)
        /\ f.base = lastIncludedIndex[s] /\ f \in Piece /\ Rooted(L, f) /\ Nested(L)
    BY <1>1, LogOfTyped DEF LinesInv, LogsUnder
  <1>5. k \in f.base + 1 .. i
    BY <1>4
  <1>. HIDE DEF f, i
  <1>6. /\ f.base \in Nat /\ End(f) \in Nat /\ i <= End(f)
    BY <1>3, <1>4, PieceTypes DEF Has
  <1>7. T \in DOMAIN L /\ i <= N /\ i <= Len(L[T])
    <2>1. T \in DOMAIN L /\ i <= N /\ i \in 0 .. Len(L[T])
      BY <1>3, <1>4, SafeLine
    <2>2. QED BY <2>1, LineTypes
  <1>8. Share(L[Last(f)], L[T], i) /\ Under(f, L[Last(f)])
    BY <1>3, <1>4, <1>7, HasMeets DEF Rooted
  <1>9. k \in f.base + 1 .. End(f) /\ k \in 1 .. i /\ k \in 1 .. N
    BY <1>3, <1>5, <1>6, <1>7
  <1>10. EntryAt(f, k) = L[T][k]
    BY <1>8, <1>9 DEF Under, Share
  <1>11. [index |-> k, entry |-> L[T][k]] \in chosen
    BY <1>1, <1>9 DEF CommitInv, ChosenUpTo
  <1>12. QED BY <1>4, <1>6, <1>9, <1>10, <1>11

LEMMA NextInBounds ==
  ASSUME TypeOK, SafeInv
  PROVE  NextIndexInBounds
  <1>1. PICK L \in Lines, N \in Nat, T \in Nat, P \in SUBSET Nat : NextBounded(L)
    BY DEF SafeInv, CommitInv
  <1>2. QED BY <1>1, LogOfTyped DEF NextBounded, NextIndexInBounds

\* Whoever leads in the highest term holds every entry a leader has ever committed:
\* its vote check kept out every candidate that lacked one (RequestVote).
THEOREM LeadersComplete == Spec => []LeaderCompleteness
  <1>1. TypeOK /\ SafeInv => LeaderCompleteness
    BY LeadersHaveAll
  <1>2. QED BY <1>1, TypeCorrect, CommitsInOrder, PTL

\* An entry a leader has committed stays on a majority of the disks for ever.
THEOREM CommitsDurable == Spec => []ChosenDurable
  <1>1. TypeOK /\ SafeInv => ChosenDurable
    BY MajorityHasAll
  <1>2. QED BY <1>1, TypeCorrect, CommitsInOrder, PTL

\* What a peer takes for committed is in its log and is what a leader committed
\* there: the applier never reads past the log (AppendEntries, applier).
THEOREM CommitsAgree == Spec => []CommittedAgree
  <1>1. TypeOK /\ SafeInv => CommittedAgree
    BY CommittedEntries
  <1>2. QED BY <1>1, TypeCorrect, CommitsInOrder, PTL

\* nextIndex never leaves the log, whatever late refusal moved it
\* (sendAppendEntries reads the term before it).
THEOREM NextIndexBounded == Spec => []NextIndexInBounds
  <1>1. TypeOK /\ SafeInv => NextIndexInBounds
    BY NextInBounds
  <1>2. QED BY <1>1, TypeCorrect, CommitsInOrder, PTL
=============================================================================
