-------------------------- MODULE PaginationProofs --------------------------
(***************************************************************************)
(* Proofs about the allCheckins connection, for every set of ids, every    *)
(* page size and every table.  First the list of nodes: that each place    *)
(* has just one row is counting, not induction.  Then a page as a slice of *)
(* that list, and the reader that goes from page to page.                  *)
(***************************************************************************)
EXTENDS Pagination, TLAPS, FiniteSetTheorems, SequenceTheorems

\* The place of a member among the members of a set, counted from nothing.
Rank(S, x) == Cardinality({r \in S : r < x})

LEMMA RankInRange ==
    ASSUME NEW S \in SUBSET Nat, IsFiniteSet(S), NEW x \in S
    PROVE  Rank(S, x) \in 0 .. Cardinality(S) - 1
<1> DEFINE B == {r \in S : r < x}
<1>1. B \in SUBSET S /\ x \notin B
  OBVIOUS
<1>2. Cardinality(B) <= Cardinality(S) /\ Cardinality(B) # Cardinality(S) /\ IsFiniteSet(B)
  BY <1>1, FS_Subset
<1>3. Cardinality(B) \in Nat /\ Cardinality(S) \in Nat
  BY <1>2, FS_CardinalityType
<1> QED
  BY <1>2, <1>3 DEF Rank

LEMMA RankAscends ==
    ASSUME NEW S \in SUBSET Nat, IsFiniteSet(S), NEW x \in S, NEW y \in S, x < y
    PROVE  Rank(S, x) < Rank(S, y)
<1> DEFINE B == {r \in S : r < x}
           C == {r \in S : r < y}
<1>1. C \in SUBSET S /\ B \in SUBSET C /\ x \in C /\ x \notin B
  <2>1. \A r \in S : r \in Nat
    OBVIOUS
  <2>2. (\A r \in S : r < x => r < y) /\ ~(x < x)
    BY <2>1
  <2>3. B \in SUBSET C
    BY <2>2, Zenon
  <2> QED
    BY <2>2, <2>3
<1>2. IsFiniteSet(C)
  BY <1>1, FS_Subset
<1>3. Cardinality(B) <= Cardinality(C) /\ Cardinality(B) # Cardinality(C) /\ IsFiniteSet(B)
  BY <1>1, <1>2, FS_Subset
<1>4. Cardinality(B) \in Nat /\ Cardinality(C) \in Nat
  BY <1>2, <1>3, FS_CardinalityType
<1> QED
  BY <1>3, <1>4 DEF Rank

\* Every place is somebody's: the ranks are an injection into as many places.
LEMMA RankOnto ==
    ASSUME NEW S \in SUBSET Nat, IsFiniteSet(S), NEW k \in 0 .. Cardinality(S) - 1
    PROVE  \E x \in S : Rank(S, x) = k
<1> DEFINE n == Cardinality(S)
           f == [x \in S |-> Rank(S, x)]
<1>1. n \in Nat
  BY FS_CardinalityType
<1>2. f \in [S -> 0 .. n - 1]
  BY RankInRange
<1>3. ASSUME NEW x \in S, NEW y \in S, f[x] = f[y]
      PROVE  x = y
  <2>1. CASE x < y
    <3>1. Rank(S, x) < Rank(S, y)
      BY <2>1, RankAscends
    <3> QED
      BY <3>1, <1>1, <1>2, <1>3
  <2>2. CASE y < x
    <3>1. Rank(S, y) < Rank(S, x)
      BY <2>2, RankAscends
    <3> QED
      BY <3>1, <1>1, <1>2, <1>3
  <2> QED
    BY <2>1, <2>2
<1>4. f \in Injection(S, 0 .. n - 1)
  BY <1>2, <1>3 DEF Injection, IsInjective
<1>5. IsFiniteSet(0 .. n - 1) /\ Cardinality(0 .. n - 1) = n
  <2>1. 0 \in Int /\ n - 1 \in Int
    BY <1>1
  <2>2. IsFiniteSet(0 .. n - 1)
        /\ Cardinality(0 .. n - 1) = IF 0 > n - 1 THEN 0 ELSE (n - 1) - 0 + 1
    BY <2>1, FS_Interval
  <2> QED
    BY <1>1, <2>2
<1>6. f \in Surjection(S, 0 .. n - 1)
  <2> HIDE DEF f, n
  <2> QED
    BY <1>4, <1>5, FS_Injection DEF n
<1> QED
  BY <1>6 DEF Surjection

-----------------------------------------------------------------------------
\* What the theorems need to know of a table.
Table == rows \in SUBSET Nat /\ IsFiniteSet(rows) /\ None \notin rows

\* get_checkins answers every row once, in the order of the ids.
LEMMA NodesInOrder ==
    ASSUME Table
    PROVE  /\ Len(Nodes) \in Nat /\ Len(Nodes) = Cardinality(rows)
           /\ Nodes \in Seq(rows) /\ Nodes \in [1 .. Len(Nodes) -> rows]
           /\ \A i \in 1 .. Len(Nodes) : Nodes[i] \in rows /\ Nodes[i] \in Nat
           /\ \A i, j \in 1 .. Len(Nodes) : i < j <=> Nodes[i] < Nodes[j]
           /\ \A id \in rows : \E i \in 1 .. Len(Nodes) : Nodes[i] = id
<1> DEFINE n == Cardinality(rows)
<1>1. rows \in SUBSET Nat /\ IsFiniteSet(rows) /\ n \in Nat
  BY FS_CardinalityType DEF Table
<1>2. ASSUME NEW i \in 1 .. n
      PROVE  Nodes[i] \in rows /\ Rank(rows, Nodes[i]) = i - 1
  <2>1. i - 1 \in 0 .. Cardinality(rows) - 1
    BY <1>1
  <2>2. \E id \in rows : Rank(rows, id) = i - 1
    BY <1>1, <2>1, RankOnto
  <2>3. Nodes[i] = CHOOSE id \in rows : Rank(rows, id) = i - 1
    BY DEF Nodes, Rank
  <2> QED
    BY <2>2, <2>3
<1>3. Nodes \in [1 .. n -> rows] /\ DOMAIN Nodes = 1 .. n
  <2>1. DOMAIN Nodes = 1 .. n /\ Nodes = [i \in 1 .. n |-> Nodes[i]]
    BY DEF Nodes
  <2> QED
    BY <1>2, <2>1
<1>4. Nodes \in Seq(rows) /\ Len(Nodes) = n
  <2>1. Nodes \in Seq(rows)
    BY <1>1, <1>3, SeqDef
  <2> QED
    BY <1>1, <1>3, <2>1, LenProperties
<1>5. ASSUME NEW i \in 1 .. n, NEW j \in 1 .. n, i < j
      PROVE  Nodes[i] < Nodes[j]
  <2>0. i - 1 < j - 1
    BY <1>1, <1>5
  <2>1. Nodes[i] \in rows /\ Nodes[j] \in rows /\ Nodes[i] \in Nat /\ Nodes[j] \in Nat
        /\ Rank(rows, Nodes[i]) < Rank(rows, Nodes[j])
    BY <1>1, <1>2, <2>0
  <2>2. CASE Nodes[j] < Nodes[i]
    <3>1. Rank(rows, Nodes[j]) < Rank(rows, Nodes[i])
      BY <1>1, <2>1, <2>2, RankAscends
    <3> QED
      BY <1>2, <1>1, <2>1, <3>1
  <2>3. CASE Nodes[j] = Nodes[i]
    BY <1>1, <1>2, <2>1, <2>3
  <2> QED
    BY <2>1, <2>2, <2>3
<1>6. ASSUME NEW i \in 1 .. n, NEW j \in 1 .. n, Nodes[i] < Nodes[j]
      PROVE  i < j
  <2>1. Nodes[i] \in Nat /\ Nodes[j] \in Nat
    BY <1>1, <1>2
  <2>2. CASE j < i
    <3>1. Nodes[j] < Nodes[i]
      BY <1>5, <2>2
    <3> QED
      BY <1>6, <2>1, <3>1
  <2>3. CASE i = j
    BY <1>6, <2>1, <2>3
  <2> QED
    BY <1>1, <2>2, <2>3
<1>7. ASSUME NEW id \in rows
      PROVE  \E i \in 1 .. n : Nodes[i] = id
  <2> DEFINE i == Rank(rows, id) + 1
  <2>1. i \in 1 .. n
    BY <1>1, RankInRange
  <2>2. Nodes[i] \in rows /\ Rank(rows, Nodes[i]) = Rank(rows, id)
        /\ Rank(rows, id) \in Nat
    BY <1>1, <1>2, <2>1, RankInRange
  <2>3. CASE Nodes[i] < id
    <3>1. Rank(rows, Nodes[i]) < Rank(rows, id)
      BY <1>1, <2>2, <2>3, RankAscends
    <3> QED
      BY <2>2, <3>1
  <2>4. CASE id < Nodes[i]
    <3>1. Rank(rows, id) < Rank(rows, Nodes[i])
      BY <1>1, <2>2, <2>4, RankAscends
    <3> QED
      BY <2>2, <3>1
  <2>5. CASE Nodes[i] = id
    BY <2>1, <2>5
  <2>6. Nodes[i] \in Nat /\ id \in Nat
    BY <1>1, <2>2
  <2> QED
    BY <2>3, <2>4, <2>5, <2>6
<1> QED
  BY <1>1, <1>2, <1>3, <1>4, <1>5, <1>6, <1>7

\* A cursor is the place of its row, the others are the table's ends.
LEMMA CursorsAsPlaces ==
    ASSUME Table, NEW c
    PROVE  /\ c \in rows => /\ Position(c) \in 1 .. Len(Nodes) /\ Nodes[Position(c)] = c
                            /\ StartIdx(c) = Position(c) /\ EndIdx(c) = Position(c) - 1
           /\ c \notin rows => StartIdx(c) = 0 /\ EndIdx(c) = Len(Nodes)
           /\ StartIdx(c) \in 0 .. Len(Nodes) /\ EndIdx(c) \in 0 .. Len(Nodes)
<1>1. Len(Nodes) \in Nat /\ DOMAIN Nodes = 1 .. Len(Nodes)
  BY NodesInOrder
<1>2. ASSUME c \in rows
      PROVE  Position(c) \in 1 .. Len(Nodes) /\ Nodes[Position(c)] = c
  <2>1. \E i \in DOMAIN Nodes : Nodes[i] = c
    BY <1>1, <1>2, NodesInOrder
  <2> QED
    BY <1>1, <2>1 DEF Position
<1> QED
  BY <1>1, <1>2 DEF StartIdx, EndIdx, Known

-----------------------------------------------------------------------------
\* A page is the nodes after From up to To.
Full(a) == EndIdx(a.before) - StartIdx(a.after)

From(a) ==
    IF a.last # None /\ Full(a) > a.last THEN EndIdx(a.before) - a.last
    ELSE StartIdx(a.after)

To(a) ==
    IF a.first # None /\ Full(a) > a.first THEN StartIdx(a.after) + a.first
    ELSE EndIdx(a.before)

LEMMA ArgumentParts ==
    ASSUME NEW a \in Arguments
    PROVE  /\ a.first \in Nat \cup {None} /\ a.last \in Nat \cup {None}
           /\ a.first = None \/ a.last = None
           /\ a.first # None => a.first \in Nat
           /\ a.last # None => a.last \in Nat
  BY SizesAssumption DEF Arguments

LEMMA SliceBounds ==
    ASSUME Table, NEW a \in Arguments, ~Panics(a)
    PROVE  /\ From(a) \in Nat /\ To(a) \in Nat /\ Len(Nodes) \in Nat
           /\ StartIdx(a.after) \in Nat /\ EndIdx(a.before) \in Nat
           /\ Full(a) \in Nat
           /\ StartIdx(a.after) <= From(a) /\ From(a) <= To(a)
           /\ To(a) <= EndIdx(a.before) /\ EndIdx(a.before) <= Len(Nodes)
<1>1. /\ StartIdx(a.after) \in 0 .. Len(Nodes) /\ EndIdx(a.before) \in 0 .. Len(Nodes)
      /\ Len(Nodes) \in Nat
  BY CursorsAsPlaces, NodesInOrder
<1>2. StartIdx(a.after) <= EndIdx(a.before)
  BY <1>1 DEF Panics
<1> QED
  BY <1>1, <1>2, ArgumentParts DEF Full, From, To

\* What query answers: the slice, and whether nodes are left on either side.
LEMMA PageIsSlice ==
    ASSUME Table, NEW a \in Arguments, ~Panics(a)
    PROVE  /\ Page(a).edges \in Seq(rows) /\ Len(Page(a).edges) = To(a) - From(a)
           /\ \A i \in 1 .. To(a) - From(a) : Page(a).edges[i] = Nodes[From(a) + i]
           /\ Page(a).hasPrevious <=> From(a) > 0
           /\ Page(a).hasNext <=> To(a) < Len(Nodes)
<1> DEFINE lo == StartIdx(a.after)
           hi == EndIdx(a.before)
           nodes == SubSeq(Nodes, lo + 1, hi)
           cutEnd == a.first # None /\ Full(a) > a.first
           cutStart == a.last # None /\ Full(a) > a.last
<1>1. /\ lo \in Nat /\ hi \in Nat /\ Len(Nodes) \in Nat /\ lo <= hi /\ hi <= Len(Nodes)
      /\ Full(a) = hi - lo /\ Full(a) \in Nat
  BY SliceBounds DEF Full
<1>2. /\ nodes \in Seq(rows) /\ Len(nodes) = hi - lo
      /\ \A i \in 1 .. hi - lo : nodes[i] = Nodes[lo + i] /\ nodes[i] \in rows
  <2>1. \A i \in lo + 1 .. hi : Nodes[i] \in rows
    BY <1>1, NodesInOrder
  <2>2. /\ nodes \in Seq(rows) /\ Len(nodes) = (IF lo + 1 <= hi THEN hi - (lo + 1) + 1 ELSE 0)
        /\ \A i \in 1 .. hi - (lo + 1) + 1 : nodes[i] = Nodes[lo + 1 + i - 1]
    <3>1. lo + 1 \in Int /\ hi \in Int
      BY <1>1
    <3> HIDE DEF lo, hi
    <3> QED
      BY <2>1, <3>1, SubSeqProperties
  <2> HIDE DEF lo, hi, nodes
  <2>3. Len(nodes) = hi - lo
    BY <1>1, <2>2
  <2>4. ASSUME NEW i \in 1 .. hi - lo
        PROVE  nodes[i] = Nodes[lo + i] /\ nodes[i] \in rows
    <3>1. /\ lo + i \in lo + 1 .. hi /\ lo + 1 + i - 1 = lo + i
          /\ i \in 1 .. hi - (lo + 1) + 1
      BY <1>1
    <3>2. nodes[i] = Nodes[lo + 1 + i - 1]
      BY <2>2, <3>1
    <3> QED
      BY <2>1, <3>1, <3>2
  <2> QED
    BY <2>2, <2>3, <2>4
<1>3. /\ Page(a).edges = IF cutEnd THEN SubSeq(nodes, 1, a.first)
                         ELSE IF cutStart THEN SubSeq(nodes, Full(a) - a.last + 1, Full(a))
                         ELSE nodes
      /\ Page(a).hasPrevious <=> lo > 0 \/ cutStart
      /\ Page(a).hasNext <=> hi < Len(Nodes) \/ cutEnd
  <2> HIDE DEF nodes
  <2>1. Full(a) = Len(nodes)
    BY <1>1, <1>2
  <2> QED
    BY <2>1 DEF Page, nodes
<1>4. Page(a).hasPrevious <=> From(a) > 0
  BY <1>1, <1>3, ArgumentParts DEF From
<1>5. Page(a).hasNext <=> To(a) < Len(Nodes)
  BY <1>1, <1>3, ArgumentParts DEF To
<1>6. CASE cutEnd
  <2>1. /\ a.first \in Nat /\ a.first < hi - lo /\ To(a) = lo + a.first /\ From(a) = lo
    BY <1>1, <1>6, ArgumentParts DEF To, From
  <2>2. \A i \in 1 .. a.first : i \in 1 .. hi - lo
    BY <1>1, <2>1
  <2>3. \A i \in 1 .. a.first : nodes[i] \in rows
    BY <1>2, <2>2
  <2>4. /\ Page(a).edges \in Seq(rows)
        /\ Len(Page(a).edges) = (IF 1 <= a.first THEN a.first - 1 + 1 ELSE 0)
        /\ \A i \in 1 .. a.first - 1 + 1 : Page(a).edges[i] = nodes[1 + i - 1]
    <3> HIDE DEF nodes
    <3>1. Page(a).edges = SubSeq(nodes, 1, a.first) /\ 1 \in Int /\ a.first \in Int
      BY <1>3, <1>6, <2>1
    <3> QED
      BY <2>3, <3>1, SubSeqProperties
  <2> HIDE DEF nodes, lo, hi
  <2>5. \A i \in 1 .. a.first : Page(a).edges[i] = Nodes[lo + i]
    BY <1>2, <2>1, <2>2, <2>4
  <2> QED
    BY <1>1, <1>4, <1>5, <2>1, <2>4, <2>5
<1>7. CASE ~cutEnd /\ cutStart
  <2> DEFINE m == Full(a) - a.last + 1
  <2>1. /\ a.last \in Nat /\ a.last < hi - lo /\ From(a) = hi - a.last /\ To(a) = hi
        /\ m = hi - lo - a.last + 1 /\ m \in Nat /\ m >= 1
    BY <1>1, <1>7, ArgumentParts DEF To, From
  <2>2. \A i \in m .. Full(a) : i \in 1 .. hi - lo
    BY <1>1, <2>1
  <2>3. \A i \in m .. Full(a) : nodes[i] \in rows
    BY <1>2, <2>2
  <2>4. /\ Page(a).edges \in Seq(rows)
        /\ Len(Page(a).edges) = (IF m <= Full(a) THEN Full(a) - m + 1 ELSE 0)
        /\ \A i \in 1 .. Full(a) - m + 1 : Page(a).edges[i] = nodes[m + i - 1]
    <3>0. Page(a).edges = SubSeq(nodes, m, Full(a))
      BY <1>3, <1>7, Zenon
    <3>1. Page(a).edges = SubSeq(nodes, m, Full(a)) /\ m \in Int /\ Full(a) \in Int
      BY <1>1, <2>1, <3>0
    <3> HIDE DEF nodes, m
    <3> QED
      BY <2>3, <3>1, SubSeqProperties
  <2> HIDE DEF nodes, lo, hi, m
  <2>5. ASSUME NEW i \in 1 .. a.last
        PROVE  /\ i \in 1 .. Full(a) - m + 1 /\ m + i - 1 \in 1 .. hi - lo
               /\ lo + (m + i - 1) = From(a) + i
    <3>1. Full(a) - m + 1 = a.last
      BY <1>1, <2>1
    <3>2. i \in Nat /\ i >= 1 /\ i <= a.last
      BY <2>1
    <3>3. m + i - 1 \in Nat /\ m + i - 1 >= 1 /\ m + i - 1 <= hi - lo
      BY <1>1, <2>1, <3>2
    <3>4. lo + (m + i - 1) = From(a) + i
      BY <1>1, <2>1, <3>2
    <3> QED
      BY <1>1, <3>1, <3>3, <3>4
  <2>6. \A i \in 1 .. a.last : Page(a).edges[i] = Nodes[From(a) + i]
    BY <1>2, <2>4, <2>5
  <2> QED
    BY <1>1, <1>4, <1>5, <2>1, <2>4, <2>6
<1>8. CASE ~cutEnd /\ ~cutStart
  <2>1. From(a) = lo /\ To(a) = hi /\ Page(a).edges = nodes
    BY <1>3, <1>8 DEF To, From
  <2> HIDE DEF nodes, lo, hi
  <2> QED
    BY <1>2, <1>4, <1>5, <2>1
<1> QED
  BY <1>6, <1>7, <1>8

-----------------------------------------------------------------------------
\* The rows at the places after p up to q.
Stretch(p, q) == {Nodes[i] : i \in p + 1 .. q}

LEMMA StretchCounted ==
    ASSUME Table, NEW p \in Nat, NEW q \in Nat, p <= q, q <= Len(Nodes)
    PROVE  Cardinality(Stretch(p, q)) = q - p
<1> DEFINE f == [i \in p + 1 .. q |-> Nodes[i]]
<1>1. Len(Nodes) \in Nat /\ p + 1 .. q \subseteq 1 .. Len(Nodes)
  BY NodesInOrder
<1>2. \A i, j \in p + 1 .. q : f[i] = f[j] => i = j
  <2> SUFFICES ASSUME NEW i \in p + 1 .. q, NEW j \in p + 1 .. q, f[i] = f[j]
               PROVE  i = j
    OBVIOUS
  <2>1. /\ i \in 1 .. Len(Nodes) /\ j \in 1 .. Len(Nodes) /\ Nodes[i] = Nodes[j]
        /\ Nodes[i] \in Nat
    BY <1>1, NodesInOrder
  <2>2. ~(i < j) /\ ~(j < i)
    BY <2>1, NodesInOrder
  <2> QED
    BY <1>1, <2>1, <2>2
<1>3. f \in Bijection(p + 1 .. q, Stretch(p, q))
  <2>1. f \in [p + 1 .. q -> Stretch(p, q)]
    BY DEF Stretch
  <2>2. \A id \in Stretch(p, q) : \E i \in p + 1 .. q : f[i] = id
    BY DEF Stretch
  <2> HIDE DEF f
  <2> QED
    BY <1>2, <2>1, <2>2 DEF Bijection, Injection, Surjection, IsInjective
<1>4. ExistsBijection(p + 1 .. q, Stretch(p, q))
  BY <1>3 DEF ExistsBijection
<1>5. IsFiniteSet(p + 1 .. q)
      /\ Cardinality(p + 1 .. q) = IF p + 1 > q THEN 0 ELSE q - (p + 1) + 1
  <2>1. p + 1 \in Int /\ q \in Int
    OBVIOUS
  <2> QED
    BY <2>1, FS_Interval
<1>6. Cardinality(Stretch(p, q)) = Cardinality(p + 1 .. q)
  BY <1>4, <1>5, FS_Bijection
<1> QED
  BY <1>5, <1>6

\* The query panics just when `after` is not before `before`.
LEMMA PanicsOnCrossing ==
    ASSUME Table, NEW a \in Arguments
    PROVE  Panics(a) <=> Known(a.after) /\ Known(a.before) /\ a.after >= a.before
<1> DEFINE p == Position(a.after)
           q == Position(a.before)
<1>0. Len(Nodes) \in Nat /\ \A i, j \in 1 .. Len(Nodes) : i < j <=> Nodes[i] < Nodes[j]
  BY NodesInOrder
<1>1. CASE a.after \in rows /\ a.before \in rows
  <2>1. /\ p \in 1 .. Len(Nodes) /\ q \in 1 .. Len(Nodes)
        /\ Nodes[p] = a.after /\ Nodes[q] = a.before
        /\ StartIdx(a.after) = p /\ EndIdx(a.before) = q - 1
        /\ a.after \in Nat /\ a.before \in Nat
    BY <1>1, CursorsAsPlaces DEF Table
  <2> HIDE DEF p, q
  <2>2. p < q <=> a.after < a.before
    BY <1>0, <2>1
  <2>3. Panics(a) <=> ~(p < q)
    BY <1>0, <2>1 DEF Panics
  <2>4. a.after >= a.before <=> ~(a.after < a.before)
    BY <2>1
  <2> QED
    BY <1>1, <2>2, <2>3, <2>4 DEF Known
<1>2. CASE a.after \notin rows
  <2>1. StartIdx(a.after) = 0 /\ EndIdx(a.before) \in Nat
    BY <1>0, <1>2, CursorsAsPlaces
  <2> QED
    BY <1>2, <2>1 DEF Panics, Known
<1>3. CASE a.before \notin rows
  <2>1. StartIdx(a.after) \in Nat /\ StartIdx(a.after) <= Len(Nodes)
        /\ EndIdx(a.before) = Len(Nodes)
    BY <1>0, <1>3, CursorsAsPlaces
  <2> QED
    BY <1>0, <1>3, <2>1 DEF Panics, Known
<1> QED
  BY <1>1, <1>2, <1>3

\* The rows between the cursors are those at the places between them.
LEMMA BetweenIsStretch ==
    ASSUME Table, NEW a \in Arguments
    PROVE  Between(a) = Stretch(StartIdx(a.after), EndIdx(a.before))
<1>0. /\ Len(Nodes) \in Nat
      /\ \A i \in 1 .. Len(Nodes) : Nodes[i] \in rows /\ Nodes[i] \in Nat
      /\ \A i, j \in 1 .. Len(Nodes) : i < j <=> Nodes[i] < Nodes[j]
      /\ \A id \in rows : \E i \in 1 .. Len(Nodes) : Nodes[i] = id
      /\ StartIdx(a.after) \in 0 .. Len(Nodes) /\ EndIdx(a.before) \in 0 .. Len(Nodes)
  BY NodesInOrder, CursorsAsPlaces
<1>1. ASSUME NEW i \in 1 .. Len(Nodes)
      PROVE  (Known(a.after) => Nodes[i] > a.after) <=> i > StartIdx(a.after)
  <2>1. CASE a.after \in rows
    <3>1. /\ StartIdx(a.after) \in 1 .. Len(Nodes) /\ Nodes[StartIdx(a.after)] = a.after
      BY <2>1, CursorsAsPlaces
    <3>2. StartIdx(a.after) < i <=> a.after < Nodes[i]
      BY <1>0, <3>1
    <3>3. a.after \in Nat /\ Nodes[i] \in Nat
      BY <1>0, <2>1 DEF Table
    <3> QED
      BY <1>0, <2>1, <3>2, <3>3 DEF Known
  <2>2. CASE a.after \notin rows
    <3>1. StartIdx(a.after) = 0
      BY <2>2, CursorsAsPlaces
    <3> QED
      BY <1>0, <2>2, <3>1 DEF Known
  <2> QED
    BY <2>1, <2>2
<1>2. ASSUME NEW i \in 1 .. Len(Nodes)
      PROVE  (Known(a.before) => Nodes[i] < a.before) <=> i <= EndIdx(a.before)
  <2>1. CASE a.before \in rows
    <3> DEFINE q == Position(a.before)
    <3>1. /\ q \in 1 .. Len(Nodes) /\ Nodes[q] = a.before /\ EndIdx(a.before) = q - 1
      BY <2>1, CursorsAsPlaces
    <3> HIDE DEF q
    <3>2. i < q <=> Nodes[i] < a.before
      BY <1>0, <3>1
    <3> QED
      BY <1>0, <2>1, <3>1, <3>2 DEF Known
  <2>2. CASE a.before \notin rows
    <3>1. EndIdx(a.before) = Len(Nodes)
      BY <2>2, CursorsAsPlaces
    <3> QED
      BY <1>0, <2>2, <3>1 DEF Known
  <2> QED
    BY <2>1, <2>2
<1>3. ASSUME NEW id \in Between(a)
      PROVE  id \in Stretch(StartIdx(a.after), EndIdx(a.before))
  <2>1. PICK i \in 1 .. Len(Nodes) : Nodes[i] = id
    BY <1>0, <1>3 DEF Between
  <2>2. i > StartIdx(a.after) /\ i <= EndIdx(a.before)
    BY <1>1, <1>2, <1>3, <2>1 DEF Between
  <2>3. i \in StartIdx(a.after) + 1 .. EndIdx(a.before)
    BY <1>0, <2>2
  <2> QED
    BY <2>1, <2>3 DEF Stretch
<1>4. ASSUME NEW id \in Stretch(StartIdx(a.after), EndIdx(a.before))
      PROVE  id \in Between(a)
  <2>1. PICK i \in StartIdx(a.after) + 1 .. EndIdx(a.before) : Nodes[i] = id
    BY <1>4 DEF Stretch
  <2>2. i \in 1 .. Len(Nodes) /\ i > StartIdx(a.after) /\ i <= EndIdx(a.before)
    BY <1>0
  <2> QED
    BY <1>0, <1>1, <1>2, <2>1, <2>2 DEF Between
<1> QED
  BY <1>3, <1>4

\* Within a stretch, the rows below a row are those at the places before its own,
\* and the rows above it those at the places after.
LEMMA SidesCounted ==
    ASSUME Table, NEW p \in Nat, NEW q \in Nat, p <= q, q <= Len(Nodes), NEW k \in p + 1 .. q
    PROVE  /\ Cardinality({id \in Stretch(p, q) : id < Nodes[k]}) = k - 1 - p
           /\ Cardinality({id \in Stretch(p, q) : id > Nodes[k]}) = q - k
<1>0. /\ Len(Nodes) \in Nat /\ k \in 1 .. Len(Nodes) /\ k \in Nat /\ k - 1 \in Nat
      /\ \A i \in 1 .. Len(Nodes) : Nodes[i] \in Nat
      /\ \A i, j \in 1 .. Len(Nodes) : i < j <=> Nodes[i] < Nodes[j]
  BY NodesInOrder
<1>1. \A i \in p + 1 .. q : i \in 1 .. Len(Nodes)
  BY <1>0
<1>2. {id \in Stretch(p, q) : id < Nodes[k]} = Stretch(p, k - 1)
  <2>1. \A i \in p + 1 .. q : Nodes[i] < Nodes[k] <=> i < k
    BY <1>0, <1>1
  <2>2. \A i : i \in p + 1 .. k - 1 <=> i \in p + 1 .. q /\ i < k
    BY <1>0
  <2> QED
    BY <2>1, <2>2, Zenon DEF Stretch
<1>3. {id \in Stretch(p, q) : id > Nodes[k]} = Stretch(k, q)
  <2>1. ASSUME NEW i \in p + 1 .. q
        PROVE  Nodes[i] > Nodes[k] <=> i > k
    <3>1. Nodes[k] < Nodes[i] <=> k < i
      BY <1>0, <1>1
    <3>2. Nodes[i] \in Nat /\ Nodes[k] \in Nat /\ i \in Nat
      BY <1>0, <1>1
    <3> QED
      BY <1>0, <3>1, <3>2
  <2>2. \A i : i \in k + 1 .. q <=> i \in p + 1 .. q /\ i > k
    BY <1>0
  <2> QED
    BY <2>1, <2>2, Zenon DEF Stretch
<1>4. Cardinality(Stretch(p, k - 1)) = k - 1 - p
  <2>1. p <= k - 1 /\ k - 1 <= Len(Nodes)
    BY <1>0
  <2> QED
    BY <1>0, <2>1, StretchCounted
<1>5. Cardinality(Stretch(k, q)) = q - k
  <2>1. k <= q
    BY <1>0
  <2> QED
    BY <1>0, <2>1, StretchCounted
<1> QED
  BY <1>2, <1>3, <1>4, <1>5

\* What the client asked for, as places.
LEMMA WantedIsStretch ==
    ASSUME Table, NEW a \in Arguments, ~Panics(a)
    PROVE  Wanted(a) = Stretch(From(a), To(a))
<1> DEFINE lo == StartIdx(a.after)
           hi == EndIdx(a.before)
<1>0. /\ lo \in Nat /\ hi \in Nat /\ lo <= hi /\ hi <= Len(Nodes) /\ Len(Nodes) \in Nat
      /\ Full(a) = hi - lo /\ Between(a) = Stretch(lo, hi)
  BY SliceBounds, BetweenIsStretch DEF Full
<1>1. CASE a.first # None
  <2>1. a.first \in Nat /\ a.last = None /\ From(a) = lo
        /\ To(a) = IF hi - lo > a.first THEN lo + a.first ELSE hi
    BY <1>0, <1>1, ArgumentParts DEF From, To
  <2>2. Wanted(a) = {id \in Stretch(lo, hi) :
                        Cardinality({i \in Stretch(lo, hi) : i < id}) < a.first}
    BY <1>0, <1>1 DEF Wanted, FirstOf
  <2> HIDE DEF lo, hi
  <2>3. \A k \in lo + 1 .. hi :
            Cardinality({i \in Stretch(lo, hi) : i < Nodes[k]}) = k - 1 - lo
    BY <1>0, SidesCounted
  <2>4. \A k : k \in lo + 1 .. To(a) <=> k \in lo + 1 .. hi /\ k - 1 - lo < a.first
    BY <1>0, <2>1
  <2>5. \A k \in lo + 1 .. hi :
            Cardinality({i \in Stretch(lo, hi) : i < Nodes[k]}) < a.first
            <=> k \in lo + 1 .. To(a)
    BY <2>3, <2>4
  <2>6. \A k \in lo + 1 .. To(a) : k \in lo + 1 .. hi
    BY <2>4
  <2> DEFINE Small(id) == Cardinality({i \in Stretch(lo, hi) : i < id}) < a.first
  <2>7. \A k \in lo + 1 .. hi : Small(Nodes[k]) <=> k \in lo + 1 .. To(a)
    BY <2>5
  <2>8. Wanted(a) = {id \in Stretch(lo, hi) : Small(id)}
    BY <2>2
  <2> HIDE DEF Small
  <2>9. {id \in Stretch(lo, hi) : Small(id)} = Stretch(lo, To(a))
    BY <2>6, <2>7, Zenon DEF Stretch
  <2> QED
    BY <2>1, <2>8, <2>9
<1>2. CASE a.first = None /\ a.last # None
  <2>1. a.last \in Nat /\ To(a) = hi
        /\ From(a) = IF hi - lo > a.last THEN hi - a.last ELSE lo
    BY <1>0, <1>2, ArgumentParts DEF From, To
  <2>2. Wanted(a) = {id \in Stretch(lo, hi) :
                        Cardinality({i \in Stretch(lo, hi) : i > id}) < a.last}
    BY <1>0, <1>2 DEF Wanted, LastOf
  <2> HIDE DEF lo, hi
  <2>3. \A k \in lo + 1 .. hi :
            Cardinality({i \in Stretch(lo, hi) : i > Nodes[k]}) = hi - k
    BY <1>0, SidesCounted
  <2>4. \A k : k \in From(a) + 1 .. hi <=> k \in lo + 1 .. hi /\ hi - k < a.last
    BY <1>0, <2>1
  <2>6. \A k \in From(a) + 1 .. hi : k \in lo + 1 .. hi
    BY <2>4
  <2> DEFINE Small(id) == Cardinality({i \in Stretch(lo, hi) : i > id}) < a.last
  <2>7. \A k \in lo + 1 .. hi : Small(Nodes[k]) <=> k \in From(a) + 1 .. hi
    BY <2>3, <2>4
  <2>8. Wanted(a) = {id \in Stretch(lo, hi) : Small(id)}
    BY <2>2
  <2> HIDE DEF Small
  <2>9. {id \in Stretch(lo, hi) : Small(id)} = Stretch(From(a), hi)
    BY <2>6, <2>7, Zenon DEF Stretch
  <2> QED
    BY <2>1, <2>8, <2>9
<1>3. CASE a.first = None /\ a.last = None
  BY <1>0, <1>3 DEF Wanted, From, To
<1> QED
  BY <1>1, <1>2, <1>3

-----------------------------------------------------------------------------
\* For one argument, the page is what was asked for and its flags are true.
LEMMA PageMatches ==
    ASSUME Table, NEW a \in Arguments, ~Panics(a)
    PROVE  /\ SetOf(Page(a).edges) = Wanted(a) /\ Ascending(Page(a).edges)
           /\ Wanted(a) # {} =>
                /\ Page(a).hasNext <=> \E id \in rows : \A w \in Wanted(a) : id > w
                /\ Page(a).hasPrevious <=> \E id \in rows : \A w \in Wanted(a) : id < w
<1> DEFINE e == Page(a).edges
           p == From(a)
           q == To(a)
           n == Len(Nodes)
<1>0. /\ p \in Nat /\ q \in Nat /\ n \in Nat /\ p <= q /\ q <= n
      /\ \A i \in 1 .. n : Nodes[i] \in rows /\ Nodes[i] \in Nat
      /\ \A i, j \in 1 .. n : i < j <=> Nodes[i] < Nodes[j]
      /\ \A id \in rows : \E i \in 1 .. n : Nodes[i] = id
  BY SliceBounds, NodesInOrder
<1>1. /\ DOMAIN e = 1 .. q - p
      /\ \A i \in 1 .. q - p : e[i] = Nodes[p + i]
      /\ Page(a).hasPrevious <=> p > 0
      /\ Page(a).hasNext <=> q < n
  <2>1. e \in Seq(rows) /\ Len(e) = q - p
    BY PageIsSlice
  <2>2. DOMAIN e = 1 .. Len(e)
    BY <2>1, LenProperties
  <2> QED
    BY <2>1, <2>2, PageIsSlice
<1>2. Wanted(a) = {Nodes[i] : i \in p + 1 .. q}
  BY WantedIsStretch DEF Stretch
<1> HIDE DEF e, p, q, n
<1>3. SetOf(e) = Wanted(a)
  <2>1. \A i \in 1 .. q - p : p + i \in p + 1 .. q
    BY <1>0
  <2>2. \A j \in p + 1 .. q : j - p \in 1 .. q - p /\ p + (j - p) = j
    BY <1>0
  <2>3. \A i \in DOMAIN e : e[i] \in Wanted(a)
    BY <1>1, <1>2, <2>1
  <2>4. ASSUME NEW w \in Wanted(a)
        PROVE  \E i \in DOMAIN e : e[i] = w
    <3>1. PICK j \in p + 1 .. q : Nodes[j] = w
      BY <1>2
    <3>2. e[j - p] = w
      BY <1>1, <2>2, <3>1
    <3> QED
      BY <1>1, <2>2, <3>2
  <2> QED
    BY <2>3, <2>4 DEF SetOf
<1>4. Ascending(e)
  <2> SUFFICES ASSUME NEW i \in 1 .. q - p, NEW j \in 1 .. q - p, i < j
               PROVE  e[i] < e[j]
    BY <1>1 DEF Ascending
  <2>1. p + i \in 1 .. n /\ p + j \in 1 .. n /\ p + i < p + j
    BY <1>0
  <2>2. Nodes[p + i] < Nodes[p + j]
    BY <1>0, <2>1
  <2> QED
    BY <1>1, <2>2
<1>5. ASSUME Wanted(a) # {}
      PROVE  p < q /\ Nodes[p + 1] \in Wanted(a) /\ Nodes[q] \in Wanted(a)
             /\ p + 1 \in 1 .. n /\ q \in 1 .. n
  <2>1. PICK i \in p + 1 .. q : TRUE
    BY <1>2, <1>5
  <2>2. p < q /\ p + 1 \in p + 1 .. q /\ q \in p + 1 .. q
    BY <1>0, <2>1
  <2> QED
    BY <1>0, <1>2, <2>2
<1>6. ASSUME Wanted(a) # {}
      PROVE  Page(a).hasNext <=> \E id \in rows : \A w \in Wanted(a) : id > w
  <2>1. ASSUME q < n
        PROVE  \E id \in rows : \A w \in Wanted(a) : id > w
    <3>1. q + 1 \in 1 .. n
      BY <1>0, <2>1
    <3>2. ASSUME NEW w \in Wanted(a)
          PROVE  Nodes[q + 1] > w
      <4>1. PICK i \in p + 1 .. q : Nodes[i] = w
        BY <1>2
      <4>2. i \in 1 .. n /\ i < q + 1
        BY <1>0
      <4>3. Nodes[i] < Nodes[q + 1] /\ Nodes[i] \in Nat /\ Nodes[q + 1] \in Nat
        BY <1>0, <3>1, <4>2
      <4> QED
        BY <4>1, <4>3
    <3> QED
      BY <1>0, <3>1, <3>2
  <2>2. ASSUME NEW id \in rows, \A w \in Wanted(a) : id > w
        PROVE  q < n
    <3>1. PICK j \in 1 .. n : Nodes[j] = id
      BY <1>0
    <3>2. Nodes[q] < Nodes[j]
      <4>1. id > Nodes[q]
        BY <1>5, <1>6, <2>2
      <4>2. Nodes[q] \in Nat /\ Nodes[j] \in Nat
        BY <1>0, <1>5, <1>6
      <4> QED
        BY <3>1, <4>1, <4>2
    <3>3. q < j
      BY <1>0, <1>5, <1>6, <3>2
    <3> QED
      BY <1>0, <3>3
  <2> QED
    BY <1>1, <2>1, <2>2
<1>7. ASSUME Wanted(a) # {}
      PROVE  Page(a).hasPrevious <=> \E id \in rows : \A w \in Wanted(a) : id < w
  <2>1. ASSUME p > 0
        PROVE  \E id \in rows : \A w \in Wanted(a) : id < w
    <3>1. p \in 1 .. n
      BY <1>0, <2>1
    <3>2. ASSUME NEW w \in Wanted(a)
          PROVE  Nodes[p] < w
      <4>1. PICK i \in p + 1 .. q : Nodes[i] = w
        BY <1>2
      <4>2. i \in 1 .. n /\ p < i
        BY <1>0
      <4>3. Nodes[p] < Nodes[i]
        BY <1>0, <3>1, <4>2
      <4> QED
        BY <4>1, <4>3
    <3> QED
      BY <1>0, <3>1, <3>2
  <2>2. ASSUME NEW id \in rows, \A w \in Wanted(a) : id < w
        PROVE  p > 0
    <3>1. PICK j \in 1 .. n : Nodes[j] = id
      BY <1>0
    <3>2. Nodes[j] < Nodes[p + 1]
      BY <1>5, <1>7, <2>2, <3>1
    <3>3. j < p + 1
      BY <1>0, <1>5, <1>7, <3>2
    <3> QED
      BY <1>0, <3>3
  <2> QED
    BY <1>1, <2>1, <2>2
<1> QED
  BY <1>3, <1>4, <1>6, <1>7 DEF e

LEMMA TableMatches == Table => PagesMatchReference
  BY PanicsOnCrossing, PageMatches DEF PagesMatchReference

-----------------------------------------------------------------------------
(* The client that reads page after page.                                   *)

Readers ==
    [at : {"reading", "done"}, way : {"forward", "backward"}, size : Sizes \ {0},
     cursor : Ids \cup {None}, seen : Seq(Ids), owed : SUBSET Ids]

TypeOK ==
    /\ rows \in SUBSET Ids
    /\ reader \in {[at |-> "idle"]} \cup Readers

\* What it has read is rows, in order.
ReadRows == reader.seen \in Seq(rows) /\ Ascending(reader.seen)

\* The cursor is the last row read, at the end the client moves from.
CursorAtEnd ==
    reader.cursor =
        IF reader.seen = <<>> THEN None
        ELSE IF reader.way = "forward" THEN reader.seen[Len(reader.seen)]
        ELSE reader.seen[1]

\* The rows the cursor has passed.
Passed(id) ==
    /\ reader.seen # <<>>
    /\ IF reader.way = "forward" THEN id <= reader.cursor ELSE id >= reader.cursor

\* No row that was there at the start is skipped: one the cursor has passed has
\* been read, and all have been when the client stops.
NothingSkipped ==
    /\ reader.owed \subseteq rows
    /\ \A id \in reader.owed :
        reader.at = "done" \/ Passed(id) => id \in SetOf(reader.seen)

IInv ==
    /\ TypeOK
    /\ reader.at # "idle" => ReadRows /\ CursorAtEnd /\ NothingSkipped

LEMMA TypedTable == TypeOK => Table
  BY IdsAssumption, NoneAssumption, FS_Subset DEF TypeOK, Table

LEMMA ReaderTyped ==
    ASSUME TypeOK
    PROVE  /\ reader.at = "idle" \/ reader \in Readers
           /\ reader.at = "reading" \/ reader.at = "done" => reader \in Readers
  BY DEF TypeOK, Readers

\* Rows stay where they are when one appears.
LEMMA CommitKeeps ==
    ASSUME IInv, NEW id \in Ids, Commit(id)
    PROVE  IInv'
<1>1. rows \subseteq rows' /\ reader' = reader /\ TypeOK'
  BY DEF IInv, TypeOK, Commit
<1>2. ASSUME reader.at # "idle"
      PROVE  ReadRows' /\ CursorAtEnd' /\ NothingSkipped'
  <2>1. reader.seen \in Seq(rows) /\ ReadRows /\ CursorAtEnd /\ NothingSkipped
    BY <1>2 DEF IInv, ReadRows
  <2>2. reader.seen \in Seq(rows')
    BY <1>1, <2>1, SeqMonotonic
  <2> QED
    BY <1>1, <2>1, <2>2 DEF ReadRows, CursorAtEnd, NothingSkipped, Passed, Ascending, SetOf
<1> QED
  BY <1>1, <1>2 DEF IInv

LEMMA BeginKeeps ==
    ASSUME IInv, NEW way \in {"forward", "backward"}, NEW size \in Sizes, Begin(way, size)
    PROVE  IInv'
<1>1. /\ rows' = rows /\ rows \in SUBSET Ids
      /\ reader' = [at |-> "reading", way |-> way, size |-> size, cursor |-> None,
                    seen |-> <<>>, owed |-> rows]
      /\ size \in Sizes \ {0}
  BY SizesAssumption DEF Begin, IInv, TypeOK
<1>2. TypeOK'
  <2>1. reader' \in Readers
    BY <1>1 DEF Readers
  <2> QED
    BY <1>1, <2>1 DEF TypeOK
<1>3. reader'.at = "reading" /\ reader'.seen = <<>> /\ reader'.cursor = None /\ reader'.owed = rows
  BY <1>1
<1>4. ReadRows' /\ CursorAtEnd' /\ NothingSkipped'
  BY <1>1, <1>3 DEF ReadRows, CursorAtEnd, NothingSkipped, Passed, Ascending
<1> QED
  BY <1>2, <1>4 DEF IInv

\* The arguments of the client's next query.
Onward == [after |-> reader.cursor, before |-> None, first |-> reader.size, last |-> None]
Backward == [after |-> None, before |-> reader.cursor, first |-> None, last |-> reader.size]

LEMMA ReadingTyped ==
    ASSUME IInv, reader.at = "reading"
    PROVE  /\ Table /\ Len(Nodes) \in Nat
           /\ reader \in Readers /\ reader.size \in Nat /\ reader.size > 0
           /\ reader.size # None /\ reader.size \in Sizes
           /\ reader.cursor \in Ids \cup {None}
           /\ ReadRows /\ CursorAtEnd /\ NothingSkipped
<1>1. TypeOK /\ Table /\ Len(Nodes) \in Nat /\ ReadRows /\ CursorAtEnd /\ NothingSkipped
  BY TypedTable, NodesInOrder DEF IInv
<1>2. reader \in Readers
  BY <1>1, ReaderTyped
<1>3. reader.size \in Sizes \ {0} /\ reader.cursor \in Ids \cup {None}
  BY <1>2 DEF Readers
<1>4. reader.size \in Nat /\ reader.size > 0 /\ reader.size \in Sizes
  <2>1. \A size \in Sizes \ {0} : size \in Nat /\ size > 0 /\ size \in Sizes
    BY SizesAssumption
  <2> QED
    BY <1>3, <2>1
<1>5. reader.size # None
  BY <1>4, NoneAssumption
<1> QED
  BY <1>1, <1>2, <1>3, <1>4, <1>5

\* A client that goes forward asks for what follows the place p of its cursor,
\* and gets something unless there is nothing left.
LEMMA OnwardPlaces ==
    ASSUME IInv, reader.at = "reading", reader.way = "forward"
    PROVE  /\ Onward \in Arguments /\ ~Panics(Onward)
           /\ From(Onward) \in Nat /\ To(Onward) \in Nat /\ Len(Nodes) \in Nat
           /\ From(Onward) <= To(Onward) /\ To(Onward) <= Len(Nodes)
           /\ To(Onward) < Len(Nodes) => From(Onward) < To(Onward)
           /\ reader.seen = <<>> => From(Onward) = 0
           /\ reader.seen # <<>> =>
                /\ From(Onward) >= 1 /\ Nodes[From(Onward)] = reader.cursor
                /\ reader.seen[Len(reader.seen)] = reader.cursor
<1>1. Onward \in Arguments
  BY ReadingTyped DEF Arguments, Onward
<1>2. /\ Onward.after = reader.cursor /\ Onward.before = None
      /\ Onward.first = reader.size /\ Onward.last = None
  BY DEF Onward
<1>3. /\ EndIdx(Onward.before) = Len(Nodes) /\ StartIdx(Onward.after) \in 0 .. Len(Nodes)
  BY <1>2, ReadingTyped, CursorsAsPlaces DEF Table
<1>4. ~Panics(Onward)
  BY <1>3, ReadingTyped DEF Panics
<1>5. /\ From(Onward) \in Nat /\ To(Onward) \in Nat
      /\ From(Onward) <= To(Onward) /\ To(Onward) <= Len(Nodes)
  BY <1>1, <1>3, <1>4, ReadingTyped, SliceBounds
<1>6. From(Onward) = StartIdx(reader.cursor)
  BY <1>2 DEF From
<1>7. To(Onward) = IF Len(Nodes) - From(Onward) > reader.size
                   THEN From(Onward) + reader.size ELSE Len(Nodes)
  BY <1>2, <1>3, <1>6, ReadingTyped DEF To, Full
<1>8. To(Onward) < Len(Nodes) => From(Onward) < To(Onward)
  BY <1>5, <1>7, ReadingTyped
<1>9. reader.seen = <<>> => From(Onward) = 0
  <2>1. reader.seen = <<>> => reader.cursor \notin rows
    BY ReadingTyped DEF CursorAtEnd, Table
  <2> QED
    BY <1>6, <2>1, ReadingTyped, CursorsAsPlaces
<1>10. ASSUME reader.seen # <<>>
       PROVE  /\ From(Onward) >= 1 /\ Nodes[From(Onward)] = reader.cursor
              /\ reader.seen[Len(reader.seen)] = reader.cursor
  <2>1. reader.seen \in Seq(rows) /\ reader.cursor = reader.seen[Len(reader.seen)]
    BY <1>10, ReadingTyped DEF ReadRows, CursorAtEnd
  <2>2. reader.cursor \in rows
    <3>1. Len(reader.seen) \in 1 .. Len(reader.seen)
      BY <1>10, <2>1, EmptySeq
    <3> QED
      BY <2>1, <3>1, ElementOfSeq
  <2> QED
    BY <1>6, <2>1, <2>2, ReadingTyped, CursorsAsPlaces
<1> QED
  BY <1>1, <1>4, <1>5, <1>8, <1>9, <1>10, ReadingTyped

\* A client that goes backward asks for what precedes the place of its cursor.
LEMMA BackwardPlaces ==
    ASSUME IInv, reader.at = "reading", reader.way = "backward"
    PROVE  /\ Backward \in Arguments /\ ~Panics(Backward)
           /\ From(Backward) \in Nat /\ To(Backward) \in Nat /\ Len(Nodes) \in Nat
           /\ From(Backward) <= To(Backward) /\ To(Backward) <= Len(Nodes)
           /\ From(Backward) > 0 => From(Backward) < To(Backward)
           /\ reader.seen = <<>> => To(Backward) = Len(Nodes)
           /\ reader.seen # <<>> =>
                /\ To(Backward) < Len(Nodes) /\ Nodes[To(Backward) + 1] = reader.cursor
                /\ reader.seen[1] = reader.cursor
<1>1. Backward \in Arguments
  BY ReadingTyped DEF Arguments, Backward
<1>2. /\ Backward.after = None /\ Backward.before = reader.cursor
      /\ Backward.first = None /\ Backward.last = reader.size
  BY DEF Backward
<1>3. /\ StartIdx(Backward.after) = 0 /\ EndIdx(Backward.before) \in 0 .. Len(Nodes)
  BY <1>2, ReadingTyped, CursorsAsPlaces DEF Table
<1>4. ~Panics(Backward)
  BY <1>3, ReadingTyped DEF Panics
<1>5. /\ From(Backward) \in Nat /\ To(Backward) \in Nat
      /\ From(Backward) <= To(Backward) /\ To(Backward) <= Len(Nodes)
  BY <1>1, <1>3, <1>4, ReadingTyped, SliceBounds
<1>6. To(Backward) = EndIdx(reader.cursor)
  BY <1>2 DEF To
<1>7. From(Backward) = IF To(Backward) > reader.size THEN To(Backward) - reader.size ELSE 0
  <2>1. Full(Backward) = To(Backward)
    BY <1>2, <1>3, <1>6, ReadingTyped DEF Full
  <2> QED
    BY <1>2, <1>3, <1>6, <2>1, ReadingTyped DEF From
<1>8. From(Backward) > 0 => From(Backward) < To(Backward)
  BY <1>5, <1>7, ReadingTyped
<1>9. reader.seen = <<>> => To(Backward) = Len(Nodes)
  <2>1. reader.seen = <<>> => reader.cursor \notin rows
    BY ReadingTyped DEF CursorAtEnd, Table
  <2> QED
    BY <1>6, <2>1, ReadingTyped, CursorsAsPlaces
<1>10. ASSUME reader.seen # <<>>
       PROVE  /\ To(Backward) < Len(Nodes) /\ Nodes[To(Backward) + 1] = reader.cursor
              /\ reader.seen[1] = reader.cursor
  <2>1. reader.seen \in Seq(rows) /\ reader.cursor = reader.seen[1]
    BY <1>10, ReadingTyped DEF ReadRows, CursorAtEnd
  <2>2. reader.cursor \in rows
    <3>1. 1 \in 1 .. Len(reader.seen)
      BY <1>10, <2>1, EmptySeq
    <3> QED
      BY <2>1, <3>1, ElementOfSeq
  <2>3. /\ Position(reader.cursor) \in 1 .. Len(Nodes)
        /\ Nodes[Position(reader.cursor)] = reader.cursor
        /\ To(Backward) = Position(reader.cursor) - 1
    BY <1>6, <2>2, ReadingTyped, CursorsAsPlaces
  <2>4. To(Backward) + 1 = Position(reader.cursor) /\ To(Backward) < Len(Nodes)
    BY <2>3, ReadingTyped
  <2> QED
    BY <2>1, <2>3, <2>4
<1> QED
  BY <1>1, <1>4, <1>5, <1>8, <1>9, <1>10, ReadingTyped

\* Two ascending lists, one below the other, make one.
LEMMA AscendingJoined ==
    ASSUME NEW T \in SUBSET Nat, NEW s \in Seq(T), NEW t \in Seq(T),
           Ascending(s), Ascending(t),
           \A i \in 1 .. Len(s), j \in 1 .. Len(t) : s[i] < t[j]
    PROVE  /\ s \o t \in Seq(T) /\ Ascending(s \o t)
           /\ SetOf(s \o t) = SetOf(s) \cup SetOf(t)
<1>1. /\ Len(s) \in Nat /\ DOMAIN s = 1 .. Len(s) /\ Len(t) \in Nat /\ DOMAIN t = 1 .. Len(t)
  BY LenProperties
<1>2. /\ s \o t \in Seq(T) /\ DOMAIN (s \o t) = 1 .. Len(s) + Len(t)
      /\ \A i \in 1 .. Len(s) + Len(t) :
            (s \o t)[i] = IF i <= Len(s) THEN s[i] ELSE t[i - Len(s)]
  <2>1. /\ s \o t \in Seq(T) /\ Len(s \o t) = Len(s) + Len(t)
        /\ \A i \in 1 .. Len(s) + Len(t) :
            (s \o t)[i] = IF i <= Len(s) THEN s[i] ELSE t[i - Len(s)]
    BY ConcatProperties
  <2>2. DOMAIN (s \o t) = 1 .. Len(s \o t)
    BY <2>1, LenProperties
  <2> QED
    BY <2>1, <2>2
<1> DEFINE st == s \o t
<1> HIDE DEF st
<1>3. Ascending(st)
  <2> SUFFICES ASSUME NEW i \in 1 .. Len(s) + Len(t), NEW j \in 1 .. Len(s) + Len(t), i < j
               PROVE  st[i] < st[j]
    BY <1>2 DEF Ascending, st
  <2>1. CASE j <= Len(s)
    <3>1. i \in DOMAIN s /\ j \in DOMAIN s /\ st[i] = s[i] /\ st[j] = s[j]
      BY <1>1, <1>2, <2>1 DEF st
    <3> QED
      BY <3>1 DEF Ascending
  <2>2. CASE i <= Len(s) /\ Len(s) < j
    <3>1. i \in 1 .. Len(s) /\ j - Len(s) \in 1 .. Len(t)
          /\ st[i] = s[i] /\ st[j] = t[j - Len(s)]
      BY <1>1, <1>2, <2>2 DEF st
    <3> QED
      BY <3>1
  <2>3. CASE Len(s) < i
    <3>1. /\ i - Len(s) \in DOMAIN t /\ j - Len(s) \in DOMAIN t /\ i - Len(s) < j - Len(s)
          /\ st[i] = t[i - Len(s)] /\ st[j] = t[j - Len(s)]
      BY <1>1, <1>2, <2>3 DEF st
    <3> QED
      BY <3>1 DEF Ascending
  <2> QED
    BY <1>1, <2>1, <2>2, <2>3
<1>4. SetOf(st) = SetOf(s) \cup SetOf(t)
  <2>1. ASSUME NEW x \in SetOf(st) PROVE x \in SetOf(s) \cup SetOf(t)
    <3>1. PICK i \in 1 .. Len(s) + Len(t) : st[i] = x
      BY <1>2 DEF SetOf, st
    <3>2. CASE i <= Len(s)
      BY <1>1, <1>2, <3>1, <3>2 DEF SetOf, st
    <3>3. CASE ~(i <= Len(s))
      <4>1. i - Len(s) \in DOMAIN t /\ t[i - Len(s)] = x
        BY <1>1, <1>2, <3>1, <3>3 DEF st
      <4> QED
        BY <4>1 DEF SetOf
    <3> QED
      BY <3>2, <3>3
  <2>2. ASSUME NEW x \in SetOf(s) PROVE x \in SetOf(st)
    <3>1. PICK i \in 1 .. Len(s) : s[i] = x
      BY <1>1 DEF SetOf
    <3>2. i \in 1 .. Len(s) + Len(t) /\ st[i] = x
      BY <1>1, <1>2, <3>1 DEF st
    <3> QED
      BY <1>2, <3>2 DEF SetOf, st
  <2>3. ASSUME NEW x \in SetOf(t) PROVE x \in SetOf(st)
    <3>1. PICK i \in 1 .. Len(t) : t[i] = x
      BY <1>1 DEF SetOf
    <3>2. /\ Len(s) + i \in 1 .. Len(s) + Len(t) /\ ~(Len(s) + i <= Len(s))
          /\ Len(s) + i - Len(s) = i
      BY <1>1
    <3>3. st[Len(s) + i] = x
      BY <1>2, <3>1, <3>2 DEF st
    <3> QED
      BY <1>2, <3>2, <3>3 DEF SetOf, st
  <2> QED
    BY <2>1, <2>2, <2>3
<1> QED
  BY <1>2, <1>3, <1>4 DEF st

\* A page read forward: what has been read grows at its end.
LEMMA ReadForwardKeeps ==
    ASSUME IInv, ReadForward
    PROVE  IInv'
<1> DEFINE page == Page(Onward)
           e == page.edges
           p == From(Onward)
           q == To(Onward)
           n == Len(Nodes)
<1>1. /\ reader.at = "reading" /\ reader.way = "forward" /\ rows' = rows
      /\ reader' = [reader EXCEPT
            !.seen = @ \o e,
            !.cursor = IF e = <<>> THEN @ ELSE e[Len(e)],
            !.at = IF page.hasNext THEN @ ELSE "done"]
  BY DEF ReadForward, Onward
<1>2. /\ Table /\ rows \in SUBSET Nat /\ reader \in Readers
      /\ ReadRows /\ CursorAtEnd /\ NothingSkipped /\ rows \in SUBSET Ids
      /\ reader.cursor \in Ids \cup {None}
  BY <1>1, ReadingTyped DEF Table, IInv, TypeOK
<1>3. /\ Onward \in Arguments /\ ~Panics(Onward)
      /\ p \in Nat /\ q \in Nat /\ n \in Nat /\ p <= q /\ q <= n
      /\ q < n => p < q
      /\ reader.seen = <<>> => p = 0
      /\ reader.seen # <<>> => /\ p >= 1 /\ Nodes[p] = reader.cursor
                               /\ reader.seen[Len(reader.seen)] = reader.cursor
  BY <1>1, OnwardPlaces
<1>4. /\ e \in Seq(rows) /\ Len(e) = q - p
      /\ \A i \in 1 .. q - p : e[i] = Nodes[p + i]
      /\ page.hasNext <=> q < n
      /\ Ascending(e) /\ SetOf(e) = {Nodes[i] : i \in p + 1 .. q}
  BY <1>2, <1>3, PageIsSlice, PageMatches, WantedIsStretch DEF Stretch
<1>5. /\ reader'.seen = reader.seen \o e
      /\ reader'.cursor = IF e = <<>> THEN reader.cursor ELSE e[Len(e)]
      /\ reader'.at = IF page.hasNext THEN "reading" ELSE "done"
      /\ reader'.way = "forward" /\ reader'.size = reader.size /\ reader'.owed = reader.owed
      /\ reader' = [at |-> reader'.at, way |-> reader.way, size |-> reader.size,
                    cursor |-> reader'.cursor, seen |-> reader'.seen, owed |-> reader.owed]
  <2> HIDE DEF page, e
  <2> QED
    BY <1>1, <1>2 DEF Readers
<1> HIDE DEF page, e, p, q, n
<1>6. /\ \A i \in 1 .. n : Nodes[i] \in rows /\ Nodes[i] \in Nat
      /\ \A i, j \in 1 .. n : i < j <=> Nodes[i] < Nodes[j]
      /\ \A id \in rows : \E i \in 1 .. n : Nodes[i] = id
  BY <1>2, NodesInOrder DEF n
<1>7. /\ reader.seen \in Seq(rows) /\ Ascending(reader.seen)
      /\ Len(reader.seen) \in Nat /\ DOMAIN reader.seen = 1 .. Len(reader.seen)
      /\ \A i \in 1 .. Len(reader.seen) : reader.seen[i] \in rows /\ reader.seen[i] \in Nat
  <2>1. reader.seen \in Seq(rows) /\ Ascending(reader.seen)
    BY <1>2 DEF ReadRows
  <2> QED
    BY <1>2, <2>1, LenProperties, ElementOfSeq
<1>8. ASSUME NEW i \in 1 .. Len(reader.seen), NEW j \in 1 .. Len(e)
      PROVE  reader.seen[i] < e[j]
  <2>1. reader.seen # <<>> /\ Len(reader.seen) \in 1 .. Len(reader.seen)
    BY <1>7
  <2>2. p \in 1 .. n /\ Nodes[p] = reader.seen[Len(reader.seen)]
    BY <1>3, <2>1
  <2>3. i = Len(reader.seen) \/ reader.seen[i] < reader.seen[Len(reader.seen)]
    BY <1>7, <2>1 DEF Ascending
  <2>4. p + j \in 1 .. n /\ p < p + j /\ j \in 1 .. q - p
    BY <1>3, <1>4
  <2>5. Nodes[p] < Nodes[p + j] /\ e[j] = Nodes[p + j] /\ Nodes[p + j] \in Nat
    BY <1>4, <1>6, <2>2, <2>4
  <2>6. reader.seen[i] \in Nat /\ Nodes[p] \in Nat
    BY <1>6, <1>7, <2>2
  <2> QED
    BY <2>2, <2>3, <2>5, <2>6
<1>9. /\ reader'.seen \in Seq(rows) /\ Ascending(reader'.seen)
      /\ SetOf(reader'.seen) = SetOf(reader.seen) \cup SetOf(e)
      /\ Len(reader'.seen) = Len(reader.seen) + Len(e)
      /\ \A i \in 1 .. Len(reader.seen) + Len(e) :
            reader'.seen[i] = IF i <= Len(reader.seen) THEN reader.seen[i]
                              ELSE e[i - Len(reader.seen)]
  <2>1. /\ reader.seen \o e \in Seq(rows) /\ Ascending(reader.seen \o e)
        /\ SetOf(reader.seen \o e) = SetOf(reader.seen) \cup SetOf(e)
    BY <1>2, <1>4, <1>7, <1>8, AscendingJoined
  <2>2. /\ Len(reader.seen \o e) = Len(reader.seen) + Len(e)
        /\ \A i \in 1 .. Len(reader.seen) + Len(e) :
            (reader.seen \o e)[i] = IF i <= Len(reader.seen) THEN reader.seen[i]
                                    ELSE e[i - Len(reader.seen)]
    BY <1>4, <1>7, ConcatProperties
  <2> QED
    BY <1>5, <2>1, <2>2, Zenon
<1>10. e # <<>> => Len(e) \in 1 .. Len(e) /\ p < q /\ e[Len(e)] = Nodes[q] /\ q \in 1 .. n
  <2>1. e # <<>> => Len(e) \in Nat /\ Len(e) > 0
    BY <1>4, EmptySeq
  <2>2. Len(e) > 0 => Len(e) \in 1 .. q - p /\ p + Len(e) = q /\ p < q /\ q \in 1 .. n
    BY <1>3, <1>4
  <2> QED
    BY <1>3, <1>4, <2>1, <2>2
<1>11. e = <<>> => q = p
  BY <1>3, <1>4, EmptySeq
<1>12. TypeOK'
  <2>1. reader'.seen \in Seq(Ids)
    BY <1>2, <1>9, SeqMonotonic
  <2>2. reader'.cursor \in Ids \cup {None}
    BY <1>2, <1>5, <1>6, <1>10
  <2>3. reader' \in Readers
    BY <1>2, <1>5, <2>1, <2>2 DEF Readers
  <2> QED
    BY <1>1, <1>2, <2>3 DEF TypeOK
<1>13. ReadRows'
  BY <1>1, <1>9 DEF ReadRows, Ascending
<1>14. CursorAtEnd'
  <2>1. CASE e = <<>>
    <3>1. reader'.seen = reader.seen /\ reader'.cursor = reader.cursor
      BY <1>5, <1>7, <2>1, ConcatEmptySeq
    <3> QED
      BY <1>1, <1>2, <1>5, <3>1 DEF CursorAtEnd
  <2>2. CASE e # <<>>
    <3>1. /\ Len(reader'.seen) \in 1 .. Len(reader.seen) + Len(e)
          /\ ~(Len(reader'.seen) <= Len(reader.seen))
          /\ Len(reader'.seen) - Len(reader.seen) = Len(e)
      BY <1>7, <1>9, <1>10, <2>2
    <3>2. reader'.seen[Len(reader'.seen)] = e[Len(e)] /\ reader'.seen # <<>>
      <4>1. reader'.seen[Len(reader'.seen)] = e[Len(e)]
        BY <1>9, <3>1
      <4>2. Len(reader'.seen) # 0
        BY <3>1, <1>7
      <4> QED
        BY <4>1, <4>2, EmptySeq
    <3> QED
      BY <1>5, <2>2, <3>2 DEF CursorAtEnd
  <2> QED
    BY <2>1, <2>2
<1>15. NothingSkipped'
  <2>1. reader'.owed \subseteq rows'
    BY <1>1, <1>2, <1>5 DEF NothingSkipped
  <2>2. ASSUME NEW id \in reader.owed, reader'.at = "done" \/ Passed(id)'
        PROVE  id \in SetOf(reader'.seen)
    <3>1. id \in rows /\ id \in Nat
      BY <1>2 DEF NothingSkipped
    <3>2. PICK k \in 1 .. n : Nodes[k] = id
      BY <1>6, <3>1
    <3>3. CASE k <= p
      <4>1. p \in 1 .. n /\ reader.seen # <<>> /\ Nodes[p] = reader.cursor
        BY <1>3, <3>3
      <4>2. Nodes[k] <= Nodes[p]
        <5>1. CASE k = p
          BY <1>6, <5>1
        <5>2. CASE k < p
          BY <1>6, <4>1, <5>2
        <5> QED
          BY <1>3, <3>3, <5>1, <5>2
      <4>3. Passed(id)
        BY <1>1, <3>2, <4>1, <4>2 DEF Passed
      <4> QED
        BY <1>2, <1>9, <4>3 DEF NothingSkipped
    <3>4. CASE p < k /\ k <= q
      <4>1. k \in p + 1 .. q
        BY <1>3, <3>4
      <4> QED
        BY <1>4, <1>9, <3>2, <4>1
    <3>5. CASE q < k
      <4>1. reader'.at # "done"
        BY <1>3, <1>4, <1>5, <3>5
      <4>2. p < q /\ e # <<>>
        BY <1>3, <1>11, <3>5
      <4>3. reader'.cursor = Nodes[q] /\ q \in 1 .. n
        BY <1>5, <1>10, <4>2
      <4>4. id <= Nodes[q]
        BY <1>5, <2>2, <4>1, <4>3 DEF Passed
      <4>5. Nodes[q] < Nodes[k]
        BY <1>6, <3>5, <4>3
      <4> QED
        BY <1>6, <3>1, <3>2, <4>3, <4>4, <4>5
    <3> QED
      BY <1>3, <3>3, <3>4, <3>5
  <2> QED
    BY <1>5, <2>1, <2>2 DEF NothingSkipped
<1> QED
  BY <1>12, <1>13, <1>14, <1>15 DEF IInv

\* The same with the ends exchanged.
LEMMA ReadBackwardKeeps ==
    ASSUME IInv, ReadBackward
    PROVE  IInv'
<1> DEFINE page == Page(Backward)
           e == page.edges
           p == From(Backward)
           q == To(Backward)
           n == Len(Nodes)
<1>1. /\ reader.at = "reading" /\ reader.way = "backward" /\ rows' = rows
      /\ reader' = [reader EXCEPT
            !.seen = e \o @,
            !.cursor = IF e = <<>> THEN @ ELSE Head(e),
            !.at = IF page.hasPrevious THEN @ ELSE "done"]
  BY DEF ReadBackward, Backward
<1>2. /\ Table /\ rows \in SUBSET Nat /\ reader \in Readers
      /\ ReadRows /\ CursorAtEnd /\ NothingSkipped /\ rows \in SUBSET Ids
      /\ reader.cursor \in Ids \cup {None}
  BY <1>1, ReadingTyped DEF Table, IInv, TypeOK
<1>3. /\ Backward \in Arguments /\ ~Panics(Backward)
      /\ p \in Nat /\ q \in Nat /\ n \in Nat /\ p <= q /\ q <= n
      /\ p > 0 => p < q
      /\ reader.seen = <<>> => q = n
      /\ reader.seen # <<>> => /\ q < n /\ Nodes[q + 1] = reader.cursor
                               /\ reader.seen[1] = reader.cursor
  BY <1>1, BackwardPlaces
<1>4. /\ e \in Seq(rows) /\ Len(e) = q - p
      /\ \A i \in 1 .. q - p : e[i] = Nodes[p + i]
      /\ page.hasPrevious <=> p > 0
      /\ Ascending(e) /\ SetOf(e) = {Nodes[i] : i \in p + 1 .. q}
  BY <1>2, <1>3, PageIsSlice, PageMatches, WantedIsStretch DEF Stretch
<1>5. /\ reader'.seen = e \o reader.seen
      /\ reader'.cursor = IF e = <<>> THEN reader.cursor ELSE e[1]
      /\ reader'.at = IF page.hasPrevious THEN "reading" ELSE "done"
      /\ reader'.way = "backward" /\ reader'.size = reader.size /\ reader'.owed = reader.owed
      /\ reader' = [at |-> reader'.at, way |-> reader.way, size |-> reader.size,
                    cursor |-> reader'.cursor, seen |-> reader'.seen, owed |-> reader.owed]
  <2> HIDE DEF page, e
  <2>1. Head(e) = e[1]
    OBVIOUS
  <2> QED
    BY <1>1, <1>2, <2>1 DEF Readers
<1> HIDE DEF page, e, p, q, n
<1>6. /\ \A i \in 1 .. n : Nodes[i] \in rows /\ Nodes[i] \in Nat
      /\ \A i, j \in 1 .. n : i < j <=> Nodes[i] < Nodes[j]
      /\ \A id \in rows : \E i \in 1 .. n : Nodes[i] = id
  BY <1>2, NodesInOrder DEF n
<1>7. /\ reader.seen \in Seq(rows) /\ Ascending(reader.seen)
      /\ Len(reader.seen) \in Nat /\ DOMAIN reader.seen = 1 .. Len(reader.seen)
      /\ \A i \in 1 .. Len(reader.seen) : reader.seen[i] \in rows /\ reader.seen[i] \in Nat
  <2>1. reader.seen \in Seq(rows) /\ Ascending(reader.seen)
    BY <1>2 DEF ReadRows
  <2> QED
    BY <1>2, <2>1, LenProperties, ElementOfSeq
<1>8. ASSUME NEW j \in 1 .. Len(e), NEW i \in 1 .. Len(reader.seen)
      PROVE  e[j] < reader.seen[i]
  <2>1. reader.seen # <<>> /\ 1 \in 1 .. Len(reader.seen)
    BY <1>7
  <2>2. q + 1 \in 1 .. n /\ Nodes[q + 1] = reader.seen[1]
    BY <1>3, <2>1
  <2>3. i = 1 \/ reader.seen[1] < reader.seen[i]
    BY <1>7, <2>1 DEF Ascending
  <2>4. p + j \in 1 .. n /\ p + j < q + 1 /\ j \in 1 .. q - p
    BY <1>3, <1>4
  <2>5. Nodes[p + j] < Nodes[q + 1] /\ e[j] = Nodes[p + j] /\ Nodes[p + j] \in Nat
    BY <1>4, <1>6, <2>2, <2>4
  <2>6. reader.seen[i] \in Nat /\ Nodes[q + 1] \in Nat
    BY <1>6, <1>7, <2>2
  <2> QED
    BY <2>2, <2>3, <2>5, <2>6
<1>9. /\ reader'.seen \in Seq(rows) /\ Ascending(reader'.seen)
      /\ SetOf(reader'.seen) = SetOf(e) \cup SetOf(reader.seen)
      /\ Len(reader'.seen) = Len(e) + Len(reader.seen)
      /\ \A i \in 1 .. Len(e) + Len(reader.seen) :
            reader'.seen[i] = IF i <= Len(e) THEN e[i] ELSE reader.seen[i - Len(e)]
  <2>1. /\ e \o reader.seen \in Seq(rows) /\ Ascending(e \o reader.seen)
        /\ SetOf(e \o reader.seen) = SetOf(e) \cup SetOf(reader.seen)
    BY <1>2, <1>4, <1>7, <1>8, AscendingJoined
  <2>2. /\ Len(e \o reader.seen) = Len(e) + Len(reader.seen)
        /\ \A i \in 1 .. Len(e) + Len(reader.seen) :
            (e \o reader.seen)[i] = IF i <= Len(e) THEN e[i] ELSE reader.seen[i - Len(e)]
    BY <1>4, <1>7, ConcatProperties
  <2> QED
    BY <1>5, <2>1, <2>2, Zenon
<1>10. e # <<>> => 1 \in 1 .. Len(e) /\ p < q /\ e[1] = Nodes[p + 1] /\ p + 1 \in 1 .. n
  <2>1. e # <<>> => Len(e) \in Nat /\ Len(e) > 0
    BY <1>4, EmptySeq
  <2>2. Len(e) > 0 => 1 \in 1 .. q - p /\ p < q /\ p + 1 \in 1 .. n
    BY <1>3, <1>4
  <2> QED
    BY <1>3, <1>4, <2>1, <2>2
<1>11. e = <<>> => q = p
  BY <1>3, <1>4, EmptySeq
<1>12. TypeOK'
  <2>1. reader'.seen \in Seq(Ids)
    BY <1>2, <1>9, SeqMonotonic
  <2>2. reader'.cursor \in Ids \cup {None}
    BY <1>2, <1>5, <1>6, <1>10
  <2>3. reader' \in Readers
    BY <1>2, <1>5, <2>1, <2>2 DEF Readers
  <2> QED
    BY <1>1, <1>2, <2>3 DEF TypeOK
<1>13. ReadRows'
  BY <1>1, <1>9 DEF ReadRows, Ascending
<1>14. CursorAtEnd'
  <2>1. CASE e = <<>>
    <3>1. reader'.seen = reader.seen /\ reader'.cursor = reader.cursor
      BY <1>5, <1>7, <2>1, ConcatEmptySeq
    <3> QED
      BY <1>1, <1>2, <1>5, <3>1 DEF CursorAtEnd
  <2>2. CASE e # <<>>
    <3>1. 1 \in 1 .. Len(e) + Len(reader.seen) /\ 1 <= Len(e) /\ Len(e) \in Nat
      BY <1>3, <1>4, <1>7, <1>10, <2>2
    <3>2. reader'.seen[1] = e[1]
      BY <1>9, <3>1
    <3>3. Len(reader'.seen) # 0
      BY <1>7, <1>9, <3>1
    <3> QED
      BY <1>5, <2>2, <3>2, <3>3, EmptySeq DEF CursorAtEnd
  <2> QED
    BY <2>1, <2>2
<1>15. NothingSkipped'
  <2>1. reader'.owed \subseteq rows'
    BY <1>1, <1>2, <1>5 DEF NothingSkipped
  <2>2. ASSUME NEW id \in reader.owed, reader'.at = "done" \/ Passed(id)'
        PROVE  id \in SetOf(reader'.seen)
    <3>1. id \in rows /\ id \in Nat
      BY <1>2 DEF NothingSkipped
    <3>2. PICK k \in 1 .. n : Nodes[k] = id
      BY <1>6, <3>1
    <3>3. CASE q < k
      <4>1. q + 1 \in 1 .. n /\ reader.seen # <<>> /\ Nodes[q + 1] = reader.cursor
        BY <1>3, <3>3
      <4>2. Nodes[q + 1] <= Nodes[k]
        <5>1. CASE k = q + 1
          BY <1>6, <5>1
        <5>2. CASE q + 1 < k
          BY <1>6, <4>1, <5>2
        <5> QED
          BY <1>3, <3>3, <5>1, <5>2
      <4>3. id >= reader.cursor
        BY <1>6, <3>1, <3>2, <4>1, <4>2
      <4>4. Passed(id)
        BY <1>1, <4>1, <4>3 DEF Passed
      <4> QED
        BY <1>2, <1>9, <4>4 DEF NothingSkipped
    <3>4. CASE p < k /\ k <= q
      <4>1. k \in p + 1 .. q
        BY <1>3, <3>4
      <4> QED
        BY <1>4, <1>9, <3>2, <4>1
    <3>5. CASE k <= p
      <4>1. reader'.at # "done"
        BY <1>3, <1>4, <1>5, <3>5
      <4>2. p < q /\ e # <<>>
        BY <1>3, <1>11, <3>5
      <4>3. reader'.cursor = Nodes[p + 1] /\ p + 1 \in 1 .. n
        BY <1>5, <1>10, <4>2
      <4>4. id >= Nodes[p + 1]
        BY <1>5, <2>2, <4>1, <4>3 DEF Passed
      <4>5. k < p + 1
        BY <1>3, <3>5
      <4>6. Nodes[k] < Nodes[p + 1]
        BY <1>6, <4>3, <4>5
      <4> QED
        BY <1>6, <3>1, <3>2, <4>3, <4>4, <4>6
    <3> QED
      BY <1>3, <3>3, <3>4, <3>5
  <2> QED
    BY <1>5, <2>1, <2>2 DEF NothingSkipped
<1> QED
  BY <1>12, <1>13, <1>14, <1>15 DEF IInv

-----------------------------------------------------------------------------
\* The client's cursor is the last row it has read and has passed over none of
\* those it is owed, whatever rows appear before, at or after it.
THEOREM ReaderInvariant == Spec => []IInv
<1>1. Init => IInv
  <2> SUFFICES ASSUME Init PROVE IInv
    OBVIOUS
  <2>1. rows = {} /\ reader = [at |-> "idle"] /\ reader.at = "idle"
    BY DEF Init
  <2> QED
    BY <2>1 DEF IInv, TypeOK
<1>2. IInv /\ [Next]_vars => IInv'
  <2> SUFFICES ASSUME IInv, [Next]_vars PROVE IInv'
    OBVIOUS
  <2>1. CASE Next
    BY <2>1, CommitKeeps, BeginKeeps, ReadForwardKeeps, ReadBackwardKeeps DEF Next
  <2>2. CASE UNCHANGED vars
    BY <2>2 DEF vars, IInv, TypeOK, ReadRows, CursorAtEnd, NothingSkipped, Passed,
                Ascending, SetOf
  <2> QED
    BY <2>1, <2>2
<1> QED
  BY <1>1, <1>2, PTL DEF Spec

\* Every page of every table holds the rows that were asked for, in order, and
\* tells whether there are more; the query panics just when its cursors cross.
THEOREM PagesCorrect == Spec => []PagesMatchReference
<1>1. IInv => PagesMatchReference
  BY TypedTable, TableMatches DEF IInv
<1> QED
  BY <1>1, ReaderInvariant, PTL

\* A client that follows the cursors reads no row twice, and all in order.
THEOREM EachRowOnce == Spec => []ReadsInOrder
<1>1. IInv => ReadsInOrder
  BY DEF IInv, ReadRows, ReadsInOrder
<1> QED
  BY <1>1, ReaderInvariant, PTL

\* When the flags tell the client to stop, it has read all the rows it was owed.
THEOREM NoRowMissed == Spec => []ReadsAllOwed
<1>1. IInv => ReadsAllOwed
  BY DEF IInv, NothingSkipped, ReadsAllOwed
<1> QED
  BY <1>1, ReaderInvariant, PTL

-----------------------------------------------------------------------------
(* Why reading ends: the part of ReadingEnds that needs no fairness.        *)

\* A page either ends the reading or brings at least one row more.
PageAdvances ==
    ReadForward \/ ReadBackward =>
        reader'.at = "done" \/ Len(reader'.seen) > Len(reader.seen)

LEMMA PagesAdvance == IInv => PageAdvances
<1> SUFFICES ASSUME IInv, ReadForward \/ ReadBackward
             PROVE  reader'.at = "done" \/ Len(reader'.seen) > Len(reader.seen)
  BY DEF PageAdvances
<1>0. reader.at = "reading"
  BY DEF ReadForward, ReadBackward
<1>1. reader \in Readers /\ reader.seen \in Seq(rows) /\ Len(reader.seen) \in Nat /\ Table
  BY <1>0, ReadingTyped, LenProperties DEF ReadRows
<1>2. CASE ReadForward
  <2> DEFINE page == Page(Onward)
             e == page.edges
  <2>1. reader.way = "forward" /\ reader' = [reader EXCEPT
            !.seen = @ \o e,
            !.cursor = IF e = <<>> THEN @ ELSE e[Len(e)],
            !.at = IF page.hasNext THEN @ ELSE "done"]
    BY <1>2 DEF ReadForward, Onward
  <2>2. /\ From(Onward) \in Nat /\ To(Onward) \in Nat /\ Len(Nodes) \in Nat
        /\ To(Onward) < Len(Nodes) => From(Onward) < To(Onward)
        /\ Onward \in Arguments /\ ~Panics(Onward)
    BY <1>0, <2>1, OnwardPlaces
  <2>3. /\ e \in Seq(rows) /\ Len(e) = To(Onward) - From(Onward)
        /\ page.hasNext <=> To(Onward) < Len(Nodes)
    BY <1>1, <2>2, PageIsSlice
  <2> HIDE DEF page, e
  <2>4. reader'.seen = reader.seen \o e /\ (~page.hasNext => reader'.at = "done")
    BY <1>1, <2>1 DEF Readers
  <2>5. Len(reader'.seen) = Len(reader.seen) + Len(e)
    BY <1>1, <2>3, <2>4, ConcatProperties
  <2> QED
    BY <1>1, <2>2, <2>3, <2>4, <2>5
<1>3. CASE ReadBackward
  <2> DEFINE page == Page(Backward)
             e == page.edges
  <2>1. reader.way = "backward" /\ reader' = [reader EXCEPT
            !.seen = e \o @,
            !.cursor = IF e = <<>> THEN @ ELSE Head(e),
            !.at = IF page.hasPrevious THEN @ ELSE "done"]
    BY <1>3 DEF ReadBackward, Backward
  <2>2. /\ From(Backward) \in Nat /\ To(Backward) \in Nat
        /\ From(Backward) > 0 => From(Backward) < To(Backward)
        /\ Backward \in Arguments /\ ~Panics(Backward)
    BY <1>0, <2>1, BackwardPlaces
  <2>3. /\ e \in Seq(rows) /\ Len(e) = To(Backward) - From(Backward)
        /\ page.hasPrevious <=> From(Backward) > 0
    BY <1>1, <2>2, PageIsSlice
  <2> HIDE DEF page, e
  <2>4. reader'.seen = e \o reader.seen /\ (~page.hasPrevious => reader'.at = "done")
    BY <1>1, <2>1 DEF Readers
  <2>5. Len(reader'.seen) = Len(e) + Len(reader.seen)
    <3>1. Len(e \o reader.seen) = Len(e) + Len(reader.seen)
      BY <1>1, <2>3, ConcatProperties
    <3> QED
      BY <2>4, <3>1
  <2> QED
    BY <1>1, <2>2, <2>3, <2>4, <2>5
<1> QED
  BY <1>2, <1>3

\* No page sends the client round: it ends the reading or adds to it.
THEOREM EveryPageAdvances == Spec => [][PageAdvances]_vars
  BY PagesAdvance, ReaderInvariant, PTL DEF Spec

\* A client that reads a row twice may read for ever; this one reads at most
\* all the ids there are.
SeenIsBounded == reader.at # "idle" => Len(reader.seen) <= Cardinality(Ids)

\* What a client has read never outgrows the table: with EveryPageAdvances, it
\* asks for at most one page more than there are ids.
THEOREM ReadingIsBounded == Spec => []SeenIsBounded
<1>1. IInv => SeenIsBounded
  <2> SUFFICES ASSUME IInv, reader.at # "idle"
               PROVE  Len(reader.seen) <= Cardinality(Ids)
    BY DEF SeenIsBounded
  <2> DEFINE s == reader.seen
  <2>1. rows \in SUBSET Nat /\ rows \in SUBSET Ids /\ s \in Seq(rows) /\ Ascending(s)
    BY IdsAssumption DEF IInv, TypeOK, ReadRows
  <2> HIDE DEF s
  <2>2. Len(s) \in Nat /\ DOMAIN s = 1 .. Len(s) /\ s \in [1 .. Len(s) -> rows]
    BY <2>1, LenProperties
  <2>3. s \in [1 .. Len(s) -> Ids] /\ \A i \in 1 .. Len(s) : s[i] \in Nat
    BY <2>1, <2>2
  <2>4. \A i, j \in 1 .. Len(s) : s[i] = s[j] => i = j
    <3> SUFFICES ASSUME NEW i \in 1 .. Len(s), NEW j \in 1 .. Len(s), s[i] = s[j]
                 PROVE  i = j
      OBVIOUS
    <3>1. ~(i < j) /\ ~(j < i)
      BY <2>1, <2>2, <2>3 DEF Ascending
    <3> QED
      BY <2>2, <3>1
  <2>5. s \in Injection(1 .. Len(s), Ids)
    BY <2>2, <2>3, <2>4 DEF Injection, IsInjective
  <2>6. Cardinality(1 .. Len(s)) <= Cardinality(Ids)
    BY <2>5, IdsAssumption, FS_Injection
  <2>7. Cardinality(1 .. Len(s)) = Len(s)
    <3>1. 1 \in Int /\ Len(s) \in Int
      BY <2>2
    <3>2. Cardinality(1 .. Len(s)) = IF 1 > Len(s) THEN 0 ELSE Len(s) - 1 + 1
      BY <3>1, FS_Interval
    <3> QED
      BY <2>2, <3>2
  <2> QED
    BY <2>6, <2>7 DEF s
<1> QED
  BY <1>1, ReaderInvariant, PTL
=============================================================================
