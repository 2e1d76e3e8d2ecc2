--------------------------- MODULE Browser_proofs ---------------------------
(* Theorems about the browser's pages: the ranking, for any participants,      *)
(* scores, files, page size and number of uploads; the administration's and    *)
(* the organizer's list, for any number of tenants, competitions, files and    *)
(* requests; and, of the three, that each keeps to its own specification in    *)
(* MCBrowser, so that what holds of a page holds of the browser.               *)
EXTENDS MCBrowser, FiniteSetTheorems, SequenceTheorems, TLAPS

-----------------------------------------------------------------------------
(* What sorting does: for a strict total order of a finite set, Arranged is a  *)
(* sequence of all its elements, each behind as many as are before it.         *)

StrictTotal(S, before) ==
    /\ \A x \in S : <<x, x>> \notin before
    /\ \A x, y, z \in S : <<x, y>> \in before /\ <<y, z>> \in before => <<x, z>> \in before
    /\ \A x, y \in S : x = y \/ <<x, y>> \in before \/ <<y, x>> \in before

Before(S, before, x) == {y \in S : <<y, x>> \in before}

LEMMA BeforeCounts ==
  ASSUME NEW S, IsFiniteSet(S), NEW before, StrictTotal(S, before)
  PROVE  /\ \A x \in S : Cardinality(Before(S, before, x)) \in 0..(Cardinality(S) - 1)
         /\ \A x, y \in S : <<x, y>> \in before =>
               Cardinality(Before(S, before, x)) < Cardinality(Before(S, before, y))
  <1>1. \A x \in S : /\ IsFiniteSet(Before(S, before, x))
                     /\ Cardinality(Before(S, before, x)) \in Nat
                     /\ x \notin Before(S, before, x)
                     /\ Before(S, before, x) \in SUBSET S
    <2> SUFFICES ASSUME NEW x \in S
                 PROVE  /\ IsFiniteSet(Before(S, before, x))
                        /\ Cardinality(Before(S, before, x)) \in Nat
                        /\ x \notin Before(S, before, x)
                        /\ Before(S, before, x) \in SUBSET S
      OBVIOUS
    <2>1. Before(S, before, x) \in SUBSET S /\ x \notin Before(S, before, x)
      BY DEF Before, StrictTotal
    <2>2. IsFiniteSet(Before(S, before, x))
      BY <2>1, FS_Subset
    <2> QED
      BY <2>1, <2>2, FS_CardinalityType
  <1>2. Cardinality(S) \in Nat
    BY FS_CardinalityType
  <1>3. ASSUME NEW x \in S PROVE Cardinality(Before(S, before, x)) \in 0..(Cardinality(S) - 1)
    <2>1. Before(S, before, x) # S
      BY <1>1
    <2>2. Cardinality(Before(S, before, x)) <= Cardinality(S)
          /\ Cardinality(Before(S, before, x)) # Cardinality(S)
      BY <1>1, <2>1, FS_Subset
    <2> QED
      BY <1>1, <1>2, <2>2
  <1>4. ASSUME NEW x \in S, NEW y \in S, <<x, y>> \in before
        PROVE  Cardinality(Before(S, before, x)) < Cardinality(Before(S, before, y))
    <2>1. Before(S, before, x) \in SUBSET Before(S, before, y)
      BY <1>4 DEF Before, StrictTotal
    <2>2. x \in Before(S, before, y)
      BY <1>4 DEF Before
    <2>3. Cardinality(Before(S, before, x)) <= Cardinality(Before(S, before, y))
          /\ Cardinality(Before(S, before, x)) # Cardinality(Before(S, before, y))
      BY <1>1, <2>1, <2>2, FS_Subset
    <2> QED
      BY <1>1, <2>3
  <1> QED
    BY <1>3, <1>4

LEMMA ArrangementExists ==
  ASSUME NEW S, IsFiniteSet(S), NEW before, StrictTotal(S, before)
  PROVE  \E f \in [1..Cardinality(S) -> S] :
            \A i, j \in 1..Cardinality(S) : i < j => <<f[i], f[j]>> \in before
  <1> DEFINE n == Cardinality(S)
             p == [x \in S |-> Cardinality(Before(S, before, x)) + 1]
             g == [k \in 1..n |-> CHOOSE x \in S : p[x] = k]
  <1>1. n \in Nat /\ IsFiniteSet(1..n) /\ Cardinality(1..n) = n
    <2>1. n \in Nat
      BY FS_CardinalityType
    <2> HIDE DEF n
    <2> QED
      BY <2>1, FS_Interval
  <1>2. /\ p \in [S -> 1..n]
        /\ \A x, y \in S : <<x, y>> \in before => p[x] < p[y]
    <2>1. \A x \in S : p[x] \in 1..n
      BY <1>1, BeforeCounts
    <2>2. \A x, y \in S : <<x, y>> \in before => p[x] < p[y]
      <3> SUFFICES ASSUME NEW x \in S, NEW y \in S, <<x, y>> \in before PROVE p[x] < p[y]
        OBVIOUS
      <3>1. /\ Cardinality(Before(S, before, x)) \in 0..(n - 1)
            /\ Cardinality(Before(S, before, y)) \in 0..(n - 1)
            /\ Cardinality(Before(S, before, x)) < Cardinality(Before(S, before, y))
        BY BeforeCounts
      <3> HIDE DEF n
      <3> QED
        BY <1>1, <3>1
    <2> QED
      BY <2>1, <2>2
  <1> HIDE DEF p, n
  <1>3. \A x, y \in S : p[x] = p[y] => x = y
    <2> SUFFICES ASSUME NEW x \in S, NEW y \in S, p[x] = p[y], x # y PROVE FALSE
      OBVIOUS
    <2>1. p[x] < p[y] \/ p[y] < p[x]
      BY <1>2 DEF StrictTotal
    <2>2. p[x] \in Nat
      BY <1>1, <1>2
    <2> QED
      BY <2>1, <2>2
  <1>4. p \in Injection(S, 1..n)
    BY <1>2, <1>3 DEF Injection, IsInjective
  <1>5. p \in Surjection(S, 1..n)
    BY <1>1, <1>4, FS_Injection DEF n
  <1>6. \A k \in 1..n : g[k] \in S /\ p[g[k]] = k
    BY <1>5 DEF Surjection
  <1>7. g \in [1..n -> S]
    BY <1>6
  <1> HIDE DEF g
  <1>8. \A i, j \in 1..n : i < j => <<g[i], g[j]>> \in before
    <2> SUFFICES ASSUME NEW i \in 1..n, NEW j \in 1..n, i < j, <<g[i], g[j]>> \notin before
                 PROVE  FALSE
      OBVIOUS
    <2>1. g[i] \in S /\ g[j] \in S /\ p[g[i]] = i /\ p[g[j]] = j
      BY <1>6
    <2>2. g[i] = g[j] \/ <<g[j], g[i]>> \in before
      BY <2>1 DEF StrictTotal
    <2>3. i = j \/ j < i
      BY <1>2, <2>1, <2>2
    <2> QED
      BY <1>1, <2>3
  <1> QED
    BY <1>7, <1>8 DEF n

LEMMA Sorted ==
  ASSUME NEW S, IsFiniteSet(S), NEW before, StrictTotal(S, before),
         NEW f, f = Arranged(S, before), NEW n, n = Cardinality(S)
  PROVE  /\ n \in Nat /\ f \in [1..n -> S]
         /\ \A i, j \in 1..n : i < j => <<f[i], f[j]>> \in before
         /\ \A x \in S : \E k \in 1..n : f[k] = x
         /\ \A k \in 1..n : Cardinality(Before(S, before, f[k])) = k - 1
  <1>1. n \in Nat /\ IsFiniteSet(1..n) /\ Cardinality(1..n) = n
    BY FS_CardinalityType, FS_Interval
  <1>2. f \in [1..n -> S] /\ \A i, j \in 1..n : i < j => <<f[i], f[j]>> \in before
    BY ArrangementExists DEF Arranged
  <1>3. \A i, j \in 1..n : f[i] = f[j] => i = j
    <2> SUFFICES ASSUME NEW i \in 1..n, NEW j \in 1..n, f[i] = f[j], i # j PROVE FALSE
      OBVIOUS
    <2>1. i < j \/ j < i
      BY <1>1
    <2>2. f[i] \in S /\ (<<f[i], f[j]>> \in before \/ <<f[j], f[i]>> \in before)
      BY <1>2, <2>1
    <2> QED
      BY <2>2 DEF StrictTotal
  <1>4. f \in Injection(1..n, S)
    BY <1>2, <1>3 DEF Injection, IsInjective
  <1>5. f \in Surjection(1..n, S)
    BY <1>1, <1>4, FS_Injection
  <1>6. \A x \in S : \E k \in 1..n : f[k] = x
    BY <1>5 DEF Surjection
  <1>7. ASSUME NEW k \in 1..n PROVE Cardinality(Before(S, before, f[k])) = k - 1
    <2> DEFINE h == [i \in 1..(k - 1) |-> f[i]]
    <2>1. k \in Nat /\ k - 1 \in Nat /\ \A i \in 1..(k - 1) : i \in 1..n /\ i < k
      BY <1>1
    <2>2. \A i \in 1..(k - 1) : f[i] \in Before(S, before, f[k])
      BY <1>2, <2>1 DEF Before
    <2>3. \A y \in Before(S, before, f[k]) : \E i \in 1..(k - 1) : f[i] = y
      <3> SUFFICES ASSUME NEW y \in S, <<y, f[k]>> \in before
                   PROVE  \E i \in 1..(k - 1) : f[i] = y
        BY DEF Before
      <3>1. PICK i \in 1..n : f[i] = y
        BY <1>6
      <3>2. ~(k < i)
        <4> SUFFICES ASSUME k < i PROVE FALSE
          OBVIOUS
        <4>1. <<f[k], f[i]>> \in before /\ <<f[i], f[k]>> \in before /\ f[k] \in S /\ f[i] \in S
          BY <1>2, <3>1
        <4>2. <<f[k], f[k]>> \in before
          BY <4>1 DEF StrictTotal
        <4> QED
          BY <4>1, <4>2 DEF StrictTotal
      <3>3. i # k
        <4>1. f[k] \in S
          BY <1>2
        <4> QED
          BY <3>1, <4>1 DEF StrictTotal
      <3>4. i \in 1..(k - 1)
        BY <1>1, <3>2, <3>3
      <3> QED
        BY <3>1, <3>4
    <2>4. h \in [1..(k - 1) -> Before(S, before, f[k])]
      BY <2>2
    <2>5. \A i, j \in 1..(k - 1) : h[i] = h[j] => i = j
      BY <1>3, <2>1
    <2>6. h \in Bijection(1..(k - 1), Before(S, before, f[k]))
      <3>1. h \in Injection(1..(k - 1), Before(S, before, f[k]))
        BY <2>4, <2>5 DEF Injection, IsInjective
      <3>2. h \in Surjection(1..(k - 1), Before(S, before, f[k]))
        BY <2>3, <2>4 DEF Surjection
      <3> QED
        BY <3>1, <3>2 DEF Bijection
    <2>7. IsFiniteSet(1..(k - 1)) /\ Cardinality(1..(k - 1)) = k - 1
      BY <2>1, FS_Interval
    <2> QED
      BY <2>6, <2>7, FS_Bijection DEF ExistsBijection
  <1> QED
    BY <1>1, <1>2, <1>6, <1>7
-----------------------------------------------------------------------------
(* The rows of a file: finitely many, told apart by their numbers. *)

Table(t) ==
    /\ t \subseteq Row /\ IsFiniteSet(t) /\ Cardinality(t) <= MaxRows
    /\ \A a, b \in t : a.rowNum = b.rowNum => a = b

LEMMA FileIsTable ==
  ASSUME NEW csv \in File
  PROVE  Table(RowsOf(csv))
  <1> DEFINE t == RowsOf(csv)
             h == [i \in DOMAIN csv |->
                     [player |-> csv[i].player, score |-> csv[i].score, rowNum |-> i]]
  <1>1. PICK n \in 0..MaxRows : csv \in [1..n -> [player : Player, score : Score]]
    BY DEF File
  <1>2. n \in Nat /\ n <= MaxRows /\ MaxRows \in Nat /\ DOMAIN csv = 1..n
    BY <1>1, RankingAssumption
  <1>3. t \subseteq Row
    <2> SUFFICES ASSUME NEW i \in 1..n
                 PROVE  [player |-> csv[i].player, score |-> csv[i].score, rowNum |-> i] \in Row
      BY <1>2 DEF RowsOf
    <2>1. csv[i].player \in Player /\ csv[i].score \in Score /\ i \in 1..MaxRows
      BY <1>1, <1>2
    <2> QED
      BY <2>1 DEF Row
  <1>4. h \in Surjection(1..n, t)
    BY <1>2 DEF RowsOf, Surjection
  <1>5. IsFiniteSet(1..n) /\ Cardinality(1..n) = n
    BY <1>2, FS_Interval
  <1>6. IsFiniteSet(t) /\ Cardinality(t) <= n
    <2> HIDE DEF h, t
    <2> QED
      BY <1>4, <1>5, FS_Surjection
  <1>7. Cardinality(t) <= MaxRows
    <2>1. Cardinality(t) \in Nat
      BY <1>6, FS_CardinalityType
    <2> QED
      BY <1>2, <1>6, <2>1
  <1>8. \A a, b \in t : a.rowNum = b.rowNum => a = b
    BY DEF RowsOf
  <1> QED
    BY <1>3, <1>6, <1>7, <1>8 DEF Table

LEMMA RowFields ==
  ASSUME NEW t, Table(t), NEW row \in t
  PROVE  row.player \in Player /\ row.score \in Score /\ row.score \in Int /\ row.rowNum \in Nat
  <1>1. row \in Row
    BY DEF Table
  <1>2. row.player \in Player /\ row.score \in Score /\ row.rowNum \in 1..MaxRows
    BY <1>1 DEF Row
  <1>3. row.score \in Int
    BY <1>2, RankingAssumption
  <1>4. MaxRows \in Nat
    BY RankingAssumption
  <1>5. row.rowNum \in Nat
    BY <1>2, <1>4
  <1> QED
    BY <1>2, <1>3, <1>5

(* Skipping the later rows of the descending list leaves the row that appears  *)
(* last in the file, per participant.                                          *)
LEMMA FirstIsLast ==
  ASSUME NEW t, Table(t)
  PROVE  FirstOfEach(Selected(t)) = Counting(t)
  <1> DEFINE before == {p \in t \X t : p[1].rowNum > p[2].rowNum}
             n == Cardinality(t)
             f == Selected(t)
  <1>1. \A a, b \in t : <<a, b>> \in before <=> a.rowNum > b.rowNum
    OBVIOUS
  <1>2. f = Arranged(t, before)
    BY DEF Selected
  <1> HIDE DEF before, f, n
  <1>3. StrictTotal(t, before)
    <2>1. \A x \in t : <<x, x>> \notin before
      BY <1>1, RowFields
    <2>2. \A x, y, z \in t : <<x, y>> \in before /\ <<y, z>> \in before => <<x, z>> \in before
      BY <1>1, RowFields
    <2>3. \A x, y \in t : x = y \/ <<x, y>> \in before \/ <<y, x>> \in before
      <3> SUFFICES ASSUME NEW x \in t, NEW y \in t, x.rowNum # y.rowNum
                   PROVE  x.rowNum > y.rowNum \/ y.rowNum > x.rowNum
        BY <1>1 DEF Table
      <3> QED
        BY RowFields
    <2> QED
      BY <2>1, <2>2, <2>3 DEF StrictTotal
  <1>4. /\ n \in Nat /\ f \in [1..n -> t]
        /\ \A i, j \in 1..n : i < j => <<f[i], f[j]>> \in before
        /\ \A x \in t : \E k \in 1..n : f[k] = x
    BY <1>2, <1>3, Sorted DEF Table, n
  <1>5. DOMAIN f = 1..n /\ \A k \in 1..n : f[k] \in t
    BY <1>4
  <1>6. \A i, j \in 1..n : i < j => f[i].rowNum > f[j].rowNum
    BY <1>1, <1>4, <1>5
  <1>7. FirstOfEach(f) = {f[i] : i \in {k \in 1..n : \A j \in 1..(k - 1) : f[j].player # f[k].player}}
    BY <1>5 DEF FirstOfEach
  <1>8. ASSUME NEW k \in 1..n
        PROVE  (\A j \in 1..(k - 1) : f[j].player # f[k].player) <=> f[k] \in Counting(t)
    <2>1. ASSUME \A j \in 1..(k - 1) : f[j].player # f[k].player, NEW other \in t,
                 other.player = f[k].player
          PROVE  other.rowNum <= f[k].rowNum
      <3>1. PICK i \in 1..n : f[i] = other
        BY <1>4
      <3>2. i \notin 1..(k - 1)
        BY <2>1, <3>1
      <3>3. i = k \/ k < i
        BY <1>4, <3>2
      <3>4. f[k].rowNum \in Nat /\ other.rowNum \in Nat
        BY <1>5, RowFields
      <3> QED
        BY <1>6, <3>1, <3>3, <3>4
    <2>2. ASSUME f[k] \in Counting(t), NEW j \in 1..(k - 1), f[j].player = f[k].player
          PROVE  FALSE
      <3>1. j \in 1..n /\ j < k
        BY <1>4
      <3>2. f[j].rowNum > f[k].rowNum /\ f[j] \in t /\ f[k] \in t
        BY <1>5, <1>6, <3>1
      <3>3. f[j].rowNum <= f[k].rowNum
        BY <2>2, <3>2 DEF Counting
      <3>4. f[j].rowNum \in Nat /\ f[k].rowNum \in Nat
        BY <3>2, RowFields
      <3> QED
        BY <3>2, <3>3, <3>4
    <2> QED
      BY <1>5, <2>1, <2>2 DEF Counting
  <1>9. FirstOfEach(f) \subseteq Counting(t)
    BY <1>7, <1>8
  <1>10. Counting(t) \subseteq FirstOfEach(f)
    <2> SUFFICES ASSUME NEW row \in Counting(t) PROVE row \in FirstOfEach(f)
      OBVIOUS
    <2>1. PICK k \in 1..n : f[k] = row
      BY <1>4 DEF Counting
    <2> QED
      BY <1>7, <1>8, <2>1
  <1> QED
    BY <1>9, <1>10 DEF f

(* The sorted list has at place k the row whose rank is k. *)
LEMMA RankedByRank ==
  ASSUME NEW t, Table(t), NEW C, C = Counting(t), NEW n, n = Cardinality(C)
  PROVE  /\ n \in Nat /\ n <= MaxRows
         /\ \A k \in 1..n : Ranked(C)[k] \in C /\ RankIn(C, Ranked(C)[k]) = k
         /\ \A row \in C : \E k \in 1..n : Ranked(C)[k] = row
  <1> DEFINE before == {p \in C \X C : Ahead(p[1], p[2])}
             f == Ranked(C)
  <1>1. C \in SUBSET t
    BY DEF Counting
  <1>2. IsFiniteSet(C) /\ Cardinality(C) <= Cardinality(t)
    BY <1>1, FS_Subset DEF Table
  <1>3. n \in Nat /\ n <= MaxRows
    <2>1. Cardinality(C) \in Nat /\ Cardinality(t) \in Nat /\ Cardinality(t) <= MaxRows
      BY <1>2, FS_CardinalityType DEF Table
    <2> QED
      BY <1>2, <2>1, RankingAssumption
  <1>4. \A a, b \in C : <<a, b>> \in before <=> Ahead(a, b)
    OBVIOUS
  <1>5. f = Arranged(C, before)
    BY DEF Ranked
  <1> HIDE DEF before, f
  <1>6. \A a \in C : a.score \in Int /\ a.rowNum \in Nat
    BY <1>1, RowFields
  <1>7. StrictTotal(C, before)
    <2>1. \A x \in C : <<x, x>> \notin before
      BY <1>4, <1>6 DEF Ahead
    <2>2. \A x, y, z \in C : <<x, y>> \in before /\ <<y, z>> \in before => <<x, z>> \in before
      BY <1>4, <1>6 DEF Ahead
    <2>3. \A x, y \in C : x = y \/ <<x, y>> \in before \/ <<y, x>> \in before
      <3> SUFFICES ASSUME NEW x \in C, NEW y \in C, x.rowNum # y.rowNum
                   PROVE  Ahead(x, y) \/ Ahead(y, x)
        BY <1>1, <1>4 DEF Table
      <3> QED
        BY <1>6 DEF Ahead
    <2> QED
      BY <2>1, <2>2, <2>3 DEF StrictTotal
  <1>8. /\ f \in [1..n -> C]
        /\ \A x \in C : \E k \in 1..n : f[k] = x
        /\ \A k \in 1..n : Cardinality(Before(C, before, f[k])) = k - 1
    BY <1>2, <1>5, <1>7, Sorted
  <1>9. ASSUME NEW k \in 1..n PROVE f[k] \in C /\ RankIn(C, f[k]) = k
    <2>1. f[k] \in C
      BY <1>8
    <2>2. Before(C, before, f[k]) = {other \in C : \/ other.score > f[k].score
                                                  \/ /\ other.score = f[k].score
                                                     /\ other.rowNum < f[k].rowNum}
      BY <1>4, <2>1 DEF Before, Ahead
    <2>3. RankIn(C, f[k]) = 1 + Cardinality(Before(C, before, f[k]))
      BY <2>2 DEF RankIn
    <2>4. Cardinality(Before(C, before, f[k])) = k - 1
      BY <1>8
    <2> QED
      BY <1>3, <2>1, <2>3, <2>4
  <1> QED
    BY <1>3, <1>8, <1>9 DEF f
-----------------------------------------------------------------------------
(* A page, from the row whose rank is rankAfter + 1. *)

PageFits(t, rankAfter) ==
    LET page == Page(t, rankAfter)
        from == Skipped(rankAfter)
    IN /\ page \in Seq(EntryType) /\ Len(page) <= PageSize
       /\ \A k \in 1..Len(page) : page[k].rank = from + k
       /\ ToSet(page) = {e \in Standings(t) : e.rank \in (from + 1)..(from + PageSize)}
       /\ Len(page) < PageSize => \A e \in Standings(t) : e.rank <= from + Len(page)

LEMMA RanksInStandings ==
  ASSUME NEW t, Table(t), NEW e \in Standings(t)
  PROVE  e.rank \in Nat /\ e.rank >= 1
  <1> DEFINE C == Counting(t)
             n == Cardinality(C)
  <1>1. n \in Nat /\ \A k \in 1..n : Ranked(C)[k] \in C /\ RankIn(C, Ranked(C)[k]) = k
    BY RankedByRank
  <1>2. \A row \in C : \E k \in 1..n : Ranked(C)[k] = row
    BY RankedByRank
  <1> HIDE DEF n
  <1>3. PICK row \in C : e = Entry(RankIn(C, row), row)
    BY DEF Standings
  <1>4. RankIn(C, row) \in 1..n
    BY <1>1, <1>2
  <1>5. e.rank = RankIn(C, row)
    BY <1>3 DEF Entry
  <1> QED
    BY <1>1, <1>4, <1>5

LEMMA PageFitsTable ==
  ASSUME NEW t, Table(t), NEW rankAfter \in Int
  PROVE  PageFits(t, rankAfter)
  <1> DEFINE C == Counting(t)
             n == Cardinality(C)
             R == Ranked(C)
             from == Skipped(rankAfter)
             page == Page(t, rankAfter)
             m == IF n - from < PageSize THEN n - from ELSE PageSize
             L == IF m < 0 THEN 0 ELSE m
  <1>1. n \in Nat /\ n <= MaxRows /\ \A k \in 1..n : R[k] \in C /\ RankIn(C, R[k]) = k
    BY RankedByRank
  <1>2. \A row \in C : \E k \in 1..n : R[k] = row
    BY RankedByRank
  <1>3. from \in Nat
    BY DEF Skipped
  <1>4. page = [k \in 1..m |-> Entry(from + k, R[from + k])]
    BY FirstIsLast DEF Page
  <1> HIDE DEF n, from, R, page
  <1>5. /\ m \in Int /\ L \in Nat /\ 1..m = 1..L /\ L <= PageSize
        /\ \A k \in 1..L : from + k \in 1..n
        /\ L < PageSize => n <= from + L
        /\ \A k \in (from + 1)..(from + PageSize) : k <= n => k - from \in 1..L
    BY <1>1, <1>3, RankingAssumption
  <1> HIDE DEF m, L
  <1>6. page = [k \in 1..L |-> Entry(from + k, R[from + k])]
    BY <1>4, <1>5
  <1>7. ASSUME NEW k \in 1..L
        PROVE  /\ page[k] = Entry(from + k, R[from + k])
               /\ page[k] \in EntryType
               /\ page[k].rank = from + k
    <2>1. page[k] = Entry(from + k, R[from + k])
      BY <1>6
    <2>2. from + k \in 1..n
      BY <1>5
    <2>3. R[from + k] \in t /\ from + k \in 1..MaxRows
      <3>1. R[from + k] \in C
        BY <1>1, <2>2
      <3>2. MaxRows \in Nat
        BY RankingAssumption
      <3>3. from + k \in 1..MaxRows
        BY <1>1, <2>2, <3>2
      <3> QED
        BY <3>1, <3>3 DEF Counting
    <2>4. R[from + k].player \in Player /\ R[from + k].score \in Score
      BY <2>3, RowFields
    <2> QED
      BY <2>1, <2>3, <2>4 DEF Entry, EntryType
  <1>8. page \in Seq(EntryType) /\ Len(page) = L /\ DOMAIN page = 1..L
    <2>1. page \in [1..L -> EntryType]
      BY <1>6, <1>7
    <2> QED
      BY <1>5, <2>1
  <1>9. \A k \in 1..n : Entry(k, R[k]) \in Standings(t)
    BY <1>1 DEF Standings
  <1>10. \A e \in Standings(t) : e.rank \in 1..n /\ e = Entry(e.rank, R[e.rank])
    <2> SUFFICES ASSUME NEW row \in C, NEW e, e = Entry(RankIn(C, row), row)
                 PROVE  e.rank \in 1..n /\ e = Entry(e.rank, R[e.rank])
      BY DEF Standings
    <2>1. PICK k \in 1..n : R[k] = row
      BY <1>2
    <2>2. RankIn(C, row) = k
      BY <1>1, <2>1
    <2>3. e = Entry(k, R[k])
      BY <2>1, <2>2
    <2>4. e.rank = k
      BY <2>3 DEF Entry
    <2> QED
      BY <2>3, <2>4
  <1>11. ToSet(page) = {page[k] : k \in 1..L}
    BY <1>8 DEF ToSet
  <1>12. ToSet(page) = {e \in Standings(t) : e.rank \in (from + 1)..(from + PageSize)}
    <2>1. ASSUME NEW k \in 1..L
          PROVE  page[k] \in Standings(t) /\ page[k].rank \in (from + 1)..(from + PageSize)
      <3>1. page[k] \in Standings(t)
        BY <1>5, <1>7, <1>9
      <3>2. from + k \in (from + 1)..(from + PageSize)
        BY <1>3, <1>5, RankingAssumption
      <3> QED
        BY <1>7, <3>1, <3>2
    <2>2. ASSUME NEW e \in Standings(t), e.rank \in (from + 1)..(from + PageSize)
          PROVE  \E k \in 1..L : e = page[k]
      <3>1. e.rank \in 1..n /\ e = Entry(e.rank, R[e.rank])
        BY <1>10
      <3>2. e.rank - from \in 1..L /\ from + (e.rank - from) = e.rank
        BY <1>1, <1>3, <1>5, <2>2, <3>1
      <3>3. page[e.rank - from] = Entry(e.rank, R[e.rank])
        BY <1>7, <3>2
      <3> QED
        BY <3>1, <3>2, <3>3
    <2> QED
      BY <1>11, <2>1, <2>2
  <1>13. L < PageSize => \A e \in Standings(t) : e.rank <= from + L
    BY <1>1, <1>3, <1>5, <1>10
  <1> QED
    BY <1>5, <1>7, <1>8, <1>12, <1>13 DEF PageFits, page, from

-----------------------------------------------------------------------------
(* The inductive invariant: the rows form a table, the list holds the ranks   *)
(* 1 to nextId, and as long as no file came in since the first page it is the  *)
(* first nextId places of the table's standings.                               *)

UpTo(rank) == {e \in Standings(rows) : e.rank \in 1..rank}

RowsAreTable == Table(rows)

NextIsLength == nextId = Len(ranks)

ResponseFollows ==
    /\ Len(response) <= PageSize
    /\ \A k \in 1..Len(response) : response[k].rank = nextId + k
    /\ ~isLoading => response = <<>>

StableList ==
    stable => /\ ToSet(ranks) = UpTo(nextId)
              /\ isLoading => response = Page(rows, nextId)
              /\ noMoreLoad => ToSet(ranks) = Standings(rows)

NothingAfterTheLast == noMoreLoad => ~isLoading

NumbersTyped ==
    /\ rows \subseteq Row /\ uploads \in 0..MaxUploads
    /\ nextId \in 0..MaxRows
    /\ ranks \in Seq(EntryType) /\ response \in Seq(EntryType)

IInv == /\ TypeOK /\ RowsAreTable /\ ListHasEveryRankOnce /\ NextIsLength
        /\ ResponseFollows /\ StableList /\ NothingAfterTheLast
LEMMA Initially == Init => IInv
  <1> SUFFICES ASSUME Init PROVE IInv
    OBVIOUS
  <1>1. MaxRows \in Nat /\ MaxUploads \in Nat
    BY RankingAssumption
  <1>2. TypeOK
    <2>1. NumbersTyped
      BY <1>1 DEF Init, NumbersTyped
    <2>2. {noMoreLoad, isLoading, stable} \subseteq BOOLEAN
      BY Zenon DEF Init
    <2> QED
      BY <2>1, <2>2 DEF NumbersTyped, TypeOK
  <1>3. RowsAreTable
    <2>1. IsFiniteSet({}) /\ Cardinality({}) = 0
      BY FS_EmptySet
    <2> QED
      BY <1>1, <2>1 DEF Init, RowsAreTable, Table
  <1>4. ListHasEveryRankOnce /\ NextIsLength
    BY DEF Init, ListHasEveryRankOnce, NextIsLength
  <1>5. ResponseFollows
    BY RankingAssumption DEF Init, ResponseFollows
  <1>6. StableList
    BY DEF Init, StableList, UpTo, ToSet
  <1> QED
    BY <1>2, <1>3, <1>4, <1>5, <1>6 DEF Init, IInv, NothingAfterTheLast

(* The page as the browser's next request asks for it. *)
LEMMA NextPage ==
  ASSUME IInv
  PROVE  /\ Page(rows, nextId) \in Seq(EntryType) /\ Len(Page(rows, nextId)) <= PageSize
         /\ \A k \in 1..Len(Page(rows, nextId)) : Page(rows, nextId)[k].rank = nextId + k
         /\ ToSet(Page(rows, nextId)) =
               {e \in Standings(rows) : e.rank \in (nextId + 1)..(nextId + PageSize)}
         /\ Len(Page(rows, nextId)) < PageSize =>
               \A e \in Standings(rows) : e.rank <= nextId + Len(Page(rows, nextId))
  <1>1. nextId \in Nat
    BY RankingAssumption DEF IInv, TypeOK
  <1>2. Skipped(nextId) = nextId
    BY <1>1 DEF Skipped
  <1>3. PageFits(rows, nextId)
    BY <1>1, PageFitsTable DEF IInv, RowsAreTable
  <1> DEFINE page == Page(rows, nextId)
             from == Skipped(nextId)
  <1>4. /\ page \in Seq(EntryType) /\ Len(page) <= PageSize
        /\ \A k \in 1..Len(page) : page[k].rank = from + k
        /\ ToSet(page) = {e \in Standings(rows) : e.rank \in (from + 1)..(from + PageSize)}
        /\ Len(page) < PageSize => \A e \in Standings(rows) : e.rank <= from + Len(page)
    BY <1>3 DEF PageFits
  <1>5. from = nextId
    BY <1>2
  <1> HIDE DEF from
  <1> QED
    BY <1>4, <1>5

LEMMA EmptyList ==
  ASSUME NEW list, list = <<>>
  PROVE  list \in Seq(EntryType) /\ Len(list) = 0 /\ ToSet(list) = {} /\ DOMAIN list = {}
  BY DEF ToSet

LEMMA OpenKeeps ==
  ASSUME IInv, Open
  PROVE  IInv'
  <1>1. TypeOK'
    <2>1. NumbersTyped'
      BY RankingAssumption DEF IInv, TypeOK, NumbersTyped, Open, serverVars
    <2>2. {noMoreLoad', isLoading', stable'} \subseteq BOOLEAN
      BY Zenon DEF Open
    <2> QED
      BY <2>1, <2>2 DEF NumbersTyped, TypeOK
  <1>2. RowsAreTable'
    BY DEF IInv, RowsAreTable, Open, serverVars
  <1>3. ListHasEveryRankOnce' /\ NextIsLength'
    BY DEF Open, ListHasEveryRankOnce, NextIsLength
  <1>4. ResponseFollows'
    BY RankingAssumption DEF Open, ResponseFollows
  <1>5. StableList'
    <2>1. ToSet(ranks') = {} /\ nextId' = 0 /\ ~isLoading' /\ ~noMoreLoad'
      BY DEF Open, ToSet
    <2>2. UpTo(nextId)' = {}
      BY <2>1 DEF UpTo
    <2> QED
      BY <2>1, <2>2 DEF StableList
  <1> QED
    BY <1>1, <1>2, <1>3, <1>4, <1>5 DEF Open, IInv, NothingAfterTheLast

LEMMA UploadKeeps ==
  ASSUME IInv, Upload
  PROVE  IInv'
  <1>1. PICK csv \in File : rows' = RowsOf(csv)
    BY DEF Upload
  <1>2. Table(rows')
    BY <1>1, FileIsTable
  <1>3. TypeOK'
    <2>1. uploads' \in 0..MaxUploads
      BY RankingAssumption DEF IInv, TypeOK, Upload
    <2>2. stable' \in BOOLEAN
      BY DEF Upload
    <2> QED
      BY <1>2, <2>1, <2>2 DEF IInv, TypeOK, Upload, Table
  <1>4. ListHasEveryRankOnce' /\ NextIsLength' /\ ResponseFollows' /\ NothingAfterTheLast'
    BY DEF IInv, Upload, ListHasEveryRankOnce, NextIsLength, ResponseFollows, NothingAfterTheLast
  <1>5. StableList'
    <2> SUFFICES ASSUME stable' PROVE StableList'
      BY DEF StableList
    <2>1. ranks' = <<>> /\ ~isLoading' /\ ~noMoreLoad' /\ nextId' = nextId /\ ranks = <<>>
      BY DEF Upload
    <2>2. nextId' = 0
      BY <2>1 DEF IInv, NextIsLength
    <2>3. UpTo(nextId)' = {}
      BY <2>2 DEF UpTo
    <2>4. ToSet(ranks') = {}
      BY <2>1 DEF ToSet
    <2> QED
      BY <2>1, <2>3, <2>4 DEF StableList
  <1> QED
    BY <1>2, <1>3, <1>4, <1>5 DEF IInv, RowsAreTable

LEMMA FetchKeeps ==
  ASSUME IInv, Fetch
  PROVE  IInv'
  <1>1. /\ Page(rows, nextId) \in Seq(EntryType) /\ Len(Page(rows, nextId)) <= PageSize
        /\ \A k \in 1..Len(Page(rows, nextId)) : Page(rows, nextId)[k].rank = nextId + k
    BY NextPage
  <1>2. /\ response' = Page(rows, nextId) /\ isLoading' = TRUE /\ ~noMoreLoad'
        /\ rows' = rows /\ uploads' = uploads /\ ranks' = ranks /\ nextId' = nextId
        /\ noMoreLoad' = noMoreLoad /\ stable' = stable
    BY DEF Fetch, serverVars
  <1>3. TypeOK'
    BY <1>1, <1>2 DEF IInv, TypeOK
  <1>4. ListHasEveryRankOnce' /\ NextIsLength' /\ RowsAreTable' /\ NothingAfterTheLast'
    BY <1>2 DEF IInv, ListHasEveryRankOnce, NextIsLength, RowsAreTable, NothingAfterTheLast
  <1>5. ResponseFollows'
    BY <1>1, <1>2 DEF ResponseFollows
  <1>6. StableList'
    <2>1. Page(rows, nextId)' = Page(rows, nextId) /\ UpTo(nextId)' = UpTo(nextId)
          /\ Standings(rows)' = Standings(rows)
      BY <1>2 DEF UpTo
    <2> QED
      BY <1>2, <2>1 DEF IInv, StableList
  <1> QED
    BY <1>3, <1>4, <1>5, <1>6 DEF IInv

LEMMA FetchFailsKeeps ==
  ASSUME IInv, FetchFails
  PROVE  IInv'
  <1>1. /\ response' = <<>> /\ isLoading' = FALSE
        /\ rows' = rows /\ uploads' = uploads /\ ranks' = ranks /\ nextId' = nextId
        /\ noMoreLoad' = noMoreLoad /\ stable' = stable
    BY DEF FetchFails, serverVars
  <1>2. TypeOK'
    <2>1. NumbersTyped'
      BY <1>1 DEF IInv, TypeOK, NumbersTyped
    <2>2. {noMoreLoad', isLoading', stable'} \subseteq BOOLEAN
      BY <1>1, Zenon DEF IInv, TypeOK
    <2> QED
      BY <2>1, <2>2 DEF NumbersTyped, TypeOK
  <1>3. ListHasEveryRankOnce' /\ NextIsLength' /\ RowsAreTable' /\ NothingAfterTheLast'
    BY <1>1 DEF IInv, ListHasEveryRankOnce, NextIsLength, RowsAreTable, NothingAfterTheLast
  <1>4. ResponseFollows'
    BY <1>1, RankingAssumption DEF ResponseFollows
  <1>5. StableList'
    <2>1. UpTo(nextId)' = UpTo(nextId) /\ Standings(rows)' = Standings(rows)
      BY <1>1 DEF UpTo
    <2> QED
      BY <1>1, <2>1 DEF IInv, StableList
  <1> QED
    BY <1>2, <1>3, <1>4, <1>5 DEF IInv

LEMMA AppendedSet ==
  ASSUME NEW T, NEW s \in Seq(T), NEW u \in Seq(T)
  PROVE  ToSet(s \o u) = ToSet(s) \cup ToSet(u)
  <1>1. \A k \in 1..Len(s) : (s \o u)[k] = s[k]
    OBVIOUS
  <1>2. \A k \in 1..Len(u) : Len(s) + k \in 1..Len(s \o u) /\ (s \o u)[Len(s) + k] = u[k]
    OBVIOUS
  <1>3. \A k \in 1..Len(s \o u) :
            k \in 1..Len(s) \/ (k - Len(s) \in 1..Len(u) /\ (s \o u)[k] = u[k - Len(s)])
    OBVIOUS
  <1>4. DOMAIN s = 1..Len(s) /\ DOMAIN u = 1..Len(u) /\ DOMAIN (s \o u) = 1..Len(s \o u)
        /\ 1..Len(s) \subseteq 1..Len(s \o u)
    OBVIOUS
  <1>5. ToSet(s \o u) \subseteq ToSet(s) \cup ToSet(u)
    <2> SUFFICES ASSUME NEW k \in 1..Len(s \o u)
                 PROVE  (s \o u)[k] \in ToSet(s) \cup ToSet(u)
      BY <1>4 DEF ToSet
    <2> QED
      BY <1>1, <1>3, <1>4 DEF ToSet
  <1>6. ToSet(s) \subseteq ToSet(s \o u)
    BY <1>1, <1>4 DEF ToSet
  <1>7. ToSet(u) \subseteq ToSet(s \o u)
    <2> SUFFICES ASSUME NEW k \in 1..Len(u) PROVE u[k] \in ToSet(s \o u)
      BY <1>4 DEF ToSet
    <2> QED
      BY <1>2, <1>4 DEF ToSet
  <1> QED
    BY <1>5, <1>6, <1>7

LEMMA ReceiveKeeps ==
  ASSUME IInv, Receive
  PROVE  IInv'
  <1> DEFINE got == Len(response)
  <1>1. /\ isLoading /\ response' = <<>> /\ isLoading' = FALSE /\ ranks' = ranks \o response
        /\ nextId' = IF response = <<>> THEN nextId ELSE response[Len(response)].rank
        /\ noMoreLoad' = (got < PageSize)
        /\ rows' = rows /\ uploads' = uploads /\ stable' = stable
    BY DEF Receive, serverVars
  <1>2. /\ ranks \in Seq(EntryType) /\ response \in Seq(EntryType) /\ got \in Nat
        /\ nextId \in Nat /\ nextId = Len(ranks) /\ got <= PageSize
        /\ \A k \in 1..got : response[k].rank = nextId + k
    BY DEF IInv, TypeOK, NextIsLength, ResponseFollows
  <1>3. nextId' = nextId + got /\ nextId' \in 0..MaxRows
    <2>1. CASE response = <<>>
      BY <1>1, <1>2, <2>1 DEF IInv, TypeOK
    <2>2. CASE response # <<>>
      <3>1. got \in 1..got
        BY <1>2, <2>2
      <3>2. response[got] \in EntryType /\ response[got].rank = nextId + got
        BY <1>2, <3>1
      <3>3. response[got].rank \in 1..MaxRows
        BY <3>2 DEF EntryType
      <3>4. MaxRows \in Nat
        BY RankingAssumption
      <3>5. nextId' = response[got].rank
        BY <1>1, <2>2
      <3> QED
        BY <3>2, <3>3, <3>4, <3>5
    <2> QED
      BY <2>1, <2>2
  <1>4. /\ ranks' \in Seq(EntryType) /\ Len(ranks') = nextId + got /\ DOMAIN ranks' = 1..(nextId + got)
        /\ \A i \in 1..nextId : ranks'[i] = ranks[i]
        /\ \A k \in 1..got : ranks'[nextId + k] = response[k]
    BY <1>1, <1>2
  <1> HIDE DEF got
  <1>5. TypeOK'
    <2>1. noMoreLoad' \in BOOLEAN
      <3>1. (got < PageSize) \in BOOLEAN
        BY <1>2, RankingAssumption
      <3> QED
        BY <1>1, <3>1, Zenon
    <2>2. {noMoreLoad', isLoading', stable'} \subseteq BOOLEAN
      BY <1>1, <2>1, Zenon DEF IInv, TypeOK
    <2>3. response' \in Seq(EntryType)
      BY <1>1
    <2>4. NumbersTyped'
      BY <1>1, <1>3, <1>4, <2>3 DEF IInv, TypeOK, NumbersTyped
    <2> QED
      BY <2>2, <2>4 DEF NumbersTyped, TypeOK
  <1>6. ListHasEveryRankOnce'
    <2> SUFFICES ASSUME NEW i \in 1..(nextId + got) PROVE ranks'[i].rank = i
      BY <1>4 DEF ListHasEveryRankOnce
    <2>1. CASE i \in 1..nextId
      <3>1. i \in DOMAIN ranks
        BY <1>2, <2>1
      <3> QED
        BY <1>4, <2>1, <3>1 DEF IInv, ListHasEveryRankOnce
    <2>2. CASE i \notin 1..nextId
      <3>1. i - nextId \in 1..got /\ nextId + (i - nextId) = i
        BY <1>2, <2>2
      <3>2. ranks'[i] = response[i - nextId] /\ response[i - nextId].rank = i
        <4> DEFINE k == i - nextId
        <4> HIDE DEF k
        <4>1. ranks'[nextId + k] = response[k] /\ response[k].rank = nextId + k
          BY <1>2, <1>4, <3>1 DEF k
        <4> QED
          BY <3>1, <4>1 DEF k
      <3> QED
        BY <3>2
    <2> QED
      BY <2>1, <2>2
  <1>7. NextIsLength' /\ RowsAreTable'
    BY <1>1, <1>3, <1>4 DEF IInv, NextIsLength, RowsAreTable
  <1>8. ResponseFollows'
    BY <1>1, RankingAssumption DEF ResponseFollows
  <1>9. NothingAfterTheLast'
    BY <1>1 DEF NothingAfterTheLast
  <1>10. StableList'
    <2> SUFFICES ASSUME stable
                 PROVE  ToSet(ranks') = UpTo(nextId)' /\ (noMoreLoad' => ToSet(ranks') = Standings(rows))
      BY <1>1 DEF StableList
    <2>1. ToSet(ranks) = UpTo(nextId) /\ response = Page(rows, nextId)
      BY <1>1 DEF IInv, StableList
    <2>2. /\ ToSet(response) = {e \in Standings(rows) : e.rank \in (nextId + 1)..(nextId + PageSize)}
          /\ got < PageSize => \A e \in Standings(rows) : e.rank <= nextId + got
      BY <2>1, NextPage DEF got
    <2>3. ToSet(ranks') = UpTo(nextId) \cup ToSet(response)
      BY <1>1, <1>2, <2>1, AppendedSet
    <2>4. \A e \in Standings(rows) : e.rank \in Nat /\ e.rank >= 1
      BY RanksInStandings DEF IInv, RowsAreTable
    <2>5. UpTo(nextId)' = {e \in Standings(rows) : e.rank \in 1..(nextId + got)}
      BY <1>1, <1>3 DEF UpTo
    <2>6. ASSUME NEW e \in Standings(rows)
          PROVE  e.rank \in 1..(nextId + got) <=>
                   e.rank \in 1..nextId \/ e.rank \in (nextId + 1)..(nextId + PageSize)
      <3>1. got = PageSize \/ e.rank <= nextId + got
        BY <1>2, <2>2, RankingAssumption
      <3>2. e.rank \in Nat /\ e.rank >= 1 /\ PageSize \in Nat
        BY <2>4, RankingAssumption
      <3> QED
        BY <1>2, <3>1, <3>2
    <2>7. ToSet(ranks') = UpTo(nextId)'
      BY <2>2, <2>3, <2>5, <2>6 DEF UpTo
    <2>8. ASSUME noMoreLoad' PROVE ToSet(ranks') = Standings(rows)
      <3>1. \A e \in Standings(rows) : e.rank \in 1..(nextId + got)
        <4>1. got < PageSize
          BY <1>1, <2>8, Zenon
        <4>2. \A e \in Standings(rows) : e.rank <= nextId + got
          BY <2>2, <4>1
        <4> QED
          BY <1>2, <2>4, <4>2
      <3> QED
        BY <2>5, <2>7, <3>1
    <2> QED
      BY <2>7, <2>8
  <1> QED
    BY <1>5, <1>6, <1>7, <1>8, <1>9, <1>10 DEF IInv

LEMMA Inductive == IInv /\ [Next]_vars => IInv'
  <1> SUFFICES ASSUME IInv, [Next]_vars PROVE IInv'
    OBVIOUS
  <1>1. CASE Next
    BY <1>1, OpenKeeps, UploadKeeps, FetchKeeps, ReceiveKeeps, FetchFailsKeeps DEF Next
  <1>2. CASE UNCHANGED vars
    BY <1>2 DEF vars, serverVars, clientVars, IInv, TypeOK, RowsAreTable, ListHasEveryRankOnce,
                NextIsLength, ResponseFollows, StableList, UpTo, NothingAfterTheLast
  <1> QED
    BY <1>1, <1>2

(* IInv holds of every reachable state. *)
LEMMA Invariant == Spec => []IInv
  BY Initially, Inductive, PTL DEF Spec

-----------------------------------------------------------------------------
(* Every variable keeps its type: the ranks the browser is told, the one it    *)
(* sends back as rank_after, the rows of the file. *)
THEOREM TypeCorrect == Spec => []TypeOK
  <1>1. IInv => TypeOK
    BY DEF IInv
  <1> QED
    BY <1>1, Invariant, PTL

(* Whatever file was uploaded and whatever rank_after is asked for, the page   *)
(* the handler cuts is the standings after it, each at its place.              *)
THEOREM PagesAreStandings == Spec => []PageAgreesWithStandings
  <1>1. IInv => PageAgreesWithStandings
    <2> SUFFICES ASSUME IInv, NEW rankAfter \in -1..(MaxRows + 1)
                 PROVE  /\ ToSet(Page(rows, rankAfter)) =
                             {e \in Standings(rows) : e.rank \in (Skipped(rankAfter) + 1)..(Skipped(rankAfter) + PageSize)}
                        /\ \A k \in DOMAIN Page(rows, rankAfter) :
                              Page(rows, rankAfter)[k].rank = Skipped(rankAfter) + k
      BY DEF PageAgreesWithStandings
    <2>1. rankAfter \in Int
      BY RankingAssumption
    <2>2. PageFits(rows, rankAfter)
      BY <2>1, PageFitsTable DEF IInv, RowsAreTable
    <2>3. DOMAIN Page(rows, rankAfter) = 1..Len(Page(rows, rankAfter))
      BY <2>2 DEF PageFits
    <2> QED
      BY <2>2, <2>3 DEF PageFits
  <1> QED
    BY <1>1, Invariant, PTL

(* However uploads, lost requests and pages interleave, the browser's list has *)
(* every rank once and in order.                                               *)
THEOREM RanksInOrder == Spec => []ListHasEveryRankOnce
  <1>1. IInv => ListHasEveryRankOnce
    BY DEF IInv
  <1> QED
    BY <1>1, Invariant, PTL

(* When the browser offers no further page and no file came in since the first *)
(* one was asked for, its list is the whole ranking.                           *)
THEOREM ListComplete == Spec => []ListIsComplete
  <1>1. IInv => ListIsComplete
    BY DEF IInv, StableList, ListIsComplete
  <1> QED
    BY <1>1, Invariant, PTL

-----------------------------------------------------------------------------
(* AdminList: types *)

LEMMA TenantsConstants ==
  /\ InitialTenants \in Nat /\ MaxTenant \in Nat /\ InitialTenants <= MaxTenant
  /\ TenantsPageSize \in Nat \ {0} /\ MaxFetches \in Nat
  BY ListsAssumption DEF Tenants!AdminListAssumption

LEMMA FetchType ==
  /\ \A before \in {0} \cup 1..MaxTenant, early \in BOOLEAN :
        [before |-> before, early |-> early, state |-> "sent", page |-> <<>>] \in Tenants!Fetch
  /\ \A f \in Tenants!Fetch : /\ f.before \in {0} \cup 1..MaxTenant /\ f.early \in BOOLEAN
                              /\ f.state \in {"sent", "cut", "over"} /\ f.page \in Seq(1..MaxTenant)
                              /\ f.page \in Tenants!SeqOf(1..MaxTenant, TenantsPageSize)
  /\ \A f \in Tenants!Fetch, state \in {"sent", "cut", "over"},
        page \in Tenants!SeqOf(1..MaxTenant, TenantsPageSize) :
        /\ [f EXCEPT !.state = state, !.page = page] \in Tenants!Fetch
        /\ [f EXCEPT !.state = state, !.page = page].before = f.before
        /\ [f EXCEPT !.state = state, !.page = page].early = f.early
        /\ [f EXCEPT !.state = state, !.page = page].state = state
        /\ [f EXCEPT !.state = state, !.page = page].page = page
  <1>1. <<>> \in Tenants!SeqOf(1..MaxTenant, TenantsPageSize)
    BY TenantsConstants DEF Tenants!SeqOf
  <1>2. \A s \in Tenants!SeqOf(1..MaxTenant, TenantsPageSize) : s \in Seq(1..MaxTenant)
    BY TenantsConstants DEF Tenants!SeqOf
  <1> QED
    BY <1>1, <1>2 DEF Tenants!Fetch, Tenants!Id

CutBelow(page, top) ==
    page = [i \in 1..(IF top < TenantsPageSize THEN top ELSE TenantsPageSize) |-> top - i + 1]

LEMMA PageType ==
  ASSUME NEW top \in 0..MaxTenant, NEW page, CutBelow(page, top)
  PROVE  page \in Tenants!SeqOf(1..MaxTenant, TenantsPageSize)
  <1> DEFINE n == IF top < TenantsPageSize THEN top ELSE TenantsPageSize
  <1>1. n \in 0..TenantsPageSize /\ n <= top
    BY TenantsConstants
  <1>2. page \in [1..n -> 1..MaxTenant]
    BY <1>1, TenantsConstants DEF CutBelow
  <1> QED
    BY <1>1, <1>2 DEF Tenants!SeqOf

-----------------------------------------------------------------------------
(* AdminList: the inductive invariant *)

UnderWay(k) == fetches[k].state # "over"

(* An answer starts at the newest tenant, or at the one below its cursor, and  *)
(* goes down without a gap. *)
CutFrom(f, top) ==
    /\ CutBelow(f.page, top)
    /\ IF f.before = 0 THEN InitialTenants <= top ELSE top = f.before - 1

PagesAreCut ==
    \A k \in DOMAIN fetches :
        /\ fetches[k].state = "sent" => fetches[k].page = <<>>
        /\ fetches[k].state = "cut" => \E top \in 0..MaxTenant : CutFrom(fetches[k], top)

ShownFrom(cursor) == \A t \in 1..InitialTenants : t >= cursor => t \in ToSet(tenants)

(* Nothing above a cursor is missing, be it the page's or a request's. *)
NothingPassedOver ==
    /\ beforeCursor # 0 => ShownFrom(beforeCursor)
    /\ \A k \in DOMAIN fetches : fetches[k].before # 0 => ShownFrom(fetches[k].before)

(* The dialog's tenants that are to come are newer than the page. *)
AddedAreNew == InitialTenants <= lastId /\ added \subseteq (InitialTenants + 1)..lastId

NoneEarly == \A k \in DOMAIN fetches : ~fetches[k].early

(* When the button was left alone, one request follows another. *)
OneAtATime ==
    /\ timer => fetches = <<>>
    /\ \A k \in DOMAIN fetches :
          UnderWay(k) => loading = TRUE /\ fetches[k].before = beforeCursor
    /\ \A j, k \in DOMAIN fetches : UnderWay(j) /\ UnderWay(k) => j = k

(* It was on the first page, or is older. *)
BelowFirst(t) ==
    \E k \in DOMAIN fetches :
        /\ fetches[k].state = "over" /\ fetches[k].before = 0
        /\ fetches[k].page # <<>> /\ t <= Head(fetches[k].page)

(* The list is n tenants of the dialog and then the pages, one below the other. *)
Parted(n) ==
    /\ \A i \in 1..n : tenants[i] \in (InitialTenants + 1)..lastId /\ tenants[i] \notin added
    /\ \A i, j \in 1..n : tenants[i] = tenants[j] => i = j
    /\ \A i, j \in (n + 1)..Len(tenants) : i < j => tenants[i] > tenants[j]
    /\ \A i \in (n + 1)..Len(tenants) : tenants[i] >= beforeCursor /\ BelowFirst(tenants[i])
    /\ beforeCursor = 0 => n = Len(tenants)
    /\ beforeCursor # 0 => BelowFirst(beforeCursor)

TenantsIInv ==
    /\ Tenants!TypeOK /\ PagesAreCut /\ NothingPassedOver /\ NothingMissed
    /\ AddedAreNew
    /\ NoneEarly => OneAtATime /\ \E n \in 0..Len(tenants) : Parted(n)

(* The types, one by one. *)
TenantsTyped ==
    /\ lastId \in 0..MaxTenant /\ added \subseteq 1..lastId
    /\ tenants \in Seq(1..MaxTenant) /\ beforeCursor \in {0} \cup 1..MaxTenant
    /\ fetches \in Seq(Tenants!Fetch) /\ Len(fetches) <= MaxFetches
FlagsTyped ==
    /\ loading \in BOOLEAN /\ noMoreTenants \in BOOLEAN
    /\ isLoggedIn \in BOOLEAN /\ timer \in BOOLEAN

LEMMA TypeParts == Tenants!TypeOK <=> TenantsTyped /\ FlagsTyped
  <1>1. {loading, noMoreTenants, isLoggedIn, timer} \subseteq BOOLEAN <=> FlagsTyped
    BY Zenon DEF FlagsTyped
  <1>2. (1..MaxTenant) \cup {0} = 0..MaxTenant
    BY TenantsConstants
  <1> HIDE DEF FlagsTyped
  <1> QED
    BY <1>1, <1>2 DEF TenantsTyped, Tenants!TypeOK, Tenants!Id

LEMMA TypePartsNext == Tenants!TypeOK' <=> TenantsTyped' /\ FlagsTyped'
  <1>1. {loading', noMoreTenants', isLoggedIn', timer'} \subseteq BOOLEAN <=> FlagsTyped'
    BY Zenon DEF FlagsTyped
  <1>2. (1..MaxTenant) \cup {0} = 0..MaxTenant
    BY TenantsConstants
  <1> QED
    BY <1>1, <1>2, Zenon DEF TenantsTyped, Tenants!TypeOK, Tenants!Id

LEMMA TenantsInitially == Tenants!Init => TenantsIInv
  <1> SUFFICES ASSUME Tenants!Init PROVE TenantsIInv
    OBVIOUS
  <1>1. Tenants!TypeOK
    <2>1. FlagsTyped
      BY DEF Tenants!Init, FlagsTyped
    <2>2. TenantsTyped
      BY TenantsConstants DEF Tenants!Init, TenantsTyped
    <2> QED
      BY <2>1, <2>2, TypeParts
  <1>2. PagesAreCut /\ NothingPassedOver /\ NothingMissed /\ AddedAreNew
    BY TenantsConstants DEF Tenants!Init, PagesAreCut, NothingPassedOver, NothingMissed, Tenants!NothingMissed,
           AddedAreNew
  <1>3. OneAtATime /\ Parted(0) /\ 0 \in 0..Len(tenants)
    BY DEF Tenants!Init, OneAtATime, Parted
  <1> QED
    BY <1>1, <1>2, <1>3 DEF TenantsIInv

(* Another request. *)
LEMMA AskKeeps ==
  ASSUME TenantsIInv, NEW before \in {0} \cup 1..MaxTenant, Tenants!Ask(before),
         before # 0 => ShownFrom(before),
         timer \/ ~NoneEarly \/ (before = beforeCursor /\ \A k \in DOMAIN fetches : ~UnderWay(k)),
         UNCHANGED <<lastId, tenants, beforeCursor, noMoreTenants, added>>,
         timer' \in BOOLEAN, isLoggedIn' \in BOOLEAN, timer' => timer
  PROVE  TenantsIInv'
  <1> DEFINE new == [before |-> before, early |-> timer, state |-> "sent", page |-> <<>>]
  <1>1. /\ fetches \in Seq(Tenants!Fetch) /\ Len(fetches) < MaxFetches /\ Len(fetches) \in Nat
        /\ fetches' = Append(fetches, new) /\ loading' = TRUE
        /\ timer \in BOOLEAN
    BY TypeParts, LenProperties DEF TenantsIInv, TenantsTyped, FlagsTyped, Tenants!Ask
  <1>2. /\ fetches' \in Seq(Tenants!Fetch) /\ Len(fetches') = Len(fetches) + 1
        /\ DOMAIN fetches' = 1..(Len(fetches) + 1) /\ DOMAIN fetches = 1..Len(fetches)
        /\ \A k \in DOMAIN fetches : fetches'[k] = fetches[k]
        /\ fetches'[Len(fetches) + 1] = new
    <2>1. new \in Tenants!Fetch
      BY <1>1, FetchType
    <2> HIDE DEF new
    <2> QED
      BY <1>1, <2>1, AppendProperties, LenProperties
  <1>3. Tenants!TypeOK'
    <2>1. FlagsTyped'
      BY <1>1, TypeParts DEF TenantsIInv, FlagsTyped
    <2>2. TenantsTyped'
      BY <1>1, <1>2, TypeParts, TenantsConstants DEF TenantsIInv, TenantsTyped
    <2> QED
      BY <2>1, <2>2, TypePartsNext
  <1>4. PagesAreCut' /\ NothingPassedOver' /\ NothingMissed' /\ AddedAreNew'
    BY <1>1, <1>2 DEF TenantsIInv, PagesAreCut, NothingPassedOver, ShownFrom, NothingMissed,
       Tenants!NothingMissed, AddedAreNew, CutFrom
  <1>5. ASSUME NoneEarly'
        PROVE  OneAtATime' /\ \E n \in 0..Len(tenants') : Parted(n)'
    <2>1. ~timer /\ NoneEarly
      BY <1>1, <1>2, <1>5 DEF NoneEarly
    <2>2. OneAtATime /\ \E n \in 0..Len(tenants) : Parted(n)
      BY <2>1 DEF TenantsIInv
    <2>3. OneAtATime'
      BY <1>1, <1>2, <2>1, <2>2 DEF OneAtATime, UnderWay
    <2>4. \A t : BelowFirst(t) => BelowFirst(t)'
      BY <1>2 DEF BelowFirst
    <2> QED
      BY <2>2, <2>3, <2>4 DEF Parted
  <1> QED
    BY <1>3, <1>4, <1>5 DEF TenantsIInv

(* A request that is under way becomes one that is served or over. *)
LEMMA RequestAfter ==
  ASSUME Tenants!TypeOK, NEW k \in DOMAIN fetches, NEW state \in {"cut", "over"},
         NEW page \in Tenants!SeqOf(1..MaxTenant, TenantsPageSize),
         fetches' = [fetches EXCEPT ![k].state = state, ![k].page = page]
  PROVE  /\ fetches' \in Seq(Tenants!Fetch) /\ Len(fetches') = Len(fetches)
         /\ DOMAIN fetches' = DOMAIN fetches
         /\ \A j \in DOMAIN fetches :
               /\ j # k => fetches'[j] = fetches[j]
               /\ fetches'[j].before = fetches[j].before /\ fetches'[j].early = fetches[j].early
         /\ fetches'[k].state = state /\ fetches'[k].page = page
  <1> DEFINE new == [fetches[k] EXCEPT !.state = state, !.page = page]
  <1>1. fetches \in Seq(Tenants!Fetch) /\ DOMAIN fetches = 1..Len(fetches)
        /\ fetches[k] \in Tenants!Fetch
    BY TypeParts, LenProperties, ElementOfSeq DEF TenantsTyped
  <1>2. /\ new \in Tenants!Fetch /\ new.before = fetches[k].before /\ new.early = fetches[k].early
        /\ new.state = state /\ new.page = page
    <2> DEFINE f == fetches[k]
    <2>1. f \in Tenants!Fetch
      BY <1>1
    <2> HIDE DEF f
    <2>2. LET n == [f EXCEPT !.state = state, !.page = page]
          IN /\ n \in Tenants!Fetch /\ n.before = f.before /\ n.early = f.early
             /\ n.state = state /\ n.page = page
      BY <2>1 DEF Tenants!Fetch, Tenants!Id
    <2> QED
      BY <2>2 DEF f
  <1>3. fetches' = [fetches EXCEPT ![k] = new]
    OBVIOUS
  <1> HIDE DEF new
  <1>4. [fetches EXCEPT ![k] = new] \in Seq(Tenants!Fetch)
        /\ Len([fetches EXCEPT ![k] = new]) = Len(fetches)
    BY <1>1, <1>2, ExceptSeq
  <1>5. \A j \in 1..Len(fetches) : fetches'[j] = IF j = k THEN new ELSE fetches[j]
    BY <1>1, <1>2, <1>3
  <1>6. DOMAIN fetches' = 1..Len(fetches)
    BY <1>1, <1>3
  <1> QED
    BY <1>1, <1>2, <1>3, <1>4, <1>5, <1>6

LEMMA AnswerMeKeeps ==
  ASSUME TenantsIInv, Tenants!AnswerMe
  PROVE  TenantsIInv'
  <1>1. Tenants!TypeOK'
    BY TypeParts, TypePartsNext DEF TenantsIInv, Tenants!AnswerMe, TenantsTyped, FlagsTyped
  <1> QED
    BY <1>1 DEF TenantsIInv, Tenants!AnswerMe, PagesAreCut, NothingPassedOver, NothingMissed,
       Tenants!NothingMissed, ShownFrom, AddedAreNew, NoneEarly, OneAtATime, UnderWay, Parted, BelowFirst,
       CutFrom

LEMMA TimerKeeps ==
  ASSUME TenantsIInv, Tenants!Timer
  PROVE  TenantsIInv'
  <1>1. CASE isLoggedIn
    BY <1>1, AskKeeps, TypeParts DEF Tenants!Timer, TenantsIInv, FlagsTyped
  <1>2. CASE ~isLoggedIn
    <2>1. Tenants!TypeOK'
      BY <1>2, TypeParts, TypePartsNext DEF TenantsIInv, Tenants!Timer, TenantsTyped, FlagsTyped
    <2> QED
      BY <1>2, <2>1 DEF TenantsIInv, Tenants!Timer, PagesAreCut, NothingPassedOver, NothingMissed,
         Tenants!NothingMissed, ShownFrom, AddedAreNew, NoneEarly, OneAtATime, UnderWay, Parted,
         BelowFirst, CutFrom
  <1> QED
    BY <1>1, <1>2

LEMMA HandleLoadingKeeps ==
  ASSUME TenantsIInv, Tenants!HandleLoading
  PROVE  TenantsIInv'
  <1>1. /\ timer \in BOOLEAN /\ isLoggedIn \in BOOLEAN /\ beforeCursor \in {0} \cup 1..MaxTenant
        /\ beforeCursor # 0 => ShownFrom(beforeCursor)
    BY TypeParts DEF TenantsIInv, TenantsTyped, FlagsTyped, NothingPassedOver
  <1>2. ~NoneEarly \/ \A k \in DOMAIN fetches : ~UnderWay(k)
    BY DEF TenantsIInv, OneAtATime, Tenants!HandleLoading
  <1> QED
    BY <1>1, <1>2, AskKeeps DEF Tenants!HandleLoading, Tenants!server, Tenants!login

LEMMA ServeKeeps ==
  ASSUME TenantsIInv, NEW k \in DOMAIN fetches, Tenants!Serve(k)
  PROVE  TenantsIInv'
  <1> DEFINE before == fetches[k].before
             top == IF before = 0 THEN lastId ELSE before - 1
             page == Tenants!Page(before)
  <1>1. /\ fetches \in Seq(Tenants!Fetch) /\ fetches[k] \in Tenants!Fetch
        /\ before \in {0} \cup 1..MaxTenant /\ lastId \in 0..MaxTenant /\ Tenants!TypeOK
    <2>1. fetches \in Seq(Tenants!Fetch) /\ lastId \in 0..MaxTenant /\ Tenants!TypeOK
      BY TypeParts DEF TenantsIInv, TenantsTyped
    <2>2. fetches[k] \in Tenants!Fetch
      BY <2>1, LenProperties, ElementOfSeq
    <2> QED
      BY <2>1, <2>2, FetchType
  <1>2. top \in 0..MaxTenant /\ CutBelow(page, top)
    BY <1>1, TenantsConstants DEF CutBelow, Tenants!Page
  <1>3. page \in Tenants!SeqOf(1..MaxTenant, TenantsPageSize)
    BY <1>2, PageType
  <1>4. /\ fetches' \in Seq(Tenants!Fetch) /\ Len(fetches') = Len(fetches)
        /\ DOMAIN fetches' = DOMAIN fetches
        /\ \A j \in DOMAIN fetches :
               /\ j # k => fetches'[j] = fetches[j]
               /\ fetches'[j].before = fetches[j].before /\ fetches'[j].early = fetches[j].early
        /\ fetches'[k].state = "cut" /\ fetches'[k].page = page
    BY <1>1, <1>3, RequestAfter DEF Tenants!Serve
  <1>5. /\ fetches[k].state = "sent"
        /\ UNCHANGED <<lastId, added, tenants, beforeCursor, loading, noMoreTenants, isLoggedIn, timer>>
    BY DEF Tenants!Serve, Tenants!server, Tenants!login
  <1> HIDE DEF page
  <1>6. Tenants!TypeOK'
    BY <1>1, <1>4, <1>5, TypeParts, TypePartsNext DEF TenantsTyped, FlagsTyped
  <1>7. PagesAreCut'
    <2>1. CutFrom(fetches'[k], top)
      BY <1>1, <1>2, <1>4, <1>5 DEF CutFrom, TenantsIInv, AddedAreNew
    <2> HIDE DEF top
    <2> QED
      BY <1>2, <1>4, <2>1 DEF TenantsIInv, PagesAreCut, CutFrom
  <1>8. NothingPassedOver' /\ NothingMissed' /\ AddedAreNew'
    BY <1>4, <1>5 DEF TenantsIInv, NothingPassedOver, ShownFrom, NothingMissed,
       Tenants!NothingMissed, AddedAreNew
  <1>9. ASSUME NoneEarly'
        PROVE  OneAtATime' /\ \E n \in 0..Len(tenants') : Parted(n)'
    <2>1. OneAtATime /\ \E n \in 0..Len(tenants) : Parted(n)
      BY <1>4, <1>9 DEF NoneEarly, TenantsIInv
    <2>2. OneAtATime'
      BY <1>4, <1>5, <2>1 DEF OneAtATime, UnderWay
    <2>3. \A t : BelowFirst(t) => BelowFirst(t)'
      BY <1>4, <1>5 DEF BelowFirst
    <2> QED
      BY <1>5, <2>1, <2>2, <2>3 DEF Parted
  <1> QED
    BY <1>6, <1>7, <1>8, <1>9 DEF TenantsIInv

LEMMA FailKeeps ==
  ASSUME TenantsIInv, NEW k \in DOMAIN fetches, Tenants!Fail(k)
  PROVE  TenantsIInv'
  <1>1. <<>> \in Tenants!SeqOf(1..MaxTenant, TenantsPageSize)
    BY TenantsConstants DEF Tenants!SeqOf
  <1>2. /\ fetches' \in Seq(Tenants!Fetch) /\ Len(fetches') = Len(fetches)
        /\ DOMAIN fetches' = DOMAIN fetches
        /\ \A j \in DOMAIN fetches :
               /\ j # k => fetches'[j] = fetches[j]
               /\ fetches'[j].before = fetches[j].before /\ fetches'[j].early = fetches[j].early
        /\ fetches'[k].state = "over" /\ fetches'[k].page = <<>>
    BY <1>1, RequestAfter DEF Tenants!Fail, Tenants!Over, TenantsIInv
  <1>3. /\ fetches[k].state # "over" /\ loading' = FALSE
        /\ UNCHANGED <<lastId, added, tenants, beforeCursor, noMoreTenants, isLoggedIn, timer>>
    BY DEF Tenants!Fail, Tenants!Over, Tenants!server, Tenants!login
  <1>4. Tenants!TypeOK'
    BY <1>2, <1>3, TypeParts, TypePartsNext DEF TenantsIInv, TenantsTyped, FlagsTyped
  <1>5. PagesAreCut' /\ NothingPassedOver' /\ NothingMissed' /\ AddedAreNew'
    BY <1>2, <1>3 DEF TenantsIInv, NothingPassedOver, ShownFrom, NothingMissed,
       Tenants!NothingMissed, AddedAreNew, PagesAreCut, CutFrom
  <1>6. ASSUME NoneEarly'
        PROVE  OneAtATime' /\ \E n \in 0..Len(tenants') : Parted(n)'
    <2>1. OneAtATime /\ \E n \in 0..Len(tenants) : Parted(n)
      BY <1>2, <1>6 DEF NoneEarly, TenantsIInv
    <2>2. OneAtATime'
      BY <1>2, <1>3, <2>1 DEF OneAtATime, UnderWay
    <2>3. \A t : BelowFirst(t) => BelowFirst(t)'
      BY <1>2, <1>3 DEF BelowFirst
    <2> QED
      BY <1>3, <2>1, <2>2, <2>3 DEF Parted
  <1> QED
    BY <1>4, <1>5, <1>6 DEF TenantsIInv

LEMMA AddTenantKeeps ==
  ASSUME TenantsIInv, NEW byDialog \in BOOLEAN, Tenants!AddTenant(byDialog)
  PROVE  TenantsIInv'
  <1>1. /\ lastId < MaxTenant /\ lastId' = lastId + 1 /\ lastId \in 0..MaxTenant
        /\ added \subseteq added' /\ added' \subseteq added \cup {lastId + 1}
        /\ UNCHANGED <<tenants, beforeCursor, loading, noMoreTenants, isLoggedIn, timer, fetches>>
    BY TypeParts DEF TenantsIInv, TenantsTyped, Tenants!AddTenant, Tenants!login
  <1>2. Tenants!TypeOK'
    BY <1>1, TypeParts, TypePartsNext, TenantsConstants DEF TenantsIInv, TenantsTyped, FlagsTyped
  <1>3. PagesAreCut' /\ NothingPassedOver' /\ NothingMissed' /\ AddedAreNew'
    BY <1>1, TenantsConstants DEF TenantsIInv, NothingPassedOver, ShownFrom, NothingMissed,
       Tenants!NothingMissed, AddedAreNew, PagesAreCut, CutFrom
  <1>4. ASSUME NEW n \in Nat, Parted(n) PROVE Parted(n)'
    BY <1>1, <1>4, TenantsConstants DEF Parted, BelowFirst
  <1> QED
    BY <1>1, <1>2, <1>3, <1>4 DEF TenantsIInv, NoneEarly, OneAtATime, UnderWay

(* What a page adds to the list. *)
LEMMA Added ==
  ASSUME TenantsTyped, NEW top \in 0..MaxTenant, NEW page, CutBelow(page, top)
  PROVE  LET m == IF top < TenantsPageSize THEN top ELSE TenantsPageSize
         IN /\ m \in 0..TenantsPageSize /\ Len(page) = m /\ m <= top
            /\ page = <<>> <=> top = 0
            /\ page # <<>> => Head(page) = top /\ Tenants!Last(page) = top - m + 1
            /\ tenants \o page \in Seq(1..MaxTenant)
            /\ Len(tenants \o page) = Len(tenants) + m /\ Len(tenants) \in Nat
            /\ \A i \in 1..Len(tenants) : (tenants \o page)[i] = tenants[i]
            /\ \A i \in (Len(tenants) + 1)..(Len(tenants) + m) :
                  (tenants \o page)[i] = top - (i - Len(tenants)) + 1
  <1> DEFINE m == IF top < TenantsPageSize THEN top ELSE TenantsPageSize
  <1>1. m \in Nat /\ m <= TenantsPageSize /\ m <= top /\ (m = 0 <=> top = 0)
        /\ TenantsPageSize \in Nat /\ MaxTenant \in Nat
    BY TenantsConstants
  <1>2. page = [i \in 1..m |-> top - i + 1]
    BY DEF CutBelow
  <1> HIDE DEF m
  <1>3. \A i \in 1..m : top - i + 1 \in 1..MaxTenant
    BY <1>1
  <1>4. page \in Seq(1..MaxTenant) /\ Len(page) = m
    BY <1>1, <1>2, <1>3
  <1>5. tenants \in Seq(1..MaxTenant) /\ Len(tenants) \in Nat
    BY LenProperties DEF TenantsTyped
  <1>6. /\ tenants \o page \in Seq(1..MaxTenant) /\ Len(tenants \o page) = Len(tenants) + m
        /\ \A i \in 1..(Len(tenants) + m) : (tenants \o page)[i] =
                     IF i <= Len(tenants) THEN tenants[i] ELSE page[i - Len(tenants)]
    BY <1>4, <1>5, ConcatProperties
  <1>7. \A i \in (Len(tenants) + 1)..(Len(tenants) + m) :
           /\ i \in 1..(Len(tenants) + m) /\ ~(i <= Len(tenants)) /\ i - Len(tenants) \in 1..m
           /\ page[i - Len(tenants)] = top - (i - Len(tenants)) + 1
    BY <1>1, <1>2, <1>5
  <1>8. page = <<>> <=> m = 0
    BY <1>1, <1>4, EmptySeq
  <1>9. ASSUME page # <<>> PROVE Head(page) = top /\ Tenants!Last(page) = top - m + 1
    <2>1. 1 \in 1..m /\ m \in 1..m
      BY <1>1, <1>8, <1>9
    <2>2. Head(page) = page[1]
      BY <1>4, <2>1
    <2> QED
      BY <1>1, <1>2, <1>4, <2>1, <2>2 DEF Tenants!Last
  <1> QED
    BY <1>1, <1>4, <1>5, <1>6, <1>7, <1>8, <1>9 DEF m

LEMMA ToSets ==
  ASSUME NEW s, NEW n \in Nat, DOMAIN s = 1..n
  PROVE  \A t : t \in ToSet(s) <=> \E i \in 1..n : s[i] = t
  BY DEF ToSet

LEMMA ShowKeeps ==
  ASSUME TenantsIInv, NEW k \in DOMAIN fetches, Tenants!Show(k)
  PROVE  TenantsIInv'
  <1> DEFINE page == fetches[k].page
             before == fetches[k].before
  <1>1. /\ TenantsTyped /\ FlagsTyped /\ Tenants!TypeOK
        /\ fetches[k].state = "cut" /\ fetches[k] \in Tenants!Fetch
    BY TypeParts, LenProperties, ElementOfSeq DEF TenantsIInv, TenantsTyped, Tenants!Show
  <1>2. PICK top \in 0..MaxTenant : CutFrom(fetches[k], top)
    BY <1>1 DEF TenantsIInv, PagesAreCut
  <1>3. page \in Tenants!SeqOf(1..MaxTenant, TenantsPageSize) /\ before \in {0} \cup 1..MaxTenant
    BY <1>1, FetchType
  <1>4. /\ fetches' \in Seq(Tenants!Fetch) /\ Len(fetches') = Len(fetches)
        /\ DOMAIN fetches' = DOMAIN fetches
        /\ \A j \in DOMAIN fetches :
               /\ j # k => fetches'[j] = fetches[j]
               /\ fetches'[j].before = fetches[j].before /\ fetches'[j].early = fetches[j].early
        /\ fetches'[k].state = "over" /\ fetches'[k].page = page
    BY <1>1, <1>3, RequestAfter DEF Tenants!Show, Tenants!Over
  <1> DEFINE m == IF top < TenantsPageSize THEN top ELSE TenantsPageSize
  <1>5. /\ tenants' = tenants \o page /\ loading' = FALSE
        /\ beforeCursor' = IF page = <<>> THEN beforeCursor ELSE Tenants!Last(page)
        /\ noMoreTenants' = (noMoreTenants \/ Len(page) < TenantsPageSize)
        /\ UNCHANGED <<lastId, added, isLoggedIn, timer>>
    BY DEF Tenants!Show, Tenants!Over, Tenants!server, Tenants!login
  <1>6. /\ m \in 0..TenantsPageSize /\ Len(page) = m /\ m <= top
        /\ page = <<>> <=> top = 0
        /\ page # <<>> => Head(page) = top /\ beforeCursor' = top - m + 1
        /\ page = <<>> => beforeCursor' = beforeCursor
        /\ tenants' \in Seq(1..MaxTenant)
        /\ Len(tenants') = Len(tenants) + m /\ Len(tenants) \in Nat
        /\ \A i \in 1..Len(tenants) : tenants'[i] = tenants[i]
        /\ \A i \in (Len(tenants) + 1)..(Len(tenants) + m) :
                  tenants'[i] = top - (i - Len(tenants)) + 1
    <2> HIDE DEF page
    <2>1. CutBelow(page, top)
      BY <1>2 DEF CutFrom, page
    <2> QED
      BY <1>1, <1>5, <2>1, Added
  <1>7. IF before = 0 THEN InitialTenants <= top ELSE top = before - 1
    BY <1>2 DEF CutFrom
  <1>8. m = top \/ (m = TenantsPageSize /\ m > 0)
    BY TenantsConstants
  <1> HIDE DEF page, before, m
  <1>9. Tenants!TypeOK'
    <2>1. FlagsTyped'
      BY <1>1, <1>5 DEF FlagsTyped
    <2>2. beforeCursor' \in {0} \cup 1..MaxTenant
      BY <1>1, <1>6, <1>8, TenantsConstants DEF TenantsTyped
    <2>3. TenantsTyped'
      BY <1>1, <1>4, <1>5, <1>6, <2>2 DEF TenantsTyped
    <2> QED
      BY <2>1, <2>3, TypePartsNext
  <1>10. PagesAreCut' /\ AddedAreNew'
    BY <1>4, <1>5 DEF TenantsIInv, PagesAreCut, CutFrom, AddedAreNew
  <1>11. /\ \A t : t \in ToSet(tenants) => t \in ToSet(tenants')
         /\ \A t : t \in ToSet(tenants') <=> \E i \in 1..Len(tenants') : tenants'[i] = t
    <2>1. DOMAIN tenants = 1..Len(tenants) /\ DOMAIN tenants' = 1..Len(tenants')
          /\ Len(tenants) \in Nat /\ Len(tenants') \in Nat /\ Len(tenants') >= Len(tenants)
      BY <1>1, <1>6, LenProperties, TenantsConstants DEF TenantsTyped
    <2>2. /\ \A t : t \in ToSet(tenants) <=> \E i \in 1..Len(tenants) : tenants[i] = t
          /\ \A t : t \in ToSet(tenants') <=> \E i \in 1..Len(tenants') : tenants'[i] = t
      BY <2>1, ToSets
    <2> QED
      BY <1>6, <2>1, <2>2
  <1>12. \A t \in 1..top : t >= top - m + 1 => t \in ToSet(tenants')
    <2> SUFFICES ASSUME NEW t \in 1..top, t >= top - m + 1
                 PROVE  \E i \in 1..Len(tenants') : tenants'[i] = t
      BY <1>11
    <2> DEFINE i == Len(tenants) + (top - t + 1)
    <2>1. i \in (Len(tenants) + 1)..(Len(tenants) + m) /\ i \in 1..Len(tenants')
          /\ top - (i - Len(tenants)) + 1 = t
      BY <1>6, TenantsConstants
    <2> QED
      BY <1>6, <2>1
  <1>13. \A t \in 1..InitialTenants : t >= top - m + 1 => t \in ToSet(tenants')
    <2> SUFFICES ASSUME NEW t \in 1..InitialTenants, t >= top - m + 1
                 PROVE  t \in ToSet(tenants')
      OBVIOUS
    <2>1. CASE t <= top
      BY <1>12, <2>1, TenantsConstants
    <2>2. CASE t > top
      <3>1. before # 0 /\ t >= before
        BY <1>3, <1>7, <2>2, TenantsConstants
      <3>2. ShownFrom(before)
        BY <3>1 DEF TenantsIInv, NothingPassedOver, before
      <3> QED
        BY <1>11, <3>1, <3>2 DEF ShownFrom
    <2> QED
      BY <2>1, <2>2, TenantsConstants
  <1>14. NothingPassedOver'
    <2>1. \A c : ShownFrom(c) => ShownFrom(c)'
      BY <1>11 DEF ShownFrom
    <2>2. beforeCursor' # 0 => ShownFrom(beforeCursor)'
      <3>1. CASE page = <<>>
        BY <1>6, <2>1, <3>1 DEF TenantsIInv, NothingPassedOver
      <3>2. CASE page # <<>>
        BY <1>6, <1>13, <3>2 DEF ShownFrom
      <3> QED
        BY <3>1, <3>2
    <2>3. ASSUME NEW j \in DOMAIN fetches, fetches'[j].before # 0
          PROVE  ShownFrom(fetches[j].before)'
      <3>1. fetches'[j].before = fetches[j].before /\ ShownFrom(fetches[j].before)
        BY <1>4, <2>3 DEF TenantsIInv, NothingPassedOver
      <3> QED
        BY <1>11, <3>1 DEF ShownFrom
    <2> QED
      BY <1>4, <2>2, <2>3 DEF NothingPassedOver
  <1>15. NothingMissed'
    <2> SUFFICES ASSUME noMoreTenants', NEW t \in 1..InitialTenants
                 PROVE  t \in ToSet(tenants')
      BY DEF NothingMissed, Tenants!NothingMissed, Tenants!ToSet, ToSet
    <2>1. CASE noMoreTenants
      BY <1>11, <2>1 DEF TenantsIInv, NothingMissed, Tenants!NothingMissed, Tenants!ToSet, ToSet
    <2>2. CASE Len(page) < TenantsPageSize
      <3>1. m = top
        BY <1>6, <1>8, <2>2
      <3> QED
        BY <1>13, <3>1, TenantsConstants
    <2> QED
      BY <1>5, <2>1, <2>2
  <1>16. ASSUME NoneEarly'
         PROVE  OneAtATime' /\ \E n \in 0..Len(tenants') : Parted(n)'
    <2>1. OneAtATime /\ \E n \in 0..Len(tenants) : Parted(n)
      BY <1>4, <1>16 DEF NoneEarly, TenantsIInv
    <2>2. before = beforeCursor /\ fetches[k].state # "over" /\ ~timer
      BY <1>1, <2>1 DEF OneAtATime, UnderWay, before
    <2>3. OneAtATime'
      BY <1>4, <1>5, <2>1, <2>2 DEF OneAtATime, UnderWay
    <2>4. \A t : BelowFirst(t) => BelowFirst(t)'
      BY <1>1, <1>4 DEF BelowFirst
    <2>5. PICK n \in 0..Len(tenants) : Parted(n)
      BY <2>1
    <2>6. n \in Nat /\ n <= Len(tenants) /\ n \in 0..Len(tenants')
      BY <1>6, TenantsConstants
    <2>7. Parted(n)'
      <3>1. CASE page = <<>>
        BY <1>5, <1>6, <2>4, <2>5, <2>6, <3>1 DEF Parted
      <3>2. CASE page # <<>>
        <4>1. /\ \A i \in 1..n : tenants'[i] \in (InitialTenants + 1)..lastId' /\ tenants'[i] \notin added'
              /\ \A i, j \in 1..n : tenants'[i] = tenants'[j] => i = j
          BY <1>5, <1>6, <2>5, <2>6 DEF Parted
        <4>2. top \in Nat /\ m \in Nat /\ 0 < m /\ m <= top /\ beforeCursor' = top - m + 1
          BY <1>6, <1>8, <3>2, TenantsConstants
        <4>3. ASSUME NEW i \in (Len(tenants) + 1)..(Len(tenants) + m)
              PROVE  tenants'[i] \in beforeCursor'..top
          BY <1>6, <4>2
        <4>4. \A t \in 1..top : BelowFirst(t)'
          <5>1. CASE before = 0
            <6>1. /\ fetches'[k].state = "over" /\ fetches'[k].before = 0 /\ k \in DOMAIN fetches'
                  /\ fetches'[k].page # <<>> /\ Head(fetches'[k].page) = top
              BY <1>4, <1>6, <3>2, <5>1 DEF before
            <6> QED
              BY <4>2, <6>1 DEF BelowFirst
          <5>2. CASE before # 0
            <6>1. top = beforeCursor - 1 /\ BelowFirst(beforeCursor) /\ beforeCursor \in Nat
              BY <1>1, <1>7, <2>2, <2>5, <5>2, TenantsConstants DEF Parted, TenantsTyped
            <6>2. PICK j \in DOMAIN fetches :
                     /\ fetches[j].state = "over" /\ fetches[j].before = 0
                     /\ fetches[j].page # <<>> /\ beforeCursor <= Head(fetches[j].page)
              BY <6>1 DEF BelowFirst
            <6>3. fetches'[j] = fetches[j] /\ j \in DOMAIN fetches'
              BY <1>1, <1>4, <6>2
            <6>4. Head(fetches[j].page) \in Nat
              <7>1. fetches[j] \in Tenants!Fetch
                BY <1>1, LenProperties, ElementOfSeq DEF TenantsTyped
              <7>2. fetches[j].page \in Seq(1..MaxTenant)
                BY <7>1, FetchType
              <7>3. Head(fetches[j].page) \in 1..MaxTenant
                BY <6>2, <7>2, HeadTailProperties, Zenon
              <7> QED
                BY <7>3, TenantsConstants
            <6> QED
              BY <6>1, <6>2, <6>3, <6>4, <4>2 DEF BelowFirst
          <5> QED
            BY <5>1, <5>2
        <4>5. ASSUME NEW i \in (n + 1)..Len(tenants)
              PROVE  tenants'[i] > top /\ BelowFirst(tenants[i])' /\ tenants'[i] \in Nat
          <5>1. beforeCursor # 0 /\ top = beforeCursor - 1
            BY <1>6, <1>7, <2>2, <2>5, <2>6, <4>5 DEF Parted
          <5>2. tenants[i] >= beforeCursor /\ BelowFirst(tenants[i]) /\ tenants'[i] = tenants[i]
            BY <1>6, <2>5, <2>6 DEF Parted
          <5>3. tenants[i] \in 1..MaxTenant
            <6>1. i \in 1..Len(tenants) /\ tenants \in Seq(1..MaxTenant)
              BY <1>1, <2>6 DEF TenantsTyped
            <6> QED
              BY <6>1, ElementOfSeq
          <5>4. BelowFirst(tenants[i])'
            BY <2>4, <5>2 DEF BelowFirst
          <5>5. beforeCursor \in Nat
            BY <1>1, TenantsConstants DEF TenantsTyped
          <5> QED
            BY <4>2, <5>1, <5>2, <5>3, <5>4, <5>5
        <4>6. \A i, j \in (n + 1)..Len(tenants') : i < j => tenants'[i] > tenants'[j]
          <5> SUFFICES ASSUME NEW i \in (n + 1)..Len(tenants'), NEW j \in (n + 1)..Len(tenants'), i < j
                       PROVE  tenants'[i] > tenants'[j]
            OBVIOUS
          <5>1. CASE j <= Len(tenants)
            BY <1>6, <2>5, <2>6, <5>1 DEF Parted
          <5>2. CASE i <= Len(tenants) /\ j > Len(tenants)
            <6>1. tenants'[i] > top /\ tenants'[i] \in Nat
              BY <4>5, <5>2, <2>6
            <6>2. tenants'[j] \in beforeCursor'..top
              BY <4>3, <5>2, <1>6, <4>2
            <6> QED
              BY <6>1, <6>2, <4>2
          <5>3. CASE i > Len(tenants)
            BY <1>6, <4>2, <5>3, <2>6
          <5> QED
            BY <5>1, <5>2, <5>3, <1>6, <2>6, <4>2
        <4>7. \A i \in (n + 1)..Len(tenants') : tenants'[i] >= beforeCursor' /\ BelowFirst(tenants[i])'
          <5> SUFFICES ASSUME NEW i \in (n + 1)..Len(tenants')
                       PROVE  tenants'[i] >= beforeCursor' /\ BelowFirst(tenants[i])'
            BY DEF BelowFirst
          <5>1. CASE i <= Len(tenants)
            BY <4>2, <4>5, <5>1, <2>6
          <5>2. CASE i > Len(tenants)
            <6>1. tenants'[i] \in beforeCursor'..top /\ tenants'[i] \in 1..top
              BY <1>6, <4>2, <4>3, <5>2, <2>6
            <6> QED
              BY <4>2, <4>4, <6>1 DEF BelowFirst
          <5> QED
            BY <5>1, <5>2, <1>6, <2>6
        <4>8. beforeCursor' # 0 /\ BelowFirst(beforeCursor)'
          BY <4>2, <4>4 DEF BelowFirst
        <4> QED
          BY <4>1, <4>6, <4>7, <4>8 DEF Parted
      <3> QED
        BY <3>1, <3>2
    <2> QED
      BY <2>3, <2>6, <2>7
  <1> QED
    BY <1>9, <1>10, <1>14, <1>15, <1>16 DEF TenantsIInv

LEMMA TenantAddedKeeps ==
  ASSUME TenantsIInv, NEW t \in added, Tenants!TenantAdded(t)
  PROVE  TenantsIInv'
  <1>1. /\ added' = added \ {t} /\ tenants' \in {<<t>> \o tenants, tenants}
        /\ UNCHANGED <<lastId, beforeCursor, loading, noMoreTenants, isLoggedIn, timer, fetches>>
        /\ TenantsTyped /\ FlagsTyped /\ AddedAreNew
    BY TypeParts DEF TenantsIInv, Tenants!TenantAdded, Tenants!login
  <1>2. /\ t \in (InitialTenants + 1)..lastId /\ t \in 1..MaxTenant
        /\ tenants \in Seq(1..MaxTenant) /\ Len(tenants) \in Nat /\ DOMAIN tenants = 1..Len(tenants)
    BY <1>1, LenProperties, TenantsConstants DEF TenantsTyped, AddedAreNew
  <1>3. /\ <<t>> \o tenants \in Seq(1..MaxTenant) /\ Len(<<t>> \o tenants) = Len(tenants) + 1
        /\ (<<t>> \o tenants)[1] = t
        /\ \A i \in 2..(Len(tenants) + 1) : (<<t>> \o tenants)[i] = tenants[i - 1]
    <2>1. <<t>> \in Seq(1..MaxTenant) /\ Len(<<t>>) = 1 /\ <<t>>[1] = t
      BY <1>2
    <2> QED
      BY <1>2, <2>1, ConcatProperties
  <1>4. tenants' \in Seq(1..MaxTenant) /\ Len(tenants') \in Nat /\ DOMAIN tenants' = 1..Len(tenants')
    BY <1>1, <1>2, <1>3, LenProperties
  <1>5. Tenants!TypeOK'
    BY <1>1, <1>4, TypePartsNext DEF TenantsTyped, FlagsTyped
  <1>6. PagesAreCut' /\ AddedAreNew'
    BY <1>1 DEF TenantsIInv, PagesAreCut, CutFrom, AddedAreNew
  <1>7. \A u : u \in ToSet(tenants) => u \in ToSet(tenants')
    <2>1. CASE tenants' = tenants
      BY <2>1
    <2>2. CASE tenants' = <<t>> \o tenants
      <3>1. Len(tenants') = Len(tenants) + 1
            /\ \A i \in 2..(Len(tenants) + 1) : tenants'[i] = tenants[i - 1]
        BY <1>3, <2>2
      <3>2. \A i \in 1..Len(tenants) : i + 1 \in 1..Len(tenants') /\ tenants'[i + 1] = tenants[i]
        BY <1>2, <3>1
      <3> QED
        BY <1>2, <1>4, <3>2, ToSets
    <2> QED
      BY <1>1, <2>1, <2>2
  <1>8. NothingPassedOver' /\ NothingMissed'
    BY <1>1, <1>7 DEF TenantsIInv, NothingPassedOver, ShownFrom, NothingMissed, Tenants!NothingMissed,
       Tenants!ToSet, ToSet
  <1>9. ASSUME NoneEarly'
        PROVE  OneAtATime' /\ \E n \in 0..Len(tenants') : Parted(n)'
    <2>1. OneAtATime /\ \E n \in 0..Len(tenants) : Parted(n)
      BY <1>1, <1>9 DEF NoneEarly, TenantsIInv
    <2>2. OneAtATime'
      BY <1>1, <2>1 DEF OneAtATime, UnderWay
    <2>3. PICK n \in 0..Len(tenants) : Parted(n)
      BY <2>1
    <2>4. \A u : BelowFirst(u) => BelowFirst(u)'
      BY <1>1 DEF BelowFirst
    <2>5. CASE tenants' = tenants
      <3>1. Parted(n)'
        BY <1>1, <2>3, <2>4, <2>5 DEF Parted
      <3> QED
        BY <2>2, <2>5, <3>1
    <2>6. CASE tenants' = <<t>> \o tenants
      <3> DEFINE n1 == n + 1
      <3>1. /\ n \in Nat /\ n <= Len(tenants) /\ n1 \in 0..Len(tenants')
            /\ Len(tenants') = Len(tenants) + 1
            /\ tenants'[1] = t /\ \A i \in 2..Len(tenants') : tenants'[i] = tenants[i - 1]
        BY <1>2, <1>3, <2>3, <2>6
      <3>2. \A i \in 1..n : tenants[i] \in (InitialTenants + 1)..lastId /\ tenants[i] \notin added
        BY <2>3 DEF Parted
      <3>3. \A i \in 1..n1 : tenants'[i] \in (InitialTenants + 1)..lastId' /\ tenants'[i] \notin added'
        <4> SUFFICES ASSUME NEW i \in 1..n1
                     PROVE  tenants'[i] \in (InitialTenants + 1)..lastId /\ tenants'[i] \notin added'
          BY <1>1
        <4>1. CASE i = 1
          BY <1>1, <1>2, <3>1, <4>1
        <4>2. CASE i # 1
          <5>1. i - 1 \in 1..n /\ tenants'[i] = tenants[i - 1]
            BY <3>1, <4>2
          <5> QED
            BY <1>1, <3>2, <5>1
        <4> QED
          BY <4>1, <4>2
      <3>4. \A i, j \in 1..n1 : tenants'[i] = tenants'[j] => i = j
        <4> SUFFICES ASSUME NEW i \in 1..n1, NEW j \in 1..n1, tenants'[i] = tenants'[j], i # j
                     PROVE  FALSE
          OBVIOUS
        <4>1. CASE i # 1 /\ j # 1
          <5>1. i - 1 \in 1..n /\ tenants'[i] = tenants[i - 1] /\ j - 1 \in 1..n
                /\ tenants'[j] = tenants[j - 1]
            BY <3>1, <4>1
          <5>2. \A a, b \in 1..n : tenants[a] = tenants[b] => a = b
            BY <2>3 DEF Parted
          <5>3. i - 1 = j - 1
            BY <5>1, <5>2, Zenon
          <5> QED
            BY <3>1, <5>3
        <4>2. CASE i = 1
          BY <3>1, <3>2, <4>2
        <4>3. CASE j = 1
          BY <3>1, <3>2, <4>3
        <4> QED
          BY <4>1, <4>2, <4>3
      <3>5. \A i \in (n1 + 1)..Len(tenants') :
               i - 1 \in (n + 1)..Len(tenants) /\ tenants'[i] = tenants[i - 1]
        BY <1>2, <3>1
      <3>6. \A i, j \in (n1 + 1)..Len(tenants') : i < j => tenants'[i] > tenants'[j]
        BY <2>3, <3>1, <3>5 DEF Parted
      <3>7. ASSUME NEW i \in (n1 + 1)..Len(tenants')
            PROVE  tenants'[i] >= beforeCursor' /\ BelowFirst(tenants[i])'
        BY <1>1, <2>3, <2>4, <3>5 DEF Parted, BelowFirst
      <3>8. /\ beforeCursor' = 0 => n1 = Len(tenants')
            /\ beforeCursor' # 0 => BelowFirst(beforeCursor)'
        BY <1>1, <2>3, <2>4, <3>1 DEF Parted, BelowFirst
      <3> HIDE DEF n1
      <3>9. Parted(n1)'
        BY <3>3, <3>4, <3>6, <3>7, <3>8 DEF Parted
      <3> QED
        BY <2>2, <3>1, <3>9
    <2> QED
      BY <1>1, <2>5, <2>6
  <1> QED
    BY <1>5, <1>6, <1>8, <1>9 DEF TenantsIInv

LEMMA TenantsInductive == TenantsIInv /\ [Tenants!Next]_(Tenants!vars) => TenantsIInv'
  <1> SUFFICES ASSUME TenantsIInv, [Tenants!Next]_(Tenants!vars) PROVE TenantsIInv'
    OBVIOUS
  <1>1. CASE Tenants!Next
    BY <1>1, AnswerMeKeeps, TimerKeeps, HandleLoadingKeeps, ServeKeeps, ShowKeeps, FailKeeps,
       AddTenantKeeps, TenantAddedKeeps DEF Tenants!Next
  <1>2. CASE UNCHANGED Tenants!vars
    <2>1. Tenants!TypeOK'
      BY <1>2, TypeParts, TypePartsNext DEF TenantsIInv, Tenants!vars, TenantsTyped, FlagsTyped
    <2> QED
      BY <1>2, <2>1 DEF TenantsIInv, Tenants!vars, PagesAreCut, NothingPassedOver, NothingMissed,
         Tenants!NothingMissed, ShownFrom, AddedAreNew, NoneEarly, OneAtATime, UnderWay, Parted,
         BelowFirst, CutFrom
  <1> QED
    BY <1>1, <1>2

LEMMA TenantsInvariant == Tenants!Spec => []TenantsIInv
  <1>1. Tenants!Init => TenantsIInv
    BY TenantsInitially
  <1> QED
    BY <1>1, TenantsInductive, PTL DEF Tenants!Spec

LEMMA TwiceFollows == TenantsIInv => TwiceOnlyIfEarly
  <1> SUFFICES ASSUME TenantsIInv, NoneEarly,
                      NEW i \in DOMAIN tenants, NEW j \in DOMAIN tenants, i < j, tenants[i] = tenants[j]
               PROVE  /\ tenants[i] > InitialTenants
                      /\ \E k \in DOMAIN fetches : /\ fetches[k].before = 0 /\ fetches[k].page # <<>>
                                                   /\ tenants[i] <= Head(fetches[k].page)
    BY DEF TwiceOnlyIfEarly, Tenants!TwiceOnlyIfEarly, NoneEarly
  <1>1. /\ tenants \in Seq(1..MaxTenant) /\ DOMAIN tenants = 1..Len(tenants) /\ Len(tenants) \in Nat
        /\ tenants[i] \in Nat /\ lastId \in 0..MaxTenant
    BY TypeParts, LenProperties, ElementOfSeq, TenantsConstants DEF TenantsIInv, TenantsTyped
  <1>2. PICK n \in 0..Len(tenants) : Parted(n)
    BY DEF TenantsIInv
  <1>a. /\ \A a, b \in 1..n : tenants[a] = tenants[b] => a = b
        /\ \A a, b \in (n + 1)..Len(tenants) : a < b => tenants[a] > tenants[b]
        /\ \A a \in (n + 1)..Len(tenants) : BelowFirst(tenants[a])
    BY <1>2 DEF Parted
  <1>b. i \in 1..Len(tenants) /\ j \in 1..Len(tenants) /\ n \in Nat
    BY <1>1, <1>2
  <1>3. j \in (n + 1)..Len(tenants)
    <2>1. CASE j <= n
      BY <1>a, <1>b, <2>1
    <2> QED
      BY <1>b, <2>1
  <1>4. i \in 1..n
    <2>1. CASE i > n
      BY <1>1, <1>a, <1>b, <1>3, <2>1
    <2> QED
      BY <1>b, <2>1
  <1>5. BelowFirst(tenants[j])
    BY <1>a, <1>3
  <1>6. tenants[i] \in (InitialTenants + 1)..lastId
    BY <1>2, <1>4 DEF Parted
  <1> QED
    BY <1>1, <1>5, <1>6, TenantsConstants DEF BelowFirst

-----------------------------------------------------------------------------
(* CompetitionList: the inductive invariant *)

CompetitionsTyped ==
    /\ table \in Competitions!Table /\ competitions \in Competitions!Table
    /\ gets \in Seq(Competitions!Get) /\ Len(gets) \in 1..MaxGets
    /\ posts \in Seq(Competitions!Post) /\ Len(posts) <= MaxPosts
Dialog ==
    [show : BOOLEAN, id : Competition \cup {NULL}, chosen : Competition \cup {NULL},
     csvFile : CSV \cup {NULL}, input : CSV \cup {NULL}]
DialogTyped ==
    /\ dialog \in Dialog /\ (dialog.show => dialog.id \in Competition)
    /\ uploaded \in Competitions!Upload \cup {NULL}

(* What the dialog shows, it has, and was chosen since it was opened. *)
InputIsChosen ==
    /\ dialog.csvFile # NULL => dialog.chosen \in Competition
    /\ dialog.input # NULL =>
          dialog.show /\ dialog.csvFile = dialog.input /\ dialog.chosen = dialog.id

(* No row of one is missing in the other, or running there when it was finished. *)
Behind(one, other) ==
    DOMAIN one \subseteq DOMAIN other /\ \A c \in DOMAIN one : one[c] => other[c]

AllAlone == \A k \in DOMAIN gets : gets[k].alone

(* One answer at a time: the page is behind it, and it is behind the table. *)
InStep ==
    AllAlone =>
       /\ \A j, k \in DOMAIN gets :
             gets[j].state # "over" /\ gets[k].state # "over" => j = k
       /\ Behind(competitions, table)
       /\ \A k \in DOMAIN gets :
             gets[k].state = "cut" => /\ Behind(competitions, gets[k].rows)
                                      /\ Behind(gets[k].rows, table)

CompetitionsIInv ==
    CompetitionsTyped /\ DialogTyped /\ InputIsChosen /\ ShownFileGoesWhereChosen /\ InStep

LEMMA CompetitionsTypeParts == Competitions!TypeOK <=> CompetitionsTyped /\ DialogTyped
  BY DEF Competitions!TypeOK, CompetitionsTyped, DialogTyped, Dialog

LEMMA CompetitionsConstants ==
  /\ InitialCompetition \subseteq Competition /\ NULL \notin CSV /\ NULL \notin Competition
  /\ MaxGets \in Nat \ {0} /\ MaxPosts \in Nat
  BY ListsAssumption DEF Competitions!CompetitionListAssumption

LEMMA Tables ==
  /\ \A f \in Competitions!Table : /\ DOMAIN f \subseteq Competition
                                   /\ \A c \in DOMAIN f : f[c] \in BOOLEAN
                                   /\ f \in [DOMAIN f -> BOOLEAN]
  /\ \A f : \A cs \in SUBSET Competition : f \in [cs -> BOOLEAN] => f \in Competitions!Table
  /\ Competitions!NoRows \in Competitions!Table /\ DOMAIN Competitions!NoRows = {}
  <1>1. \A f \in Competitions!Table : \E cs \in SUBSET Competition : f \in [cs -> BOOLEAN]
    BY Zenon DEF Competitions!Table
  <1>2. \A f : \A cs \in SUBSET Competition : f \in [cs -> BOOLEAN] => f \in Competitions!Table
    BY Zenon DEF Competitions!Table
  <1>3. DOMAIN Competitions!NoRows = {} /\ Competitions!NoRows \in [{} -> BOOLEAN]
    BY DEF Competitions!NoRows
  <1> QED
    BY <1>1, <1>2, <1>3

LEMMA BehindItself == \A f : Behind(f, f)
  BY DEF Behind
LEMMA BehindNothing == \A f : Behind(Competitions!NoRows, f)
  BY Tables DEF Behind
LEMMA BehindBoth == \A f, g, h : Behind(f, g) /\ Behind(g, h) => Behind(f, h)
  BY DEF Behind

LEMMA GetType ==
  /\ \A alone \in BOOLEAN :
        [state |-> "sent", rows |-> Competitions!NoRows, alone |-> alone] \in Competitions!Get
  /\ \A g \in Competitions!Get : /\ g.state \in {"sent", "cut", "over"} /\ g.alone \in BOOLEAN
                                 /\ g.rows \in Competitions!Table
  BY Tables DEF Competitions!Get

(* A request becomes one that is served or over. *)
LEMMA GetAfter ==
  ASSUME CompetitionsTyped, NEW k \in DOMAIN gets, NEW state \in {"cut", "over"},
         NEW result \in Competitions!Table,
         gets' = [gets EXCEPT ![k].state = state, ![k].rows = result]
  PROVE  /\ gets' \in Seq(Competitions!Get) /\ Len(gets') = Len(gets) /\ DOMAIN gets' = DOMAIN gets
         /\ \A j \in DOMAIN gets : /\ j # k => gets'[j] = gets[j]
                                   /\ gets'[j].alone = gets[j].alone
         /\ gets'[k].state = state /\ gets'[k].rows = result
  <1> DEFINE f == gets[k]
             new == [f EXCEPT !.state = state, !.rows = result]
  <1>1. gets \in Seq(Competitions!Get) /\ DOMAIN gets = 1..Len(gets) /\ f \in Competitions!Get
    BY LenProperties, ElementOfSeq DEF CompetitionsTyped
  <1>2. /\ new \in Competitions!Get /\ new.alone = gets[k].alone
        /\ new.state = state /\ new.rows = result
    <2> HIDE DEF f
    <2>1. LET n == [f EXCEPT !.state = state, !.rows = result]
          IN /\ n \in Competitions!Get /\ n.alone = f.alone /\ n.state = state /\ n.rows = result
      BY <1>1 DEF Competitions!Get
    <2> QED
      BY <2>1 DEF f
  <1>3. gets' = [gets EXCEPT ![k] = new]
    OBVIOUS
  <1> HIDE DEF new
  <1>4. [gets EXCEPT ![k] = new] \in Seq(Competitions!Get)
        /\ Len([gets EXCEPT ![k] = new]) = Len(gets)
    BY <1>1, <1>2, ExceptSeq
  <1>5. \A j \in 1..Len(gets) : gets'[j] = IF j = k THEN new ELSE gets[j]
    BY <1>1, <1>2, <1>3
  <1>6. DOMAIN gets' = 1..Len(gets)
    BY <1>1, <1>3
  <1> QED
    BY <1>1, <1>2, <1>3, <1>4, <1>5, <1>6

LEMMA PostAfter ==
  ASSUME CompetitionsTyped, NEW p \in DOMAIN posts, NEW state \in {"done", "ok", "failed"},
         posts' = [posts EXCEPT ![p].state = state]
  PROVE  posts' \in Seq(Competitions!Post) /\ Len(posts') <= MaxPosts
  <1> DEFINE f == posts[p]
             new == [f EXCEPT !.state = state]
  <1>1. posts \in Seq(Competitions!Post) /\ DOMAIN posts = 1..Len(posts) /\ f \in Competitions!Post
        /\ Len(posts) <= MaxPosts
    BY LenProperties, ElementOfSeq DEF CompetitionsTyped
  <1>2. new \in Competitions!Post
    <2> HIDE DEF f
    <2> QED
      BY <1>1 DEF Competitions!Post
  <1>3. posts' = [posts EXCEPT ![p] = new]
    OBVIOUS
  <1> HIDE DEF new
  <1>4. [posts EXCEPT ![p] = new] \in Seq(Competitions!Post)
        /\ Len([posts EXCEPT ![p] = new]) = Len(posts)
    BY <1>1, <1>2, ExceptSeq
  <1> QED
    BY <1>1, <1>3, <1>4

(* A new request, which is alone if nothing was under way. *)
LEMMA NewGetAfter ==
  ASSUME NEW before \in Seq(Competitions!Get)
  PROVE  LET after == Competitions!NewGet(before)
             n == Len(before)
         IN /\ n \in Nat /\ DOMAIN before = 1..n /\ DOMAIN after = 1..(n + 1)
            /\ after \in Seq(Competitions!Get) /\ Len(after) = n + 1
            /\ \A k \in 1..n : after[k] = before[k]
            /\ after[n + 1].state = "sent"
            /\ after[n + 1].alone <=> \A k \in 1..n : before[k].state = "over"
  <1> DEFINE new == [state |-> "sent", rows |-> Competitions!NoRows,
                     alone |-> \A k \in DOMAIN before : before[k].state = "over"]
             after == Competitions!NewGet(before)
  <1>1. after = Append(before, new)
    BY DEF Competitions!NewGet
  <1>2. new \in Competitions!Get
    BY GetType
  <1>3. /\ new.state = "sent"
        /\ new.alone <=> \A k \in DOMAIN before : before[k].state = "over"
    OBVIOUS
  <1>4. Len(before) \in Nat /\ DOMAIN before = 1..Len(before)
    BY LenProperties
  <1> HIDE DEF new
  <1>5. /\ Append(before, new) \in Seq(Competitions!Get)
        /\ Len(Append(before, new)) = Len(before) + 1
        /\ \A k \in 1..Len(before) : Append(before, new)[k] = before[k]
        /\ Append(before, new)[Len(before) + 1] = new
    BY <1>2, <1>4, AppendProperties
  <1>6. DOMAIN Append(before, new) = 1..(Len(before) + 1)
    BY <1>5, LenProperties
  <1> QED
    BY <1>1, <1>3, <1>4, <1>5, <1>6

-----------------------------------------------------------------------------
(* CompetitionList: one lemma per action *)

LEMMA CompetitionsInitially == Competitions!Init => CompetitionsIInv
  <1> SUFFICES ASSUME Competitions!Init PROVE CompetitionsIInv
    OBVIOUS
  <1>1. <<>> \in Seq(Competitions!Get) /\ Len(<<>>) = 0
    BY EmptySeq
  <1>2. /\ gets \in Seq(Competitions!Get) /\ Len(gets) = 1 /\ DOMAIN gets = 1..1
        /\ gets[1].state = "sent"
    <2> DEFINE none == <<>>
    <2>1. none \in Seq(Competitions!Get) /\ Len(none) = 0 /\ gets = Competitions!NewGet(none)
      BY <1>1 DEF Competitions!Init
    <2> HIDE DEF none
    <2>2. /\ DOMAIN gets = 1..(Len(none) + 1) /\ gets \in Seq(Competitions!Get)
          /\ Len(gets) = Len(none) + 1 /\ gets[Len(none) + 1].state = "sent"
      BY <2>1, NewGetAfter
    <2> QED
      BY <2>1, <2>2
  <1>3. table \in Competitions!Table /\ competitions \in Competitions!Table
        /\ competitions = Competitions!NoRows
    <2>1. table \in [InitialCompetition -> BOOLEAN] /\ InitialCompetition \in SUBSET Competition
      BY CompetitionsConstants DEF Competitions!Init
    <2> QED
      BY <2>1, Tables DEF Competitions!Init
  <1>4. CompetitionsTyped
    <2>1. posts \in Seq(Competitions!Post) /\ Len(posts) = 0
      BY EmptySeq DEF Competitions!Init
    <2>2. 1 \in 1..MaxGets /\ 0 <= MaxPosts
      BY CompetitionsConstants
    <2> QED
      BY <1>2, <1>3, <2>1, <2>2 DEF CompetitionsTyped
  <1>5. DialogTyped /\ InputIsChosen /\ ShownFileGoesWhereChosen
    BY DEF Competitions!Init, DialogTyped, Dialog, InputIsChosen, ShownFileGoesWhereChosen,
       Competitions!ShownFileGoesWhereChosen
  <1>6. InStep
    BY <1>2, <1>3, BehindNothing DEF InStep
  <1> QED
    BY <1>4, <1>5, <1>6 DEF CompetitionsIInv

(* What does not touch the dialog keeps what is said of it, and the other way round. *)
LEMMA DialogKept ==
  ASSUME CompetitionsIInv, UNCHANGED <<dialog, uploaded>>
  PROVE  DialogTyped' /\ InputIsChosen' /\ ShownFileGoesWhereChosen'
  BY DEF CompetitionsIInv, DialogTyped, InputIsChosen, ShownFileGoesWhereChosen,
     Competitions!ShownFileGoesWhereChosen

LEMMA ListKept ==
  ASSUME CompetitionsIInv, UNCHANGED <<table, competitions, gets, posts>>
  PROVE  CompetitionsTyped' /\ InStep'
  BY DEF CompetitionsIInv, CompetitionsTyped, InStep, AllAlone

LEMMA GetServeKeeps ==
  ASSUME CompetitionsIInv, NEW k \in DOMAIN gets, Competitions!Serve(k)
  PROVE  CompetitionsIInv'
  <1>1. /\ gets[k].state = "sent" /\ gets' = [gets EXCEPT ![k].state = "cut", ![k].rows = table]
        /\ UNCHANGED <<table, competitions, posts, dialog, uploaded>>
        /\ CompetitionsTyped
    BY DEF Competitions!Serve, Competitions!dialogVars, CompetitionsIInv
  <1>2. /\ gets' \in Seq(Competitions!Get) /\ Len(gets') = Len(gets) /\ DOMAIN gets' = DOMAIN gets
        /\ \A j \in DOMAIN gets : /\ j # k => gets'[j] = gets[j]
                                  /\ gets'[j].alone = gets[j].alone
        /\ gets'[k].state = "cut" /\ gets'[k].rows = table
    BY <1>1, GetAfter DEF CompetitionsTyped
  <1>3. CompetitionsTyped'
    BY <1>1, <1>2 DEF CompetitionsTyped
  <1>4. InStep'
    <2> SUFFICES ASSUME AllAlone' PROVE InStep'
      BY DEF InStep
    <2>1. AllAlone /\ InStep
      BY <1>2 DEF AllAlone, CompetitionsIInv
    <2> QED
      BY <1>1, <1>2, <2>1, BehindItself DEF InStep
  <1> QED
    BY <1>1, <1>3, <1>4, DialogKept DEF CompetitionsIInv

LEMMA OverKeeps ==
  ASSUME CompetitionsIInv, NEW k \in DOMAIN gets, Competitions!Over(k), gets[k].state # "over",
         UNCHANGED <<table, posts, dialog, uploaded>>,
         competitions' = competitions \/ (gets[k].state = "cut" /\ competitions' = gets[k].rows)
  PROVE  CompetitionsIInv'
  <1>1. CompetitionsTyped /\ gets' = [gets EXCEPT ![k].state = "over", ![k].rows = Competitions!NoRows]
    BY DEF Competitions!Over, CompetitionsIInv
  <1>2. /\ gets' \in Seq(Competitions!Get) /\ Len(gets') = Len(gets) /\ DOMAIN gets' = DOMAIN gets
        /\ \A j \in DOMAIN gets : /\ j # k => gets'[j] = gets[j]
                                  /\ gets'[j].alone = gets[j].alone
        /\ gets'[k].state = "over"
    BY <1>1, Tables, GetAfter
  <1>3. competitions' \in Competitions!Table
    <2>1. gets[k] \in Competitions!Get
      BY <1>1, LenProperties, ElementOfSeq DEF CompetitionsTyped
    <2> QED
      BY <1>1, <2>1, GetType DEF CompetitionsTyped
  <1>4. CompetitionsTyped'
    BY <1>1, <1>2, <1>3 DEF CompetitionsTyped
  <1>5. InStep'
    <2> SUFFICES ASSUME AllAlone' PROVE InStep'
      BY DEF InStep
    <2>1. AllAlone /\ InStep
      BY <1>2 DEF AllAlone, CompetitionsIInv
    <2>2. \A j \in DOMAIN gets' : gets'[j].state = "over"
      BY <1>2, <2>1 DEF InStep
    <2>3. Behind(competitions', table')
      BY <2>1 DEF InStep
    <2> QED
      BY <2>2, <2>3 DEF InStep
  <1> QED
    BY <1>4, <1>5, DialogKept DEF CompetitionsIInv

LEMMA TableGrows ==
  ASSUME CompetitionsTyped, NEW c \in Competition,
         Competitions!Finished(c) \/ Competitions!Added(c)
  PROVE  table' \in Competitions!Table /\ Behind(table, table')
  <1>1. /\ table \in [DOMAIN table -> BOOLEAN] /\ DOMAIN table \subseteq Competition
        /\ \A d \in DOMAIN table : table[d] \in BOOLEAN
    BY Tables DEF CompetitionsTyped
  <1>2. CASE Competitions!Finished(c)
    <2>1. table' \in [DOMAIN table -> BOOLEAN]
      BY <1>1, <1>2 DEF Competitions!Finished
    <2>2. DOMAIN table' = DOMAIN table
      BY <2>1
    <2>3. \A d \in DOMAIN table : table[d] => table'[d]
      BY <1>1, <1>2 DEF Competitions!Finished
    <2> QED
      BY <1>1, <2>1, <2>2, <2>3, Tables DEF Behind
  <1>3. CASE Competitions!Added(c)
    <2>1. table' \in [DOMAIN table \cup {c} -> BOOLEAN] /\ DOMAIN table \cup {c} \in SUBSET Competition
      BY <1>1, <1>3 DEF Competitions!Added
    <2>2. DOMAIN table' = DOMAIN table \cup {c}
      BY <2>1
    <2>3. \A d \in DOMAIN table : table[d] => table'[d]
      BY <1>1, <1>3 DEF Competitions!Added
    <2> QED
      BY <2>1, <2>2, <2>3, Tables DEF Behind
  <1> QED
    BY <1>2, <1>3

LEMMA GrownKeeps ==
  ASSUME CompetitionsIInv, table' \in Competitions!Table, Behind(table, table'),
         posts' \in Seq(Competitions!Post), Len(posts') <= MaxPosts,
         UNCHANGED <<competitions, gets, dialog, uploaded>>
  PROVE  CompetitionsIInv'
  <1>1. CompetitionsTyped'
    BY DEF CompetitionsIInv, CompetitionsTyped
  <1>2. InStep'
    BY BehindBoth DEF CompetitionsIInv, InStep, AllAlone
  <1> QED
    BY <1>1, <1>2, DialogKept DEF CompetitionsIInv

LEMMA HandleKeeps ==
  ASSUME CompetitionsIInv, NEW p \in DOMAIN posts, Competitions!Handle(p)
  PROVE  CompetitionsIInv'
  <1>1. CompetitionsTyped /\ posts[p].competition \in Competition
    <2>1. CompetitionsTyped /\ posts[p] \in Competitions!Post
      BY LenProperties, ElementOfSeq DEF CompetitionsIInv, CompetitionsTyped
    <2> QED
      BY <2>1 DEF Competitions!Post
  <1>2. posts' \in Seq(Competitions!Post) /\ Len(posts') <= MaxPosts
    BY <1>1, PostAfter DEF Competitions!Handle
  <1>3. table' \in Competitions!Table /\ Behind(table, table')
    BY <1>1, TableGrows DEF Competitions!Handle
  <1> QED
    BY <1>2, <1>3, GrownKeeps DEF Competitions!Handle, Competitions!dialogVars

LEMMA ElsewhereKeeps ==
  ASSUME CompetitionsIInv, Competitions!Elsewhere
  PROVE  CompetitionsIInv'
  <1>1. CompetitionsTyped /\ UNCHANGED <<competitions, gets, posts, dialog, uploaded>>
    BY DEF CompetitionsIInv, Competitions!Elsewhere, Competitions!dialogVars
  <1>2. table' \in Competitions!Table /\ Behind(table, table')
    BY <1>1, TableGrows DEF Competitions!Elsewhere
  <1> QED
    BY <1>1, <1>2, GrownKeeps DEF CompetitionsTyped

LEMMA PostsKeep ==
  ASSUME CompetitionsIInv, posts' \in Seq(Competitions!Post), Len(posts') <= MaxPosts,
         UNCHANGED <<table, competitions, gets, dialog, uploaded>>
  PROVE  CompetitionsIInv'
  BY BehindItself, GrownKeeps DEF CompetitionsIInv, CompetitionsTyped

LEMMA CompetitionsAskKeeps ==
  ASSUME CompetitionsIInv, NEW op \in {"finish", "add"}, NEW c \in Competition,
         Competitions!Ask(op, c), UNCHANGED competitions
  PROVE  CompetitionsIInv'
  <1> DEFINE new == [op |-> op, competition |-> c, state |-> "sent"]
  <1>1. /\ posts \in Seq(Competitions!Post) /\ Len(posts) \in Nat /\ Len(posts) < MaxPosts
        /\ posts' = Append(posts, new)
        /\ UNCHANGED <<table, gets, dialog, uploaded>>
    BY LenProperties DEF CompetitionsIInv, CompetitionsTyped, Competitions!Ask, Competitions!dialogVars
  <1>2. new \in Competitions!Post
    BY DEF Competitions!Post
  <1> HIDE DEF new
  <1>3. posts' \in Seq(Competitions!Post) /\ Len(posts') <= MaxPosts
    BY <1>1, <1>2, AppendProperties, CompetitionsConstants
  <1> QED
    BY <1>1, <1>3, PostsKeep

LEMMA AnsweredKeeps ==
  ASSUME CompetitionsIInv, NEW p \in DOMAIN posts, Competitions!Answered(p)
  PROVE  CompetitionsIInv'
  <1> DEFINE n == Len(gets)
  <1>1. /\ CompetitionsTyped /\ gets \in Seq(Competitions!Get) /\ n < MaxGets
        /\ gets' = Competitions!NewGet(gets)
        /\ UNCHANGED <<table, competitions, dialog, uploaded>>
    BY DEF CompetitionsIInv, CompetitionsTyped, Competitions!Answered, Competitions!dialogVars
  <1>2. posts' \in Seq(Competitions!Post) /\ Len(posts') <= MaxPosts
    BY <1>1, PostAfter DEF Competitions!Answered
  <1>3. /\ n \in Nat /\ DOMAIN gets = 1..n /\ DOMAIN gets' = 1..(n + 1)
        /\ gets' \in Seq(Competitions!Get) /\ Len(gets') = n + 1
        /\ \A k \in 1..n : gets'[k] = gets[k]
        /\ gets'[n + 1].state = "sent"
        /\ gets'[n + 1].alone <=> \A k \in 1..n : gets[k].state = "over"
    BY <1>1, NewGetAfter
  <1> HIDE DEF n
  <1>4. CompetitionsTyped'
    <2>1. Len(gets') \in 1..MaxGets
      BY <1>1, <1>3, CompetitionsConstants
    <2> QED
      BY <1>1, <1>2, <1>3, <2>1 DEF CompetitionsTyped
  <1>5. InStep'
    <2> SUFFICES ASSUME AllAlone' PROVE InStep'
      BY DEF InStep
    <2>1. AllAlone /\ InStep /\ \A k \in 1..n : gets[k].state = "over"
      BY <1>3 DEF AllAlone, CompetitionsIInv
    <2>2. \A k \in 1..n : gets'[k].state = "over"
      BY <1>3, <2>1
    <2>3. \A k \in 1..(n + 1) : k \in 1..n \/ k = n + 1
      BY <1>3
    <2> QED
      BY <1>1, <1>3, <2>1, <2>2, <2>3 DEF InStep
  <1> QED
    BY <1>1, <1>4, <1>5, DialogKept DEF CompetitionsIInv

(* The dialog. *)
LEMMA HandleUploadCSVKeeps ==
  ASSUME CompetitionsIInv, NEW c \in Competition, Competitions!HandleUploadCSV(c)
  PROVE  CompetitionsIInv'
  <1>1. /\ dialog \in Dialog /\ ~dialog.show /\ dialog' = [dialog EXCEPT !.show = TRUE, !.id = c]
        /\ UNCHANGED <<table, competitions, gets, posts, uploaded>>
    BY DEF CompetitionsIInv, DialogTyped, Competitions!HandleUploadCSV
  <1>2. /\ dialog' \in Dialog /\ dialog'.show /\ dialog'.id = c /\ dialog'.chosen = dialog.chosen
        /\ dialog'.csvFile = dialog.csvFile /\ dialog'.input = dialog.input
    BY <1>1 DEF Dialog
  <1>3. DialogTyped' /\ InputIsChosen' /\ ShownFileGoesWhereChosen'
    BY <1>1, <1>2 DEF CompetitionsIInv, DialogTyped, InputIsChosen, ShownFileGoesWhereChosen,
       Competitions!ShownFileGoesWhereChosen
  <1> QED
    BY <1>1, <1>3, ListKept DEF CompetitionsIInv

LEMMA HandleFileChangeKeeps ==
  ASSUME CompetitionsIInv, NEW f \in CSV \cup {NULL}, Competitions!HandleFileChange(f)
  PROVE  CompetitionsIInv'
  <1>1. /\ dialog \in Dialog /\ dialog.show /\ dialog.id \in Competition
        /\ dialog' = [dialog EXCEPT !.csvFile = f, !.input = f, !.chosen = dialog.id]
        /\ UNCHANGED <<table, competitions, gets, posts, uploaded>>
    BY DEF CompetitionsIInv, DialogTyped, Competitions!HandleFileChange
  <1>2. /\ dialog' \in Dialog /\ dialog'.show = dialog.show /\ dialog'.id = dialog.id
        /\ dialog'.chosen = dialog.id /\ dialog'.csvFile = f /\ dialog'.input = f
    BY <1>1 DEF Dialog
  <1>3. DialogTyped' /\ InputIsChosen' /\ ShownFileGoesWhereChosen'
    BY <1>1, <1>2 DEF CompetitionsIInv, DialogTyped, InputIsChosen, ShownFileGoesWhereChosen,
       Competitions!ShownFileGoesWhereChosen
  <1> QED
    BY <1>1, <1>3, ListKept DEF CompetitionsIInv

LEMMA CloseKeeps ==
  ASSUME CompetitionsIInv, Competitions!Close, UNCHANGED <<table, competitions, gets, posts>>,
         uploaded' \in Competitions!Upload \cup {NULL}, ShownFileGoesWhereChosen'
  PROVE  CompetitionsIInv'
  <1>1. dialog \in Dialog /\ dialog' = [dialog EXCEPT !.show = FALSE, !.input = NULL]
    BY DEF CompetitionsIInv, DialogTyped, Competitions!Close
  <1>2. /\ dialog' \in Dialog /\ ~dialog'.show /\ dialog'.id = dialog.id /\ dialog'.chosen = dialog.chosen
        /\ dialog'.csvFile = dialog.csvFile /\ dialog'.input = NULL
    BY <1>1 DEF Dialog
  <1>3. DialogTyped' /\ InputIsChosen'
    BY <1>1, <1>2 DEF CompetitionsIInv, DialogTyped, InputIsChosen
  <1> QED
    BY <1>3, ListKept DEF CompetitionsIInv

LEMMA HandleApplyKeeps ==
  ASSUME CompetitionsIInv, Competitions!HandleApply
  PROVE  CompetitionsIInv'
  <1>1. /\ dialog \in Dialog /\ dialog.show /\ dialog.id \in Competition /\ InputIsChosen
        /\ Competitions!Close /\ UNCHANGED <<table, competitions, gets, posts>>
        /\ IF dialog.csvFile = NULL THEN UNCHANGED uploaded
           ELSE uploaded' = [competition |-> dialog.id, file |-> dialog.csvFile,
                             input |-> dialog.input, chosen |-> dialog.chosen]
        /\ uploaded \in Competitions!Upload \cup {NULL} /\ ShownFileGoesWhereChosen
    BY DEF CompetitionsIInv, DialogTyped, Competitions!HandleApply
  <1>2. uploaded' \in Competitions!Upload \cup {NULL} /\ ShownFileGoesWhereChosen'
    <2>1. CASE dialog.csvFile = NULL
      BY <1>1, <2>1 DEF ShownFileGoesWhereChosen, Competitions!ShownFileGoesWhereChosen
    <2>2. CASE dialog.csvFile # NULL
      <3>1. dialog.csvFile \in CSV /\ dialog.input \in CSV \cup {NULL} /\ dialog.chosen \in Competition
        BY <1>1, <2>2 DEF Dialog, InputIsChosen
      <3>2. uploaded' = [competition |-> dialog.id, file |-> dialog.csvFile,
                         input |-> dialog.input, chosen |-> dialog.chosen]
        BY <1>1, <2>2
      <3>3. uploaded' \in Competitions!Upload
        BY <1>1, <3>1, <3>2 DEF Competitions!Upload
      <3>4. ShownFileGoesWhereChosen'
        BY <1>1, <3>2 DEF InputIsChosen, ShownFileGoesWhereChosen, Competitions!ShownFileGoesWhereChosen
      <3> QED
        BY <3>3, <3>4
    <2> QED
      BY <2>1, <2>2
  <1> QED
    BY <1>1, <1>2, CloseKeeps

LEMMA HandleCloseKeeps ==
  ASSUME CompetitionsIInv, Competitions!HandleClose
  PROVE  CompetitionsIInv'
  <1>1. /\ Competitions!Close /\ UNCHANGED <<table, competitions, gets, posts, uploaded>>
        /\ uploaded' \in Competitions!Upload \cup {NULL} /\ ShownFileGoesWhereChosen'
    BY DEF CompetitionsIInv, DialogTyped, Competitions!HandleClose, ShownFileGoesWhereChosen,
       Competitions!ShownFileGoesWhereChosen
  <1> QED
    BY <1>1, CloseKeeps

LEMMA CompetitionsInductive ==
  CompetitionsIInv /\ [Competitions!Next]_(Competitions!vars) => CompetitionsIInv'
  <1> SUFFICES ASSUME CompetitionsIInv, [Competitions!Next]_(Competitions!vars) PROVE CompetitionsIInv'
    OBVIOUS
  <1>1. ASSUME NEW k \in DOMAIN gets, Competitions!Show(k) PROVE CompetitionsIInv'
    BY <1>1, OverKeeps DEF Competitions!Show, Competitions!dialogVars
  <1>2. ASSUME NEW k \in DOMAIN gets, Competitions!GetFails(k) PROVE CompetitionsIInv'
    BY <1>2, OverKeeps DEF Competitions!GetFails, Competitions!UnderWay, Competitions!dialogVars
  <1>3. ASSUME NEW p \in DOMAIN posts, Competitions!PostFails(p) PROVE CompetitionsIInv'
    BY <1>3, PostAfter, PostsKeep DEF Competitions!PostFails, Competitions!dialogVars, CompetitionsIInv
  <1>4. ASSUME NEW c \in Competition, Competitions!CompleteCompetition(c) PROVE CompetitionsIInv'
    BY <1>4, CompetitionsAskKeeps DEF Competitions!CompleteCompetition
  <1>5. ASSUME NEW c \in Competition, Competitions!AddCompetition(c) PROVE CompetitionsIInv'
    BY <1>5, CompetitionsAskKeeps DEF Competitions!AddCompetition
  <1>6. CASE Competitions!Next
    BY <1>1, <1>2, <1>3, <1>4, <1>5, <1>6, GetServeKeeps, HandleKeeps, AnsweredKeeps, ElsewhereKeeps,
       HandleUploadCSVKeeps, HandleFileChangeKeeps, HandleApplyKeeps, HandleCloseKeeps
       DEF Competitions!Next
  <1>7. CASE UNCHANGED Competitions!vars
    BY <1>7, ListKept, DialogKept DEF Competitions!vars, CompetitionsIInv
  <1> QED
    BY <1>6, <1>7

LEMMA CompetitionsInvariant == Competitions!Spec => []CompetitionsIInv
  <1>1. Competitions!Init => CompetitionsIInv
    BY CompetitionsInitially
  <1> QED
    BY <1>1, CompetitionsInductive, PTL DEF Competitions!Spec

(* A step takes a row back only if some answer was overtaken. *)
LEMMA StepGoesBackOnlyIfOvertaken ==
  ASSUME CompetitionsIInv, Competitions!Next,
         \E c \in DOMAIN competitions :
            c \notin DOMAIN competitions' \/ (competitions[c] /\ ~competitions'[c])
  PROVE  \E k \in DOMAIN gets : ~gets[k].alone
  <1>1. ASSUME UNCHANGED competitions PROVE FALSE
    BY <1>1
  <1>2. PICK k \in DOMAIN gets : Competitions!Show(k)
    BY <1>1 DEF Competitions!Next, Competitions!Serve, Competitions!GetFails, Competitions!Handle,
       Competitions!Answered, Competitions!PostFails, Competitions!Elsewhere,
       Competitions!CompleteCompetition, Competitions!AddCompetition, Competitions!HandleUploadCSV,
       Competitions!HandleFileChange, Competitions!HandleApply, Competitions!HandleClose
  <1>3. gets[k].state = "cut" /\ competitions' = gets[k].rows
    BY <1>2 DEF Competitions!Show
  <1>4. AllAlone => Behind(competitions, competitions')
    BY <1>2, <1>3 DEF CompetitionsIInv, InStep
  <1> QED
    BY <1>4 DEF Behind, AllAlone

-----------------------------------------------------------------------------
(* The browser: what it does is what one of its pages does. *)

LEMMA PagesInit == AnyPage => Init /\ Tenants!Init /\ Competitions!Init
  BY DEF AnyPage

LEMMA PagesStep ==
  ASSUME [AnyStep /\ UNCHANGED opened]_<<opened, rankingVars, tenantsVars, competitionsVars>>
  PROVE  [Next]_vars /\ [Tenants!Next]_(Tenants!vars) /\ [Competitions!Next]_(Competitions!vars)
  <1>1. /\ UNCHANGED rankingVars => UNCHANGED vars
        /\ UNCHANGED tenantsVars => UNCHANGED Tenants!vars
        /\ UNCHANGED competitionsVars => UNCHANGED Competitions!vars
    BY DEF rankingVars, tenantsVars, competitionsVars, vars, serverVars, clientVars,
       Tenants!vars, Competitions!vars
  <1>2. CASE UNCHANGED <<opened, rankingVars, tenantsVars, competitionsVars>>
    BY <1>1, <1>2
  <1>3. CASE AnyStep
    BY <1>1, <1>3 DEF AnyStep
  <1> QED
    BY <1>2, <1>3

(* Every behaviour of the browser is one of each of its pages: what is proved  *)
(* of a page's specification holds of the browser.                             *)
THEOREM PagesAreTheirSpecs == PagesSpec => Spec /\ Tenants!Spec /\ Competitions!Spec
  BY PagesInit, PagesStep, PTL DEF PagesSpec, Spec, Tenants!Spec, Competitions!Spec

(* Every page's variables keep their types.                                    *)
THEOREM PagesTyped == PagesSpec => []PagesTypeOK
  <1>1. TenantsIInv => Tenants!TypeOK
    BY DEF TenantsIInv
  <1>2. CompetitionsIInv => Competitions!TypeOK
    BY CompetitionsTypeParts DEF CompetitionsIInv
  <1>3. TypeOK /\ Tenants!TypeOK /\ Competitions!TypeOK => PagesTypeOK
    BY DEF PagesTypeOK
  <1> QED
    BY <1>1, <1>2, <1>3, PagesAreTheirSpecs, TypeCorrect, TenantsInvariant, CompetitionsInvariant, PTL

(* The ranking's theorems hold of the browser: pages that are the standings,   *)
(* a list without a gap, and the whole ranking at its end.                     *)
THEOREM RankingInBrowser ==
  PagesSpec => [](PageAgreesWithStandings /\ ListHasEveryRankOnce /\ ListIsComplete)
  BY PagesAreTheirSpecs, PagesAreStandings, RanksInOrder, ListComplete, PTL

(* When AdminView's button is gone, every tenant there was when the page was   *)
(* opened is in its list: no answer, however late, passes over one.            *)
THEOREM NoTenantMissed == PagesSpec => []NothingMissed
  <1>1. TenantsIInv => NothingMissed
    BY DEF TenantsIInv
  <1> QED
    BY <1>1, PagesAreTheirSpecs, TenantsInvariant, PTL

(* A tenant is twice in AdminView's list only if the button was pressed before *)
(* onMounted's timer went off, or the dialog added it before the first page    *)
(* was cut.                                                                    *)
THEOREM TwiceOnlyEarly == PagesSpec => []TwiceOnlyIfEarly
  BY TwiceFollows, PagesAreTheirSpecs, TenantsInvariant, PTL

(* A file UploadCSVModal shows goes to the competition it was chosen for.      *)
THEOREM UploadGoesWhereChosen == PagesSpec => []ShownFileGoesWhereChosen
  <1>1. CompetitionsIInv => ShownFileGoesWhereChosen
    BY DEF CompetitionsIInv
  <1> QED
    BY <1>1, PagesAreTheirSpecs, CompetitionsInvariant, PTL

(* A row of CompetitionListView that was finished is taken back, or gone, only *)
(* if some answer was under way beside another.                                *)
THEOREM BackOnlyIfOvertaken == PagesSpec => GoesBackOnlyIfOvertaken
  <1> DEFINE Step == (\E c \in DOMAIN competitions :
                        c \notin DOMAIN competitions' \/ (competitions[c] /\ ~competitions'[c]))
                     => \E k \in DOMAIN gets : ~gets[k].alone
  <1>1. CompetitionsIInv /\ [Competitions!Next]_(Competitions!vars) => [Step]_(Competitions!vars)
    BY StepGoesBackOnlyIfOvertaken
  <1>2. Competitions!Spec => [][Step]_(Competitions!vars)
    <2> HIDE DEF Step
    <2> QED
      BY <1>1, CompetitionsInvariant, PTL DEF Competitions!Spec
  <1> QED
    BY <1>2, PagesAreTheirSpecs, PTL DEF GoesBackOnlyIfOvertaken, Competitions!GoesBackOnlyIfOvertaken
=============================================================================
