------------------------ MODULE ImpactPipelineProofs ------------------------
(***************************************************************************)
(* Proofs, for any catalogue, site and configuration that the code admits, *)
(* that the offline pipeline leaks nothing over its splits, makes no       *)
(* unknown hour a negative and counts alert events as it should; and, for  *)
(* any log and any number of jobs, that the shadow service's reports are   *)
(* true.                                                                   *)
(***************************************************************************)
EXTENDS ImpactPipeline, ShadowMonitoring, FiniteSetTheorems, FunctionTheorems,
  WellFoundedInduction, TLAPS

-----------------------------------------------------------------------------
(* Induction, recursion and ranks *)

\* Induction over the naturals, for a set.
LEMMA SetInduction ==
  ASSUME NEW S, 0 \in S, \A n \in Nat : n \in S => n + 1 \in S
  PROVE  Nat \subseteq S
<1> SUFFICES ASSUME Nat \ S # {} PROVE FALSE
  OBVIOUS
<1> DEFINE R == OpToRel(<, Nat)
           T == Nat \ S
<1>1. IsWellFoundedOn(R, Nat)
  BY NatLessThanWellFounded
<1>2. T \subseteq Nat /\ T # {}
  OBVIOUS
<1> HIDE DEF R
<1>3. PICK x \in T : \A y \in T : ~(<<y, x>> \in R)
  BY <1>1, <1>2, WFMin
<1>4. x \in Nat /\ x # 0 /\ x - 1 \in Nat
  OBVIOUS
<1>5. x - 1 \in T
  BY <1>4
<1>6. <<x - 1, x>> \in R
  <2>1. <<x - 1, x>> \in Nat \X Nat /\ x - 1 < x
    BY <1>4
  <2> QED BY <2>1 DEF R, OpToRel
<1> QED BY <1>3, <1>5, <1>6

\* Induction up to a bound.
LEMMA InductionUpTo ==
  ASSUME NEW n \in Nat, NEW S, 0 \in S, \A k \in 1..n : k - 1 \in S => k \in S
  PROVE  \A k \in 0..n : k \in S
<1> DEFINE T == {k \in Nat : k <= n => k \in S}
<1>1. 0 \in T
  OBVIOUS
<1>2. ASSUME NEW k \in Nat, k \in T PROVE k + 1 \in T
  <2> SUFFICES ASSUME k + 1 <= n PROVE k + 1 \in S
    OBVIOUS
  <2>1. k + 1 \in 1..n /\ (k + 1) - 1 = k /\ k \in S
    BY <1>2
  <2> QED BY <2>1
<1> HIDE DEF T
<1>3. Nat \subseteq T
  BY <1>1, <1>2, SetInduction
<1> QED BY <1>3 DEF T

\* f is what n steps make of base, the k-th by step[k].
StepsTo(f, n, base, step) == f = [k \in 0..n |-> IF k = 0 THEN base ELSE step[k][f[k - 1]]]

\* A recursion whose steps stay in A is a function into A.
LEMMA RecursionExists ==
  ASSUME NEW A, NEW base \in A, NEW n \in Nat, NEW step \in [1..n -> [A -> A]]
  PROVE  \E f \in [0..n -> A] : StepsTo(f, n, base, step)
<1> DEFINE upTo(m) == \E f \in [0..m -> A] : StepsTo(f, m, base, step)
           S == {m \in 0..n : upTo(m)}
<1>1. 0 \in S
  <2> DEFINE g == [k \in 0..0 |-> base]
  <2>1. g \in [0..0 -> A] /\ StepsTo(g, 0, base, step)
    BY DEF StepsTo
  <2> QED BY <2>1
<1>2. ASSUME NEW m \in 1..n, m - 1 \in S PROVE m \in S
  <2>1. PICK f \in [0..m - 1 -> A] : StepsTo(f, m - 1, base, step)
    BY <1>2
  <2> DEFINE g == [k \in 0..m |-> IF k \in 0..m - 1 THEN f[k] ELSE step[m][f[m - 1]]]
  <2>2. \A k \in 0..m - 1 : f[k] = IF k = 0 THEN base ELSE step[k][f[k - 1]]
    BY <2>1 DEF StepsTo
  <2>3. g \in [0..m -> A]
    <3>1. f[m - 1] \in A /\ step[m] \in [A -> A]
      OBVIOUS
    <3> QED BY <3>1
  <2>4. \A k \in 0..m : g[k] = IF k = 0 THEN base ELSE step[k][g[k - 1]]
    <3> TAKE k \in 0..m
    <3>1. CASE k = 0
      BY <2>2, <3>1
    <3>2. CASE k \in 1..m - 1
      <4>1. k - 1 \in 0..m - 1 /\ k \in 0..m - 1 /\ k - 1 \in 0..m /\ k # 0
        BY <3>2
      <4> QED BY <2>2, <4>1
    <3>3. CASE k = m
      <4>1. m - 1 \in 0..m - 1 /\ m \notin 0..m - 1 /\ m - 1 \in 0..m /\ m # 0
        OBVIOUS
      <4> QED BY <3>3, <4>1
    <3> QED BY <3>1, <3>2, <3>3
  <2>5. g = [k \in 0..m |-> g[k]]
    OBVIOUS
  <2> HIDE DEF g
  <2>6. StepsTo(g, m, base, step)
    BY <2>4, <2>5 DEF StepsTo
  <2> QED BY <2>3, <2>6
<1> HIDE DEF S
<1>3. \A k \in 0..n : k \in S
  BY <1>1, <1>2, InductionUpTo
<1>4. n \in S
  BY <1>3
<1> QED BY <1>4 DEF S

\* R is a strict total order of S.
Orders(R, S) ==
  /\ \A i \in S : <<i, i>> \notin R
  /\ \A i, j \in S : <<i, j>> \in R \/ <<j, i>> \in R \/ i = j
  /\ \A i, j, k \in S : <<i, j>> \in R /\ <<j, k>> \in R => <<i, k>> \in R

Smaller(i, R, S) == {j \in S : <<j, i>> \in R}

\* In a strict total order of a finite set the ranks grow with the order.
LEMMA RanksGrow ==
  ASSUME NEW S, IsFiniteSet(S), NEW R, Orders(R, S), NEW i \in S, NEW k \in S, <<i, k>> \in R
  PROVE  /\ Cardinality(Smaller(i, R, S)) \in Nat /\ Cardinality(Smaller(k, R, S)) \in Nat
         /\ Cardinality(Smaller(i, R, S)) < Cardinality(Smaller(k, R, S))
<1> DEFINE A == Smaller(i, R, S)
           B == Smaller(k, R, S)
<1>1. A \cup {i} \subseteq B /\ i \notin A /\ A \subseteq S /\ B \subseteq S
  BY DEF Orders, Smaller
<1> HIDE DEF A, B
<1>2. IsFiniteSet(A) /\ IsFiniteSet(B) /\ Cardinality(A) \in Nat /\ Cardinality(B) \in Nat
  BY <1>1, FS_Subset, FS_CardinalityType
<1>3. Cardinality(A \cup {i}) = Cardinality(A) + 1
  BY <1>1, <1>2, FS_AddElement
<1>4. Cardinality(A \cup {i}) <= Cardinality(B)
  BY <1>1, <1>2, FS_Subset
<1> QED BY <1>2, <1>3, <1>4 DEF A, B

\* And every rank is somebody's.
LEMMA RanksAreTaken ==
  ASSUME NEW S, IsFiniteSet(S), NEW R, Orders(R, S), NEW rank \in 1..Cardinality(S)
  PROVE  \E i \in S : Cardinality(Smaller(i, R, S)) = rank - 1
<1> DEFINE n == Cardinality(S)
           before(i) == Smaller(i, R, S)
           f == [i \in S |-> Cardinality(before(i)) + 1]
<1>1. n \in Nat
  BY FS_CardinalityType
<1>2. ASSUME NEW i \in S
      PROVE  Cardinality(before(i)) \in Nat /\ Cardinality(before(i)) <= n - 1
  <2>1. before(i) \subseteq S \ {i}
    BY DEF Orders, Smaller
  <2> HIDE DEF before
  <2>2. IsFiniteSet(S \ {i}) /\ Cardinality(S \ {i}) = n - 1
    BY FS_RemoveElement
  <2>3. IsFiniteSet(before(i)) /\ Cardinality(before(i)) <= Cardinality(S \ {i})
    BY <2>1, <2>2, FS_Subset
  <2> QED BY <2>2, <2>3, FS_CardinalityType
<1>3. ASSUME NEW i \in S, NEW k \in S, <<i, k>> \in R
      PROVE  Cardinality(before(i)) < Cardinality(before(k))
  BY <1>3, RanksGrow
<1>4. \A i \in S : f[i] = Cardinality(before(i)) + 1
  OBVIOUS
<1>5. f = [i \in S |-> f[i]]
  OBVIOUS
<1> HIDE DEF before, n, f
<1>6. \A i \in S : f[i] \in 1..n
  BY <1>1, <1>2, <1>4
<1>7. ASSUME NEW i \in S, NEW k \in S, f[i] = f[k] PROVE i = k
  <2>1. ~(Cardinality(before(i)) < Cardinality(before(k)))
        /\ ~(Cardinality(before(k)) < Cardinality(before(i)))
    BY <1>2, <1>4, <1>7
  <2> QED BY <1>3, <2>1 DEF Orders
<1>8. IsFiniteSet(1..n) /\ Cardinality(1..n) = n
  BY <1>1, FS_Interval
<1>9. f \in Injection(S, 1..n)
  BY <1>5, <1>6, <1>7 DEF Injection, IsInjective
<1>10. f \in Surjection(S, 1..n)
  BY <1>8, <1>9, FS_Injection DEF n
<1>11. PICK i \in S : f[i] = rank
  BY <1>10 DEF Surjection, n
<1>12. Cardinality(before(i)) \in Nat /\ f[i] = Cardinality(before(i)) + 1
  BY <1>2, <1>4
<1> QED BY <1>11, <1>12 DEF before

\* Putting a finite set in order lists each element once, and in order.
LEMMA InOrderLists ==
  ASSUME NEW S, IsFiniteSet(S), NEW R, Orders(R, S)
  PROVE  /\ Cardinality(S) \in Nat
         /\ InOrder(S, R) \in [1..Cardinality(S) -> S]
         /\ \A k, m \in 1..Cardinality(S) : k < m => <<InOrder(S, R)[k], InOrder(S, R)[m]>> \in R
         /\ \A x \in S : \E k \in 1..Cardinality(S) : InOrder(S, R)[k] = x
<1> DEFINE n == Cardinality(S)
           f == InOrder(S, R)
           rank(x) == Cardinality(Smaller(x, R, S))
<1>1. n \in Nat
  BY FS_CardinalityType
<1>2. f = [k \in 1..n |-> CHOOSE x \in S : rank(x) = k - 1]
  BY DEF InOrder, Smaller
<1>3. ASSUME NEW k \in 1..n PROVE f[k] \in S /\ rank(f[k]) = k - 1
  <2>1. \E x \in S : rank(x) = k - 1
    BY RanksAreTaken
  <2> HIDE DEF rank, n, f
  <2> QED BY <1>2, <2>1
<1>4. ASSUME NEW x \in S, NEW y \in S, <<x, y>> \in R
      PROVE  rank(x) \in Nat /\ rank(y) \in Nat /\ rank(x) < rank(y)
  BY <1>4, RanksGrow
<1>5. \A x \in S : rank(x) \in 0..n - 1
  <2> TAKE x \in S
  <2>1. Smaller(x, R, S) \subseteq S \ {x}
    BY DEF Orders, Smaller
  <2>2. IsFiniteSet(S \ {x}) /\ Cardinality(S \ {x}) = n - 1
    BY FS_RemoveElement
  <2>3. rank(x) <= n - 1 /\ rank(x) \in Nat
    BY <2>1, <2>2, FS_Subset, FS_CardinalityType
  <2> HIDE DEF rank, n
  <2> QED BY <1>1, <2>3
<1> HIDE DEF n, f, rank
<1>6. f \in [1..n -> S]
  BY <1>2, <1>3
<1>7. ASSUME NEW k \in 1..n, NEW m \in 1..n, k < m PROVE <<f[k], f[m]>> \in R
  <2>1. rank(f[k]) = k - 1 /\ rank(f[m]) = m - 1 /\ f[k] \in S /\ f[m] \in S
    BY <1>3
  <2>2. ~(rank(f[m]) < rank(f[k])) /\ f[k] # f[m]
    BY <1>1, <1>7, <2>1
  <2> QED BY <1>4, <2>1, <2>2 DEF Orders
<1>8. ASSUME NEW x \in S PROVE \E k \in 1..n : f[k] = x
  <2> DEFINE k == rank(x) + 1
  <2>1. k \in 1..n /\ k - 1 = rank(x)
    BY <1>1, <1>5
  <2>2. f[k] \in S /\ rank(f[k]) = rank(x)
    BY <1>3, <2>1
  <2>3. ~(rank(f[k]) < rank(x)) /\ ~(rank(x) < rank(f[k]))
    BY <1>5, <2>2
  <2>4. f[k] = x
    BY <1>4, <2>2, <2>3 DEF Orders
  <2> QED BY <2>1, <2>4
<1> QED BY <1>1, <1>6, <1>7, <1>8 DEF n, f

-----------------------------------------------------------------------------
(* The dataset *)

LEMMA FiniteImage ==
  ASSUME NEW S, IsFiniteSet(S), NEW f
  PROVE  IsFiniteSet({f[x] : x \in S})
<1> DEFINE g == [x \in S |-> f[x]]
           T == {f[x] : x \in S}
<1>1. g \in Surjection(S, T)
  BY DEF Surjection
<1> QED BY <1>1, FS_Surjection

LEMMA SampleTimesAreHours == SampleTimes \subseteq Int /\ IsFiniteSet(SampleTimes)
<1> DEFINE from == FirstHour + History - 1
           to == LastHour - Horizon
<1>1. from \in Int /\ to \in Int
  BY ImpactAssumption
<1>2. SampleTimes \subseteq from..to
  BY DEF SampleTimes
<1> HIDE DEF from, to
<1>3. IsFiniteSet(from..to) /\ from..to \subseteq Int
  BY <1>1, FS_Interval
<1> HIDE DEF SampleTimes
<1> QED BY <1>2, <1>3, FS_Subset

\* The row of a site and an hour.
RowAt(events, s, t) ==
  LET l == Label(t, ZoneOf[s], events) IN
  [site |-> s, t |-> t, hits |-> l.hits, known |-> l.known, event |-> l.event, storm |-> l.storm]

LEMMA RowsOfCells ==
  ASSUME NEW events
  PROVE  /\ IsFiniteSet(Rows(events))
         /\ \A r \in Rows(events) : r.site \in Sites /\ r.t \in Int /\ r = RowAt(events, r.site, r.t)
<1> DEFINE cells == Sites \X SampleTimes
           row == [p \in cells |-> RowAt(events, p[1], p[2])]
<1>1. Rows(events) = {RowAt(events, s, t) : s \in Sites, t \in SampleTimes}
  BY DEF Rows, RowAt
<1>2. Rows(events) = {row[p] : p \in cells}
  <2>1. \A s \in Sites, t \in SampleTimes : <<s, t>> \in cells /\ row[<<s, t>>] = RowAt(events, s, t)
    OBVIOUS
  <2>2. \A p \in cells : \E s \in Sites, t \in SampleTimes : row[p] = RowAt(events, s, t)
    OBVIOUS
  <2> HIDE DEF cells, row
  <2>3. ASSUME NEW x \in Rows(events) PROVE \E p \in cells : x = row[p]
    <3>1. PICK s \in Sites, t \in SampleTimes : x = RowAt(events, s, t)
      BY <1>1
    <3>2. <<s, t>> \in cells /\ x = row[<<s, t>>]
      BY <2>1, <3>1
    <3> QED BY <3>2
  <2>4. ASSUME NEW p \in cells PROVE row[p] \in Rows(events)
    BY <1>1, <2>2
  <2> QED BY <2>3, <2>4
<1>3. IsFiniteSet(cells)
  BY SampleTimesAreHours, ImpactAssumption, FS_Product
<1>4. IsFiniteSet(Rows(events))
  <2> HIDE DEF cells, row
  <2> QED BY <1>2, <1>3, FiniteImage
<1>5. ASSUME NEW s \in Sites, NEW t \in SampleTimes
      PROVE  RowAt(events, s, t).site = s /\ RowAt(events, s, t).t = t
  BY DEF RowAt
<1>6. \A r \in Rows(events) : r.site \in Sites /\ r.t \in Int /\ r = RowAt(events, r.site, r.t)
  BY <1>1, <1>5, SampleTimesAreHours
<1> QED BY <1>4, <1>6

\* The rows of a catalogue are ordered by site and hour.
LEMMA RowsInOrder ==
  ASSUME NEW events, NEW rows \in SUBSET Rows(events)
  PROVE  /\ IsFiniteSet(rows)
         /\ Orders({p \in rows \X rows : Before(p[1], p[2])}, rows)
<1>1. IsFiniteSet(rows)
  BY RowsOfCells, FS_Subset
<1>2. \A r \in rows : r.site \in Int /\ r.t \in Int /\ r = RowAt(events, r.site, r.t)
  BY RowsOfCells, ImpactAssumption
<1>3. \A r, q \in rows : r.site = q.site /\ r.t = q.t => r = q
  BY <1>2
<1> DEFINE R == {p \in rows \X rows : Before(p[1], p[2])}
<1>4. \A r, q \in rows : <<r, q>> \in R <=> Before(r, q)
  OBVIOUS
<1> HIDE DEF R
<1>5. \A r, q \in rows : ~Before(r, r) /\ (Before(r, q) \/ Before(q, r) \/ r = q)
  BY <1>2, <1>3 DEF Before
<1>6. \A r, q, v \in rows : Before(r, q) /\ Before(q, v) => Before(r, v)
  BY <1>2 DEF Before
<1>7. Orders(R, rows)
  BY <1>4, <1>5, <1>6 DEF Orders
<1> QED BY <1>1, <1>7 DEF R

\* Purging only ever takes rows out.
Purged(split, rows) == {f \in [rows -> Splits \cup {"out"}] : \A r \in rows : f[r] \in {split[r], "out"}}

LEMMA PurgeTakesOut ==
  ASSUME NEW rows, NEW split, NEW f \in Purged(split, rows), NEW group
  PROVE  PurgeAround(f, group) \in Purged(split, rows)
BY DEF PurgeAround, Purged

LEMMA PurgesTakeOut ==
  ASSUME NEW rows, NEW split, NEW base \in Purged(split, rows), NEW groups, IsFiniteSet(groups)
  PROVE  PurgeGroups(base, groups) \in Purged(split, rows)
<1> DEFINE n == Cardinality(groups)
           leads == {p \in groups \X groups : \E r \in p[1] : \A q \in p[2] : Before(r, q)}
           visited == InOrder(groups, leads)
           A == Purged(split, rows)
           step == [k \in 1..n |-> [f \in A |-> PurgeAround(f, visited[k])]]
           after == CHOOSE f : f = [k \in 0..n |-> IF k = 0 THEN base ELSE PurgeAround(f[k - 1], visited[k])]
<1>1. PurgeGroups(base, groups) = after[n]
  BY DEF PurgeGroups
<1>2. n \in Nat
  BY FS_CardinalityType
<1> HIDE DEF n, visited
<1>3. \A k \in 1..n : \A f \in A : PurgeAround(f, visited[k]) \in A
  BY PurgeTakesOut
<1> HIDE DEF A
<1>4. step \in [1..n -> [A -> A]]
  BY <1>3
<1>5. base \in A
  BY DEF A
<1>6. PICK f \in [0..n -> A] : StepsTo(f, n, base, step)
  <2> HIDE DEF step
  <2> QED BY <1>2, <1>4, <1>5, RecursionExists
<1>7. f = [k \in 0..n |-> IF k = 0 THEN base ELSE PurgeAround(f[k - 1], visited[k])]
  <2>1. \A k \in 1..n : step[k][f[k - 1]] = PurgeAround(f[k - 1], visited[k])
    BY <1>2
  <2> HIDE DEF step
  <2>2. \A k \in 0..n : k # 0 => k \in 1..n
    OBVIOUS
  <2> QED BY <1>6, <2>1, <2>2 DEF StepsTo
<1>8. after = [k \in 0..n |-> IF k = 0 THEN base ELSE PurgeAround(after[k - 1], visited[k])]
  BY <1>7
<1> HIDE DEF after
<1> DEFINE S == {k \in 0..n : after[k] \in A}
<1>9. 0 \in S
  BY <1>2, <1>5, <1>8
<1>10. ASSUME NEW k \in 1..n, k - 1 \in S PROVE k \in S
  BY <1>2, <1>3, <1>8, <1>10
<1> HIDE DEF S
<1>11. \A k \in 0..n : k \in S
  BY <1>2, <1>9, <1>10, InductionUpTo
<1>12. n \in S
  BY <1>2, <1>11
<1> QED BY <1>1, <1>12 DEF S, A

LEMMA SplitsByTime ==
  ASSUME NEW rows, IsFiniteSet(rows), NEW mode
  PROVE  /\ AssignSplits(rows, mode) \in [rows -> Splits \cup {"out"}]
         /\ \A r \in rows : AssignSplits(rows, mode)[r] \in {TimeSplit(r.t, mode), "out"}
<1> DEFINE bySplit == [r \in rows |-> TimeSplit(r.t, mode)]
           event == [r \in rows |-> r.event]
           storm == [r \in rows |-> r.storm]
           withEvent == [v \in {event[r] : r \in rows} |-> {r \in rows : r.event = v}]
           withStorm == [v \in {storm[r] : r \in rows} |-> {r \in rows : r.storm = v}]
           events == {{r \in rows : r.event = v} : v \in {r.event : r \in rows} \ {None}}
           storms == {{r \in rows : r.storm = v} : v \in {r.storm : r \in rows} \ {None}}
<1>1. IsFiniteSet(events)
  <2>1. IsFiniteSet({event[r] : r \in rows})
    BY FiniteImage
  <2>2. {r.event : r \in rows} = {event[r] : r \in rows}
    OBVIOUS
  <2>3. IsFiniteSet({r.event : r \in rows} \ {None})
    BY <2>1, <2>2, FS_RemoveElement
  <2>4. events = {withEvent[v] : v \in {r.event : r \in rows} \ {None}}
    BY <2>2
  <2> HIDE DEF events, withEvent, event
  <2> QED BY <2>3, <2>4, FiniteImage
<1>2. IsFiniteSet(storms)
  <2>1. IsFiniteSet({storm[r] : r \in rows})
    BY FiniteImage
  <2>2. {r.storm : r \in rows} = {storm[r] : r \in rows}
    OBVIOUS
  <2>3. IsFiniteSet({r.storm : r \in rows} \ {None})
    BY <2>1, <2>2, FS_RemoveElement
  <2>4. storms = {withStorm[v] : v \in {r.storm : r \in rows} \ {None}}
    BY <2>2
  <2> HIDE DEF storms, withStorm, storm
  <2> QED BY <2>3, <2>4, FiniteImage
<1>3. bySplit \in Purged(bySplit, rows)
  BY DEF Purged, TimeSplit, Splits
<1>4. AssignSplits(rows, mode) = IF Buffer = 0 THEN bySplit ELSE PurgeGroups(PurgeGroups(bySplit, events), storms)
  BY DEF AssignSplits
<1> HIDE DEF events, storms
<1>5. PurgeGroups(PurgeGroups(bySplit, events), storms) \in Purged(bySplit, rows)
  <2> HIDE DEF bySplit
  <2> QED BY <1>1, <1>2, <1>3, PurgesTakeOut
<1>6. AssignSplits(rows, mode) \in Purged(bySplit, rows)
  BY <1>3, <1>4, <1>5
<1> QED BY <1>6 DEF Purged

LEMMA SpacedAreNegatives ==
  ASSUME NEW events, NEW negatives \in SUBSET Rows(events)
  PROVE  Spaced(negatives) \subseteq negatives
<1> DEFINE n == Cardinality(negatives)
           R == {p \in negatives \X negatives : Before(p[1], p[2])}
           ordered == InOrder(negatives, R)
           close(q, r) == q.site = r.site /\ q.t \div Month = r.t \div Month /\ r.t - q.t < Spacing
           A == SUBSET negatives
           add(kept, k) == kept \cup {r \in {ordered[k]} : \A q \in kept : ~close(q, r)}
           step == [k \in 1..n |-> [kept \in A |-> add(kept, k)]]
           after == CHOOSE f : f = [k \in 0..n |-> IF k = 0 THEN {} ELSE add(f[k - 1], k)]
<1>1. Spaced(negatives) = after[n]
  BY DEF Spaced
<1>2. n \in Nat /\ \A k \in 1..n : ordered[k] \in negatives
  <2>1. IsFiniteSet(negatives) /\ Orders(R, negatives)
    BY RowsInOrder
  <2> HIDE DEF R
  <2>2. n \in Nat /\ ordered \in [1..n -> negatives]
    BY <2>1, InOrderLists
  <2> QED BY <2>2
<1> HIDE DEF n, ordered, close
<1>3. \A k \in 1..n : \A kept \in A : add(kept, k) \in A
  BY <1>2
<1> HIDE DEF add
<1>4. step \in [1..n -> [A -> A]]
  BY <1>3
<1>5. PICK f \in [0..n -> A] : StepsTo(f, n, {}, step)
  <2> HIDE DEF step
  <2> QED BY <1>2, <1>4, RecursionExists
<1> HIDE DEF A
<1>6. f = [k \in 0..n |-> IF k = 0 THEN {} ELSE add(f[k - 1], k)]
  <2>1. \A k \in 1..n : step[k][f[k - 1]] = add(f[k - 1], k)
    BY <1>2
  <2> HIDE DEF step
  <2>2. \A k \in 0..n : k # 0 => k \in 1..n
    OBVIOUS
  <2> QED BY <1>5, <2>1, <2>2 DEF StepsTo
<1>7. after = [k \in 0..n |-> IF k = 0 THEN {} ELSE add(after[k - 1], k)]
  BY <1>6
<1> HIDE DEF after
<1> DEFINE S == {k \in 0..n : after[k] \in A}
<1>8. 0 \in S
  BY <1>2, <1>7 DEF A
<1>9. ASSUME NEW k \in 1..n, k - 1 \in S PROVE k \in S
  <2>1. after[k - 1] \in A
    BY <1>9
  <2>2. k \in 0..n /\ k # 0
    BY <1>2
  <2>3. after[k] = add(after[k - 1], k)
    BY <1>7, <2>2, Zenon
  <2>4. add(after[k - 1], k) \in A
    BY <1>3, <2>1
  <2> QED BY <2>2, <2>3, <2>4
<1> HIDE DEF S
<1>10. \A k \in 0..n : k \in S
  BY <1>2, <1>8, <1>9, InductionUpTo
<1>11. n \in S
  BY <1>2, <1>10
<1> QED BY <1>1, <1>11 DEF S, A

\* Sampling selects among the training rows.
LEMMA SampledAreRows ==
  ASSUME NEW events, NEW rows \in SUBSET Rows(events)
  PROVE  SampleTraining(rows) \subseteq rows
<1> DEFINE positive == {r \in rows : r.hits # {}}
           negatives == {r \in rows \ positive : r.known # {}}
           spaced == Spaced(negatives)
           cap == IF positive = {} THEN Cardinality(spaced) ELSE Cardinality(positive) * Ratio
<1>1. SampleTraining(rows) = positive \cup {r \in spaced : Cardinality({q \in spaced : Before(q, r)}) < cap}
  BY DEF SampleTraining
<1>2. negatives \in SUBSET Rows(events) /\ negatives \subseteq rows
  OBVIOUS
<1>3. spaced \subseteq rows
  <2> HIDE DEF negatives
  <2> QED BY <1>2, SpacedAreNegatives
<1> HIDE DEF spaced, cap
<1> QED BY <1>1, <1>3

\* Every part of a dataset holds rows of the catalogue that the time split puts there.
LEMMA DatasetBySplit ==
  ASSUME NEW events, NEW mode, NEW a \in Splits, NEW r \in Dataset(events, mode)[a]
  PROVE  r \in Rows(events) /\ TimeSplit(r.t, mode) = a
<1> DEFINE rows == Rows(events)
           split == AssignSplits(rows, mode)
           part(name) == {q \in DOMAIN split : split[q] = name}
<1>1. IsFiniteSet(rows)
  BY RowsOfCells
<1>2. split \in [rows -> Splits \cup {"out"}] /\ \A q \in rows : split[q] \in {TimeSplit(q.t, mode), "out"}
  BY <1>1, SplitsByTime
<1>3. Dataset(events, mode) = [train |-> SampleTraining(part("train")),
                               validation |-> part("validation"), test |-> part("test")]
  BY DEF Dataset
<1> HIDE DEF split
<1>4. part("train") \subseteq rows
  BY <1>2
<1>5. SampleTraining(part("train")) \subseteq part("train")
  <2> HIDE DEF part
  <2> QED BY <1>4, SampledAreRows
<1>6. r \in part(a)
  BY <1>3, <1>5 DEF Splits
<1>7. a # "out"
  BY DEF Splits
<1> QED BY <1>2, <1>6, <1>7

-----------------------------------------------------------------------------
(* The invariant *)

DataInv ==
  /\ catalog \in Catalogs
  /\ Built => data = Dataset(catalog, strict) /\ Admitted(data)

FitInv ==
  /\ fits # {} => Built
  /\ \A f \in fits :
       /\ f.train \subseteq data.train /\ f.tune \subseteq data.validation
       /\ f.scaled = Scaled(f.train)
       /\ f.held = None \/ \A r \in f.train : r.site # f.held

LevelInv ==
  /\ levels # None => Built /\ DOMAIN levels = data.validation
  /\ balanced # None => levels # None

ImpactInv == DataInv /\ FitInv /\ LevelInv

LEMMA ImpactInit == Init => ImpactInv
BY DEF Init, ImpactInv, DataInv, FitInv, LevelInv, Built

LEMMA BuildKeeps == ASSUME ImpactInv, BuildDataset PROVE ImpactInv'
<1>1. ~Built /\ fits = {} /\ levels = None /\ balanced = None
  BY DEF ImpactInv, FitInv, LevelInv, BuildDataset, Built
<1>2. DataInv'
  BY DEF ImpactInv, DataInv, BuildDataset, Built
<1>3. FitInv' /\ LevelInv'
  BY <1>1 DEF BuildDataset, FitInv, LevelInv
<1> QED BY <1>2, <1>3 DEF ImpactInv

LEMMA TrainKeeps == ASSUME ImpactInv, Train PROVE ImpactInv'
<1>1. DataInv' /\ LevelInv'
  BY DEF ImpactInv, DataInv, LevelInv, Train, Built
<1>2. FitInv'
  BY DEF ImpactInv, FitInv, Train, Built, FitOf
<1> QED BY <1>1, <1>2 DEF ImpactInv

LEMMA CrossValidateKeeps == ASSUME ImpactInv, CrossValidate PROVE ImpactInv'
<1>1. DataInv' /\ LevelInv'
  BY DEF ImpactInv, DataInv, LevelInv, CrossValidate, Built
<1> DEFINE new == {FitOf(f.held, f.train, f.tune) : f \in Folds(data)}
<1>2. fits' = fits \cup new /\ UNCHANGED data /\ Built
  BY DEF CrossValidate, ImpactInv, FitInv
<1>3. \A f \in Folds(data) :
        /\ f.train \subseteq data.train /\ f.tune \subseteq data.validation
        /\ \A r \in f.train : r.site # f.held
  BY DEF Folds
<1>4. \A f \in new :
        /\ f.train \subseteq data.train /\ f.tune \subseteq data.validation
        /\ f.scaled = Scaled(f.train)
        /\ f.held = None \/ \A r \in f.train : r.site # f.held
  BY <1>3 DEF FitOf
<1> HIDE DEF new
<1>5. FitInv'
  BY <1>2, <1>4 DEF ImpactInv, FitInv, Built
<1> QED BY <1>1, <1>5 DEF ImpactInv

LEMMA PredictKeeps == ASSUME ImpactInv, Predict PROVE ImpactInv'
<1>1. DataInv' /\ FitInv'
  BY DEF ImpactInv, DataInv, FitInv, Predict, Built
<1>2. Built /\ UNCHANGED data /\ DOMAIN levels' = data.validation /\ UNCHANGED balanced /\ balanced = None
  BY DEF ImpactInv, FitInv, LevelInv, Predict
<1>3. LevelInv'
  BY <1>2 DEF LevelInv, Built
<1> QED BY <1>1, <1>3 DEF ImpactInv

LEMMA SelectKeeps == ASSUME ImpactInv, SelectThreshold PROVE ImpactInv'
BY DEF ImpactInv, DataInv, FitInv, LevelInv, SelectThreshold, Built

LEMMA ImpactStep == ImpactInv /\ [Next]_vars => ImpactInv'
<1> SUFFICES ASSUME ImpactInv, [Next]_vars PROVE ImpactInv'
  OBVIOUS
<1>1. CASE UNCHANGED vars
  BY <1>1 DEF vars, ImpactInv, DataInv, FitInv, LevelInv, Built
<1> QED BY <1>1, BuildKeeps, TrainKeeps, CrossValidateKeeps, PredictKeeps, SelectKeeps DEF Next

\* The inductive invariant of the pipeline: the dataset is the one of the catalogue, every
\* fit was made of training rows and judged on validation rows, and the predictions are of
\* the validation rows.
THEOREM ImpactInvariance == Spec => []ImpactInv
BY ImpactInit, ImpactStep, PTL DEF Spec

-----------------------------------------------------------------------------
(* Splits and fits *)

\* What a row's split says of its hours.
LEMMA HoursOfSplit ==
  ASSUME Built, ImpactInv, NEW a \in Splits, NEW r \in data[a]
  PROVE  /\ r.t \in Int /\ r.site \in Int /\ r.site # None
         /\ a = "train" => r.t + Horizon <= TrainEnd
         /\ a = "validation" => /\ TrainEnd < r.t /\ r.t + Horizon <= ValidationEnd
                                /\ strict => TrainEnd + History < r.t
         /\ a = "test" => /\ ValidationEnd < r.t /\ r.t + Horizon <= TestEnd
                          /\ strict => ValidationEnd + History < r.t
<1>1. r \in Rows(catalog) /\ TimeSplit(r.t, strict) = a
  BY DatasetBySplit DEF ImpactInv, DataInv
<1>2. r.t \in Int /\ r.site \in Int /\ r.site # None
  BY <1>1, RowsOfCells, ImpactAssumption
<1> DEFINE t == r.t
<1>3. t \in Int /\ TimeSplit(t, strict) = a
  BY <1>1, <1>2
<1> HIDE DEF t
<1>4. /\ a = "train" => t + Horizon <= TrainEnd
      /\ a = "validation" => TrainEnd < t /\ t + Horizon <= ValidationEnd
      /\ a = "test" => ValidationEnd < t /\ t + Horizon <= TestEnd
  BY <1>3, ImpactAssumption DEF TimeSplit, Splits
<1>5. ASSUME strict, a # "train"
      PROVE  \A end \in {TrainEnd, ValidationEnd} : ~(end < t /\ t <= end + History)
  BY <1>3, <1>5 DEF TimeSplit, Splits
<1>6. strict => /\ a = "validation" => TrainEnd + History < t
                /\ a = "test" => ValidationEnd + History < t
  BY <1>3, <1>4, <1>5, ImpactAssumption
<1> QED BY <1>2, <1>4, <1>6 DEF t

\* The target windows of two splits never share an hour, no event and no storm has rows on
\* two sides, and in strict mode no history window reaches a target of an earlier split:
\* for every catalogue, horizon, buffer and boundary (assign_global_time_split).
THEOREM SplitsDoNotLeak == Spec => []NoSplitLeak
<1>1. ImpactInv => NoSplitLeak
  <2> SUFFICES ASSUME ImpactInv, Built, NEW a \in Splits, NEW b \in Splits, a # b,
                      NEW r \in data[a], NEW q \in data[b]
               PROVE  /\ r.t + Horizon <= q.t \/ q.t + Horizon <= r.t
                      /\ r.event = None \/ r.event # q.event
                      /\ r.storm = None \/ r.storm # q.storm
                      /\ strict /\ r.t < q.t => \A h \in HistoryWindow(q) : h > r.t + Horizon
    BY DEF NoSplitLeak
  <2>1. (r.event = None \/ r.event # q.event) /\ (r.storm = None \/ r.storm # q.storm)
    BY DEF ImpactInv, DataInv, Admitted, GroupExclusive
  <2> DEFINE t == r.t
             u == q.t
  <2>2. /\ t \in Int /\ u \in Int
        /\ a = "train" => t + Horizon <= TrainEnd
        /\ b = "train" => u + Horizon <= TrainEnd
        /\ a = "validation" => TrainEnd < t /\ t + Horizon <= ValidationEnd
        /\ b = "validation" => TrainEnd < u /\ u + Horizon <= ValidationEnd
        /\ a = "test" => ValidationEnd < t
        /\ b = "test" => ValidationEnd < u
        /\ strict => /\ b = "validation" => TrainEnd + History < u
                     /\ b = "test" => ValidationEnd + History < u
    BY HoursOfSplit
  <2>3. HistoryWindow(q) = (u - History + 1)..u
    BY DEF HistoryWindow
  <2> HIDE DEF t, u
  <2>4. t + Horizon <= u \/ u + Horizon <= t
    BY <2>2, ImpactAssumption DEF Splits
  <2>5. ASSUME strict, t < u, NEW h \in (u - History + 1)..u PROVE h > t + Horizon
    BY <2>2, <2>5, ImpactAssumption DEF Splits
  <2> QED BY <2>1, <2>3, <2>4, <2>5 DEF t, u
<1> QED BY <1>1, ImpactInvariance, PTL

\* No fit sees what it is judged on: it uses no test row, its targets and everything its
\* scalers were fitted on lie before the first prediction it is tuned or tested on, and a
\* fold uses nothing of the site it holds out (_fit_preprocessors, run_loso).
THEOREM FitsStayBlind == Spec => []FitsAreBlind
<1>1. ImpactInv => FitsAreBlind
  <2> SUFFICES ASSUME ImpactInv, NEW f \in fits, NEW q \in f.tune \cup data.test
               PROVE  /\ \A r \in f.train : r.t + Horizon < q.t + 1 /\ r \notin data.test
                      /\ \A o \in f.scaled.observed : o[2] < q.t /\ o[1] # f.held
                      /\ \A i \in f.scaled.issued : i.issue < q.t /\ i.site # f.held
    BY DEF FitsAreBlind
  <2>1. Built /\ f.train \subseteq data.train /\ f.tune \subseteq data.validation
        /\ f.scaled = Scaled(f.train) /\ (f.held = None \/ \A r \in f.train : r.site # f.held)
    BY DEF ImpactInv, FitInv
  <2>2. q.t \in Int /\ TrainEnd < q.t
    <3>1. \A p \in data.validation : p.t \in Int /\ TrainEnd < p.t
      BY <2>1, HoursOfSplit DEF Splits
    <3>2. \A p \in data.test : p.t \in Int /\ ValidationEnd < p.t
      BY <2>1, HoursOfSplit DEF Splits
    <3> QED BY <2>1, <3>1, <3>2, ImpactAssumption
  <2>3. \A r \in f.train : r.t \in Int /\ r.site # None /\ r.t + Horizon <= TrainEnd
    BY <2>1, HoursOfSplit DEF Splits
  <2>4. \A p \in data.test : p.t \in Int /\ ValidationEnd < p.t
    BY <2>1, HoursOfSplit DEF Splits
  <2>5. ASSUME NEW r \in f.train PROVE r.t + Horizon < q.t + 1 /\ r \notin data.test /\ r.t < q.t
    BY <2>2, <2>3, <2>4, ImpactAssumption
  <2>6. ASSUME NEW o \in f.scaled.observed PROVE o[2] < q.t /\ o[1] # f.held
    <3>1. PICK s \in {r.site : r \in f.train}, h \in {x \in FirstHour..LastHour : \E r \in f.train : x <= r.t} :
            o = <<s, h>>
      BY <2>1, <2>6 DEF Scaled
    <3>2. s # f.held
      BY <2>1, <2>3, <3>1
    <3>3. PICK r \in f.train : h <= r.t
      BY <3>1
    <3>4. h \in Int /\ r.t \in Int /\ r.t < q.t
      BY <2>3, <2>5, <3>1, ImpactAssumption
    <3> QED BY <2>2, <3>1, <3>2, <3>3, <3>4
  <2>7. ASSUME NEW i \in f.scaled.issued PROVE i.issue < q.t /\ i.site # f.held
    <3>1. i \in Forecasts /\ i.site \in {r.site : r \in f.train} /\ \E r \in f.train : i.issue <= r.t
      BY <2>1, <2>7 DEF Scaled
    <3>2. i.site # f.held
      BY <2>1, <2>3, <3>1
    <3>3. PICK r \in f.train : i.issue <= r.t
      BY <3>1
    <3>4. i.issue \in Int /\ r.t \in Int /\ r.t < q.t
      BY <2>3, <2>5, <3>1, ImpactAssumption
    <3> QED BY <2>2, <3>2, <3>3, <3>4
  <2> QED BY <2>5, <2>6, <2>7
<1> QED BY <1>1, ImpactInvariance, PTL

-----------------------------------------------------------------------------
(* Labels *)

SoonerPairs(events, S) == {p \in S \X S : Sooner(events, p[1], p[2])}

\* Rows of a catalogue that have an onset are ordered by onset and position.
LEMMA OnsetsInOrder ==
  ASSUME NEW events, IsCatalog(events), NEW S \in SUBSET DOMAIN events,
         \A i \in S : events[i].onset # None
  PROVE  /\ IsFiniteSet(S) /\ Orders(SoonerPairs(events, S), S)
         /\ \A i \in S : i \in Int /\ events[i].onset \in Int
<1>1. IsFiniteSet(DOMAIN events)
  <2> DEFINE n == Len(events)
  <2>1. n \in Nat /\ DOMAIN events = 1..n
    BY DEF IsCatalog
  <2> HIDE DEF n
  <2>2. 1 \in Int /\ n \in Int
    BY <2>1
  <2>3. IsFiniteSet(1..n)
    BY <2>2, FS_Interval
  <2> QED BY <2>1, <2>3
<1>2. IsFiniteSet(S)
  BY <1>1, FS_Subset
<1>3. \A i \in S : i \in Int /\ events[i].onset \in Int
  BY DEF IsCatalog
<1>4. \A i, k \in S : <<i, k>> \in SoonerPairs(events, S) <=> Sooner(events, i, k)
  BY DEF SoonerPairs
<1>5. \A i, k \in S : ~Sooner(events, i, i) /\ (Sooner(events, i, k) \/ Sooner(events, k, i) \/ i = k)
  BY <1>3 DEF Sooner
<1>6. \A i, k, m \in S : Sooner(events, i, k) /\ Sooner(events, k, m) => Sooner(events, i, m)
  BY <1>3 DEF Sooner
<1> QED BY <1>2, <1>3, <1>4, <1>5, <1>6 DEF Orders

\* One of them comes first.
LEMMA FirstOnset ==
  ASSUME NEW events, IsCatalog(events), NEW S \in SUBSET DOMAIN events, S # {},
         \A i \in S : events[i].onset # None
  PROVE  \E i \in S : \A k \in S \ {i} : Sooner(events, i, k)
<1> DEFINE R == SoonerPairs(events, S)
           f == InOrder(S, R)
           n == Cardinality(S)
<1>1. IsFiniteSet(S) /\ Orders(R, S)
  BY OnsetsInOrder
<1>2. \A i, k \in S : <<i, k>> \in R => Sooner(events, i, k)
  BY DEF SoonerPairs
<1> HIDE DEF R
<1>3. /\ n \in Nat /\ f \in [1..n -> S]
      /\ \A k, m \in 1..n : k < m => <<f[k], f[m]>> \in R
      /\ \A x \in S : \E k \in 1..n : f[k] = x
  BY <1>1, InOrderLists
<1>4. n # 0
  BY <1>1, FS_EmptySet
<1> HIDE DEF f, n
<1>5. 1 \in 1..n /\ f[1] \in S
  BY <1>3, <1>4
<1>6. ASSUME NEW k \in S \ {f[1]} PROVE Sooner(events, f[1], k)
  <2>1. PICK m \in 1..n : f[m] = k
    BY <1>3
  <2>2. 1 < m
    BY <1>3, <1>6, <2>1
  <2> QED BY <1>2, <1>3, <1>5, <2>1, <2>2
<1> QED BY <1>5, <1>6

\* What a known hour without a hit rests on.
Covers(events, i, t, j) == j \in Slots(t, Uncertainty(events[i], t))

LEMMA LabelIsEvidence ==
  ASSUME NEW events, IsCatalog(events), NEW zone, NEW t \in Int,
         NEW j \in Label(t, zone, events).known \ Label(t, zone, events).hits
  PROVE  LET here == {i \in DOMAIN events : events[i].zone = zone}
             covered == \E i \in here : events[i].conf = "N" /\ Covers(events, i, t, j)
         IN /\ covered \/ \E k \in Label(t, zone, events).hits : j < k
            /\ \A i \in here : Doubtful(events[i]) => ~Covers(events, i, t, j)
            /\ \A i \in here : events[i].conf \in Positive /\ events[i].prec = "exact"
                               /\ events[i].onset = t + j + 1
                               => covered /\ Label(t, zone, events).hits = {}
<1> DEFINE here == {i \in DOMAIN events : events[i].zone = zone}
           covers(S) == UNION {Slots(t, Uncertainty(events[i], t)) : i \in S}
           negative == covers({i \in here : events[i].conf = "N"})
           doubtful == covers({i \in here : Doubtful(events[i])})
           active == {i \in here : Active(events[i], t)}
           onsets == {i \in here : Candidate(events[i], t)}
           first == IF active # {} THEN Min(active)
                    ELSE CHOOSE i \in onsets : \A k \in onsets \ {i} : Sooner(events, i, k)
           e == events[first]
           soft == SoftInterval(e)
           wide == e.prec = "interval" /\ soft[2] - soft[1] > MaxSoft
           bins == IF e.prec = "exact" THEN {e.onset - t - 1} ELSE Slots(t, soft)
           covered == \E i \in here : events[i].conf = "N" /\ Covers(events, i, t, j)
           l == Label(t, zone, events)
<1>1. l = IF active = {} /\ onsets = {} THEN Unlabelled(negative \ doubtful)
          ELSE [event |-> e.id, storm |-> e.storm,
                hits |-> IF active # {} \/ wide THEN {} ELSE bins,
                known |-> IF active # {} THEN {}
                          ELSE IF wide THEN (negative \ doubtful) \ bins
                          ELSE AtRisk(bins, doubtful)]
  BY DEF Label
<1>2. j \in negative => covered
  BY DEF Covers
<1>3. j \notin doubtful => \A i \in here : Doubtful(events[i]) => ~Covers(events, i, t, j)
  BY DEF Covers
<1>4. Leads \subseteq Int /\ \A span : Slots(t, span) \subseteq Leads
  BY ImpactAssumption DEF Leads, Slots
<1>5. negative \subseteq Leads
  BY <1>4
<1>6. ASSUME NEW i \in here, events[i].conf \in Positive, events[i].prec = "exact",
             j \in Leads, events[i].onset = t + j + 1
      PROVE  i \in onsets
  <2>1. t < t + j + 1 /\ t + j + 1 <= t + Horizon /\ t + j + 1 # None
    BY <1>6, ImpactAssumption DEF Leads
  <2> QED BY <1>6, <2>1 DEF Candidate
<1>7. \A i \in onsets : i \in DOMAIN events /\ events[i].onset \in Int /\ events[i].onset # None
                        /\ events[i].peak \in Int \cup {None}
  BY DEF Candidate, IsCatalog
<1>8. active = {} /\ onsets # {} =>
        first \in onsets /\ \A k \in onsets : e.onset <= events[k].onset
  <2> SUFFICES ASSUME active = {}, onsets # {}
               PROVE  first \in onsets /\ \A k \in onsets : e.onset <= events[k].onset
    OBVIOUS
  <2>1. onsets \subseteq DOMAIN events
    BY <1>7
  <2> DEFINE S == onsets
  <2>2. first = CHOOSE i \in S : \A k \in S \ {i} : Sooner(events, i, k)
    OBVIOUS
  <2>3. \E i \in S : \A k \in S \ {i} : Sooner(events, i, k)
    <3> HIDE DEF S
    <3>1. S \in SUBSET DOMAIN events /\ S # {} /\ \A i \in S : events[i].onset # None
      BY <1>7, <2>1 DEF S
    <3> QED BY <3>1, FirstOnset
  <2> HIDE DEF S, first
  <2>4. first \in S /\ \A k \in S \ {first} : Sooner(events, first, k)
    BY <2>2, <2>3
  <2>5. \A k \in S : events[k].onset \in Int
    BY <1>7 DEF S
  <2>6. \A k \in S : events[first].onset <= events[k].onset
    BY <2>4, <2>5 DEF Sooner
  <2> QED BY <2>4, <2>6 DEF S
<1>9. j \in l.known /\ j \notin l.hits
  OBVIOUS
<1> HIDE DEF l, here, negative, doubtful, active, onsets, covered, first
<1>10. CASE active = {} /\ onsets = {}
  <2>1. l.known = negative \ doubtful /\ l.hits = {}
    BY <1>1, <1>10 DEF Unlabelled
  <2>2. j \in negative /\ j \notin doubtful /\ j \in Leads
    BY <1>5, <1>9, <2>1
  <2>3. \A i \in here : ~(events[i].conf \in Positive /\ events[i].prec = "exact"
                          /\ events[i].onset = t + j + 1)
    BY <1>6, <1>10, <2>2
  <2> QED BY <1>2, <1>3, <2>2, <2>3 DEF covered, here, l
<1>11. CASE active # {}
  BY <1>1, <1>9, <1>11
<1>12. CASE active = {} /\ onsets # {} /\ wide
  <2>1. l.known = (negative \ doubtful) \ bins /\ l.hits = {}
    BY <1>1, <1>12
  <2>2. j \in negative /\ j \notin doubtful
    BY <1>9, <2>1
  <2> QED BY <1>2, <1>3, <2>1, <2>2 DEF covered, here, l
<1>13. CASE active = {} /\ onsets # {} /\ ~wide
  <2>1. l.known = AtRisk(bins, doubtful) /\ l.hits = bins
    BY <1>1, <1>13
  <2>2. first \in onsets /\ e.onset \in Int /\ e.peak \in Int \cup {None}
        /\ \A k \in onsets : e.onset <= events[k].onset
    BY <1>7, <1>8, <1>13
  <2> HIDE DEF bins
  <2>3. j \in Leads /\ j \notin doubtful /\ j \notin bins /\ \E k \in bins : j <= k
    BY <1>9, <2>1 DEF AtRisk
  <2>4. PICK k \in bins : j <= k
    BY <2>3
  <2>5. j \in Int /\ k \in Int /\ j < k
    <3>1. k \in Int
      BY <1>4, <2>2 DEF bins
    <3> QED BY <1>4, <2>3, <2>4, <3>1
  <2>6. ASSUME NEW i \in here, events[i].conf \in Positive, events[i].prec = "exact",
               events[i].onset = t + j + 1
        PROVE  FALSE
    <3>1. i \in onsets
      BY <1>6, <2>3, <2>6
    <3>2. e.onset <= t + j + 1
      BY <2>2, <2>6, <3>1
    <3>3. CASE e.prec = "exact"
      <4>1. k = e.onset - t - 1
        BY <3>3 DEF bins
      <4> QED BY <2>2, <2>5, <3>2, <4>1
    <3>4. CASE e.prec # "exact"
      <4> DEFINE from == e.onset
                 to == soft[2]
      <4>1. soft[1] = from /\ to \in Int /\ from \in Int
        BY <2>2 DEF SoftInterval
      <4>2. k \in Slots(t, soft) /\ j \notin Slots(t, soft)
        BY <2>3, <3>4 DEF bins
      <4> HIDE DEF from, to, soft
      <4>3. t + k + 1 >= from /\ t + k < to
        BY <4>1, <4>2 DEF Slots, SlotOverlaps, to
      <4>4. t + j + 1 >= from /\ t + j < to
        BY <2>5, <3>2, <4>1, <4>3 DEF from
      <4> QED BY <2>3, <4>1, <4>2, <4>4 DEF Slots, SlotOverlaps, to
    <3> QED BY <3>3, <3>4
  <2> QED BY <1>3, <2>1, <2>3, <2>4, <2>5, <2>6 DEF covered, here, l
<1> QED BY <1>10, <1>11, <1>12, <1>13

\* A known hour without an onset is covered by an N row or lies before the row's confirmed
\* onset, no doubtful evidence may fall in it, and it holds no exact confirmed onset that N
\* rows do not speak against: for every catalogue and horizon (build_hazard_label).
THEOREM NegativesStayEvidence == Spec => []NegativesAreEvidence
<1>1. ImpactInv => NegativesAreEvidence
  <2> SUFFICES ASSUME ImpactInv, Built, NEW split \in Splits, NEW r \in data[split],
                      NEW j \in r.known \ r.hits
               PROVE  LET here == {i \in DOMAIN catalog : catalog[i].zone = ZoneOf[r.site]}
                          within(i) == j \in Slots(r.t, Uncertainty(catalog[i], r.t))
                          covered == \E i \in here : catalog[i].conf = "N" /\ within(i)
                      IN /\ covered \/ \E k \in r.hits : j < k
                         /\ \A i \in here : Doubtful(catalog[i]) => ~within(i)
                         /\ \A i \in here : catalog[i].conf \in Positive /\ catalog[i].prec = "exact"
                              /\ catalog[i].onset = r.t + j + 1 => covered /\ r.hits = {}
    BY DEF NegativesAreEvidence
  <2>1. r \in Rows(catalog)
    BY DatasetBySplit DEF ImpactInv, DataInv
  <2>2. r.t \in Int /\ r = RowAt(catalog, r.site, r.t)
    BY <2>1, RowsOfCells
  <2> DEFINE t == r.t
             zone == ZoneOf[r.site]
  <2>3. r.known = Label(t, zone, catalog).known /\ r.hits = Label(t, zone, catalog).hits
    BY <2>2 DEF RowAt
  <2>4. IsCatalog(catalog)
    BY CatalogsAssumption DEF ImpactInv, DataInv
  <2>5. t \in Int /\ j \in Label(t, zone, catalog).known \ Label(t, zone, catalog).hits
    BY <2>2, <2>3
  <2> HIDE DEF t, zone
  <2>6. LET here == {i \in DOMAIN catalog : catalog[i].zone = zone}
            covered == \E i \in here : catalog[i].conf = "N" /\ Covers(catalog, i, t, j)
        IN /\ covered \/ \E k \in Label(t, zone, catalog).hits : j < k
           /\ \A i \in here : Doubtful(catalog[i]) => ~Covers(catalog, i, t, j)
           /\ \A i \in here : catalog[i].conf \in Positive /\ catalog[i].prec = "exact"
                              /\ catalog[i].onset = t + j + 1
                              => covered /\ Label(t, zone, catalog).hits = {}
    BY <2>4, <2>5, LabelIsEvidence
  <2> QED BY <2>3, <2>6 DEF Covers, t, zone
<1> QED BY <1>1, ImpactInvariance, PTL

-----------------------------------------------------------------------------
(* Integers and sums *)

Increasing(S) == {p \in S \X S : p[1] < p[2]}

LEMMA IntegersInOrder == ASSUME NEW S \in SUBSET Int PROVE Orders(Increasing(S), S)
<1>1. \A i, k \in S : <<i, k>> \in Increasing(S) <=> i < k
  BY DEF Increasing
<1>2. \A i \in S : i \in Int
  OBVIOUS
<1> QED BY <1>1, <1>2 DEF Orders

LEMMA Extremes ==
  ASSUME NEW S \in SUBSET Int, IsFiniteSet(S), S # {}
  PROVE  /\ Min(S) \in S /\ Max(S) \in S
         /\ \A x \in S : Min(S) <= x /\ x <= Max(S)
<1> DEFINE R == Increasing(S)
           n == Cardinality(S)
           f == InOrder(S, R)
<1>1. \A i, k \in S : <<i, k>> \in R => i < k
  BY DEF Increasing
<1>2. Orders(R, S)
  BY IntegersInOrder
<1> HIDE DEF R
<1>3. /\ n \in Nat /\ f \in [1..n -> S]
      /\ \A k, m \in 1..n : k < m => <<f[k], f[m]>> \in R
      /\ \A x \in S : \E k \in 1..n : f[k] = x
  BY <1>2, InOrderLists
<1>4. n # 0
  BY FS_EmptySet
<1> HIDE DEF f, n
<1>5. 1 \in 1..n /\ n \in 1..n /\ f[1] \in S /\ f[n] \in S
  BY <1>3, <1>4
<1>6. ASSUME NEW x \in S PROVE f[1] <= x /\ x <= f[n]
  <2>1. PICK k \in 1..n : f[k] = x
    BY <1>3
  <2>2. f[1] \in Int /\ f[n] \in Int /\ x \in Int
    BY <1>5
  <2>3. 1 < k => f[1] < x
    BY <1>1, <1>3, <1>5, <2>1
  <2>4. k < n => x < f[n]
    BY <1>1, <1>3, <1>5, <2>1
  <2>5. k = 1 \/ 1 < k
    BY <1>3
  <2>6. k = n \/ k < n
    BY <1>3
  <2> QED BY <2>1, <2>2, <2>3, <2>4, <2>5, <2>6
<1>7. Min(S) \in S /\ \A x \in S : Min(S) <= x
  BY <1>5, <1>6 DEF Min
<1>8. Max(S) \in S /\ \A x \in S : Max(S) >= x
  <2>1. \A x \in S : f[n] >= x
    BY <1>5, <1>6
  <2> QED BY <1>5, <2>1 DEF Max
<1>9. Max(S) \in Int /\ \A x \in S : x \in Int
  BY <1>8
<1> QED BY <1>7, <1>8, <1>9

\* Finite sets of which no two share an element, and the sums of their sizes.
AreParts(part, n) ==
  /\ \A k \in 1..n : IsFiniteSet(part[k])
  /\ \A k, m \in 1..n : k # m => part[k] \cap part[m] = {}

AreSums(sum, part, n) ==
  sum[0] = 0 /\ \A k \in 1..n : sum[k] = sum[k - 1] + Cardinality(part[k])

LEMMA PartsAddUp ==
  ASSUME NEW n \in Nat, NEW part, AreParts(part, n), NEW sum, AreSums(sum, part, n)
  PROVE  Cardinality(UNION {part[k] : k \in 1..n}) = sum[n]
<1> DEFINE upTo(m) == UNION {part[k] : k \in 1..m}
           S == {m \in 0..n : IsFiniteSet(upTo(m)) /\ Cardinality(upTo(m)) = sum[m]}
<1>1. 0 \in S
  <2>1. upTo(0) = {}
    OBVIOUS
  <2> HIDE DEF upTo
  <2> QED BY <2>1, FS_EmptySet DEF AreSums
<1>2. ASSUME NEW m \in 1..n, m - 1 \in S PROVE m \in S
  <2>1. upTo(m) = upTo(m - 1) \cup part[m]
    <3>1. 1..m = 1..m - 1 \cup {m}
      OBVIOUS
    <3> QED BY <3>1
  <2>2. upTo(m - 1) \cap part[m] = {}
    <3>1. \A k \in 1..m - 1 : k \in 1..n /\ k # m
      OBVIOUS
    <3> QED BY <3>1 DEF AreParts
  <2>3. IsFiniteSet(upTo(m - 1)) /\ Cardinality(upTo(m - 1)) = sum[m - 1]
    BY <1>2
  <2> HIDE DEF upTo
  <2>4. IsFiniteSet(part[m]) /\ Cardinality(upTo(m - 1)) \in Nat /\ Cardinality(part[m]) \in Nat
    BY <2>3, FS_CardinalityType DEF AreParts
  <2>5. IsFiniteSet(upTo(m)) /\ Cardinality(upTo(m)) = sum[m - 1] + Cardinality(part[m]) - Cardinality({})
    <3>1. IsFiniteSet(upTo(m - 1) \cup part[m])
          /\ Cardinality(upTo(m - 1) \cup part[m])
               = Cardinality(upTo(m - 1)) + Cardinality(part[m]) - Cardinality(upTo(m - 1) \cap part[m])
      BY <2>3, <2>4, FS_Union
    <3> QED BY <2>1, <2>2, <2>3, <3>1
  <2>6. Cardinality({}) = 0
    BY FS_EmptySet
  <2>7. Cardinality(upTo(m)) = sum[m]
    BY <2>3, <2>4, <2>5, <2>6 DEF AreSums
  <2> QED BY <2>5, <2>7
<1> HIDE DEF S
<1>3. \A m \in 0..n : m \in S
  BY <1>1, <1>2, InductionUpTo
<1>4. n \in S
  BY <1>3
<1> QED BY <1>4 DEF S

\* Numbers that are given one after the other.
LEMMA SumExists ==
  ASSUME NEW n \in Nat, NEW term, \A k \in 1..n : term[k] \in Int,
         NEW sum, sum = CHOOSE f : f = [k \in 0..n |-> IF k = 0 THEN 0 ELSE f[k - 1] + term[k]]
  PROVE  sum[0] = 0 /\ \A k \in 1..n : sum[k] = sum[k - 1] + term[k]
<1> DEFINE step == [k \in 1..n |-> [v \in Int |-> v + term[k]]]
<1>1. step \in [1..n -> [Int -> Int]]
  OBVIOUS
<1>2. PICK f \in [0..n -> Int] : StepsTo(f, n, 0, step)
  <2>1. 0 \in Int
    OBVIOUS
  <2> HIDE DEF step
  <2> QED BY <1>1, <2>1, RecursionExists, Zenon
<1>3. f = [k \in 0..n |-> IF k = 0 THEN 0 ELSE f[k - 1] + term[k]]
  <2>1. \A k \in 1..n : step[k][f[k - 1]] = f[k - 1] + term[k]
    OBVIOUS
  <2> HIDE DEF step
  <2>2. \A k \in 0..n : k # 0 => k \in 1..n
    OBVIOUS
  <2> QED BY <1>2, <2>1, <2>2 DEF StepsTo
<1>4. sum = [k \in 0..n |-> IF k = 0 THEN 0 ELSE sum[k - 1] + term[k]]
  BY <1>3
<1>5. 0 \in 0..n /\ \A k \in 1..n : k \in 0..n /\ k # 0
  OBVIOUS
<1> QED BY <1>4, <1>5

-----------------------------------------------------------------------------
(* Episodes *)

\* Episodes begin and end at hours of H, more than gap apart.
AreEpisodes(e, H, gap) ==
  /\ e \in Seq(Int \X Int)
  /\ \A i \in 1..Len(e) : e[i][1] \in H /\ e[i][2] \in H /\ e[i][1] <= e[i][2]
  /\ \A i \in 1..Len(e) - 1 : e[i + 1][1] - e[i][2] > gap

InEpisode(e, a, b) == \E i \in 1..Len(e) : e[i][1] <= a /\ b <= e[i][2]

\* A next episode that begins after the last one ends.
IsNext(next, e, H, low) ==
  /\ next \in Int \X Int /\ next[1] \in H /\ next[2] \in H /\ next[1] <= next[2]
  /\ e # <<>> => next[1] - e[Len(e)][2] > low

\* d is e with the next episode in it.
Takes(d, e, next) ==
  /\ d # <<>> /\ d[Len(d)][2] = next[2]
  /\ InEpisode(d, next[1], next[2])
  /\ \A a, b \in Int : InEpisode(e, a, b) => InEpisode(d, a, b)

LEMMA JoinsOrFollows ==
  ASSUME NEW H \in SUBSET Int, NEW gap \in Nat, NEW low \in Nat, NEW e, NEW next,
         AreEpisodes(e, H, gap) /\ AreEpisodes(e, H, low) /\ IsNext(next, e, H, low)
  PROVE  LET d == Join(gap, e, next)
         IN AreEpisodes(d, H, gap) /\ AreEpisodes(d, H, low) /\ Takes(d, e, next)
<1> DEFINE n == Len(e)
           d == Join(gap, e, next)
<1>0. /\ AreEpisodes(e, H, gap) /\ AreEpisodes(e, H, low)
      /\ next \in Int \X Int /\ next[1] \in H /\ next[2] \in H /\ next[1] <= next[2]
      /\ e # <<>> => next[1] - e[n][2] > low
  BY DEF IsNext
<1> SUFFICES /\ AreEpisodes(d, H, gap) /\ AreEpisodes(d, H, low)
             /\ d # <<>> /\ d[Len(d)][2] = next[2]
             /\ InEpisode(d, next[1], next[2])
             /\ \A a, b \in Int : InEpisode(e, a, b) => InEpisode(d, a, b)
  BY DEF Takes
<1>1. e \in Seq(Int \X Int) /\ n \in Nat
  BY <1>0 DEF AreEpisodes
<1>2. \A i \in 1..n : /\ e[i] = <<e[i][1], e[i][2]>> /\ e[i][1] \in Int /\ e[i][2] \in Int
                      /\ e[i][1] \in H /\ e[i][2] \in H /\ e[i][1] <= e[i][2]
  <2> TAKE i \in 1..n
  <2>1. e[i] \in Int \X Int
    BY <1>1
  <2> QED BY <1>0, <2>1 DEF AreEpisodes
<1>3. \A i \in 1..n - 1 : e[i + 1][1] - e[i][2] > gap /\ e[i + 1][1] - e[i][2] > low
  BY <1>0 DEF AreEpisodes
<1>4. next = <<next[1], next[2]>> /\ next[1] \in Int /\ next[2] \in Int /\ next[1] \in H /\ next[2] \in H
      /\ next[1] <= next[2]
  BY <1>0
<1>5. CASE e # <<>> /\ next[1] - e[n][2] <= gap
  <2> DEFINE last == <<e[n][1], next[2]>>
  <2>1. d = [e EXCEPT ![n] = last]
    BY <1>5 DEF Join
  <2>2. n \in 1..n
    BY <1>1, <1>5
  <2>3. last \in Int \X Int
    BY <1>2, <1>4, <2>2
  <2>4. d \in Seq(Int \X Int) /\ Len(d) = n /\ d[n] = last /\ \A i \in 1..n - 1 : d[i] = e[i]
    <3> DEFINE T == Int \X Int
    <3>1. e \in [1..n -> T] /\ last \in T
      BY <1>1, <2>3
    <3> HIDE DEF last, n, T
    <3>2. d \in [1..n -> T] /\ d[n] = last
      BY <2>1, <2>2, <3>1
    <3>3. \A i \in 1..n - 1 : i \in 1..n /\ i # n
      BY <1>1
    <3>4. \A i \in 1..n - 1 : d[i] = e[i]
      BY <2>1, <3>1, <3>3
    <3>5. d \in Seq(T)
      BY <1>1, <3>2
    <3>6. Len(d) = n
      <4>1. DOMAIN d = 1..n
        BY <3>2
      <4>2. Len(d) \in Nat /\ DOMAIN d = 1..Len(d)
        BY <3>5
      <4> QED BY <1>1, <4>1, <4>2
    <3> QED BY <3>2, <3>4, <3>5, <3>6 DEF T
  <2>5. d[n][1] = e[n][1] /\ d[n][2] = next[2]
    BY <2>4
  <2>6. e[n][2] < next[1] /\ e[n][2] < next[2] /\ e[n][1] <= next[1]
    BY <1>0, <1>2, <1>4, <1>5, <2>2
  <2> HIDE DEF last, n, d
  <2>7. \A i \in 1..n : /\ d[i][1] = e[i][1] /\ d[i][2] = IF i = n THEN next[2] ELSE e[i][2]
    <3> TAKE i \in 1..n
    <3>1. i = n \/ (i \in 1..n - 1 /\ i # n)
      BY <1>1
    <3> QED BY <2>4, <2>5, <3>1
  <2>8. \A i \in 1..n : d[i][1] \in H /\ d[i][2] \in H /\ d[i][1] <= d[i][2] /\ e[i][2] <= d[i][2]
    <3> TAKE i \in 1..n
    <3>1. CASE i = n
      BY <1>2, <1>4, <2>2, <2>6, <2>7, <3>1
    <3>2. CASE i # n
      BY <1>2, <2>7, <3>2
    <3> QED BY <3>1, <3>2
  <2>9. \A i \in 1..n - 1 : d[i + 1][1] - d[i][2] > gap /\ d[i + 1][1] - d[i][2] > low
    <3> TAKE i \in 1..n - 1
    <3>1. i \in 1..n /\ i # n /\ i + 1 \in 1..n
      BY <1>1
    <3>2. d[i + 1][1] = e[i + 1][1] /\ d[i][2] = e[i][2]
      BY <2>7, <3>1
    <3> QED BY <1>3, <3>2
  <2>10. AreEpisodes(d, H, gap) /\ AreEpisodes(d, H, low)
    BY <2>4, <2>8, <2>9 DEF AreEpisodes
  <2>11. InEpisode(d, next[1], next[2])
    <3>1. d[n][1] <= next[1] /\ next[2] <= d[n][2]
      BY <1>4, <2>5, <2>6
    <3> QED BY <2>2, <2>4, <3>1 DEF InEpisode
  <2>12. ASSUME NEW a \in Int, NEW b \in Int, InEpisode(e, a, b) PROVE InEpisode(d, a, b)
    <3>1. PICK i \in 1..n : e[i][1] <= a /\ b <= e[i][2]
      BY <2>12 DEF InEpisode, n
    <3>2. d[i][2] \in Int
      BY <2>8
    <3>3. d[i][1] <= a /\ b <= d[i][2]
      BY <1>2, <2>7, <2>8, <3>1, <3>2
    <3> QED BY <2>4, <3>3 DEF InEpisode
  <2>13. d # <<>> /\ d[Len(d)][2] = next[2]
    BY <1>1, <2>2, <2>4, <2>5
  <2> QED BY <2>10, <2>11, <2>12, <2>13
<1>6. CASE ~(e # <<>> /\ next[1] - e[n][2] <= gap)
  <2>1. d = Append(e, next)
    BY <1>6 DEF Join
  <2> HIDE DEF d
  <2>2. d \in Seq(Int \X Int) /\ Len(d) = n + 1 /\ d[n + 1] = next /\ \A i \in 1..n : d[i] = e[i]
    <3> DEFINE T == Int \X Int
    <3>1. e \in Seq(T) /\ next \in T
      BY <1>0, <1>1
    <3> HIDE DEF T
    <3>2. d \in Seq(T) /\ Len(d) = n + 1 /\ d[n + 1] = next /\ \A i \in 1..n : d[i] = e[i]
      BY <2>1, <3>1
    <3> QED BY <3>2 DEF T
  <2>3. n # 0 => next[1] - e[n][2] > gap /\ next[1] - e[n][2] > low
    <3> SUFFICES ASSUME n # 0 PROVE next[1] - e[n][2] > gap /\ next[1] - e[n][2] > low
      OBVIOUS
    <3>1. e # <<>> /\ n \in 1..n
      BY <1>1
    <3>2. ~(next[1] - e[n][2] <= gap) /\ e[n][2] \in Int
      BY <1>2, <1>6, <3>1
    <3> QED BY <1>0, <1>4, <3>1, <3>2
  <2> HIDE DEF n, d
  <2>4. \A i \in 1..n + 1 : d[i][1] \in H /\ d[i][2] \in H /\ d[i][1] <= d[i][2]
    <3> TAKE i \in 1..n + 1
    <3>1. i \in 1..n \/ i = n + 1
      BY <1>1
    <3> QED BY <1>2, <1>4, <2>2, <3>1
  <2>5. \A i \in 1..n : d[i + 1][1] - d[i][2] > gap /\ d[i + 1][1] - d[i][2] > low
    <3> TAKE i \in 1..n
    <3>1. CASE i \in 1..n - 1
      <4>1. i + 1 \in 1..n
        BY <1>1, <3>1
      <4> QED BY <1>3, <2>2, <3>1, <4>1
    <3>2. CASE i = n
      <4>1. n # 0 /\ n \in 1..n
        BY <1>1, <3>2
      <4>2. d[i + 1] = next /\ d[i] = e[n]
        BY <2>2, <3>2, <4>1
      <4> QED BY <2>3, <4>1, <4>2
    <3>3. i \in 1..n - 1 \/ i = n
      BY <1>1
    <3> QED BY <3>1, <3>2, <3>3
  <2>6. AreEpisodes(d, H, gap) /\ AreEpisodes(d, H, low)
    <3>1. (n + 1) - 1 = n
      BY <1>1
    <3> QED BY <2>2, <2>4, <2>5, <3>1 DEF AreEpisodes
  <2>7. InEpisode(d, next[1], next[2])
    <3>1. n + 1 \in 1..Len(d) /\ d[n + 1][1] <= next[1] /\ next[2] <= d[n + 1][2]
      BY <1>1, <1>4, <2>2
    <3> QED BY <3>1 DEF InEpisode
  <2>8. ASSUME NEW a \in Int, NEW b \in Int, InEpisode(e, a, b) PROVE InEpisode(d, a, b)
    <3>1. PICK i \in 1..n : e[i][1] <= a /\ b <= e[i][2]
      BY <2>8 DEF InEpisode, n
    <3>2. i \in 1..Len(d) /\ d[i] = e[i]
      BY <1>1, <2>2
    <3> QED BY <3>1, <3>2 DEF InEpisode
  <2>9. d # <<>> /\ d[Len(d)][2] = next[2]
    BY <1>1, <1>4, <2>2
  <2> QED BY <2>6, <2>7, <2>8, <2>9
<1> QED BY <1>5, <1>6

\* Joining leaves episodes that are further apart, and no hour out.
LEMMA JoiningKeepsApart ==
  ASSUME NEW H \in SUBSET Int, NEW gap \in Nat, NEW low \in Nat, NEW e, AreEpisodes(e, H, low)
  PROVE  /\ AreEpisodes(Joined(gap, e), H, gap) /\ AreEpisodes(Joined(gap, e), H, low)
         /\ \A a, b \in Int : InEpisode(e, a, b) => InEpisode(Joined(gap, e), a, b)
<1> DEFINE n == Len(e)
           A == Seq(Int \X Int)
           step == [k \in 1..n |-> [s \in A |-> Join(gap, s, e[k])]]
           done == CHOOSE f : f = [k \in 0..n |-> IF k = 0 THEN <<>> ELSE Join(gap, f[k - 1], e[k])]
<1>1. Joined(gap, e) = done[n]
  BY DEF Joined
<1>2. e \in A /\ n \in Nat
  BY DEF AreEpisodes
<1> HIDE DEF n
<1>3. \A k \in 1..n : e[k] \in Int \X Int
  BY <1>2 DEF n
<1>4. ASSUME NEW k \in 1..n, NEW s \in A PROVE Join(gap, s, e[k]) \in A
  <2> DEFINE next == e[k]
             last == <<s[Len(s)][1], next[2]>>
  <2>1. next \in Int \X Int
    BY <1>3
  <2> HIDE DEF next
  <2>2. Append(s, next) \in A
    BY <2>1
  <2>3. s # <<>> => [s EXCEPT ![Len(s)] = last] \in A
    <3> SUFFICES ASSUME s # <<>> PROVE [s EXCEPT ![Len(s)] = last] \in A
      OBVIOUS
    <3>1. Len(s) \in 1..Len(s) /\ s \in [1..Len(s) -> Int \X Int]
      OBVIOUS
    <3>2. last \in Int \X Int
      BY <2>1, <3>1
    <3> HIDE DEF last
    <3>3. [s EXCEPT ![Len(s)] = last] \in [1..Len(s) -> Int \X Int]
      BY <3>1, <3>2
    <3> QED BY <3>3
  <2>4. Join(gap, s, next) \in A
    BY <2>2, <2>3 DEF Join
  <2> QED BY <2>4 DEF next
<1>5. step \in [1..n -> [A -> A]] /\ <<>> \in A
  BY <1>4
<1>6. PICK f \in [0..n -> A] : StepsTo(f, n, <<>>, step)
  <2> HIDE DEF step, A
  <2> QED BY <1>2, <1>5, RecursionExists
<1>7. f = [k \in 0..n |-> IF k = 0 THEN <<>> ELSE Join(gap, f[k - 1], e[k])]
  <2>1. \A k \in 1..n : step[k][f[k - 1]] = Join(gap, f[k - 1], e[k])
    BY <1>2
  <2> HIDE DEF step
  <2>2. \A k \in 0..n : k # 0 => k \in 1..n
    OBVIOUS
  <2> QED BY <1>6, <2>1, <2>2 DEF StepsTo
<1>8. done = [k \in 0..n |-> IF k = 0 THEN <<>> ELSE Join(gap, done[k - 1], e[k])]
  BY <1>7
<1> HIDE DEF done
<1> DEFINE good(k) == /\ AreEpisodes(done[k], H, gap) /\ AreEpisodes(done[k], H, low)
                      /\ done[k] # <<>> => k \in 1..n /\ done[k][Len(done[k])][2] = e[k][2]
                      /\ \A m \in 1..k : InEpisode(done[k], e[m][1], e[m][2])
           S == {k \in 0..n : good(k)}
<1>9. 0 \in S
  <2>1. done[0] = <<>>
    BY <1>2, <1>8
  <2>2. AreEpisodes(<<>>, H, gap) /\ AreEpisodes(<<>>, H, low)
    BY DEF AreEpisodes
  <2> QED BY <1>2, <2>1, <2>2
<1>10. ASSUME NEW k \in 1..n, k - 1 \in S PROVE k \in S
  <2>1. done[k] = Join(gap, done[k - 1], e[k])
    BY <1>2, <1>8
  <2>2. good(k - 1)
    BY <1>10
  <2> DEFINE s == done[k - 1]
             next == e[k]
             d == done[k]
  <2>3. next \in Int \X Int /\ next[1] \in H /\ next[2] \in H /\ next[1] <= next[2]
    BY <1>3 DEF AreEpisodes, n
  <2>4. s # <<>> => next[1] - s[Len(s)][2] > low
    <3> SUFFICES ASSUME s # <<>> PROVE next[1] - s[Len(s)][2] > low
      OBVIOUS
    <3>1. k - 1 \in 1..n - 1 /\ s[Len(s)][2] = e[k - 1][2]
      BY <1>2, <2>2
    <3>2. e[(k - 1) + 1][1] - e[k - 1][2] > low
      BY <3>1 DEF AreEpisodes, n
    <3>3. (k - 1) + 1 = k
      OBVIOUS
    <3> QED BY <3>1, <3>2, <3>3
  <2>5. AreEpisodes(s, H, gap) /\ AreEpisodes(s, H, low) /\ \A m \in 1..k - 1 : InEpisode(s, e[m][1], e[m][2])
    BY <2>2
  <2>6. d = Join(gap, s, next)
    BY <2>1
  <2> HIDE DEF s, d, next
  <2>7. /\ AreEpisodes(d, H, gap) /\ AreEpisodes(d, H, low)
        /\ d # <<>> /\ d[Len(d)][2] = next[2]
        /\ InEpisode(d, next[1], next[2])
        /\ \A a, b \in Int : InEpisode(s, a, b) => InEpisode(d, a, b)
    <3>1. IsNext(next, s, H, low)
      BY <2>3, <2>4 DEF IsNext
    <3>2. AreEpisodes(d, H, gap) /\ AreEpisodes(d, H, low) /\ Takes(d, s, next)
      BY <2>5, <2>6, <3>1, JoinsOrFollows
    <3> QED BY <3>2 DEF Takes
  <2>8. ASSUME NEW m \in 1..k PROVE InEpisode(d, e[m][1], e[m][2])
    <3>1. CASE m = k
      BY <2>7, <3>1 DEF next
    <3>2. CASE m \in 1..k - 1
      <4>1. e[m] \in Int \X Int
        BY <1>2, <1>3
      <4>2. e[m][1] \in Int /\ e[m][2] \in Int
        BY <4>1
      <4> QED BY <2>5, <2>7, <3>2, <4>2
    <3>3. m = k \/ m \in 1..k - 1
      OBVIOUS
    <3> QED BY <3>1, <3>2, <3>3
  <2>9. good(k)
    BY <2>7, <2>8 DEF d, next
  <2> HIDE DEF good
  <2> QED BY <1>2, <2>9
<1> HIDE DEF S
<1>11. \A k \in 0..n : k \in S
  BY <1>2, <1>9, <1>10, InductionUpTo
<1>12. n \in S
  BY <1>2, <1>11
<1>13. good(n)
  BY <1>12 DEF S
<1>14. ASSUME NEW a \in Int, NEW b \in Int, InEpisode(e, a, b) PROVE InEpisode(done[n], a, b)
  <2>1. PICK m \in 1..n : e[m][1] <= a /\ b <= e[m][2]
    BY <1>14 DEF InEpisode, n
  <2>2. InEpisode(done[n], e[m][1], e[m][2]) /\ done[n] \in Seq(Int \X Int)
    BY <1>13 DEF AreEpisodes
  <2> DEFINE d == done[n]
  <2>3. PICK i \in 1..Len(d) : d[i][1] <= e[m][1] /\ e[m][2] <= d[i][2]
    BY <2>2 DEF InEpisode
  <2>4. e[m] \in Int \X Int /\ d[i] \in Int \X Int
    BY <1>3, <2>2
  <2> HIDE DEF d
  <2>5. d[i][1] <= a /\ b <= d[i][2]
    BY <2>1, <2>3, <2>4
  <2>6. InEpisode(d, a, b)
    BY <2>5 DEF InEpisode
  <2> QED BY <2>6 DEF d
<1> QED BY <1>1, <1>13, <1>14

LEMMA EpisodesOfHours ==
  ASSUME NEW H \in SUBSET Int, IsFiniteSet(H)
  PROVE  /\ AreEpisodes(Episodes(H), H, Cooldown) /\ AreEpisodes(Episodes(H), H, MergeGap + 1)
         /\ \A h \in H : InEpisode(Episodes(H), h, h)
<1> DEFINE n == Cardinality(H)
           ordered == InOrder(H, Increasing(H))
           single == [k \in 1..n |-> <<ordered[k], ordered[k]>>]
           merged == Joined(MergeGap + 1, single)
<1>1. Episodes(H) = Joined(Cooldown, merged)
  BY DEF Episodes, Increasing
<1>2. /\ n \in Nat /\ ordered \in [1..n -> H]
      /\ \A k, m \in 1..n : k < m => <<ordered[k], ordered[m]>> \in Increasing(H)
      /\ \A h \in H : \E k \in 1..n : ordered[k] = h
  BY IntegersInOrder, InOrderLists
<1> HIDE DEF n, ordered
<1>3. \A k \in 1..n : ordered[k] \in H /\ ordered[k] \in Int
  BY <1>2
<1>4. \A k \in 1..n : single[k] = <<ordered[k], ordered[k]>>
  OBVIOUS
<1>5. single \in Seq(Int \X Int) /\ Len(single) = n
  <2>1. single \in [1..n -> Int \X Int]
    BY <1>3
  <2> HIDE DEF single
  <2> QED BY <1>2, <2>1
<1> HIDE DEF single
<1>6. \A i \in 1..n - 1 : single[i + 1][1] - single[i][2] > 0
  <2> TAKE i \in 1..n - 1
  <2>1. i \in 1..n /\ i + 1 \in 1..n /\ i < i + 1
    BY <1>2
  <2>2. ordered[i] < ordered[i + 1]
    BY <1>2, <2>1 DEF Increasing
  <2> QED BY <1>3, <1>4, <2>1, <2>2
<1>7. AreEpisodes(single, H, 0)
  <2>1. \A k \in 1..n : single[k][1] = ordered[k] /\ single[k][2] = ordered[k]
    BY <1>4
  <2>2. \A k \in 1..n : single[k][1] \in H /\ single[k][2] \in H /\ single[k][1] <= single[k][2]
    BY <1>3, <2>1
  <2> QED BY <1>5, <1>6, <2>2 DEF AreEpisodes
<1>8. MergeGap + 1 \in Nat /\ Cooldown \in Nat /\ 0 \in Nat
  BY ImpactAssumption
<1>9. /\ AreEpisodes(merged, H, MergeGap + 1)
      /\ \A a, b \in Int : InEpisode(single, a, b) => InEpisode(merged, a, b)
  BY <1>7, <1>8, JoiningKeepsApart
<1> HIDE DEF merged
<1>10. /\ AreEpisodes(Joined(Cooldown, merged), H, Cooldown)
       /\ AreEpisodes(Joined(Cooldown, merged), H, MergeGap + 1)
       /\ \A a, b \in Int : InEpisode(merged, a, b) => InEpisode(Joined(Cooldown, merged), a, b)
  BY <1>8, <1>9, JoiningKeepsApart
<1>11. ASSUME NEW h \in H PROVE InEpisode(single, h, h)
  <2>1. PICK k \in 1..n : ordered[k] = h
    BY <1>2
  <2>2. single[k][1] <= h /\ h <= single[k][2]
    BY <1>3, <1>4, <2>1
  <2> QED BY <1>5, <2>2 DEF InEpisode
<1> QED BY <1>1, <1>9, <1>10, <1>11

\* Episodes begin one after the other.
LEMMA EpisodesInOrder ==
  ASSUME NEW H \in SUBSET Int, NEW gap \in Nat, NEW e, AreEpisodes(e, H, gap)
  PROVE  \A i, k \in 1..Len(e) : i < k => e[i][1] < e[k][1]
<1> DEFINE n == Len(e)
           S == {k \in 0..n : \A i \in 1..k - 1 : e[i][1] < e[k][1]}
<1>1. n \in Nat /\ \A i \in 1..n : e[i][1] \in Int /\ e[i][2] \in Int /\ e[i][1] <= e[i][2]
  <2>1. e \in Seq(Int \X Int)
    BY DEF AreEpisodes
  <2>2. \A i \in 1..n : e[i] \in Int \X Int
    BY <2>1
  <2> QED BY <2>1, <2>2 DEF AreEpisodes
<1>2. \A i \in 1..n - 1 : e[i + 1][1] - e[i][2] > gap
  BY DEF AreEpisodes
<1> HIDE DEF n
<1>3. 0 \in S
  BY <1>1
<1>4. ASSUME NEW k \in 1..n, k - 1 \in S PROVE k \in S
  <2> SUFFICES ASSUME NEW i \in 1..k - 1 PROVE e[i][1] < e[k][1]
    BY <1>1
  <2>1. k - 1 \in 1..n - 1 /\ (k - 1) + 1 = k /\ k - 1 \in 1..n /\ i \in 1..n
    BY <1>1
  <2>2. e[k - 1][1] < e[k][1]
    BY <1>1, <1>2, <2>1
  <2>3. i = k - 1 \/ i \in 1..(k - 1) - 1
    OBVIOUS
  <2>4. i \in 1..(k - 1) - 1 => e[i][1] < e[k - 1][1]
    BY <1>4
  <2> QED BY <1>1, <2>1, <2>2, <2>3, <2>4
<1> HIDE DEF S
<1>5. \A k \in 0..n : k \in S
  BY <1>1, <1>3, <1>4, InductionUpTo
<1>6. ASSUME NEW i \in 1..n, NEW k \in 1..n, i < k PROVE e[i][1] < e[k][1]
  <2>1. k \in S /\ i \in 1..k - 1
    BY <1>1, <1>5, <1>6
  <2> QED BY <2>1 DEF S
<1> QED BY <1>6 DEF n

-----------------------------------------------------------------------------
(* Matching *)

\* Alert episodes, one after the other.
AreAlerts(e) ==
  /\ Len(e) \in Nat /\ DOMAIN e = 1..Len(e)
  /\ \A n \in 1..Len(e) : e[n][1] \in Int
  /\ \A n, k \in 1..Len(e) : n < k => e[n][1] < e[k][1]

\* Rows of a catalogue that have an onset.
AreOnsets(events, S) ==
  IsCatalog(events) /\ S \subseteq DOMAIN events /\ \A i \in S : events[i].onset # None

\* No episode detects two events, and each comes in the lookahead of the one it detects.
IsMatching(m, e, events, S) ==
  /\ m \in [S -> 0..Len(e)]
  /\ \A i \in S : m[i] = 0 \/ InLookahead(e[m[i]], events[i])
  /\ \A i, k \in S : i # k /\ m[i] # 0 => m[i] # m[k]

\* Event i takes x, and whoever had x takes what i had.
Exchanged(m, S, i, x) == [q \in S |-> IF q = i THEN x ELSE IF m[q] = x THEN m[i] ELSE m[q]]

\* Event i may take an episode before its own, if no earlier event had that one.
LEMMA ExchangeMatches ==
  ASSUME NEW e, AreAlerts(e), NEW events, NEW S, AreOnsets(events, S), NEW m, IsMatching(m, e, events, S),
         NEW i \in S, NEW x \in 1..Len(e), InLookahead(e[x], events[i]),
         m[i] # x, m[i] # 0 => x < m[i],
         \A q \in S : m[q] = x => events[i].onset <= events[q].onset
  PROVE  IsMatching(Exchanged(m, S, i, x), e, events, S)
<1> DEFINE y == m[i]
           v == Exchanged(m, S, i, x)
<1>1. /\ m \in [S -> 0..Len(e)] /\ Len(e) \in Nat
      /\ \A q \in S : m[q] \in 0..Len(e) /\ (m[q] = 0 \/ InLookahead(e[m[q]], events[q]))
      /\ \A q, r \in S : q # r /\ m[q] # 0 => m[q] # m[r]
  BY DEF IsMatching, AreAlerts
<1>2. \A q \in S : v[q] = IF q = i THEN x ELSE IF m[q] = x THEN y ELSE m[q]
  BY DEF Exchanged
<1>3. v \in [S -> 0..Len(e)]
  <2>1. x \in 0..Len(e) /\ y \in 0..Len(e)
    BY <1>1
  <2> QED BY <1>1, <2>1 DEF Exchanged
<1>4. \A q \in S : events[q].onset \in Int
  BY DEF AreOnsets, IsCatalog
<1> HIDE DEF v
<1>5. ASSUME NEW q \in S PROVE v[q] = 0 \/ InLookahead(e[v[q]], events[q])
  <2>1. CASE q # i /\ m[q] = x /\ y # 0
    <3>1. v[q] = y /\ x # 0 /\ y \in 1..Len(e)
      BY <1>1, <1>2, <2>1
    <3>2. InLookahead(e[x], events[q]) /\ InLookahead(e[y], events[i])
      BY <1>1, <2>1, <3>1
    <3>3. e[x][1] < e[y][1] /\ e[x][1] \in Int /\ e[y][1] \in Int
      BY <2>1, <3>1 DEF AreAlerts
    <3>4. events[i].onset <= events[q].onset /\ events[i].onset \in Int /\ events[q].onset \in Int
      BY <1>4, <2>1
    <3>5. Lookahead \in Nat
      BY ImpactAssumption
    <3>6. InLookahead(e[y], events[q])
      <4>1. e[y][1] < events[i].onset /\ e[x][1] >= events[q].onset - Lookahead
        BY <3>2 DEF InLookahead
      <4>2. e[y][1] < events[q].onset
        BY <3>3, <3>4, <4>1
      <4>3. e[y][1] >= events[q].onset - Lookahead
        BY <3>3, <3>4, <3>5, <4>1
      <4> QED BY <4>2, <4>3 DEF InLookahead
    <3> QED BY <3>1, <3>6
  <2>2. CASE q = i
    BY <1>2, <2>2
  <2>3. CASE q # i /\ m[q] # x
    BY <1>1, <1>2, <2>3
  <2>4. CASE q # i /\ m[q] = x /\ y = 0
    BY <1>2, <2>4
  <2> QED BY <2>1, <2>2, <2>3, <2>4
<1>6. ASSUME NEW q \in S, NEW r \in S, q # r, v[q] # 0 PROVE v[q] # v[r]
  <2>1. x # 0 /\ x # y
    OBVIOUS
  <2>2. q # i => m[q] # y \/ m[q] = 0
    BY <1>1
  <2>3. r # i => m[r] # y \/ y = 0
    BY <1>1
  <2>4. m[q] # m[r] \/ m[q] = 0
    BY <1>1, <1>6
  <2> HIDE DEF y
  <2> QED BY <1>2, <1>6, <2>1, <2>2, <2>3, <2>4
<1> QED BY <1>3, <1>5, <1>6 DEF IsMatching, v

\* It loses no detected event.
LEMMA ExchangeDetects ==
  ASSUME NEW S, IsFiniteSet(S), NEW n \in Nat, NEW m \in [S -> 0..n], NEW i \in S, NEW x \in 1..n,
         m[i] # x, \A q, r \in S : q # r /\ m[q] # 0 => m[q] # m[r]
  PROVE  Cardinality(Detected(m)) <= Cardinality(Detected(Exchanged(m, S, i, x)))
<1> DEFINE v == Exchanged(m, S, i, x)
           D == Detected(m)
           E == Detected(v)
<1>1. \A q \in S : v[q] = IF q = i THEN x ELSE IF m[q] = x THEN m[i] ELSE m[q]
  BY DEF Exchanged
<1>2. DOMAIN v = S
  BY DEF Exchanged
<1> HIDE DEF v
<1>3. D = {q \in S : m[q] # 0} /\ E = {q \in S : v[q] # 0}
  BY <1>2 DEF Detected
<1> HIDE DEF D, E
<1>4. IsFiniteSet(D) /\ IsFiniteSet(E)
  BY <1>3, FS_Subset
<1>5. x # 0
  OBVIOUS
<1>6. ASSUME D \subseteq E PROVE Cardinality(D) <= Cardinality(E)
  <2>1. D \in SUBSET E
    BY <1>6
  <2> QED BY <1>4, <2>1, FS_Subset
<1>7. ASSUME ~(D \subseteq E) PROVE Cardinality(D) <= Cardinality(E)
  <2>1. PICK q \in D : q \notin E
    BY <1>7
  <2>2. q \in S /\ m[q] # 0 /\ v[q] = 0
    BY <1>3, <2>1
  <2>3. q # i /\ m[q] = x /\ m[i] = 0
    BY <1>1, <1>5, <2>2
  <2>4. i \notin D
    BY <1>3, <2>3
  <2>5. E = (D \ {q}) \cup {i}
    <3>1. \A r \in S : r # q => m[r] # x
      BY <2>2, <2>3
    <3>2. \A r \in S : r # q /\ r # i => v[r] = m[r]
      BY <1>1, <3>1
    <3>3. v[i] # 0
      BY <1>1, <1>5
    <3> QED BY <1>3, <2>2, <3>2, <3>3
  <2>6. IsFiniteSet(D \ {q}) /\ Cardinality(D \ {q}) = Cardinality(D) - 1
    BY <1>4, <2>1, FS_RemoveElement
  <2>7. i \notin D \ {q}
    BY <2>4
  <2>8. Cardinality((D \ {q}) \cup {i}) = Cardinality(D \ {q}) + 1
    BY <2>6, <2>7, FS_AddElement
  <2>9. Cardinality(D) \in Nat
    BY <1>4, FS_CardinalityType
  <2>10. Cardinality(E) = Cardinality(D)
    BY <2>5, <2>6, <2>8, <2>9
  <2> QED BY <2>9, <2>10
<1>8. Cardinality(D) <= Cardinality(E)
  BY <1>6, <1>7
<1> QED BY <1>8 DEF D, E, v

\* What is left for an event after the first k - 1 took theirs.
Left(g, e, events, o, k) ==
  {n \in DOMAIN e : InLookahead(e[n], events[o[k]]) /\ \A j \in 1..k - 1 : g[o[j]] # n}

\* The k-th event takes the first episode that is left for it.
LEMMA GreedyTakes ==
  ASSUME NEW e, AreAlerts(e), NEW events, NEW S, AreOnsets(events, S)
  PROVE  LET g == Matching(e, events, S)
             o == InOrder(S, SoonerPairs(events, S))
         IN /\ g \in [S -> 0..Len(e)]
            /\ \A k \in 1..Cardinality(S) :
                 g[o[k]] = IF Left(g, e, events, o, k) = {} THEN 0 ELSE Min(Left(g, e, events, o, k))
<1> DEFINE c == Cardinality(S)
           R == SoonerPairs(events, S)
           o == InOrder(S, R)
           none == [i \in S |-> 0]
           A == [S -> 0..Len(e)]
           step == [k \in 1..c |-> [t \in A |-> MatchEvent(e, t, events, o[k])]]
           taken == CHOOSE f : f = [k \in 0..c |-> IF k = 0 THEN none ELSE MatchEvent(e, f[k - 1], events, o[k])]
<1>1. Matching(e, events, S) = taken[c]
  BY DEF Matching, SoonerPairs
<1>2. IsFiniteSet(S) /\ Orders(R, S)
  BY OnsetsInOrder DEF AreOnsets
<1>3. /\ c \in Nat /\ o \in [1..c -> S]
      /\ \A k, m \in 1..c : k < m => <<o[k], o[m]>> \in R
      /\ \A x \in S : \E k \in 1..c : o[k] = x
  <2> HIDE DEF R
  <2> QED BY <1>2, InOrderLists
<1> HIDE DEF c, o
<1>4. \A k, m \in 1..c : k # m => o[k] # o[m]
  <2>1. \A k, m \in 1..c : k < m => o[k] # o[m]
    BY <1>2, <1>3 DEF Orders
  <2> QED BY <1>3, <2>1
<1>5. Len(e) \in Nat /\ DOMAIN e = 1..Len(e) /\ none \in A
  BY DEF AreAlerts
<1>6. ASSUME NEW t, NEW i \in S
      PROVE  /\ Free(e, t, events[i]) \subseteq 1..Len(e)
             /\ Free(e, t, events[i]) # {} => Min(Free(e, t, events[i])) \in Free(e, t, events[i])
  <2> DEFINE F == Free(e, t, events[i])
  <2>1. F \subseteq 1..Len(e)
    BY <1>5 DEF Free
  <2> HIDE DEF F
  <2>2. 1 \in Int /\ Len(e) \in Int
    BY <1>5
  <2>3. IsFiniteSet(1..Len(e))
    BY <2>2, FS_Interval
  <2>4. IsFiniteSet(F) /\ F \in SUBSET Int
    <3>1. F \in SUBSET (1..Len(e))
      BY <2>1
    <3>2. IsFiniteSet(F)
      BY <2>3, <3>1, FS_Subset
    <3> QED BY <2>2, <3>1, <3>2
  <2>5. F # {} => Min(F) \in F
    BY <2>4, Extremes
  <2> QED BY <2>1, <2>5 DEF F
<1>7. ASSUME NEW t \in A, NEW i \in S PROVE MatchEvent(e, t, events, i) \in A
  <2> DEFINE F == Free(e, t, events[i])
  <2>1. F \subseteq 1..Len(e) /\ (F # {} => Min(F) \in F)
    BY <1>6
  <2>2. MatchEvent(e, t, events, i) = IF F = {} THEN t ELSE [t EXCEPT ![i] = Min(F)]
    BY DEF MatchEvent
  <2> HIDE DEF F
  <2>3. F # {} => Min(F) \in 0..Len(e)
    <3>1. \A n \in F : n \in 0..Len(e)
      BY <1>5, <2>1
    <3> QED BY <2>1, <3>1
  <2> QED BY <2>2, <2>3
<1>8. step \in [1..c -> [A -> A]]
  BY <1>3, <1>7
<1>9. PICK f \in [0..c -> A] : StepsTo(f, c, none, step)
  <2> HIDE DEF step, A, none
  <2> QED BY <1>3, <1>5, <1>8, RecursionExists
<1>10. f = [k \in 0..c |-> IF k = 0 THEN none ELSE MatchEvent(e, f[k - 1], events, o[k])]
  <2>1. \A k \in 1..c : step[k][f[k - 1]] = MatchEvent(e, f[k - 1], events, o[k])
    BY <1>3
  <2> HIDE DEF step, none
  <2>2. \A k \in 0..c : k # 0 => k \in 1..c
    OBVIOUS
  <2> QED BY <1>9, <2>1, <2>2 DEF StepsTo
<1>11. taken = [k \in 0..c |-> IF k = 0 THEN none ELSE MatchEvent(e, taken[k - 1], events, o[k])]
  BY <1>10
<1> HIDE DEF taken, A
<1>12. taken[0] = none /\ \A k \in 1..c : taken[k] = MatchEvent(e, taken[k - 1], events, o[k])
  <2>1. 0 \in 0..c /\ \A k \in 1..c : k \in 0..c /\ k # 0
    BY <1>3
  <2> HIDE DEF none
  <2> QED BY <1>11, <2>1
<1> DEFINE kept(k) == \A j \in 1..c : taken[k][o[j]] = IF j <= k THEN taken[j][o[j]] ELSE 0
           T == {k \in 0..c : taken[k] \in A /\ kept(k)}
<1>13. 0 \in T
  BY <1>3, <1>5, <1>12
<1>14. ASSUME NEW k \in 1..c, k - 1 \in T PROVE k \in T
  <2> DEFINE t == taken[k - 1]
             F == Free(e, t, events[o[k]])
  <2>1. o[k] \in S /\ t \in A
    BY <1>3, <1>14
  <2>2. taken[k] \in A
    BY <1>7, <1>12, <2>1
  <2>3. taken[k] = IF F = {} THEN t ELSE [t EXCEPT ![o[k]] = Min(F)]
    BY <1>12 DEF MatchEvent
  <2>4. \A j \in 1..c : t[o[j]] = IF j <= k - 1 THEN taken[j][o[j]] ELSE 0
    BY <1>14
  <2> HIDE DEF t, F
  <2>5. ASSUME NEW j \in 1..c PROVE taken[k][o[j]] = IF j <= k THEN taken[j][o[j]] ELSE 0
    <3>1. CASE j = k
      BY <3>1
    <3>2. CASE j # k
      <4>1. o[j] # o[k] /\ o[j] \in S
        BY <1>3, <1>4, <3>2
      <4>2. taken[k][o[j]] = t[o[j]]
        BY <2>1, <2>3, <4>1 DEF A
      <4>3. j <= k <=> j <= k - 1
        BY <3>2
      <4> QED BY <2>4, <4>2, <4>3
    <3> QED BY <3>1, <3>2
  <2> QED BY <1>3, <2>2, <2>5
<1> HIDE DEF T
<1>15. \A k \in 0..c : k \in T
  BY <1>3, <1>13, <1>14, InductionUpTo
<1>16. \A k \in 0..c : taken[k] \in A /\ \A j \in 1..c : taken[k][o[j]] = IF j <= k THEN taken[j][o[j]] ELSE 0
  BY <1>15 DEF T
<1> DEFINE g == taken[c]
<1>17. g \in A /\ \A j \in 1..c : g[o[j]] = taken[j][o[j]]
  <2>1. c \in 0..c /\ \A j \in 1..c : j <= c
    BY <1>3
  <2> QED BY <1>16, <2>1
<1> HIDE DEF g
<1>18. ASSUME NEW k \in 1..c
       PROVE  g[o[k]] = IF Left(g, e, events, o, k) = {} THEN 0 ELSE Min(Left(g, e, events, o, k))
  <2> DEFINE t == taken[k - 1]
             F == Free(e, t, events[o[k]])
  <2>1. k - 1 \in 0..c /\ o[k] \in S
    BY <1>3
  <2>2. t \in A /\ \A j \in 1..c : t[o[j]] = IF j <= k - 1 THEN taken[j][o[j]] ELSE 0
    BY <1>16, <2>1
  <2>3. taken[k] = IF F = {} THEN t ELSE [t EXCEPT ![o[k]] = Min(F)]
    BY <1>12 DEF MatchEvent
  <2>4. F = {n \in DOMAIN e : InLookahead(e[n], events[o[k]]) /\ \A x \in DOMAIN t : t[x] # n}
    BY DEF Free
  <2> HIDE DEF t, F
  <2>5. DOMAIN t = S
    BY <2>2 DEF A
  <2>6. ASSUME NEW n \in DOMAIN e
        PROVE  (\A x \in S : t[x] # n) <=> \A j \in 1..k - 1 : g[o[j]] # n
    <3>1. n # 0
      BY <1>5
    <3>2. \A j \in 1..c : j <= k - 1 => t[o[j]] = g[o[j]]
      BY <1>17, <2>2
    <3>3. \A j \in 1..c : ~(j <= k - 1) => t[o[j]] # n
      BY <2>2, <3>1
    <3>4. \A j \in 1..k - 1 : j \in 1..c /\ j <= k - 1 /\ o[j] \in S
      BY <1>3
    <3>5. \A j \in 1..c : j <= k - 1 => j \in 1..k - 1
      BY <1>3
    <3> QED BY <1>3, <3>2, <3>3, <3>4, <3>5
  <2>7. F = Left(g, e, events, o, k)
    BY <2>4, <2>5, <2>6 DEF Left
  <2>8. t[o[k]] = 0
    BY <2>2
  <2>9. taken[k][o[k]] = IF F = {} THEN 0 ELSE Min(F)
    BY <2>1, <2>2, <2>3, <2>8 DEF A
  <2> QED BY <1>17, <2>7, <2>9
<1> QED BY <1>1, <1>17, <1>18 DEF A, c, o, g

\* So no two events take the same one.
LEMMA GreedyMatches ==
  ASSUME NEW e, AreAlerts(e), NEW events, NEW S, AreOnsets(events, S)
  PROVE  IsMatching(Matching(e, events, S), e, events, S)
<1> DEFINE g == Matching(e, events, S)
           R == SoonerPairs(events, S)
           o == InOrder(S, R)
           c == Cardinality(S)
<1>1. /\ g \in [S -> 0..Len(e)]
      /\ \A k \in 1..c : g[o[k]] = IF Left(g, e, events, o, k) = {} THEN 0 ELSE Min(Left(g, e, events, o, k))
  BY GreedyTakes
<1>2. IsFiniteSet(S) /\ Orders(R, S)
  BY OnsetsInOrder DEF AreOnsets
<1>3. c \in Nat /\ o \in [1..c -> S] /\ \A x \in S : \E k \in 1..c : o[k] = x
  <2> HIDE DEF R
  <2> QED BY <1>2, InOrderLists
<1> HIDE DEF g, o, c
<1>4. ASSUME NEW k \in 1..c, g[o[k]] # 0 PROVE g[o[k]] \in Left(g, e, events, o, k)
  <2> DEFINE L == Left(g, e, events, o, k)
  <2>1. L \subseteq 1..Len(e) /\ Len(e) \in Nat
    BY DEF Left, AreAlerts
  <2>2. L # {} /\ g[o[k]] = Min(L)
    BY <1>1, <1>4
  <2> HIDE DEF L
  <2>3. IsFiniteSet(L) /\ L \in SUBSET Int
    <3>1. IsFiniteSet(1..Len(e)) /\ L \in SUBSET (1..Len(e))
      BY <2>1, FS_Interval
    <3>2. IsFiniteSet(L)
      BY <3>1, FS_Subset
    <3> QED BY <2>1, <3>2
  <2>4. Min(L) \in L
    BY <2>2, <2>3, Extremes
  <2> QED BY <2>2, <2>4 DEF L
<1>5. ASSUME NEW i \in S, g[i] # 0 PROVE InLookahead(e[g[i]], events[i])
  <2>1. PICK k \in 1..c : o[k] = i
    BY <1>3
  <2> QED BY <1>4, <1>5, <2>1 DEF Left
<1>6. ASSUME NEW k \in 1..c, NEW j \in 1..k - 1, g[o[k]] # 0 PROVE g[o[j]] # g[o[k]]
  BY <1>4, <1>6 DEF Left
<1>7. ASSUME NEW i \in S, NEW q \in S, i # q, g[i] # 0 PROVE g[i] # g[q]
  <2>1. PICK k \in 1..c : o[k] = i
    BY <1>3
  <2>2. PICK j \in 1..c : o[j] = q
    BY <1>3
  <2>3. k # j
    BY <1>7, <2>1, <2>2
  <2>4. CASE j < k
    <3>1. j \in 1..k - 1
      BY <1>3, <2>4
    <3> QED BY <1>6, <1>7, <2>1, <2>2, <3>1
  <2>5. CASE k < j
    <3>1. k \in 1..j - 1
      BY <1>3, <2>5
    <3>2. g[q] # 0 => g[i] # g[q]
      BY <1>6, <2>1, <2>2, <3>1
    <3> QED BY <1>7, <3>2
  <2> QED BY <1>3, <2>3, <2>4, <2>5
<1> QED BY <1>1, <1>5, <1>7 DEF IsMatching, g

\* A matching that agrees with the greedy one on the first k events.
Agrees(m, g, o, k) == \A j \in 1..k : m[o[j]] = g[o[j]]

\* A matching that agrees on k - 1 events becomes one that agrees on k and detects as many.
LEMMA GreedyIsFollowed ==
  ASSUME NEW e, AreAlerts(e), NEW events, NEW S, AreOnsets(events, S),
         NEW m, IsMatching(m, e, events, S), NEW k \in 1..Cardinality(S),
         Agrees(m, Matching(e, events, S), InOrder(S, SoonerPairs(events, S)), k - 1)
  PROVE  \E v : /\ IsMatching(v, e, events, S)
                /\ Agrees(v, Matching(e, events, S), InOrder(S, SoonerPairs(events, S)), k)
                /\ Cardinality(Detected(m)) <= Cardinality(Detected(v))
<1> DEFINE g == Matching(e, events, S)
           R == SoonerPairs(events, S)
           o == InOrder(S, R)
           c == Cardinality(S)
           i == o[k]
           x == g[i]
           L == Left(g, e, events, o, k)
           v == Exchanged(m, S, i, x)
<1>1. g \in [S -> 0..Len(e)] /\ x = IF L = {} THEN 0 ELSE Min(L)
  BY GreedyTakes
<1>2. IsFiniteSet(S) /\ Orders(R, S) /\ \A q \in S : q \in Int /\ events[q].onset \in Int
  BY OnsetsInOrder DEF AreOnsets
<1>3. \A q, r \in S : <<q, r>> \in R => events[q].onset <= events[r].onset
  BY <1>2 DEF SoonerPairs, Sooner
<1> HIDE DEF R
<1>4. /\ c \in Nat /\ o \in [1..c -> S]
      /\ \A j, n \in 1..c : j < n => <<o[j], o[n]>> \in R
      /\ \A q \in S : \E j \in 1..c : o[j] = q
  BY <1>2, InOrderLists
<1>5. Agrees(m, g, o, k - 1) /\ k \in 1..c
  BY DEF R
<1>6. SUFFICES \E w : /\ IsMatching(w, e, events, S) /\ Agrees(w, g, o, k)
                      /\ Cardinality(Detected(m)) <= Cardinality(Detected(w))
  BY DEF R
<1> HIDE DEF c, o, g
<1>7. i \in S /\ \A j \in 1..k - 1 : j \in 1..c /\ o[j] \in S /\ o[j] # i
  <2>1. \A j \in 1..k - 1 : j \in 1..c /\ j < k
    BY <1>4, <1>5
  <2> QED BY <1>2, <1>4, <1>5, <2>1 DEF Orders
<1>8. /\ m \in [S -> 0..Len(e)] /\ Len(e) \in Nat /\ DOMAIN e = 1..Len(e)
      /\ \A q \in S : m[q] = 0 \/ InLookahead(e[m[q]], events[q])
      /\ \A q, r \in S : q # r /\ m[q] # 0 => m[q] # m[r]
  BY DEF IsMatching, AreAlerts
<1>9. L \subseteq 1..Len(e)
  BY <1>8 DEF Left
<1>10. m[i] # 0 => m[i] \in L
  <2> SUFFICES ASSUME m[i] # 0 PROVE m[i] \in L
    OBVIOUS
  <2>1. m[i] \in 1..Len(e) /\ InLookahead(e[m[i]], events[i])
    BY <1>7, <1>8
  <2>2. \A j \in 1..k - 1 : g[o[j]] # m[i]
    BY <1>5, <1>7, <1>8 DEF Agrees
  <2> QED BY <1>8, <2>1, <2>2 DEF Left
<1> HIDE DEF L
<1>11. L # {} => x \in L /\ \A n \in L : x <= n
  <2>1. IsFiniteSet(1..Len(e)) /\ L \in SUBSET (1..Len(e))
    BY <1>8, <1>9, FS_Interval
  <2>2. IsFiniteSet(L)
    BY <2>1, FS_Subset
  <2>3. L \in SUBSET Int
    BY <1>8, <1>9
  <2> QED BY <1>1, <2>2, <2>3, Extremes
<1> HIDE DEF i, x
<1>12. CASE m[i] = x
  <2>1. Agrees(m, g, o, k)
    <3> SUFFICES ASSUME NEW j \in 1..k PROVE m[o[j]] = g[o[j]]
      BY DEF Agrees
    <3>1. j = k \/ j \in 1..k - 1
      BY <1>4, <1>5
    <3> QED BY <1>5, <1>12, <3>1 DEF Agrees, i, x
  <2>2. Cardinality(Detected(m)) \in Nat
    <3>1. Detected(m) \in SUBSET S
      BY <1>8 DEF Detected
    <3>2. IsFiniteSet(Detected(m))
      BY <1>2, <3>1, FS_Subset
    <3> QED BY <3>2, FS_CardinalityType
  <2>3. Cardinality(Detected(m)) <= Cardinality(Detected(m))
    BY <2>2
  <2> QED BY <2>1, <2>3
<1>13. CASE m[i] # x
  <2>1. L # {}
    BY <1>1, <1>10, <1>13 DEF x
  <2>2. x \in L /\ x \in 1..Len(e) /\ (m[i] # 0 => x < m[i])
    <3>1. x \in L /\ x \in 1..Len(e) /\ x \in Int
      <4>1. x \in L
        BY <1>11, <2>1
      <4>2. x \in 1..Len(e)
        BY <1>9, <4>1
      <4> QED BY <1>8, <4>1, <4>2
    <3>2. m[i] \in 0..Len(e)
      BY <1>7, <1>8
    <3>3. m[i] # 0 => x <= m[i]
      BY <1>10, <1>11, <2>1
    <3> QED BY <1>8, <1>13, <3>1, <3>2, <3>3
  <2>3. InLookahead(e[x], events[i]) /\ \A j \in 1..k - 1 : g[o[j]] # x
    BY <2>2 DEF L, Left, i
  <2>4. ASSUME NEW q \in S, m[q] = x PROVE events[i].onset <= events[q].onset
    <3>1. PICK n \in 1..c : o[n] = q
      BY <1>4
    <3>2. n \notin 1..k - 1
      BY <1>5, <2>3, <2>4, <3>1 DEF Agrees
    <3>3. n # k
      BY <1>13, <2>4, <3>1 DEF i
    <3>4. k < n
      BY <1>4, <1>5, <3>2, <3>3
    <3>5. <<i, q>> \in R
      BY <1>4, <1>5, <3>1, <3>4 DEF i
    <3> QED BY <1>3, <1>7, <3>5
  <2>5. IsMatching(v, e, events, S)
    <3>1. \A q \in S : m[q] = x => events[i].onset <= events[q].onset
      BY <2>4
    <3> QED BY <1>7, <1>13, <2>2, <2>3, <3>1, ExchangeMatches
  <2>6. Cardinality(Detected(m)) <= Cardinality(Detected(v))
    BY <1>2, <1>7, <1>8, <1>13, <2>2, ExchangeDetects
  <2>7. \A q \in S : v[q] = IF q = i THEN x ELSE IF m[q] = x THEN m[i] ELSE m[q]
    BY DEF Exchanged
  <2> HIDE DEF v
  <2>8. Agrees(v, g, o, k)
    <3> SUFFICES ASSUME NEW j \in 1..k PROVE v[o[j]] = g[o[j]]
      BY DEF Agrees
    <3>1. CASE j = k
      BY <1>7, <2>7, <3>1 DEF i, x
    <3>2. CASE j \in 1..k - 1
      <4>1. o[j] \in S /\ o[j] # i /\ m[o[j]] = g[o[j]] /\ g[o[j]] # x
        BY <1>5, <1>7, <2>3, <3>2 DEF Agrees
      <4> QED BY <2>7, <4>1
    <3>3. j = k \/ j \in 1..k - 1
      BY <1>4, <1>5
    <3> QED BY <3>1, <3>2, <3>3
  <2> QED BY <2>5, <2>6, <2>8
<1> QED BY <1>12, <1>13

\* No matching detects more events than the greedy one.
LEMMA GreedyDetectsMost ==
  ASSUME NEW e, AreAlerts(e), NEW events, NEW S, AreOnsets(events, S), NEW m, IsMatching(m, e, events, S)
  PROVE  /\ Cardinality(Detected(m)) \in Nat
         /\ Cardinality(Detected(m)) <= Cardinality(Detected(Matching(e, events, S)))
<1> DEFINE g == Matching(e, events, S)
           R == SoonerPairs(events, S)
           o == InOrder(S, R)
           c == Cardinality(S)
           size(v) == Cardinality(Detected(v))
           follows(k) == \E v : IsMatching(v, e, events, S) /\ Agrees(v, g, o, k) /\ size(m) <= size(v)
           T == {k \in 0..c : follows(k)}
<1>1. IsFiniteSet(S) /\ Orders(R, S)
  BY OnsetsInOrder DEF AreOnsets
<1>2. c \in Nat /\ o \in [1..c -> S] /\ \A q \in S : \E j \in 1..c : o[j] = q
  <2> HIDE DEF R
  <2> QED BY <1>1, InOrderLists
<1>3. ASSUME NEW v, IsMatching(v, e, events, S) PROVE size(v) \in Nat
  <2>1. v \in [S -> 0..Len(e)]
    BY <1>3 DEF IsMatching
  <2>2. Detected(v) \in SUBSET S
    BY <2>1 DEF Detected
  <2>3. IsFiniteSet(Detected(v))
    BY <1>1, <2>2, FS_Subset
  <2> QED BY <2>3, FS_CardinalityType
<1>4. ASSUME NEW k \in 1..c, k - 1 \in T PROVE k \in T
  <2>1. PICK v : IsMatching(v, e, events, S) /\ Agrees(v, g, o, k - 1) /\ size(m) <= size(v)
    BY <1>4
  <2>2. PICK w : IsMatching(w, e, events, S) /\ Agrees(w, g, o, k) /\ size(v) <= size(w)
    BY <2>1, GreedyIsFollowed
  <2>3. size(m) \in Nat /\ size(v) \in Nat /\ size(w) \in Nat
    BY <1>3, <2>1, <2>2
  <2> HIDE DEF size
  <2>4. size(m) <= size(w)
    BY <2>1, <2>2, <2>3
  <2>5. follows(k)
    BY <2>2, <2>4
  <2> HIDE DEF c, follows
  <2> QED BY <1>2, <2>5
<1>5. 0 \in T
  <2>1. size(m) \in Nat
    BY <1>3
  <2> HIDE DEF size
  <2>2. size(m) <= size(m)
    BY <2>1
  <2>3. Agrees(m, g, o, 0)
    BY DEF Agrees
  <2>4. follows(0)
    BY <2>2, <2>3
  <2> HIDE DEF c, follows
  <2> QED BY <1>2, <2>4
<1> HIDE DEF T, c, o, g
<1>6. \A k \in 0..c : k \in T
  BY <1>2, <1>4, <1>5, InductionUpTo
<1>7. c \in T
  BY <1>2, <1>6
<1>8. PICK v : IsMatching(v, e, events, S) /\ Agrees(v, g, o, c) /\ size(m) <= size(v)
  BY <1>7 DEF T
<1>9. v = g
  <2>1. IsMatching(g, e, events, S)
    BY GreedyMatches DEF g
  <2>2. v \in [S -> 0..Len(e)] /\ g \in [S -> 0..Len(e)]
    BY <1>8, <2>1 DEF IsMatching
  <2>3. \A q \in S : v[q] = g[q]
    BY <1>2, <1>8 DEF Agrees
  <2> QED BY <2>2, <2>3
<1>10. size(m) \in Nat
  BY <1>3
<1> QED BY <1>8, <1>9, <1>10 DEF g

LEMMA MostAreDetected ==
  ASSUME NEW e, AreAlerts(e), NEW events, NEW S, AreOnsets(events, S)
  PROVE  Cardinality(Detected(Matching(e, events, S))) = MostDetected(e, events, S)
<1> DEFINE choices == {m \in [S -> 0..Len(e)] : IsMatching(m, e, events, S)}
           sizes == {Cardinality(Detected(m)) : m \in choices}
           most == CHOOSE n \in sizes : \A m \in choices : Cardinality(Detected(m)) <= n
           g == Matching(e, events, S)
           G == Cardinality(Detected(g))
<1>1. MostDetected(e, events, S) = most
  <2> DEFINE fits1(m) == \A i \in S : m[i] = 0 \/ InLookahead(e[m[i]], events[i])
             alone(m) == \A i, k \in S : i # k /\ m[i] # 0 => m[i] # m[k]
             all == {m \in [S -> 0..Len(e)] : fits1(m) /\ alone(m)}
  <2>1. MostDetected(e, events, S) =
          CHOOSE n \in {Cardinality(Detected(m)) : m \in all} : \A m \in all : Cardinality(Detected(m)) <= n
    BY DEF MostDetected
  <2>2. all = choices
    BY DEF IsMatching
  <2> HIDE DEF all, choices
  <2> QED BY <2>1, <2>2
<1>2. g \in choices
  <2>1. IsMatching(g, e, events, S)
    BY GreedyMatches
  <2> QED BY <2>1 DEF IsMatching
<1>3. \A m \in choices : Cardinality(Detected(m)) \in Nat /\ Cardinality(Detected(m)) <= G
  BY GreedyDetectsMost
<1> HIDE DEF choices, g
<1>4. G \in sizes /\ \A m \in choices : Cardinality(Detected(m)) <= G
  BY <1>2, <1>3
<1>5. most \in sizes /\ \A m \in choices : Cardinality(Detected(m)) <= most
  <2> HIDE DEF sizes, G
  <2> QED BY <1>4
<1> HIDE DEF most
<1>6. PICK m \in choices : most = Cardinality(Detected(m))
  BY <1>5
<1>7. most \in Nat /\ most <= G /\ G \in Nat /\ G <= most
  BY <1>2, <1>3, <1>5, <1>6
<1> HIDE DEF G
<1>8. most = G
  BY <1>7
<1> QED BY <1>1, <1>8 DEF G, g

\* At every candidate threshold the alerts of the validation rows are cut into episodes that
\* cover every alert hour and that no merge or cooldown would still join, and the greedy
\* matching detects as many events as any other (events.py), whatever the levels are.
THEOREM EventsStayCounted == Spec => []EventsAreCounted
<1>1. ImpactInv => EventsAreCounted
  <2> SUFFICES ASSUME ImpactInv, balanced # None, NEW s \in Sites, NEW c \in Levels
               PROVE  LET hours == AlertHours(levels, s, c)
                          episodes == Episodes(hours)
                          events == EventsOf(catalog, TrainEnd, ValidationEnd, s)
                      IN /\ \A h \in hours : \E i \in DOMAIN episodes :
                              episodes[i][1] <= h /\ h <= episodes[i][2]
                         /\ \A i \in DOMAIN episodes : {episodes[i][1], episodes[i][2]} \subseteq hours
                         /\ \A i \in 1..Len(episodes) - 1 :
                              /\ episodes[i + 1][1] - episodes[i][2] > Cooldown
                              /\ episodes[i + 1][1] - episodes[i][2] > MergeGap + 1
                         /\ Cardinality(Detected(Matching(episodes, catalog, events)))
                              = MostDetected(episodes, catalog, events)
    BY DEF EventsAreCounted
  <2> DEFINE hours == AlertHours(levels, s, c)
             e == Episodes(hours)
             S == EventsOf(catalog, TrainEnd, ValidationEnd, s)
  <2>1. Built /\ DOMAIN levels = data.validation /\ data = Dataset(catalog, strict) /\ catalog \in Catalogs
    BY DEF ImpactInv, DataInv, LevelInv
  <2>2. IsFiniteSet(Rows(catalog)) /\ \A r \in Rows(catalog) : r.t \in Int
    BY RowsOfCells
  <2>3. data.validation \subseteq Rows(catalog)
    BY <2>1, DatasetBySplit DEF Splits
  <2>4. IsFiniteSet(hours) /\ hours \in SUBSET Int
    <3> DEFINE alert == {q \in DOMAIN levels : q.site = s /\ levels[q] >= c}
               t == [r \in alert |-> r.t]
    <3>1. alert \in SUBSET Rows(catalog)
      BY <2>1, <2>3
    <3>2. hours = {t[r] : r \in alert}
      BY DEF AlertHours
    <3>3. hours \in SUBSET Int
      BY <2>2, <3>1 DEF AlertHours
    <3> HIDE DEF alert, t, hours
    <3>4. IsFiniteSet(alert)
      BY <2>2, <3>1, FS_Subset
    <3> QED BY <3>2, <3>3, <3>4, FiniteImage
  <2> HIDE DEF hours
  <2>5. /\ AreEpisodes(e, hours, Cooldown) /\ AreEpisodes(e, hours, MergeGap + 1)
        /\ \A h \in hours : InEpisode(e, h, h)
    BY <2>4, EpisodesOfHours
  <2> HIDE DEF e
  <2>6. e \in Seq(Int \X Int) /\ Len(e) \in Nat /\ DOMAIN e = 1..Len(e)
    BY <2>5 DEF AreEpisodes
  <2>7. AreAlerts(e)
    <3>1. \A n \in 1..Len(e) : e[n][1] \in Int
      BY <2>4, <2>5 DEF AreEpisodes
    <3>2. \A n, k \in 1..Len(e) : n < k => e[n][1] < e[k][1]
      BY <2>4, <2>5, ImpactAssumption, EpisodesInOrder
    <3> QED BY <2>6, <3>1, <3>2 DEF AreAlerts
  <2>8. AreOnsets(catalog, S)
    <3>1. IsCatalog(catalog)
      BY <2>1, CatalogsAssumption
    <3> QED BY <3>1 DEF AreOnsets, EventsOf, IsCatalog
  <2> HIDE DEF S
  <2>9. Cardinality(Detected(Matching(e, catalog, S))) = MostDetected(e, catalog, S)
    BY <2>7, <2>8, MostAreDetected
  <2>10. \A h \in hours : \E i \in DOMAIN e : e[i][1] <= h /\ h <= e[i][2]
    BY <2>5, <2>6 DEF InEpisode
  <2>11. \A i \in DOMAIN e : {e[i][1], e[i][2]} \subseteq hours
    BY <2>5, <2>6 DEF AreEpisodes
  <2>12. \A i \in 1..Len(e) - 1 : e[i + 1][1] - e[i][2] > Cooldown /\ e[i + 1][1] - e[i][2] > MergeGap + 1
    BY <2>5 DEF AreEpisodes
  <2> QED BY <2>9, <2>10, <2>11, <2>12 DEF hours, e, S
<1> QED BY <1>1, ImpactInvariance, PTL

-----------------------------------------------------------------------------
(* What a delayed evaluation reports *)

Logged == [id : Int, site : Sites, t : Int, level : {0, 1}]
IsLog(log) == log.rows \in Seq(Logged) /\ "rows" \in DOMAIN log
HoursOf(rows) == {r.t : r \in rows}

LEMMA LogRows ==
  ASSUME NEW log, IsLog(log), Parses(log)
  PROVE  IsFiniteSet(ToSet(log.rows)) /\ ToSet(log.rows) # {} /\ ToSet(log.rows) \subseteq Logged
<1> DEFINE s == log.rows
           n == Len(s)
<1>1. s \in Seq(Logged) /\ s # <<>>
  BY DEF IsLog, Parses
<1> HIDE DEF s
<1>2. n \in Nat /\ DOMAIN s = 1..n /\ n # 0 /\ \A i \in 1..n : s[i] \in Logged
  BY <1>1
<1>3. ToSet(s) = {s[i] : i \in 1..n}
  BY <1>2 DEF ToSet
<1> HIDE DEF n
<1>4. 1 \in Int /\ n \in Int
  BY <1>2
<1>5. IsFiniteSet(1..n)
  BY <1>4, FS_Interval
<1>6. IsFiniteSet(ToSet(s))
  <2>1. IsFiniteSet({s[i] : i \in 1..n})
    BY <1>5, FiniteImage, Zenon
  <2> QED BY <1>3, <2>1
<1>7. 1 \in 1..n
  BY <1>2
<1>8. ToSet(s) # {} /\ ToSet(s) \subseteq Logged
  BY <1>2, <1>3, <1>7
<1> QED BY <1>6, <1>8 DEF s

LEMMA OneRowEach ==
  ASSUME NEW log, IsLog(log), Unique(log), NEW r \in ToSet(log.rows), NEW q \in ToSet(log.rows),
         r.site = q.site, r.t = q.t
  PROVE  r = q
<1> DEFINE s == log.rows
           n == Len(s)
           P == {<<s[i].site, s[i].t>> : i \in DOMAIN s}
           f == [i \in 1..n |-> <<s[i].site, s[i].t>>]
<1>1. s \in Seq(Logged)
  BY DEF IsLog
<1>2. Cardinality(P) = n
  BY DEF Unique
<1> HIDE DEF s
<1>3. n \in Nat /\ DOMAIN s = 1..n
  BY <1>1
<1>4. P = {f[i] : i \in 1..n}
  BY <1>3
<1>5. f = [i \in 1..n |-> f[i]]
  OBVIOUS
<1>6. \A i \in 1..n : f[i] = <<s[i].site, s[i].t>>
  OBVIOUS
<1> HIDE DEF n, P, f
<1>7. 1 \in Int /\ n \in Int
  BY <1>3
<1>8. IsFiniteSet(1..n) /\ Cardinality(1..n) = n
  BY <1>3, <1>7, FS_Interval
<1>9. f \in [1..n -> P] /\ \A p \in P : \E i \in 1..n : f[i] = p
  BY <1>4, <1>5
<1>10. f \in Surjection(1..n, P)
  BY <1>9, Fun_IsSurj
<1>11. f \in Injection(1..n, P)
  BY <1>2, <1>8, <1>10, FS_Surjection
<1>12. \A i, k \in 1..n : f[i] = f[k] => i = k
  BY <1>11, Fun_InjectionProperties
<1>13. PICK i \in 1..n : r = s[i]
  BY <1>3 DEF s, ToSet
<1>14. PICK k \in 1..n : q = s[k]
  BY <1>3 DEF s, ToSet
<1>15. f[i] = f[k]
  BY <1>6, <1>13, <1>14
<1> QED BY <1>12, <1>13, <1>14, <1>15

LEMMA TimesAreHours ==
  ASSUME NEW rows \in SUBSET Logged, IsFiniteSet(rows)
  PROVE  IsFiniteSet(HoursOf(rows)) /\ HoursOf(rows) \subseteq Int /\ (rows # {} => HoursOf(rows) # {})
<1> DEFINE t == [r \in rows |-> r.t]
<1>1. HoursOf(rows) = {t[r] : r \in rows}
  BY DEF HoursOf
<1>2. \A r \in rows : r.t \in Int
  BY DEF Logged
<1> HIDE DEF t
<1>3. IsFiniteSet(HoursOf(rows))
  BY <1>1, FiniteImage
<1> QED BY <1>2, <1>3 DEF HoursOf

\* The hours between a site's first and last prediction that have none.
Missing(rows, s) == (Min(TimesOf(rows, s))..Max(TimesOf(rows, s))) \ TimesOf(rows, s)

LEMMA MissingOfSite ==
  ASSUME NEW rows \in SUBSET Logged, IsFiniteSet(rows),
         \A r, q \in rows : r.site = q.site /\ r.t = q.t => r = q,
         NEW s \in SitesOf(rows)
  PROVE  LET T == TimesOf(rows, s) IN
         /\ IsFiniteSet(Missing(rows, s))
         /\ (Max(T) - Min(T) + 1) - Cardinality({r \in rows : r.site = s}) = Cardinality(Missing(rows, s))
         /\ T \subseteq Int /\ Min(T) \in T /\ Max(T) \in T /\ \A t \in T : Min(T) <= t /\ t <= Max(T)
<1> DEFINE own == {r \in rows : r.site = s}
           T == TimesOf(rows, s)
           t == [r \in own |-> r.t]
           I == Min(T)..Max(T)
<1>1. own \in SUBSET Logged /\ IsFiniteSet(own) /\ own # {}
  BY FS_Subset DEF SitesOf
<1>2. T = HoursOf(own)
  BY DEF TimesOf, HoursOf
<1>3. IsFiniteSet(T) /\ T \subseteq Int /\ T # {}
  <2> HIDE DEF own, T
  <2> QED BY <1>1, <1>2, TimesAreHours
<1>4. \A r, q \in own : t[r] = t[q] => r = q
  OBVIOUS
<1>5. t \in [own -> T] /\ \A x \in T : \E r \in own : t[r] = x
  BY <1>2 DEF HoursOf
<1> HIDE DEF own, T, t
<1>6. t \in Surjection(own, T) /\ t \in Injection(own, T)
  BY <1>4, <1>5, Fun_IsSurj, Fun_IsInj
<1>7. Cardinality(own) = Cardinality(T)
  BY <1>1, <1>6, FS_Surjection
<1>8. Min(T) \in T /\ Max(T) \in T /\ \A x \in T : Min(T) <= x /\ x <= Max(T)
  BY <1>3, Extremes
<1>9. Min(T) \in Int /\ Max(T) \in Int /\ Min(T) <= Max(T)
  BY <1>3, <1>8
<1>10. IsFiniteSet(I) /\ Cardinality(I) = Max(T) - Min(T) + 1
  BY <1>9, FS_Interval
<1>11. I \cap T = T
  <2>1. \A x \in T : x \in Int /\ Min(T) <= x /\ x <= Max(T)
    BY <1>3, <1>8
  <2>2. T \subseteq I
    BY <1>9, <2>1
  <2> QED BY <2>2
<1> HIDE DEF I
<1>12. IsFiniteSet(I \ T) /\ Cardinality(I \ T) = Cardinality(I) - Cardinality(T)
  <2>1. IsFiniteSet(I \ T) /\ Cardinality(I \ T) = Cardinality(I) - Cardinality(I \cap T)
    BY <1>10, FS_Difference
  <2> QED BY <1>11, <2>1
<1>13. Missing(rows, s) = I \ T
  BY DEF Missing, I, T
<1>14. (Max(T) - Min(T) + 1) - Cardinality(own) = Cardinality(Missing(rows, s))
  BY <1>7, <1>10, <1>12, <1>13
<1> QED BY <1>3, <1>8, <1>12, <1>13, <1>14 DEF own, T

LEMMA MissingIsCounted ==
  ASSUME NEW rows \in SUBSET Logged, IsFiniteSet(rows), rows # {},
         \A r, q \in rows : r.site = q.site /\ r.t = q.t => r = q
  PROVE  MissingHours(rows) =
           Cardinality({p \in Sites \X (Min(HoursOf(rows))..Max(HoursOf(rows))) :
             /\ \A q \in rows : q.site # p[1] \/ q.t # p[2]
             /\ \E q, v \in rows : q.site = p[1] /\ v.site = p[1] /\ q.t < p[2] /\ p[2] < v.t})
<1> DEFINE sites == SitesOf(rows)
           n == Cardinality(sites)
           ordered == InOrder(sites, Increasing(sites))
           term == [k \in 1..n |-> (Max(TimesOf(rows, ordered[k])) - Min(TimesOf(rows, ordered[k])) + 1)
                                     - Cardinality({r \in rows : r.site = ordered[k]})]
           sum == CHOOSE f : f = [k \in 0..n |-> IF k = 0 THEN 0 ELSE f[k - 1] + term[k]]
           part == [k \in 1..n |-> {ordered[k]} \X Missing(rows, ordered[k])]
           gaps == {p \in Sites \X (Min(HoursOf(rows))..Max(HoursOf(rows))) :
             /\ \A q \in rows : q.site # p[1] \/ q.t # p[2]
             /\ \E q, v \in rows : q.site = p[1] /\ v.site = p[1] /\ q.t < p[2] /\ p[2] < v.t}
<1>1. MissingHours(rows) = sum[n]
  <2> DEFINE total == CHOOSE f : f = [k \in 0..n |-> IF k = 0 THEN 0 ELSE f[k - 1]
                       + ((Max(TimesOf(rows, ordered[k])) - Min(TimesOf(rows, ordered[k])) + 1)
                            - Cardinality({r \in rows : r.site = ordered[k]}))]
  <2>1. MissingHours(rows) = total[n]
    BY DEF MissingHours, Increasing
  <2>2. ASSUME NEW f
        PROVE  [k \in 0..n |-> IF k = 0 THEN 0 ELSE f[k - 1] + term[k]]
               = [k \in 0..n |-> IF k = 0 THEN 0 ELSE f[k - 1]
                       + ((Max(TimesOf(rows, ordered[k])) - Min(TimesOf(rows, ordered[k])) + 1)
                            - Cardinality({r \in rows : r.site = ordered[k]}))]
    <3>1. \A k \in 0..n : k # 0 => k \in 1..n
      <4>1. n \in Nat
        <5> DEFINE site == [r \in rows |-> r.site]
        <5>1. sites = {site[r] : r \in rows}
          BY DEF SitesOf
        <5> HIDE DEF site, sites
        <5>2. IsFiniteSet(sites)
          BY <5>1, FiniteImage
        <5> QED BY <5>2, FS_CardinalityType
      <4> HIDE DEF n
      <4> QED BY <4>1
    <3> HIDE DEF n, ordered
    <3> QED BY <3>1
  <2>3. total = sum
    BY <2>2, Zenon
  <2> HIDE DEF total, sum, n
  <2> QED BY <2>1, <2>3
<1>2. IsFiniteSet(sites) /\ sites \subseteq Int
  <2> DEFINE site == [r \in rows |-> r.site]
  <2>1. sites = {site[r] : r \in rows}
    BY DEF SitesOf
  <2>2. sites \subseteq Int
    BY ImpactAssumption DEF SitesOf, Logged
  <2> HIDE DEF site, sites
  <2>3. IsFiniteSet(sites)
    BY <2>1, FiniteImage
  <2> QED BY <2>2, <2>3
<1>3. /\ n \in Nat /\ ordered \in [1..n -> sites]
      /\ \A k, m \in 1..n : k < m => <<ordered[k], ordered[m]>> \in Increasing(sites)
      /\ \A x \in sites : \E k \in 1..n : ordered[k] = x
  <2> HIDE DEF sites
  <2> QED BY <1>2, IntegersInOrder, InOrderLists
<1>4. \A k, m \in 1..n : k # m => ordered[k] # ordered[m]
  <2> HIDE DEF n, ordered, sites
  <2>1. \A k, m \in 1..n : k < m => ordered[k] < ordered[m]
    BY <1>3 DEF Increasing
  <2>2. \A k \in 1..n : ordered[k] \in Int
    BY <1>2, <1>3
  <2> QED BY <1>3, <2>1, <2>2
<1>5. \A s \in sites : /\ IsFiniteSet(Missing(rows, s))
                       /\ (Max(TimesOf(rows, s)) - Min(TimesOf(rows, s)) + 1)
                            - Cardinality({r \in rows : r.site = s}) = Cardinality(Missing(rows, s))
  BY MissingOfSite
<1> HIDE DEF n, ordered
<1>6. ASSUME NEW k \in 1..n
      PROVE  IsFiniteSet(part[k]) /\ Cardinality(part[k]) = term[k] /\ term[k] \in Int
  <2> DEFINE s == ordered[k]
             M == Missing(rows, s)
  <2>1. s \in sites
    BY <1>3
  <2>2. IsFiniteSet(M) /\ term[k] = Cardinality(M)
    BY <1>5, <2>1
  <2>3. part[k] = {s} \X M
    OBVIOUS
  <2> HIDE DEF s, M, term, part
  <2>4. IsFiniteSet({s}) /\ Cardinality({s}) = 1
    BY FS_Singleton
  <2>5. IsFiniteSet({s} \X M) /\ Cardinality({s} \X M) = 1 * Cardinality(M) /\ Cardinality(M) \in Nat
    BY <2>2, <2>4, FS_Product, FS_CardinalityType
  <2> QED BY <2>2, <2>3, <2>5
<1>7. \A k, m \in 1..n : k # m => part[k] \cap part[m] = {}
  BY <1>4
<1>8. UNION {part[k] : k \in 1..n} = gaps
  <2>1. \A x : x \in UNION {part[k] : k \in 1..n}
                 <=> \E k \in 1..n : \E h \in Missing(rows, ordered[k]) : x = <<ordered[k], h>>
    OBVIOUS
  <2>2. ASSUME NEW k \in 1..n, NEW h \in Missing(rows, ordered[k]) PROVE <<ordered[k], h>> \in gaps
    <3> DEFINE s == ordered[k]
               T == TimesOf(rows, s)
    <3>1. s \in sites
      BY <1>3
    <3>2. T \subseteq Int /\ Min(T) \in T /\ Max(T) \in T /\ \A t \in T : Min(T) <= t /\ t <= Max(T)
      BY <3>1, MissingOfSite
    <3>3. h \in Min(T)..Max(T) /\ h \notin T
      BY DEF Missing
    <3> HIDE DEF s
    <3>4. PICK q \in rows : q.site = s /\ q.t = Min(T)
      BY <3>2 DEF TimesOf
    <3>5. PICK v \in rows : v.site = s /\ v.t = Max(T)
      BY <3>2 DEF TimesOf
    <3>6. q.t < h /\ h < v.t /\ h \in Int
      <4> HIDE DEF T
      <4>1. Min(T) \in Int /\ Max(T) \in Int
        BY <3>2
      <4>2. h # Min(T) /\ h # Max(T)
        BY <3>2, <3>3
      <4> QED BY <3>3, <3>4, <3>5, <4>1, <4>2
    <3>7. \A r \in rows : r.site # s \/ r.t # h
      BY <3>3 DEF TimesOf
    <3>8. s \in Sites
      BY <3>4 DEF Logged
    <3>9. h \in Min(HoursOf(rows))..Max(HoursOf(rows))
      <4>1. IsFiniteSet(HoursOf(rows)) /\ HoursOf(rows) \subseteq Int /\ HoursOf(rows) # {}
        BY TimesAreHours
      <4>2. Min(HoursOf(rows)) <= q.t /\ v.t <= Max(HoursOf(rows))
            /\ Min(HoursOf(rows)) \in Int /\ Max(HoursOf(rows)) \in Int /\ q.t \in Int /\ v.t \in Int
        <5>1. q.t \in HoursOf(rows) /\ v.t \in HoursOf(rows)
          BY <3>4, <3>5 DEF HoursOf
        <5> QED BY <4>1, <5>1, Extremes
      <4> QED BY <3>6, <4>2
    <3>10. <<s, h>> \in gaps
      BY <3>4, <3>5, <3>6, <3>7, <3>8, <3>9
    <3> QED BY <3>10 DEF s
  <2>3. ASSUME NEW p \in gaps
        PROVE  \E k \in 1..n : \E h \in Missing(rows, ordered[k]) : p = <<ordered[k], h>>
    <3> DEFINE s == p[1]
               h == p[2]
               T == TimesOf(rows, s)
    <3>1. PICK q \in rows, v \in rows : q.site = s /\ v.site = s /\ q.t < h /\ h < v.t
      OBVIOUS
    <3>2. \A r \in rows : r.site # s \/ r.t # h
      OBVIOUS
    <3>3. p = <<s, h>> /\ h \in Int
      <4>1. p \in Sites \X (Min(HoursOf(rows))..Max(HoursOf(rows)))
        OBVIOUS
      <4> QED BY <4>1
    <3> HIDE DEF s, h
    <3>4. s \in sites
      BY <3>1 DEF SitesOf
    <3>5. T \subseteq Int /\ Min(T) \in T /\ Max(T) \in T /\ \A t \in T : Min(T) <= t /\ t <= Max(T)
      BY <3>4, MissingOfSite
    <3>6. q.t \in T /\ v.t \in T /\ h \notin T
      BY <3>1, <3>2 DEF TimesOf
    <3>7. h \in Min(T)..Max(T)
      <4> HIDE DEF T
      <4>1. Min(T) \in Int /\ Max(T) \in Int /\ q.t \in Int /\ v.t \in Int /\ Min(T) <= q.t /\ v.t <= Max(T)
        BY <3>5, <3>6
      <4> QED BY <3>1, <3>3, <4>1
    <3>8. h \in Missing(rows, s)
      BY <3>6, <3>7 DEF Missing
    <3>9. PICK k \in 1..n : ordered[k] = s
      BY <1>3, <3>4
    <3> QED BY <3>3, <3>8, <3>9
  <2> HIDE DEF part, gaps
  <2> QED BY <2>1, <2>2, <2>3
<1>9. sum[0] = 0 /\ \A k \in 1..n : sum[k] = sum[k - 1] + term[k]
  <2>1. \A k \in 1..n : term[k] \in Int
    BY <1>6
  <2> HIDE DEF term
  <2>2. \A f : f = sum => f[0] = 0 /\ \A k \in 1..n : f[k] = f[k - 1] + term[k]
    BY <1>3, <2>1, SumExists
  <2> QED BY <2>2
<1> HIDE DEF sum
<1>10. \A k \in 1..n : sum[k] = sum[k - 1] + Cardinality(part[k])
  BY <1>6, <1>9
<1>11. \A k \in 1..n : IsFiniteSet(part[k])
  BY <1>6
<1> HIDE DEF part, gaps, term
<1>12. Cardinality(gaps) = sum[n]
  <2>1. Cardinality(UNION {part[k] : k \in 1..n}) = sum[n]
    <3>1. AreParts(part, n) /\ AreSums(sum, part, n)
      BY <1>7, <1>9, <1>10, <1>11 DEF AreParts, AreSums
    <3> QED BY <1>3, <3>1, PartsAddUp
  <2> QED BY <1>8, <2>1
<1> QED BY <1>1, <1>12 DEF gaps

\* The later of two hours.
LEMMA LaterOfTwo ==
  ASSUME NEW a \in Int, NEW b \in Int
  PROVE  Max({a, b}) = IF a >= b THEN a ELSE b
<1>1. \E x \in {a, b} : \A y \in {a, b} : x >= y
  OBVIOUS
<1>2. Max({a, b}) \in {a, b} /\ \A y \in {a, b} : Max({a, b}) >= y
  BY <1>1 DEF Max
<1> QED BY <1>2

\* Windows no further apart than they are long leave no hour of the log out.
LEMMA WindowsCover ==
  ASSUME NEW first \in Int, NEW last \in Int, first <= last, NEW step \in Nat \ {0}
  PROVE  /\ last \in Ends(first, last, step)
         /\ \A e \in Ends(first, last, step) : e \in Int /\ first <= e /\ e <= last
         /\ \E e \in Ends(first, last, step) : e - Window <= first
         /\ step <= Window => \A t \in first..last : \E e \in Ends(first, last, step) : t <= e /\ e - Window <= t
<1> DEFINE E == Ends(first, last, step)
<1>1. Window \in Nat \ {0}
  BY MonitoringAssumption
<1>2. CASE first + Window >= last
  BY <1>1, <1>2 DEF Ends
<1>3. CASE first + Window < last
  <2>1. E = {e \in first + Window..last : \E k \in 0..last - first : e = first + Window + k * step} \cup {last}
    BY <1>1, <1>3 DEF Ends
  <2> HIDE DEF E
  <2>2. \A e \in E : e \in Int /\ first <= e /\ e <= last
    BY <1>1, <2>1
  <2>3. first + Window \in E
    <3>1. 0 \in 0..last - first /\ first + Window = first + Window + 0 * step
      BY <1>1
    <3> QED BY <1>1, <1>3, <2>1, <3>1
  <2>4. ASSUME step <= Window, NEW t \in first..last PROVE \E e \in E : t <= e /\ e - Window <= t
    <3>1. CASE t <= first + Window
      BY <1>1, <2>3, <3>1
    <3>2. CASE t > first + Window
      <4> DEFINE d == t - first - Window
                 K == {k \in 0..d : k * step >= d}
      <4>1. d \in Nat \ {0}
        BY <1>1, <3>2
      <4>2. d <= last - first
        BY <1>1
      <4>3. t = first + Window + d
        BY <1>1
      <4> HIDE DEF d
      <4>4. d \in K
        BY <4>1
      <4>5. IsFiniteSet(K) /\ K \subseteq Int
        <5>1. IsFiniteSet(0..d)
          BY <4>1, FS_Interval
        <5>2. K \in SUBSET (0..d) /\ K \subseteq Int
          BY <4>1
        <5> HIDE DEF K
        <5> QED BY <5>1, <5>2, FS_Subset
      <4> DEFINE k == Min(K)
      <4>6. k \in K /\ \A m \in K : k <= m
        BY <4>4, <4>5, Extremes
      <4> HIDE DEF K
      <4>7. k \in 0..d /\ k * step >= d
        BY <4>6 DEF K
      <4> HIDE DEF k
      <4>8. k * step \in Int
        BY <4>1, <4>7
      <4>9. k # 0
        BY <4>1, <4>7
      <4>10. (k - 1) * step = k * step - step
        BY <4>1, <4>7
      <4>11. k - 1 \in 0..d /\ k - 1 \notin K
        BY <4>1, <4>6, <4>7, <4>9
      <4>12. (k - 1) * step < d
        BY <4>1, <4>8, <4>10, <4>11 DEF K
      <4> DEFINE reach == k * step
                 e == first + Window + reach
      <4>13. reach \in Int /\ reach >= d /\ reach - step < d
        BY <4>7, <4>8, <4>10, <4>12
      <4>14. k \in 0..last - first
        BY <4>1, <4>2, <4>7
      <4>15. e <= last => e \in E
        <5> HIDE DEF reach
        <5>1. e <= last => e \in first + Window..last
          BY <1>1, <4>1, <4>13
        <5> QED BY <2>1, <4>14, <5>1 DEF reach
      <4> HIDE DEF reach
      <4>16. t <= e /\ e - Window <= t /\ e \in Int
        BY <1>1, <2>4, <4>1, <4>3, <4>13
      <4>17. CASE e <= last
        BY <4>15, <4>16, <4>17
      <4>18. CASE e > last
        <5>1. last \in E /\ t <= last /\ last - Window <= t
          BY <1>1, <2>1, <4>16, <4>18
        <5> QED BY <5>1
      <4> HIDE DEF e
      <4> QED BY <4>16, <4>17, <4>18
    <3> QED BY <1>1, <3>1, <3>2
  <2>5. last \in E
    BY <2>1
  <2>6. \E e \in E : e - Window <= first
    <3>1. (first + Window) - Window <= first
      BY <1>1
    <3> QED BY <2>3, <3>1
  <2>7. step <= Window => \A t \in first..last : \E e \in E : t <= e /\ e - Window <= t
    BY <2>4
  <2> QED BY <2>2, <2>5, <2>6, <2>7 DEF E
<1> QED BY <1>1, <1>2, <1>3

\* Every event that lies between the predictions at a site is counted, and counted once.
LEMMA EventsOfZones ==
  ASSUME NEW rows \in SUBSET Logged, IsFiniteSet(rows), rows # {}, NEW events, IsCatalog(events), Mapped(events)
  PROVE  Evaluated(rows, events, Eligible(rows, events)).counted =
           Cardinality({i \in DOMAIN events :
             /\ events[i].conf \in {"A", "B"} /\ events[i].prec = "exact"
             /\ Min(HoursOf(rows)) <= events[i].onset /\ events[i].onset <= Max(HoursOf(rows))
             /\ \E q \in rows : ZoneOf[q.site] = events[i].zone})
<1> DEFINE S == Eligible(rows, events)
           P == UNION {{<<s, i>> : i \in Confirmed(events, S, s)} : s \in Sites}
           C == {i \in DOMAIN events :
             /\ events[i].conf \in {"A", "B"} /\ events[i].prec = "exact"
             /\ Min(HoursOf(rows)) <= events[i].onset /\ events[i].onset <= Max(HoursOf(rows))
             /\ \E q \in rows : ZoneOf[q.site] = events[i].zone}
           f == [p \in P |-> p[2]]
<1>1. Evaluated(rows, events, S).counted = Cardinality(P)
  BY DEF Evaluated
<1>2. \A i \in C : events[i].onset # None
  BY DEF IsCatalog
<1>3. IsFiniteSet(C)
  <2> HIDE DEF C
  <2>1. C \in SUBSET DOMAIN events
    BY DEF C
  <2> QED BY <1>2, <2>1, OnsetsInOrder
<1>4. \A q \in rows : q.site \in Sites
  BY DEF Logged
<1>5. \A p : p \in P <=> \E s \in Sites : \E i \in Confirmed(events, S, s) : p = <<s, i>>
  OBVIOUS
<1>6. ASSUME NEW s \in Sites, NEW i \in Confirmed(events, S, s)
      PROVE  i \in C /\ ZoneOf[s] = events[i].zone
  <2>1. /\ i \in S /\ events[i].zone = ZoneOf[s]
        /\ events[i].conf \in {"A", "B"} /\ events[i].prec = "exact"
    BY DEF Confirmed
  <2>2. \E q \in rows : ZoneOf[q.site] = events[i].zone
    BY <2>1 DEF Eligible, SitesOf
  <2> QED BY <2>1, <2>2 DEF Eligible, Onsets, HoursOf
<1>7. ASSUME NEW i \in C PROVE \E s \in Sites : i \in Confirmed(events, S, s)
  <2>1. PICK q \in rows : ZoneOf[q.site] = events[i].zone
    OBVIOUS
  <2>2. q.site \in SitesOf(rows) /\ q.site \in Sites
    BY <1>4 DEF SitesOf
  <2>3. i \in S
    BY <1>2, <2>1, <2>2 DEF Eligible, Onsets, HoursOf
  <2> QED BY <2>1, <2>2, <2>3 DEF Confirmed
<1> HIDE DEF P, C, S
<1>8. f \in [P -> C]
  BY <1>5, <1>6
<1>9. ASSUME NEW p \in P, NEW r \in P, f[p] = f[r] PROVE p = r
  <2>1. PICK s \in Sites : \E i \in Confirmed(events, S, s) : p = <<s, i>>
    BY <1>5
  <2>2. PICK i \in Confirmed(events, S, s) : p = <<s, i>>
    BY <2>1
  <2>3. PICK v \in Sites : \E k \in Confirmed(events, S, v) : r = <<v, k>>
    BY <1>5
  <2>4. PICK k \in Confirmed(events, S, v) : r = <<v, k>>
    BY <2>3
  <2>5. i = k
    BY <1>9, <2>2, <2>4
  <2>6. ZoneOf[s] = ZoneOf[v]
    BY <1>6, <2>5
  <2>7. s = v
    BY <2>6 DEF Mapped
  <2> QED BY <2>2, <2>4, <2>5, <2>7
<1>10. ASSUME NEW i \in C PROVE \E p \in P : f[p] = i
  <2>1. PICK s \in Sites : i \in Confirmed(events, S, s)
    BY <1>7
  <2>2. <<s, i>> \in P
    BY <1>5, <2>1
  <2> QED BY <2>2
<1> HIDE DEF f
<1>11. f \in Injection(P, C) /\ f \in Surjection(P, C)
  BY <1>8, <1>9, <1>10, Fun_IsInj, Fun_IsSurj
<1>12. Cardinality(P) = Cardinality(C)
  BY <1>3, <1>11, FS_Injection
<1> QED BY <1>1, <1>12 DEF S, C

LEMMA DelayedIsComplete ==
  ASSUME NEW w, IsLog(w.read), Parses(w.read), Unique(w.read), w.step \in Steps,
         w.evaluated \in DOMAIN Reviewed, Mapped(Reviewed[w.evaluated])
  PROVE  Complete(DelayedReport(w))
<1> DEFINE rows == ToSet(w.read.rows)
           events == Reviewed[w.evaluated]
           step == w.step
           first == Min(HoursOf(rows))
           last == Max(HoursOf(rows))
           from(e) == Max({first, e - Window})
           E == Ends(first, last, step)
           rolling == Rolling(rows, events, step)
           eligible == Eligible(rows, events)
           rolled(t) == \E v \in rolling : v.from <= t /\ t <= v.to
<1>1. IsFiniteSet(rows) /\ rows # {} /\ rows \in SUBSET Logged
  BY LogRows
<1>2. \A r, q \in rows : r.site = q.site /\ r.t = q.t => r = q
  BY OneRowEach
<1>3. step \in Nat \ {0} /\ Window \in Nat \ {0}
  BY MonitoringAssumption
<1>21. IsCatalog(events) /\ Mapped(events)
  BY MonitoringAssumption
<1> HIDE DEF rows, events, step
<1>4. IsFiniteSet(HoursOf(rows)) /\ HoursOf(rows) \subseteq Int /\ HoursOf(rows) # {}
  BY <1>1, TimesAreHours
<1>5. first \in Int /\ last \in Int /\ \A t \in HoursOf(rows) : t \in Int /\ first <= t /\ t <= last
  BY <1>4, Extremes
<1>6. first <= last
  BY <1>4, <1>5
<1>7. /\ \A e \in E : \E v \in rolling : v.from = from(e) /\ v.to = e
      /\ \A v \in rolling : \E e \in E : v.from = from(e) /\ v.to = e
  <2> DEFINE window(e) == [from |-> from(e), to |-> e,
       metrics |-> Evaluated(Within(rows, from(e), e), events, Onsets(events, eligible, from(e), e))]
  <2>1. rolling = {window(e) : e \in E}
    BY DEF Rolling, HoursOf
  <2>2. \A e : window(e).from = from(e) /\ window(e).to = e
    OBVIOUS
  <2> HIDE DEF rolling, E, window, from
  <2> QED BY <2>1, <2>2
<1>8. /\ last \in E
      /\ \A e \in E : e \in Int /\ first <= e /\ e <= last
      /\ \E e \in E : e - Window <= first
      /\ step <= Window => \A t \in first..last : \E e \in E : t <= e /\ e - Window <= t
  <2> HIDE DEF first, last
  <2> QED BY <1>3, <1>5, <1>6, WindowsCover
<1> HIDE DEF first, last, E, rolling
<1>9. \A e \in E : from(e) = IF first >= e - Window THEN first ELSE e - Window
  <2>1. \A e \in E : e - Window \in Int
    BY <1>3, <1>8
  <2>2. \A a, b \in Int : Max({a, b}) = IF a >= b THEN a ELSE b
    BY LaterOfTwo
  <2> QED BY <1>5, <2>1, <2>2
<1> HIDE DEF from
<1>10. \E v \in rolling : v.from = first
  <2>1. PICK e \in E : e - Window <= first
    BY <1>8
  <2>2. from(e) = first
    BY <1>3, <1>5, <1>8, <1>9, <2>1
  <2> QED BY <1>7, <2>2
<1>11. \E v \in rolling : v.to = last
  BY <1>7, <1>8
<1>12. \A v \in rolling : first <= v.from /\ v.to <= last
  <2> TAKE v \in rolling
  <2>1. PICK e \in E : v.from = from(e) /\ v.to = e
    BY <1>7
  <2> QED BY <1>3, <1>5, <1>8, <1>9, <2>1
<1>13. ASSUME step <= Window, NEW t \in Int, first <= t, t <= last PROVE rolled(t)
  <2>1. PICK e \in E : t <= e /\ e - Window <= t
    BY <1>5, <1>8, <1>13
  <2>2. PICK v \in rolling : v.from = from(e) /\ v.to = e
    BY <1>7
  <2>3. v.from <= t /\ t <= v.to
    BY <1>3, <1>5, <1>8, <1>9, <1>13, <2>1, <2>2
  <2> QED BY <2>3
<1>14. \A i \in eligible : events[i].onset \in Int /\ first <= events[i].onset /\ events[i].onset <= last
  <2> TAKE i \in eligible
  <2>1. i \in DOMAIN events /\ events[i].onset # None /\ first <= events[i].onset /\ events[i].onset <= last
    BY DEF Eligible, Onsets, HoursOf, first, last
  <2> QED BY <1>21, <2>1 DEF IsCatalog
<1>15. \A q \in rows : q.t \in Int /\ first <= q.t /\ q.t <= last
  BY <1>5 DEF HoursOf
<1>16. step <= Window => (\A i \in eligible : rolled(events[i].onset)) /\ \A q \in rows : rolled(q.t)
  <2> HIDE DEF rolled, eligible
  <2> QED BY <1>13, <1>14, <1>15
<1> DEFINE r == DelayedReport(w)
<1>17. /\ r.read = w.read /\ Reviewed[r.evaluated] = events /\ r.step = step /\ r.rolling = rolling /\ r.eligible = eligible
       /\ r.total = Evaluated(rows, events, eligible) /\ r.missing = MissingHours(rows)
  BY DEF DelayedReport, rows, events, step, rolling
<1> HIDE DEF r, eligible
<1>18. r.total.counted =
          Cardinality({i \in DOMAIN events :
            /\ events[i].conf \in {"A", "B"} /\ events[i].prec = "exact"
            /\ first <= events[i].onset /\ events[i].onset <= last
            /\ \E q \in rows : ZoneOf[q.site] = events[i].zone})
  BY <1>1, <1>17, <1>21, EventsOfZones DEF eligible, first, last
<1>19. r.missing = Cardinality({p \in Sites \X (first..last) :
            /\ \A q \in rows : q.site # p[1] \/ q.t # p[2]
            /\ \E q, n \in rows : q.site = p[1] /\ n.site = p[1] /\ q.t < p[2] /\ p[2] < n.t})
  BY <1>1, <1>2, <1>17, MissingIsCounted DEF first, last
<1>20. Complete(r)
  <2> DEFINE logged == ToSet(r.read.rows)
             catalog1 == Reviewed[r.evaluated]
             start == Min({q.t : q \in logged})
             end == Max({q.t : q \in logged})
             counted == {i \in DOMAIN catalog1 :
               /\ catalog1[i].conf \in {"A", "B"} /\ catalog1[i].prec = "exact"
               /\ start <= catalog1[i].onset /\ catalog1[i].onset <= end
               /\ \E q \in logged : ZoneOf[q.site] = catalog1[i].zone}
             gaps == {p \in Sites \X (start..end) :
               /\ \A q \in logged : q.site # p[1] \/ q.t # p[2]
               /\ \E q, n \in logged : q.site = p[1] /\ n.site = p[1] /\ q.t < p[2] /\ p[2] < n.t}
  <2>1. Complete(r) =
          (/\ \E v \in r.rolling : v.from = start
           /\ \E v \in r.rolling : v.to = end
           /\ \A v \in r.rolling : start <= v.from /\ v.to <= end
           /\ r.step <= Window =>
                /\ \A i \in r.eligible : \E v \in r.rolling : v.from <= catalog1[i].onset /\ catalog1[i].onset <= v.to
                /\ \A q \in logged : \E v \in r.rolling : v.from <= q.t /\ q.t <= v.to
           /\ r.total.counted = Cardinality(counted) /\ r.missing = Cardinality(gaps))
    BY DEF Complete
  <2>2. logged = rows /\ catalog1 = events
    BY <1>17 DEF rows
  <2> HIDE DEF logged, catalog1
  <2>3. start = first /\ end = last
    BY <2>2 DEF first, last, HoursOf
  <2> HIDE DEF start, end
  <2>4. r.total.counted = Cardinality(counted) /\ r.missing = Cardinality(gaps)
    BY <1>17, <1>18, <1>19, <2>2, <2>3
  <2> HIDE DEF counted, gaps
  <2> QED BY <1>10, <1>11, <1>12, <1>16, <1>17, <2>1, <2>2, <2>3, <2>4
<1> QED BY <1>20 DEF r
-----------------------------------------------------------------------------
(* The log and the jobs *)

Good(r) == Sourced(r) /\ (r.kind = "delayed" => Complete(r) /\ r.evaluated <= r.named)

\* What a delayed evaluation was made from.
Evaluable(w) ==
  /\ IsLog(w.read) /\ Parses(w.read) /\ Unique(w.read) /\ w.step \in Steps
  /\ IsPrefix(w.read.rows, w.source.rows)

\* A job that has read the log holds a beginning of it, and a catalogue no later than the
\* current one.
Working(w, log, current) ==
  /\ w.at = "hash" =>
       /\ w.kind \in {"aggregate", "drift", "delayed"}
       /\ IsLog(w.read) /\ Parses(w.read) /\ IsPrefix(w.read.rows, log.rows)
       /\ w.kind = "delayed" => Unique(w.read) /\ w.step \in Steps
  /\ w.at = "catalog" => Evaluable(w)
  /\ w.at = "evaluate" =>
       /\ Evaluable(w) /\ w.evaluated \in DOMAIN Reviewed
       /\ Mapped(Reviewed[w.evaluated]) /\ w.evaluated <= current
  /\ w.at \in {"report", "checksum"} => Good(w.made)

LogInv ==
  /\ asked \in 0..Len(Due) /\ version \in DOMAIN Reviewed
  /\ IsLog(audit)

JobsInv == job = [j \in Reports |-> job[j]] /\ \A j \in Reports : Working(job[j], audit, version)

OutInv ==
  /\ out = [report |-> out.report, checksum |-> out.checksum]
  /\ out.report = None \/ Good(out.report)

\* Unless jobs overlapped or were killed between the two files, at most one is there, and it
\* alone knows what the checksum is still to become.
PairInv ==
  ~apart => /\ \A i, j \in Reports : Between(i) /\ Between(j) => i = j
            /\ \A j \in Reports : Between(j) => out.report = job[j].made
            /\ (\A j \in Reports : ~Between(j)) => out.report = out.checksum

MonitorInv == LogInv /\ JobsInv /\ OutInv /\ PairInv

LEMMA MonitorInitially == MonitorInit => MonitorInv
<1> SUFFICES ASSUME MonitorInit PROVE MonitorInv
  OBVIOUS
<1>1. LogInv
  <2>1. Len(Due) \in Nat /\ 1 \in DOMAIN Reviewed
    BY MonitoringAssumption
  <2> QED BY <2>1 DEF MonitorInit, LogInv, IsLog
<1>2. JobsInv
  BY DEF MonitorInit, JobsInv, Working
<1>3. OutInv
  BY DEF MonitorInit, OutInv
<1>4. PairInv
  BY DEF MonitorInit, PairInv, Between
<1> QED BY <1>1, <1>2, <1>3, <1>4 DEF MonitorInv

\* A longer log still begins with what a job has read.
LEMMA PrefixGrows ==
  ASSUME NEW S, NEW s \in Seq(S), NEW t \in Seq(S), NEW x \in S, IsPrefix(s, t)
  PROVE  IsPrefix(s, Append(t, x))
<1>1. Len(s) <= Len(t) /\ Len(Append(t, x)) = Len(t) + 1
  BY DEF IsPrefix
<1>2. SubSeq(Append(t, x), 1, Len(s)) = SubSeq(t, 1, Len(s))
  BY <1>1
<1> QED BY <1>1, <1>2 DEF IsPrefix

LEMMA RowLogged ==
  ASSUME MonitorInv, NEW x \in Logged, audit'.rows = Append(audit.rows, x),
         audit' = [audit EXCEPT !.rows = audit'.rows, !.served = audit'.served, !.extra = audit'.extra],
         UNCHANGED <<version, job, out, apart>>, asked' \in 0..Len(Due)
  PROVE  MonitorInv'
<1>1. audit.rows \in Seq(Logged) /\ "rows" \in DOMAIN audit
  BY DEF MonitorInv, LogInv, IsLog
<1>2. IsLog(audit')
  <2>1. "rows" \in DOMAIN audit'
    BY <1>1
  <2>2. audit'.rows \in Seq(Logged)
    BY <1>1
  <2> QED BY <2>1, <2>2 DEF IsLog
<1>3. \A w : Working(w, audit, version) => Working(w, audit', version')
  <2> SUFFICES ASSUME NEW w, Working(w, audit, version) PROVE Working(w, audit', version')
    OBVIOUS
  <2>1. w.at = "hash" => IsPrefix(w.read.rows, Append(audit.rows, x))
    <3> SUFFICES ASSUME w.at = "hash" PROVE IsPrefix(w.read.rows, Append(audit.rows, x))
      OBVIOUS
    <3>1. w.read.rows \in Seq(Logged) /\ IsPrefix(w.read.rows, audit.rows)
      BY DEF Working, IsLog
    <3> QED BY <1>1, <3>1, PrefixGrows
  <2> QED BY <2>1 DEF Working
<1>4. LogInv' /\ JobsInv'
  BY <1>2, <1>3 DEF MonitorInv, LogInv, JobsInv
<1>5. OutInv' /\ PairInv'
  BY DEF MonitorInv, OutInv, PairInv, Between
<1> QED BY <1>4, <1>5 DEF MonitorInv

LEMMA LogKept ==
  ASSUME MonitorInv, audit'.rows = audit.rows, IsLog(audit'), UNCHANGED <<job, out, apart>>,
         asked' \in 0..Len(Due), version \in DOMAIN Reviewed, version' \in DOMAIN Reviewed,
         version <= version'
  PROVE  MonitorInv'
<1>1. LogInv' /\ JobsInv'
  <2>1. LogInv'
    BY DEF LogInv
  <2>2. version \in Int /\ version' \in Int /\ \A i \in DOMAIN Reviewed : i \in Int
    BY MonitoringAssumption
  <2>3. \A w : Working(w, audit, version) => Working(w, audit', version')
    BY <2>2 DEF Working
  <2> QED BY <2>1, <2>3 DEF MonitorInv, JobsInv
<1>2. OutInv' /\ PairInv'
  BY DEF MonitorInv, OutInv, PairInv, Between
<1> QED BY <1>1, <1>2 DEF MonitorInv

LEMMA ServeKeeps == ASSUME MonitorInv, NEW level \in {0, 1}, Serve(level) PROVE MonitorInv'
<1> DEFINE x == [id |-> asked', site |-> Due[asked'][1], t |-> Due[asked'][2], level |-> level]
<1>1. asked' \in 1..Len(Due) /\ asked' \in Nat
  BY MonitoringAssumption DEF MonitorInv, LogInv, Serve
<1>2. x \in Logged
  BY <1>1, MonitoringAssumption DEF Logged
<1>3. audit' = [audit EXCEPT !.served = @ + 1, !.rows = Append(@, x)] /\ UNCHANGED <<version, job, out, apart>>
  BY DEF Serve
<1> HIDE DEF x
<1>4. audit.rows \in Seq(Logged) /\ "rows" \in DOMAIN audit
  BY DEF MonitorInv, LogInv, IsLog
<1>5. audit'.rows = Append(audit.rows, x)
  BY <1>3, <1>4
<1>6. audit' = [audit EXCEPT !.rows = audit'.rows, !.served = audit'.served, !.extra = audit'.extra]
  BY <1>3, <1>4
<1> QED BY <1>1, <1>2, <1>3, <1>5, <1>6, RowLogged

LEMMA RepeatKeeps == ASSUME MonitorInv, RepeatRequest PROVE MonitorInv'
<1>1. PICK id \in {Last(audit.rows).id, Len(Due) + 1} :
        audit' = [audit EXCEPT !.rows = Append(@, [Last(@) EXCEPT !.id = id]), !.served = @ + 1, !.extra = @ + 1]
  BY DEF RepeatRequest
<1> DEFINE x == [Last(audit.rows) EXCEPT !.id = id]
<1>2. audit.rows \in Seq(Logged) /\ "rows" \in DOMAIN audit /\ audit.rows # <<>>
  BY DEF MonitorInv, LogInv, IsLog, RepeatRequest
<1>3. Last(audit.rows) \in Logged
  BY <1>2 DEF Last
<1>4. x \in Logged
  <2>1. id \in Int
    BY <1>3, MonitoringAssumption DEF Logged
  <2> QED BY <1>3, <2>1 DEF Logged
<1>5. UNCHANGED <<version, job, out, apart>> /\ asked' \in 0..Len(Due)
  BY DEF RepeatRequest, MonitorInv, LogInv
<1> HIDE DEF x
<1>6. audit'.rows = Append(audit.rows, x)
  BY <1>1, <1>2 DEF x
<1>7. audit' = [audit EXCEPT !.rows = audit'.rows, !.served = audit'.served, !.extra = audit'.extra]
  BY <1>1, <1>2
<1> QED BY <1>4, <1>5, <1>6, <1>7, RowLogged

LEMMA OtherRequestsKeep ==
  ASSUME MonitorInv, Skip \/ RefuseRequest \/ BreakRequest \/ Review PROVE MonitorInv'
<1>1. Len(Due) \in Nat /\ asked \in 0..Len(Due) /\ version \in DOMAIN Reviewed
      /\ Len(Reviewed) \in Nat /\ DOMAIN Reviewed = 1..Len(Reviewed)
  BY MonitoringAssumption DEF MonitorInv, LogInv
<1>2. asked' \in 0..Len(Due) /\ version' \in DOMAIN Reviewed /\ version <= version' /\ UNCHANGED <<job, out, apart>>
  BY <1>1 DEF Skip, RefuseRequest, BreakRequest, Review
<1>3. audit'.rows = audit.rows /\ IsLog(audit')
  <2>1. audit.rows \in Seq(Logged) /\ "rows" \in DOMAIN audit
    BY DEF MonitorInv, LogInv, IsLog
  <2>2. CASE Skip \/ Review
    BY <2>1, <2>2 DEF Skip, Review, IsLog
  <2>3. CASE RefuseRequest
    <3>1. audit' = [audit EXCEPT !.refused = @ + 1]
      BY <2>3 DEF RefuseRequest
    <3> QED BY <2>1, <3>1 DEF IsLog
  <2>4. CASE BreakRequest
    <3>1. audit' = [audit EXCEPT !.broken = @ + 1]
      BY <2>4 DEF BreakRequest
    <3> QED BY <2>1, <3>1 DEF IsLog
  <2> QED BY <2>2, <2>3, <2>4
<1> QED BY <1>1, <1>2, <1>3, LogKept

\* A job's step that leaves the files alone.
LEMMA JobMoves ==
  ASSUME MonitorInv, NEW j \in Reports, NEW w, Go(j, w), Log, UNCHANGED out,
         Working(w, audit, version), w.at # "checksum",
         ~apart' => ~apart /\ job[j].at # "checksum"
  PROVE  MonitorInv'
<1>1. LogInv' /\ OutInv'
  BY DEF MonitorInv, LogInv, OutInv, Log
<1>2. job' = [i \in Reports |-> IF i = j THEN w ELSE job[i]]
  BY DEF MonitorInv, JobsInv, Go
<1>3. JobsInv'
  BY <1>2 DEF MonitorInv, JobsInv, Log
<1>4. PairInv'
  BY <1>2 DEF MonitorInv, PairInv, Between
<1> QED BY <1>1, <1>3, <1>4 DEF MonitorInv

LEMMA ReadLogKeeps ==
  ASSUME MonitorInv, NEW j \in Reports, NEW kind \in {"aggregate", "drift", "delayed"}, NEW step,
         kind = "delayed" => step \in Steps, ReadLog(j, kind, step)
  PROVE  MonitorInv'
<1> DEFINE w == [at |-> "hash", kind |-> kind, step |-> step, read |-> audit]
<1>1. IsLog(audit) /\ IsPrefix(audit.rows, audit.rows)
  BY DEF MonitorInv, LogInv, IsLog, IsPrefix
<1>2. Working(w, audit, version) /\ w.at # "checksum"
  BY <1>1 DEF Working, ReadLog
<1>3. ~apart' => ~apart /\ job[j].at # "checksum"
  BY DEF ReadLog
<1> QED BY <1>2, <1>3, JobMoves DEF ReadLog

LEMMA HashLogKeeps == ASSUME MonitorInv, NEW j \in Reports, HashLog(j) PROVE MonitorInv'
<1>1. Working(job[j], audit, version) /\ job[j].at = "hash" /\ Log /\ UNCHANGED <<out, apart>>
  BY DEF MonitorInv, JobsInv, HashLog
<1> DEFINE read == job[j].read
           w == [at |-> "report", kind |-> job[j].kind, step |-> job[j].step, read |-> read, source |-> audit]
<1>2. IsLog(read) /\ Parses(read) /\ IsPrefix(read.rows, audit.rows)
      /\ (job[j].kind = "delayed" => Unique(read) /\ job[j].step \in Steps)
  BY <1>1 DEF Working
<1>3. ~apart' => ~apart /\ job[j].at # "checksum"
  BY <1>1
<1>4. CASE job[j].kind = "aggregate" /\ Go(j, [at |-> "report", made |-> AggregateReport(w)])
  <2>1. Good(AggregateReport(w))
    BY <1>2 DEF Good, Sourced, AggregateReport
  <2>2. Working([at |-> "report", made |-> AggregateReport(w)], audit, version)
    BY <2>1 DEF Working
  <2> QED BY <1>1, <1>3, <1>4, <2>2, JobMoves
<1>5. CASE job[j].kind = "drift" /\ Go(j, [at |-> "report", made |-> DriftReport(w)])
  <2>1. Good(DriftReport(w))
    BY <1>2 DEF Good, Sourced, DriftReport
  <2>2. Working([at |-> "report", made |-> DriftReport(w)], audit, version)
    BY <2>1 DEF Working
  <2> QED BY <1>1, <1>3, <1>5, <2>2, JobMoves
<1>6. CASE job[j].kind = "delayed" /\ Go(j, [w EXCEPT !.at = "catalog"])
  <2> DEFINE v == [w EXCEPT !.at = "catalog"]
  <2>1. v.at = "catalog" /\ v.kind = job[j].kind /\ v.step = job[j].step /\ v.read = read /\ v.source = audit
    OBVIOUS
  <2> HIDE DEF v, read
  <2>2. Working(v, audit, version)
    BY <1>2, <1>6, <2>1 DEF Working, Evaluable
  <2>3. Go(j, v)
    BY <1>6 DEF v
  <2> QED BY <1>1, <1>3, <2>1, <2>2, <2>3, JobMoves
<1> QED BY <1>4, <1>5, <1>6 DEF HashLog

LEMMA ReadCatalogKeeps == ASSUME MonitorInv, NEW j \in Reports, ReadCatalog(j) PROVE MonitorInv'
<1>1. Working(job[j], audit, version) /\ job[j].at = "catalog" /\ Log /\ UNCHANGED <<out, apart>>
  BY DEF MonitorInv, JobsInv, ReadCatalog
<1> DEFINE w == [at |-> "evaluate", step |-> job[j].step, read |-> job[j].read, source |-> job[j].source,
                 evaluated |-> version]
<1>2. Evaluable(w)
  BY <1>1 DEF Working, Evaluable
<1>3. version \in DOMAIN Reviewed /\ version <= version /\ Mapped(Reviewed[version]) /\ Go(j, w)
  BY MonitoringAssumption DEF MonitorInv, LogInv, ReadCatalog
<1>4. w.at = "evaluate" /\ w.evaluated = version
  OBVIOUS
<1> HIDE DEF w
<1>5. Working(w, audit, version)
  BY <1>2, <1>3, <1>4 DEF Working
<1> QED BY <1>1, <1>3, <1>4, <1>5, JobMoves

LEMMA HashCatalogKeeps == ASSUME MonitorInv, NEW j \in Reports, HashCatalog(j) PROVE MonitorInv'
<1>1. Working(job[j], audit, version) /\ job[j].at = "evaluate" /\ Log /\ UNCHANGED <<out, apart>>
  BY DEF MonitorInv, JobsInv, HashCatalog
<1> DEFINE v == [step |-> job[j].step, read |-> job[j].read, source |-> job[j].source,
                 evaluated |-> job[j].evaluated, named |-> version]
           w == [at |-> "report", made |-> DelayedReport(v)]
<1>2. /\ IsLog(v.read) /\ Parses(v.read) /\ Unique(v.read) /\ v.step \in Steps
      /\ IsPrefix(v.read.rows, v.source.rows)
      /\ v.evaluated \in DOMAIN Reviewed /\ Mapped(Reviewed[v.evaluated]) /\ v.evaluated <= v.named
  BY <1>1 DEF Working, Evaluable
<1>3. Go(j, w)
  BY DEF HashCatalog
<1> HIDE DEF v
<1>4. Good(DelayedReport(v))
  <2>1. Complete(DelayedReport(v))
    BY <1>2, DelayedIsComplete
  <2>2. Sourced(DelayedReport(v)) /\ DelayedReport(v).evaluated <= DelayedReport(v).named
    BY <1>2 DEF Sourced, DelayedReport
  <2> QED BY <2>1, <2>2 DEF Good
<1>5. Working(w, audit, version) /\ w.at # "checksum"
  BY <1>4 DEF Working
<1> QED BY <1>1, <1>3, <1>5, JobMoves

LEMMA ReplaceReportKeeps == ASSUME MonitorInv, NEW j \in Reports, ReplaceReport(j) PROVE MonitorInv'
<1> DEFINE w == [job[j] EXCEPT !.at = "checksum"]
<1>1. Working(job[j], audit, version) /\ job[j].at = "report" /\ Log
  BY DEF MonitorInv, JobsInv, ReplaceReport
<1>2. Good(job[j].made)
  BY <1>1 DEF Working
<1>3. job' = [i \in Reports |-> IF i = j THEN w ELSE job[i]]
  BY DEF MonitorInv, JobsInv, ReplaceReport, Go
<1>4. w.made = job[j].made /\ (w.at = "checksum" \/ w.at = job[j].at)
  OBVIOUS
<1>5. out' = [report |-> job[j].made, checksum |-> out.checksum]
  BY DEF MonitorInv, OutInv, ReplaceReport
<1> HIDE DEF w
<1>6. Working(w, audit, version)
  BY <1>1, <1>2, <1>4 DEF Working
<1>7. LogInv' /\ OutInv' /\ JobsInv'
  BY <1>1, <1>2, <1>3, <1>5, <1>6 DEF MonitorInv, LogInv, OutInv, JobsInv, Log
<1>8. PairInv'
  <2> SUFFICES ASSUME ~apart'
               PROVE  /\ \A i, k \in Reports : Between(i)' /\ Between(k)' => i = k
                      /\ \A i \in Reports : Between(i)' => out'.report = job'[i].made
                      /\ (\A i \in Reports : ~Between(i)') => out'.report = out'.checksum
    BY DEF PairInv
  <2>1. \A i \in Reports : job[i].at # "checksum"
    BY DEF ReplaceReport, Between
  <2>2. w.at = "checksum"
    BY <1>1 DEF w
  <2>3. \A i \in Reports : Between(i)' <=> i = j
    BY <1>3, <2>1, <2>2 DEF Between
  <2> QED BY <1>3, <1>4, <1>5, <2>3
<1> QED BY <1>7, <1>8 DEF MonitorInv

LEMMA ReplaceChecksumKeeps == ASSUME MonitorInv, NEW j \in Reports, ReplaceChecksum(j) PROVE MonitorInv'
<1> DEFINE w == [at |-> "ended"]
<1>1. job[j].at = "checksum" /\ Log /\ UNCHANGED apart
  BY DEF ReplaceChecksum, Between
<1>2. job' = [i \in Reports |-> IF i = j THEN w ELSE job[i]]
  BY DEF MonitorInv, JobsInv, ReplaceChecksum, EndJob, Go
<1>3. out' = [report |-> out.report, checksum |-> job[j].made]
  BY DEF MonitorInv, OutInv, ReplaceChecksum
<1>4. Working(w, audit, version)
  BY DEF Working
<1>5. w.at = "ended"
  OBVIOUS
<1> HIDE DEF w
<1>6. LogInv' /\ OutInv' /\ JobsInv'
  BY <1>1, <1>2, <1>3, <1>4 DEF MonitorInv, LogInv, OutInv, JobsInv, Log
<1>7. PairInv'
  BY <1>1, <1>2, <1>3, <1>5 DEF MonitorInv, PairInv, Between
<1> QED BY <1>6, <1>7 DEF MonitorInv

LEMMA KillKeeps == ASSUME MonitorInv, NEW j \in Reports, KillJob(j) PROVE MonitorInv'
<1> DEFINE w == [at |-> "ended"]
<1>1. Working(w, audit, version) /\ w.at = "ended"
  BY DEF Working
<1>2. Go(j, w) /\ Log /\ UNCHANGED out /\ apart' = (apart \/ job[j].at = "checksum")
  BY DEF KillJob, EndJob, Between
<1> QED BY <1>1, <1>2, JobMoves

LEMMA MonitorStep == MonitorInv /\ [MonitorNext]_monitorVars => MonitorInv'
<1> SUFFICES ASSUME MonitorInv, [MonitorNext]_monitorVars PROVE MonitorInv'
  OBVIOUS
<1>1. CASE UNCHANGED monitorVars
  <2>1. UNCHANGED <<job, out, apart>> /\ audit'.rows = audit.rows /\ IsLog(audit')
        /\ asked' \in 0..Len(Due) /\ version \in DOMAIN Reviewed /\ version' = version /\ version <= version
    BY <1>1, MonitoringAssumption DEF monitorVars, MonitorInv, LogInv
  <2> QED BY <2>1, LogKept
<1>2. CASE \E level \in {0, 1} : Serve(level)
  BY <1>2, ServeKeeps
<1>3. CASE RepeatRequest
  BY <1>3, RepeatKeeps
<1>4. CASE Skip \/ RefuseRequest \/ BreakRequest \/ Review
  BY <1>4, OtherRequestsKeep
<1>5. ASSUME NEW j \in Reports,
             \/ \E kind \in {"aggregate", "drift"} : ReadLog(j, kind, 1)
             \/ \E step \in Steps : ReadLog(j, "delayed", step)
      PROVE  MonitorInv'
  BY <1>5, ReadLogKeeps
<1>6. ASSUME NEW j \in Reports, HashLog(j) \/ ReadCatalog(j) \/ HashCatalog(j) \/ ReplaceReport(j) \/ ReplaceChecksum(j) \/ KillJob(j)
      PROVE  MonitorInv'
  BY <1>6, HashLogKeeps, ReadCatalogKeeps, HashCatalogKeeps, ReplaceReportKeeps, ReplaceChecksumKeeps, KillKeeps
<1> QED BY <1>1, <1>2, <1>3, <1>4, <1>5, <1>6 DEF MonitorNext

\* The inductive invariant of the shadow service's reports, for any log, catalogue and number
\* of jobs: what a job has read begins the log, its catalogue is no later than the current
\* one, and, unless jobs overlapped there, one alone is between the two files.
THEOREM MonitorInvariance == MonitorSpec => []MonitorInv
BY MonitorInitially, MonitorStep, PTL DEF MonitorSpec

\* What a report on disk says is true: it lies beside its checksum unless jobs overlapped
\* between the two or one was killed there, its source holds every row it counted, a delayed
\* evaluation leaves nothing out of the catalogue it read, and names by its hash that
\* catalogue or a later one (write_atomic_hashed_report, build_delayed_evaluation_report).
THEOREM ReportsStayTrue == MonitorSpec => []ReportsAreTrue
<1>1. MonitorInv => ReportsAreTrue
  <2> SUFFICES ASSUME MonitorInv PROVE ReportsAreTrue
    OBVIOUS
  <2>1. SourceIsCounted /\ NothingIsLeftOut /\ CatalogIsCurrent
    BY DEF MonitorInv, OutInv, Good, SourceIsCounted, NothingIsLeftOut, CatalogIsCurrent
  <2>2. ReportIsPaired
    BY DEF MonitorInv, PairInv, ReportIsPaired, Between
  <2> QED BY <2>1, <2>2 DEF ReportsAreTrue
<1> QED BY <1>1, MonitorInvariance, PTL

=============================================================================
