-------------------------- MODULE EntryListsProofs --------------------------
(***************************************************************************)
(* What the stores list: operator< of std::map<Clock, Data> is a strict    *)
(* total order of the clocks, and an order of that kind lists a finite set *)
(* of entries completely, each entry once.  So the CHOOSE of InOrder finds *)
(* an entry for every position, and query leaves none out.                 *)
(***************************************************************************)
EXTENDS EntryLists, ClocksProofs, FiniteSetTheorems, WellFoundedInduction, TLAPS

\* The least number that is not in a set of good numbers.
LEMMA LeastBad ==
  ASSUME NEW Bad \in SUBSET Nat, Bad # {}
  PROVE  \E k \in Bad : \A j \in Nat : j < k => j \notin Bad
  <1>1. PICK k \in Bad : \A j \in Bad : ~(<<j, k>> \in OpToRel(<, Nat))
    BY WFMin, NatLessThanWellFounded
  <1> QED
    BY <1>1 DEF OpToRel

\* R orders S strictly and totally.
Orders(R, S) ==
  /\ \A e \in S : <<e, e>> \notin R
  /\ \A e, f \in S : e # f => <<e, f>> \in R \/ <<f, e>> \in R
  /\ \A e, f, g \in S : <<e, f>> \in R /\ <<f, g>> \in R => <<e, g>> \in R

\* The place of e in S: how many come before it.
Rank(S, R, e) == Cardinality({f \in S : <<f, e>> \in R})

\* A position is a number below the number of entries.
LEMMA RankType ==
  ASSUME NEW S, IsFiniteSet(S), NEW R, Orders(R, S), NEW e \in S
  PROVE  Rank(S, R, e) \in 0..Cardinality(S) - 1
  <1> DEFINE before == {f \in S : <<f, e>> \in R}
  <1>1. before \in SUBSET S /\ before # S
    BY DEF Orders
  <1>2. IsFiniteSet(before) /\ Cardinality(before) <= Cardinality(S) /\ Cardinality(before) # Cardinality(S)
    BY <1>1, FS_Subset
  <1>3. Cardinality(before) \in Nat /\ Cardinality(S) \in Nat
    BY <1>2, FS_CardinalityType
  <1> QED
    BY <1>2, <1>3 DEF Rank

\* A later entry has a larger position.
LEMMA RankGrows ==
  ASSUME NEW S, IsFiniteSet(S), NEW R, Orders(R, S), NEW e \in S, NEW f \in S, <<e, f>> \in R
  PROVE  Rank(S, R, e) < Rank(S, R, f)
  <1> DEFINE Before(x) == {g \in S : <<g, x>> \in R}
  <1>1. Before(e) \in SUBSET Before(f) /\ Before(e) # Before(f)
    <2>1. \A g \in S : <<g, e>> \in R => <<g, f>> \in R
      BY DEF Orders
    <2>2. e \in Before(f) /\ e \notin Before(e)
      BY DEF Orders
    <2> QED
      BY <2>1, <2>2
  <1>2. IsFiniteSet(Before(f))
    BY FS_Subset
  <1>3. IsFiniteSet(Before(e)) /\ Cardinality(Before(e)) <= Cardinality(Before(f))
        /\ Cardinality(Before(f)) # Cardinality(Before(e))
    BY <1>1, <1>2, FS_Subset
  <1>4. Cardinality(Before(e)) \in Nat /\ Cardinality(Before(f)) \in Nat
    BY <1>2, <1>3, FS_CardinalityType
  <1> QED
    BY <1>3, <1>4 DEF Rank

\* Every position is taken.
LEMMA RankReached ==
  ASSUME NEW S, IsFiniteSet(S), NEW R, Orders(R, S), NEW i \in 1..Cardinality(S)
  PROVE  \E e \in S : Rank(S, R, e) = i - 1
  <1> DEFINE T == 0..Cardinality(S) - 1
             rank == [e \in S |-> Rank(S, R, e)]
  <1>1. rank \in [S -> T]
    BY RankType
  <1>2. ASSUME NEW e \in S, NEW f \in S, rank[e] = rank[f]
        PROVE  e = f
    <2> SUFFICES ASSUME e # f PROVE FALSE
      OBVIOUS
    <2>1. <<e, f>> \in R \/ <<f, e>> \in R
      BY DEF Orders
    <2>2. rank[e] < rank[f] \/ rank[f] < rank[e]
      BY <2>1, RankGrows
    <2>3. rank[e] \in Int /\ rank[f] \in Int
      BY <1>1
    <2> QED
      BY <2>2, <2>3, <1>2
  <1>3. rank \in Injection(S, T)
    BY <1>1, <1>2 DEF Injection, IsInjective
  <1>4. Cardinality(S) \in Nat
    BY FS_CardinalityType
  <1>5. IsFiniteSet(T) /\ Cardinality(T) = Cardinality(S)
    <2>1. 0 \in Int /\ Cardinality(S) - 1 \in Int /\ ~(0 > Cardinality(S) - 1)
      BY <1>4
    <2>2. IsFiniteSet(T) /\ Cardinality(T) = Cardinality(S) - 1 - 0 + 1
      BY <2>1, FS_Interval
    <2> QED
      BY <2>2, <1>4
  <1>6. rank \in Surjection(S, T)
    BY <1>3, <1>5, FS_Injection
  <1>7. i - 1 \in T
    BY <1>4
  <1>8. PICK e \in S : rank[e] = i - 1
    BY <1>6, <1>7 DEF Surjection
  <1> QED
    BY <1>8

\* The list that InOrder makes of a finite, totally ordered set has every
\* element of the set once, at its place.
THEOREM InOrderLists ==
  ASSUME NEW S, IsFiniteSet(S), NEW R, Orders(R, S)
  PROVE  /\ InOrder(S, R) \in Seq(S)
         /\ Len(InOrder(S, R)) = Cardinality(S)
         /\ \A i \in 1..Cardinality(S) : InOrder(S, R)[i] \in S /\ Rank(S, R, InOrder(S, R)[i]) = i - 1
         /\ \A e \in S : \E i \in 1..Cardinality(S) : InOrder(S, R)[i] = e
  <1> DEFINE n == Cardinality(S)
             list == InOrder(S, R)
  <1>1. n \in Nat
    BY FS_CardinalityType
  <1>2. ASSUME NEW i \in 1..n
        PROVE  list[i] \in S /\ Rank(S, R, list[i]) = i - 1
    <2>1. list[i] = CHOOSE e \in S : Rank(S, R, e) = i - 1
      BY DEF InOrder, Rank
    <2> QED
      BY <2>1, RankReached
  <1>3. list \in [1..n -> S]
    <2> DEFINE Place(i) == CHOOSE e \in S : Cardinality({f \in S : <<f, e>> \in R}) = i - 1
    <2>1. list = [i \in 1..n |-> Place(i)]
      BY DEF InOrder
    <2>2. \A i \in 1..n : Place(i) \in S
      BY <2>1, <1>2
    <2> HIDE DEF Place, list
    <2> QED
      BY <2>1, <2>2
  <1>4. list \in Seq(S) /\ Len(list) = n
    BY <1>1, <1>3
  <1>5. ASSUME NEW e \in S
        PROVE  \E i \in 1..n : list[i] = e
    <2>1. PICK i \in 1..n : i = Rank(S, R, e) + 1
      BY <1>1, RankType
    <2>2. list[i] \in S /\ Rank(S, R, list[i]) = Rank(S, R, e)
      BY <2>1, <1>1, <1>2, RankType
    <2>3. list[i] = e
      <3> SUFFICES ASSUME list[i] # e PROVE FALSE
        OBVIOUS
      <3>1. <<list[i], e>> \in R \/ <<e, list[i]>> \in R
        BY <2>2 DEF Orders
      <3>2. Rank(S, R, list[i]) < Rank(S, R, e) \/ Rank(S, R, e) < Rank(S, R, list[i])
        BY <3>1, <2>2, RankGrows
      <3>3. Rank(S, R, e) \in Int
        BY <1>1, RankType
      <3> QED
        BY <3>2, <3>3, <2>2
    <2> QED
      BY <2>3
  <1> QED
    BY <1>2, <1>4, <1>5

-----------------------------------------------------------------------------
(***************************************************************************)
(* The order of the keys.                                                  *)
(***************************************************************************)

\* The ids below k stand in both clocks, with the same times.
Agree(c, d, k) ==
  \A j \in DOMAIN c \cup DOMAIN d : j < k => j \in DOMAIN c /\ j \in DOMAIN d /\ c[j] = d[j]

\* The clocks c and d differ first at k, where c is less.
LessAt(c, d, k) ==
  /\ Agree(c, d, k)
  /\ \/ k \in DOMAIN c /\ k \in DOMAIN d /\ c[k] < d[k]
     \/ k \in DOMAIN c /\ k \notin DOMAIN d /\ \E j \in DOMAIN d : j > k
     \/ k \notin DOMAIN c /\ k \in DOMAIN d /\ \A j \in DOMAIN c : j < k

\* Different keys of the map are ordered.
LEMMA KeysTotal ==
  ASSUME NEW ids \in SUBSET Nat, NEW times \in SUBSET Nat,
         NEW c \in ClocksOver(ids, times), NEW d \in ClocksOver(ids, times), c # d
  PROVE  LexLess(c, d) \/ LexLess(d, c)
  <1>1. /\ DOMAIN c \subseteq Nat /\ c \in [DOMAIN c -> times]
        /\ DOMAIN d \subseteq Nat /\ d \in [DOMAIN d -> times]
    BY ClockShape
  <1> DEFINE D == {k \in DOMAIN c \cup DOMAIN d : ~(k \in DOMAIN c /\ k \in DOMAIN d /\ c[k] = d[k])}
  <1>2. D \subseteq Nat /\ D # {}
    <2>1. D \subseteq Nat
      BY <1>1
    <2>2. ASSUME D = {} PROVE FALSE
      <3>1. DOMAIN c = DOMAIN d /\ \A k \in DOMAIN c : c[k] = d[k]
        BY <2>2
      <3> QED
        BY <3>1, <1>1
    <2> QED
      BY <2>1, <2>2
  <1>3. PICK k \in D : \A j \in D : ~(<<j, k>> \in OpToRel(<, Nat))
    BY <1>2, WFMin, NatLessThanWellFounded
  <1>4. \A j \in D : ~(j < k)
    BY <1>2, <1>3 DEF OpToRel
  <1>5. Agree(c, d, k) /\ Agree(d, c, k)
    BY <1>4 DEF Agree
  <1>6. k \in DOMAIN c \cup DOMAIN d /\ k \in Nat
    BY <1>2
  <1>7. CASE k \in DOMAIN c /\ k \in DOMAIN d
    <2>1. c[k] # d[k] /\ c[k] \in Nat /\ d[k] \in Nat
      BY <1>7, <1>1
    <2>2. c[k] < d[k] \/ d[k] < c[k]
      BY <2>1
    <2> QED
      BY <2>2, <1>5, <1>6, <1>7 DEF LexLess, Agree
  <1>8. CASE k \in DOMAIN c /\ k \notin DOMAIN d
    <2>1. (\E j \in DOMAIN d : j > k) \/ (\A j \in DOMAIN d : j < k)
      BY <1>1, <1>6, <1>8
    <2> QED
      BY <2>1, <1>5, <1>6, <1>8 DEF LexLess, Agree
  <1>9. CASE k \notin DOMAIN c /\ k \in DOMAIN d
    <2>1. (\E j \in DOMAIN c : j > k) \/ (\A j \in DOMAIN c : j < k)
      BY <1>1, <1>6, <1>9
    <2> QED
      BY <2>1, <1>5, <1>6, <1>9 DEF LexLess, Agree
  <1> QED
    BY <1>6, <1>7, <1>8, <1>9

\* No key is before itself, and before means before.
LEMMA KeysTransitive ==
  ASSUME NEW ids \in SUBSET Nat, NEW times \in SUBSET Nat,
         NEW c \in ClocksOver(ids, times), NEW d \in ClocksOver(ids, times),
         NEW e \in ClocksOver(ids, times)
  PROVE  /\ ~LexLess(c, c)
         /\ LexLess(c, d) /\ LexLess(d, e) => LexLess(c, e)
  <1>1. /\ DOMAIN c \subseteq Nat /\ \A i \in DOMAIN c : c[i] \in Nat
        /\ DOMAIN d \subseteq Nat /\ \A i \in DOMAIN d : d[i] \in Nat
        /\ DOMAIN e \subseteq Nat /\ \A i \in DOMAIN e : e[i] \in Nat
    BY ClockShape
  <1>2. ~LexLess(c, c)
    BY <1>1 DEF LexLess
  <1>3. ASSUME LexLess(c, d), LexLess(d, e) PROVE LexLess(c, e)
    <2>1. PICK k \in DOMAIN c \cup DOMAIN d : LessAt(c, d, k)
      BY <1>3 DEF LexLess, LessAt, Agree
    <2>2. PICK l \in DOMAIN d \cup DOMAIN e : LessAt(d, e, l)
      BY <1>3 DEF LexLess, LessAt, Agree
    <2>3. k \in Nat /\ l \in Nat
      BY <1>1
    <2> SUFFICES \E m \in DOMAIN c \cup DOMAIN e : LessAt(c, e, m)
      BY DEF LexLess, LessAt, Agree
    <2>4. CASE k < l
      <3>1. Agree(c, e, k)
        BY <1>1, <2>1, <2>2, <2>3, <2>4 DEF LessAt, Agree
      <3>2. k \in DOMAIN d => k \in DOMAIN e /\ d[k] = e[k]
        BY <2>2, <2>4 DEF LessAt, Agree
      <3>3. k \in DOMAIN e => k \in DOMAIN d /\ d[k] = e[k]
        BY <2>2, <2>4 DEF LessAt, Agree
      <3>4. (\E j \in DOMAIN d : j > k) => \E j \in DOMAIN e : j > k
        BY <1>1, <2>2, <2>3, <2>4 DEF LessAt, Agree
      <3>5. LessAt(c, e, k) /\ k \in DOMAIN c \cup DOMAIN e
        BY <2>1, <3>1, <3>2, <3>3, <3>4 DEF LessAt
      <3> QED
        BY <3>5
    <2>5. CASE l < k
      <3>1. Agree(c, e, l)
        BY <1>1, <2>1, <2>2, <2>3, <2>5 DEF LessAt, Agree
      <3>2. l \in DOMAIN d => l \in DOMAIN c /\ d[l] = c[l]
        BY <2>1, <2>5 DEF LessAt, Agree
      <3>3. l \in DOMAIN c => l \in DOMAIN d
        BY <2>1, <2>5 DEF LessAt, Agree
      <3>4. l \notin DOMAIN d => \A j \in DOMAIN c : j < l
        <4> SUFFICES ASSUME l \notin DOMAIN d, NEW j \in DOMAIN c PROVE j < l
          OBVIOUS
        <4>1. \A i \in DOMAIN d : i < l
          BY <2>2 DEF LessAt
        <4>2. k \notin DOMAIN d
          BY <4>1, <2>3, <2>5
        <4>3. \E i \in DOMAIN d : i > k
          BY <4>2, <2>1 DEF LessAt
        <4> QED
          BY <4>1, <4>3, <1>1, <2>3, <2>5
      <3>5. LessAt(c, e, l) /\ l \in DOMAIN c \cup DOMAIN e
        BY <2>2, <3>1, <3>2, <3>3, <3>4 DEF LessAt
      <3> QED
        BY <3>5
    <2>6. CASE k = l
      <3>1. Agree(c, e, k)
        BY <1>1, <2>1, <2>2, <2>3, <2>6 DEF LessAt, Agree
      <3>2. k \in DOMAIN d
        <4> SUFFICES ASSUME k \notin DOMAIN d PROVE FALSE
          OBVIOUS
        <4>1. PICK j \in DOMAIN d : j > k
          BY <2>1 DEF LessAt
        <4>2. j < k
          BY <2>2, <2>6 DEF LessAt
        <4> QED
          BY <4>1, <4>2, <1>1, <2>3
      <3>3. /\ k \in DOMAIN c => c[k] < d[k]
            /\ k \notin DOMAIN c => \A j \in DOMAIN c : j < k
        BY <2>1, <3>2 DEF LessAt
      <3>4. /\ k \in DOMAIN e => d[k] < e[k]
            /\ k \notin DOMAIN e => \E j \in DOMAIN e : j > k
        BY <2>2, <2>6, <3>2 DEF LessAt
      <3>5. k \in DOMAIN c /\ k \in DOMAIN e => c[k] < e[k]
        BY <1>1, <3>2, <3>3, <3>4
      <3>6. CASE k \in DOMAIN c \cup DOMAIN e
        <4>1. LessAt(c, e, k)
          BY <3>1, <3>3, <3>4, <3>5, <3>6 DEF LessAt
        <4> QED
          BY <4>1, <3>6
      \* c ends before k and e goes on after it: they differ at e's next id
      <3>7. CASE k \notin DOMAIN c \cup DOMAIN e
        <4> DEFINE L == {j \in DOMAIN e : j > k}
        <4>1. L \subseteq Nat /\ L # {}
          BY <3>4, <3>7, <1>1
        <4>2. PICK m \in L : \A j \in L : ~(<<j, m>> \in OpToRel(<, Nat))
          BY <4>1, WFMin, NatLessThanWellFounded
        <4>3. \A j \in L : ~(j < m)
          BY <4>1, <4>2 DEF OpToRel
        <4>4. m \in DOMAIN e /\ m \in Nat /\ m > k
          BY <4>1
        <4>5. \A j \in DOMAIN c : j < k /\ j < m
          BY <3>3, <3>7, <4>4, <1>1, <2>3
        <4>6. m \notin DOMAIN c
          BY <4>4, <4>5
        <4>7. Agree(c, e, m)
          <5> SUFFICES ASSUME NEW j \in DOMAIN c \cup DOMAIN e, j < m
                       PROVE  j \in DOMAIN c /\ j \in DOMAIN e /\ c[j] = e[j]
            BY DEF Agree
          <5>1. j < k
            BY <3>7, <4>3, <4>5, <1>1, <2>3
          <5> QED
            BY <5>1, <3>1 DEF Agree
        <4>8. LessAt(c, e, m)
          BY <4>4, <4>5, <4>6, <4>7 DEF LessAt
        <4> QED
          BY <4>4, <4>8
      <3> QED
        BY <3>6, <3>7
    <2> QED
      BY <2>3, <2>4, <2>5, <2>6
  <1> QED
    BY <1>2, <1>3

\* Entries with different clocks are totally ordered by std::map's operator<.
LEMMA KeyOrderOrders ==
  ASSUME NEW ids \in SUBSET Nat, NEW times \in SUBSET Nat, NEW S,
         \A e \in S : e.clock \in ClocksOver(ids, times),
         \A e, f \in S : e.clock = f.clock => e = f
  PROVE  Orders(KeyOrder(S), S)
  <1>1. \A e, f \in S : <<e, f>> \in KeyOrder(S) <=> LexLess(e.clock, f.clock)
    BY DEF KeyOrder
  <1>2. \A e \in S : ~LexLess(e.clock, e.clock)
    BY KeysTransitive
  <1>3. \A e, f \in S : e # f => LexLess(e.clock, f.clock) \/ LexLess(f.clock, e.clock)
    BY KeysTotal
  <1>4. \A e, f, g \in S : LexLess(e.clock, f.clock) /\ LexLess(f.clock, g.clock)
                             => LexLess(e.clock, g.clock)
    BY KeysTransitive
  <1> QED
    BY <1>1, <1>2, <1>3, <1>4 DEF Orders

\* Entries that differ in their author or their time are totally ordered by the
\* files and lines they stand in.
LEMMA LineOrderOrders ==
  ASSUME NEW S, \A e \in S : e.id \in Nat /\ e.clock[e.id] \in Nat,
         \A e, f \in S : e.id = f.id /\ e.clock[e.id] = f.clock[f.id] => e = f
  PROVE  Orders(LineOrder(S), S)
  <1>1. \A e, f \in S : <<e, f>> \in LineOrder(S) <=>
                           e.id < f.id \/ (e.id = f.id /\ e.clock[e.id] < f.clock[f.id])
    BY DEF LineOrder
  <1>2. \A e \in S : <<e, e>> \notin LineOrder(S)
    BY <1>1
  <1>3. \A e, f \in S : e # f => <<e, f>> \in LineOrder(S) \/ <<f, e>> \in LineOrder(S)
    BY <1>1
  <1>4. \A e, f, g \in S : <<e, f>> \in LineOrder(S) /\ <<f, g>> \in LineOrder(S)
                             => <<e, g>> \in LineOrder(S)
    BY <1>1
  <1> QED
    BY <1>2, <1>3, <1>4 DEF Orders

=============================================================================
