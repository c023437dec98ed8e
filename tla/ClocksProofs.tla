---------------------------- MODULE ClocksProofs ----------------------------
(***************************************************************************)
(* The laws of the clocks of module Clocks, for every set of ids and every *)
(* set of times: merge is the join of the partial order that smallerThan   *)
(* is the strict part of.                                                  *)
(***************************************************************************)
EXTENDS Clocks, TLAPS

\* A clock of ClocksOver is a function from some of the ids to the times.
LEMMA ClockShape ==
  ASSUME NEW ids, NEW times, NEW c
  PROVE  c \in ClocksOver(ids, times) <=>
           DOMAIN c \subseteq ids /\ c \in [DOMAIN c -> times]
  BY DEF ClocksOver

\* At reads 0 for an id the map does not hold.
LEMMA AtType ==
  ASSUME NEW ids, NEW times \in SUBSET Nat, NEW c \in ClocksOver(ids, times), NEW i
  PROVE  /\ At(c, i) \in Nat
         /\ i \in DOMAIN c => At(c, i) = c[i] /\ c[i] \in times
         /\ i \notin DOMAIN c => At(c, i) = 0
  BY ClockShape DEF At

\* A merge holds the ids of both maps.
LEMMA MergeDomain ==
  ASSUME NEW c, NEW d
  PROVE  DOMAIN Merge(c, d) = DOMAIN c \cup DOMAIN d
  BY DEF Merge

\* The components of a merge: Clock::merge takes the larger time.
LEMMA MergeAt ==
  ASSUME NEW ids, NEW times \in SUBSET Nat,
         NEW c \in ClocksOver(ids, times), NEW d \in ClocksOver(ids, times),
         NEW i \in DOMAIN c \cup DOMAIN d
  PROVE  /\ Merge(c, d)[i] \in times
         /\ At(c, i) <= Merge(c, d)[i]
         /\ At(d, i) <= Merge(c, d)[i]
         /\ Merge(c, d)[i] = At(c, i) \/ Merge(c, d)[i] = At(d, i)
  <1>1. Merge(c, d)[i] = IF At(c, i) > At(d, i) THEN At(c, i) ELSE At(d, i)
    BY DEF Merge
  <1>2. /\ At(c, i) \in Nat
        /\ i \in DOMAIN c => At(c, i) \in times
        /\ i \notin DOMAIN c => At(c, i) = 0
    BY AtType
  <1>3. /\ At(d, i) \in Nat
        /\ i \in DOMAIN d => At(d, i) \in times
        /\ i \notin DOMAIN d => At(d, i) = 0
    BY AtType
  <1>4. QED
    BY <1>1, <1>2, <1>3

\* Clock::merge of two clocks over the same ids and times is one of them.
THEOREM MergeType ==
  ASSUME NEW ids, NEW times \in SUBSET Nat,
         NEW c \in ClocksOver(ids, times), NEW d \in ClocksOver(ids, times)
  PROVE  Merge(c, d) \in ClocksOver(ids, times)
  <1>1. DOMAIN c \subseteq ids /\ DOMAIN d \subseteq ids
    BY ClockShape
  <1>2. Merge(c, d) \in [DOMAIN Merge(c, d) -> times]
    <2>1. Merge(c, d) = [i \in DOMAIN Merge(c, d) |-> Merge(c, d)[i]]
      BY DEF Merge
    <2>2. \A i \in DOMAIN Merge(c, d) : Merge(c, d)[i] \in times
      BY MergeAt, MergeDomain
    <2>3. QED
      BY <2>1, <2>2
  <1>3. QED
    BY <1>1, <1>2, MergeDomain, ClockShape

\* Equality of clocks is equality of the maps.
LEMMA ClockEquality ==
  ASSUME NEW ids, NEW times \in SUBSET Nat,
         NEW c \in ClocksOver(ids, times), NEW d \in ClocksOver(ids, times),
         DOMAIN c = DOMAIN d, \A i \in DOMAIN c : c[i] = d[i]
  PROVE  c = d
  BY ClockShape

\* The order of the clocks is a partial order: reflexive,
LEMMA LeqReflexive ==
  ASSUME NEW ids, NEW times \in SUBSET Nat, NEW c \in ClocksOver(ids, times)
  PROVE  Leq(c, c)
  BY AtType DEF Leq

\* transitive,
LEMMA LeqTransitive ==
  ASSUME NEW ids, NEW times \in SUBSET Nat,
         NEW c \in ClocksOver(ids, times), NEW d \in ClocksOver(ids, times),
         NEW e \in ClocksOver(ids, times), Leq(c, d), Leq(d, e)
  PROVE  Leq(c, e)
  <1>1. ASSUME NEW i \in DOMAIN c
        PROVE  i \in DOMAIN e /\ c[i] <= e[i]
    <2>1. i \in DOMAIN d /\ i \in DOMAIN e /\ c[i] <= d[i] /\ d[i] <= e[i]
      BY DEF Leq
    <2>2. c[i] \in Nat /\ d[i] \in Nat /\ e[i] \in Nat
      BY <2>1, AtType
    <2>3. QED
      BY <2>1, <2>2
  <1>2. QED
    BY <1>1 DEF Leq

\* and antisymmetric.
LEMMA LeqAntisymmetric ==
  ASSUME NEW ids, NEW times \in SUBSET Nat,
         NEW c \in ClocksOver(ids, times), NEW d \in ClocksOver(ids, times),
         Leq(c, d), Leq(d, c)
  PROVE  c = d
  <1>1. DOMAIN c = DOMAIN d
    BY DEF Leq
  <1>2. ASSUME NEW i \in DOMAIN c
        PROVE  c[i] = d[i]
    <2>1. c[i] <= d[i] /\ d[i] <= c[i]
      BY <1>1 DEF Leq
    <2>2. c[i] \in Nat /\ d[i] \in Nat
      BY <1>1, AtType
    <2>3. QED
      BY <2>1, <2>2
  <1>3. QED
    BY <1>1, <1>2, ClockEquality

\* merge is above both arguments,
THEOREM MergeIsUpperBound ==
  ASSUME NEW ids, NEW times \in SUBSET Nat,
         NEW c \in ClocksOver(ids, times), NEW d \in ClocksOver(ids, times)
  PROVE  Leq(c, Merge(c, d)) /\ Leq(d, Merge(c, d))
  <1>1. ASSUME NEW i \in DOMAIN c
        PROVE  c[i] <= Merge(c, d)[i]
    BY MergeAt DEF At
  <1>2. ASSUME NEW i \in DOMAIN d
        PROVE  d[i] <= Merge(c, d)[i]
    BY MergeAt DEF At
  <1>3. QED
    BY <1>1, <1>2, MergeDomain DEF Leq

\* and below every clock that is above both: the knowledge of a broker after an
\* insert is exactly what it knew and what the entry's author knew.
THEOREM MergeIsLeast ==
  ASSUME NEW ids, NEW times \in SUBSET Nat,
         NEW c \in ClocksOver(ids, times), NEW d \in ClocksOver(ids, times),
         NEW u \in ClocksOver(ids, times), Leq(c, u), Leq(d, u)
  PROVE  Leq(Merge(c, d), u)
  <1>1. DOMAIN Merge(c, d) \subseteq DOMAIN u
    BY MergeDomain DEF Leq
  <1>2. ASSUME NEW i \in DOMAIN Merge(c, d)
        PROVE  Merge(c, d)[i] <= u[i]
    <2>1. u[i] \in Nat
      BY <1>1, AtType
    <2>2. At(c, i) <= u[i]
      BY <2>1, AtType DEF Leq
    <2>3. At(d, i) <= u[i]
      BY <2>1, AtType DEF Leq
    <2>4. i \in DOMAIN c \cup DOMAIN d
      BY MergeDomain
    <2>5. Merge(c, d)[i] = At(c, i) \/ Merge(c, d)[i] = At(d, i)
      BY <2>4, MergeAt
    <2>6. QED
      BY <2>2, <2>3, <2>5
  <1>3. QED
    BY <1>1, <1>2 DEF Leq

\* Merging a clock that is already known changes nothing.
THEOREM MergeAbsorbs ==
  ASSUME NEW ids, NEW times \in SUBSET Nat,
         NEW c \in ClocksOver(ids, times), NEW d \in ClocksOver(ids, times)
  PROVE  Leq(c, d) <=> Merge(c, d) = d
  <1>1. ASSUME Leq(c, d) PROVE Merge(c, d) = d
    <2>1. Leq(Merge(c, d), d)
      BY <1>1, LeqReflexive, MergeIsLeast
    <2>2. QED
      BY <2>1, MergeIsUpperBound, MergeType, LeqAntisymmetric
  <1>2. ASSUME Merge(c, d) = d PROVE Leq(c, d)
    BY <1>2, MergeIsUpperBound
  <1>3. QED
    BY <1>1, <1>2

\* The order in which two brokers' clocks are merged does not matter.
THEOREM MergeCommutes ==
  ASSUME NEW ids, NEW times \in SUBSET Nat,
         NEW c \in ClocksOver(ids, times), NEW d \in ClocksOver(ids, times)
  PROVE  Merge(c, d) = Merge(d, c)
  <1>1. Merge(c, d) \in ClocksOver(ids, times) /\ Merge(d, c) \in ClocksOver(ids, times)
    BY MergeType
  <1>2. Leq(Merge(c, d), Merge(d, c))
    BY <1>1, MergeIsUpperBound, MergeIsLeast
  <1>3. Leq(Merge(d, c), Merge(c, d))
    BY <1>1, MergeIsUpperBound, MergeIsLeast
  <1>4. QED
    BY <1>1, <1>2, <1>3, LeqAntisymmetric

\* Nor does the grouping.
THEOREM MergeAssociates ==
  ASSUME NEW ids, NEW times \in SUBSET Nat,
         NEW c \in ClocksOver(ids, times), NEW d \in ClocksOver(ids, times),
         NEW e \in ClocksOver(ids, times)
  PROVE  Merge(Merge(c, d), e) = Merge(c, Merge(d, e))
  <1> DEFINE l == Merge(Merge(c, d), e)
             r == Merge(c, Merge(d, e))
  <1>1. /\ Merge(c, d) \in ClocksOver(ids, times) /\ Merge(d, e) \in ClocksOver(ids, times)
        /\ l \in ClocksOver(ids, times) /\ r \in ClocksOver(ids, times)
    BY MergeType
  <1>2. Leq(c, r) /\ Leq(d, r) /\ Leq(e, r)
    BY <1>1, MergeIsUpperBound, LeqTransitive
  <1>3. Leq(c, l) /\ Leq(d, l) /\ Leq(e, l)
    BY <1>1, MergeIsUpperBound, LeqTransitive
  <1>4. Leq(l, r)
    BY <1>1, <1>2, MergeIsLeast
  <1>5. Leq(r, l)
    BY <1>1, <1>3, MergeIsLeast
  <1>6. QED
    BY <1>1, <1>4, <1>5, LeqAntisymmetric

\* Clock::smallerThan is the strict part of the order.
THEOREM SmallerThanIsStrict ==
  ASSUME NEW ids, NEW times \in SUBSET Nat,
         NEW c \in ClocksOver(ids, times), NEW d \in ClocksOver(ids, times)
  PROVE  SmallerThan(c, d) <=> Leq(c, d) /\ c # d
  BY MergeAbsorbs DEF SmallerThan

\* Two different clocks are ordered or concurrent, in exactly one of the ways:
\* Ledger::Replaces and JournalBase::query distinguish all the cases there are.
THEOREM OrderedOrConcurrent ==
  ASSUME NEW ids, NEW times \in SUBSET Nat,
         NEW c \in ClocksOver(ids, times), NEW d \in ClocksOver(ids, times)
  PROVE  /\ ~(SmallerThan(c, d) /\ SmallerThan(d, c))
         /\ Concurrent(c, d) <=> ~Leq(c, d) /\ ~Leq(d, c)
  BY SmallerThanIsStrict, LeqAntisymmetric, LeqReflexive DEF Concurrent

\* A tick adds one to one component and leaves the others.
LEMMA TickParts ==
  ASSUME NEW c, NEW id
  PROVE  /\ DOMAIN Tick(c, id) = DOMAIN c \cup {id}
         /\ Tick(c, id)[id] = At(c, id) + 1
         /\ \A i \in DOMAIN c : i # id => Tick(c, id)[i] = c[i]
  BY DEF Tick

\* The clock of an appended entry is strictly above the clock it was made from.
THEOREM TickIsAbove ==
  ASSUME NEW ids, NEW times \in SUBSET Nat, NEW c \in ClocksOver(ids, times), NEW id
  PROVE  Leq(c, Tick(c, id)) /\ c # Tick(c, id) /\ IsNext(Tick(c, id), c, id)
  <1>1. /\ At(c, id) \in Nat
        /\ id \in DOMAIN c => At(c, id) = c[id]
        /\ id \notin DOMAIN c => At(c, id) = 0
        /\ \A i \in DOMAIN c : c[i] \in Nat
    BY AtType
  <1>2. /\ DOMAIN Tick(c, id) = DOMAIN c \cup {id}
        /\ Tick(c, id)[id] = At(c, id) + 1
        /\ \A i \in DOMAIN c : i # id => Tick(c, id)[i] = c[i]
    BY TickParts
  <1>3. Leq(c, Tick(c, id))
    BY <1>1, <1>2 DEF Leq
  <1>4. c # Tick(c, id)
    BY <1>1, <1>2
  <1>5. IsNext(Tick(c, id), c, id)
    BY <1>1, <1>2 DEF IsNext
  <1>6. QED
    BY <1>3, <1>4, <1>5

=============================================================================
