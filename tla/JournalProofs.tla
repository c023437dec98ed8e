---------------------------- MODULE JournalProofs ----------------------------
(***************************************************************************)
(* The safety of the pool of journals, for every set of ids and amounts    *)
(* and every bound on the clocks.                                          *)
(***************************************************************************)
EXTENDS Journal, ClocksProofs

\* The times of a clock are natural numbers.
LEMMA TimesAreNat == 1..MaxTime \in SUBSET Nat
  BY MaxTimeAssumption

\* The components of a clock of the model.
LEMMA ClockAt ==
  ASSUME NEW c \in Clock, NEW i
  PROVE  /\ At(c, i) \in Nat
         /\ i \in DOMAIN c => /\ i \in Id
                              /\ At(c, i) = c[i]
                              /\ c[i] \in 1..MaxTime
                              /\ c[i] \in Nat \ {0}
         /\ i \notin DOMAIN c => At(c, i) = 0
  <1>1. /\ At(c, i) \in Nat
        /\ i \in DOMAIN c => At(c, i) = c[i] /\ c[i] \in 1..MaxTime
        /\ i \notin DOMAIN c => At(c, i) = 0
    BY AtType, TimesAreNat DEF Clock
  <1>2. DOMAIN c \subseteq Id
    BY ClockShape DEF Clock
  <1>3. QED
    BY <1>1, <1>2, MaxTimeAssumption

\* The clock of an append is a clock of the model: the guard bounds its time.
LEMMA TickType ==
  ASSUME NEW c \in Clock, NEW id \in Id, At(c, id) < MaxTime
  PROVE  Tick(c, id) \in Clock
  <1>1. /\ At(c, id) \in Nat
        /\ DOMAIN c \subseteq Id
        /\ \A i \in DOMAIN c : c[i] \in 1..MaxTime
    BY AtType, ClockShape, TimesAreNat DEF Clock
  <1>2. /\ DOMAIN Tick(c, id) = DOMAIN c \cup {id}
        /\ Tick(c, id)[id] = At(c, id) + 1
        /\ \A i \in DOMAIN c : i # id => Tick(c, id)[i] = c[i]
    BY TickParts
  <1>3. Tick(c, id) = [i \in DOMAIN c \cup {id} |-> Tick(c, id)[i]]
    BY DEF Tick
  <1>4. \A i \in DOMAIN c \cup {id} : Tick(c, id)[i] \in 1..MaxTime
    BY <1>1, <1>2, MaxTimeAssumption
  <1>5. Tick(c, id) \in [DOMAIN Tick(c, id) -> 1..MaxTime]
    BY <1>2, <1>3, <1>4
  <1>6. QED
    BY <1>1, <1>2, <1>5, ClockShape DEF Clock

\* The order of two clocks, read component by component.
LEMMA LeqAt ==
  ASSUME NEW c \in Clock, NEW d \in Clock, Leq(c, d), NEW i
  PROVE  At(c, i) <= At(d, i)
  <1>1. CASE i \in DOMAIN c
    BY <1>1, AtType, TimesAreNat DEF Leq, Clock
  <1>2. CASE i \notin DOMAIN c
    <2>1. At(c, i) = 0 /\ At(d, i) \in Nat
      BY <1>2, AtType, TimesAreNat DEF Clock
    <2>2. QED
      BY <2>1
  <1>3. QED
    BY <1>1, <1>2

\* What the local part of an insert does to the journal's state.
LEMMA InsertStep ==
  ASSUME TypeOK, NEW n \in Id, NEW e \in Entry, Insert(n, e)
  PROVE  /\ TypeOK'
         /\ entries'[n] = entries[n] \cup {e}
         /\ \A k \in Id \ {n} : entries'[k] = entries[k] /\ clock'[k] = clock[k]
         /\ clock'[n] = Merge(clock[n], e.clock)
         /\ \A k \in Id : Leq(clock[k], clock'[k])
         /\ Leq(e.clock, clock'[n])
  <1>1. /\ clock \in [Id -> Clock]
        /\ entries \in [Id -> SUBSET Entry]
        /\ e.clock \in Clock
    BY DEF TypeOK, Entry
  <1>2. /\ entries' = [entries EXCEPT ![n] = @ \cup {e}]
        /\ clock' = [clock EXCEPT ![n] = Merge(@, e.clock)]
    BY DEF Insert
  <1>3. Merge(clock[n], e.clock) \in Clock
    BY <1>1, MergeType, TimesAreNat DEF Clock
  <1>4. TypeOK'
    BY <1>1, <1>2, <1>3 DEF TypeOK
  <1>5. clock'[n] = Merge(clock[n], e.clock)
    BY <1>1, <1>2
  <1>6. \A k \in Id \ {n} : entries'[k] = entries[k] /\ clock'[k] = clock[k]
    BY <1>1, <1>2
  <1>7. Leq(clock[n], clock'[n]) /\ Leq(e.clock, clock'[n])
    <2>1. clock[n] \in ClocksOver(Id, 1..MaxTime) /\ e.clock \in ClocksOver(Id, 1..MaxTime)
      BY <1>1 DEF Clock
    <2>2. Leq(clock[n], Merge(clock[n], e.clock)) /\ Leq(e.clock, Merge(clock[n], e.clock))
      BY <2>1, MergeIsUpperBound, TimesAreNat
    <2>3. QED
      BY <2>2, <1>5
  <1>8. ASSUME NEW k \in Id PROVE Leq(clock[k], clock'[k])
    <2>1. CASE k = n
      BY <2>1, <1>7
    <2>2. CASE k # n
      BY <2>2, <1>1, <1>6, LeqReflexive, TimesAreNat DEF Clock
    <2>3. QED
      BY <2>1, <2>2
  <1>9. QED
    BY <1>1, <1>2, <1>4, <1>5, <1>6, <1>7, <1>8

\* The entry that an append makes.
Appended(n, value, alters) ==
  [clock |-> Tick(clock[n], n), id |-> n, value |-> value, alters |-> alters]

\* The entry that append makes is an entry of the pool.
LEMMA AppendedType ==
  ASSUME TypeOK, NEW n \in Id, NEW value \in Amount, NEW alters \in Clock,
         At(clock[n], n) < MaxTime
  PROVE  Appended(n, value, alters) \in Entry
  <1>1. Tick(clock[n], n) \in Clock
    BY TickType DEF TypeOK
  <1>2. QED
    BY <1>1 DEF Appended, Entry

-----------------------------------------------------------------------------
\* Clocks and entries keep their types: append and insert create no component
\* with a time of 0 and none for an id outside the pool.
THEOREM TypeCorrect == Spec => []TypeOK
  <1>1. Init => TypeOK
    <2>1. DOMAIN EmptyClock = {} /\ EmptyClock \in [{} -> 1..MaxTime]
      BY DEF EmptyClock
    <2>2. EmptyClock \in Clock
      BY <2>1, ClockShape DEF Clock
    <2>3. QED
      BY <2>2 DEF Init, TypeOK
  <1>2. TypeOK /\ [Next]_vars => TypeOK'
    <2> SUFFICES ASSUME TypeOK, [Next]_vars PROVE TypeOK'
      OBVIOUS
    <2>1. ASSUME NEW n \in Id, NEW value \in Amount, NEW alters \in Clock,
                 AppendData(n, value, alters)
          PROVE  TypeOK'
      BY <2>1, AppendedType, InsertStep DEF AppendData, Appended
    <2>2. ASSUME NEW n \in Id, NEW m \in Id, NEW e \in entries[m], Receive(n, e)
          PROVE  TypeOK'
      BY <2>2, InsertStep DEF Receive, TypeOK
    <2>3. CASE UNCHANGED vars
      BY <2>3 DEF vars, TypeOK
    <2>4. QED
      BY <2>1, <2>2, <2>3 DEF Next
  <1>3. QED
    BY <1>1, <1>2, PTL DEF Spec

-----------------------------------------------------------------------------
\* No entry is ahead of its author's own count.
LEMMA NotAhead ==
  ASSUME IInv, NEW m \in Id, NEW f \in entries[m]
  PROVE  /\ f \in Entry /\ f.id \in Id /\ f.clock \in Clock
         /\ f \in entries[f.id]
         /\ Time(f) = f.clock[f.id] /\ Time(f) \in Nat \ {0}
         /\ Time(f) <= At(clock[f.id], f.id)
         /\ \A i \in Id : At(f.clock, i) <= At(clock[i], i)
  <1>1. /\ f \in Entry /\ f.id \in Id /\ f.clock \in Clock
        /\ f \in entries[f.id]
        /\ Leq(f.clock, clock[m]) /\ Leq(f.clock, clock[f.id])
        /\ f.id \in DOMAIN f.clock
    BY DEF IInv, TypeOK, Entry, Stamped, ClockCoversEntries, AuthorHasHistory
  <1>2. \A i \in Id : clock[i] \in Clock
    BY DEF IInv, TypeOK
  <1>3. Time(f) = f.clock[f.id] /\ Time(f) \in Nat \ {0}
    BY <1>1, ClockAt DEF Time
  <1>4. Time(f) <= At(clock[f.id], f.id)
    BY <1>1, <1>2, LeqAt DEF Time
  <1>5. ASSUME NEW i \in Id
        PROVE  At(f.clock, i) <= At(clock[i], i)
    <2>1. At(f.clock, i) <= At(clock[m], i)
      BY <1>1, <1>2, LeqAt
    <2>2. At(clock[m], i) <= At(clock[i], i)
      <3>1. CASE i \in DOMAIN clock[m]
        <4>1. clock[m][i] <= At(clock[i], i)
          BY <3>1 DEF IInv, AuthorAhead
        <4>2. QED
          BY <4>1, <3>1, <1>2, ClockAt
      <3>2. CASE i \notin DOMAIN clock[m]
        BY <3>2, <1>2, ClockAt
      <3>3. QED
        BY <3>1, <3>2
    <2>3. At(f.clock, i) \in Nat /\ At(clock[m], i) \in Nat /\ At(clock[i], i) \in Nat
      BY <1>1, <1>2, AtType, TimesAreNat DEF Clock
    <2>4. QED
      BY <2>1, <2>2, <2>3
  <1>6. QED
    BY <1>1, <1>3, <1>4, <1>5

\* An append keeps the invariant: the new entry is the next of its author, and
\* above everything its author knows.
LEMMA AppendKeeps ==
  ASSUME IInv, NEW n \in Id, NEW value \in Amount, NEW alters \in Clock,
         AppendData(n, value, alters)
  PROVE  IInv'
  <1> DEFINE e == Appended(n, value, alters)
  <1>1. /\ TypeOK /\ At(clock[n], n) < MaxTime
        /\ Insert(n, e)
    BY DEF IInv, AppendData, Appended
  <1>2. e \in Entry
    BY <1>1, AppendedType
  <1>3. /\ e.id = n /\ e.clock = Tick(clock[n], n) /\ e.clock \in Clock
    BY <1>2 DEF Appended, Entry
  <1> HIDE DEF e
  <1>4. /\ TypeOK'
        /\ entries'[n] = entries[n] \cup {e}
        /\ \A k \in Id \ {n} : entries'[k] = entries[k] /\ clock'[k] = clock[k]
        /\ clock'[n] = Merge(clock[n], e.clock)
        /\ \A k \in Id : Leq(clock[k], clock'[k])
        /\ Leq(e.clock, clock'[n])
    BY <1>1, <1>2, InsertStep
  <1>5. \A k \in Id : clock[k] \in Clock /\ clock'[k] \in Clock /\ entries[k] \subseteq Entry
    BY <1>1, <1>4 DEF TypeOK
  <1>6. /\ Leq(clock[n], Tick(clock[n], n)) /\ clock[n] # Tick(clock[n], n)
    BY <1>5, TickIsAbove, TimesAreNat DEF Clock
  <1>7. clock'[n] = Tick(clock[n], n)
    <2>1. clock[n] \in ClocksOver(Id, 1..MaxTime) /\ e.clock \in ClocksOver(Id, 1..MaxTime)
      BY <1>3, <1>5 DEF Clock
    <2>2. Merge(clock[n], e.clock) = e.clock
      BY <2>1, <1>3, <1>6, MergeAbsorbs, TimesAreNat
    <2>3. QED
      BY <2>2, <1>3, <1>4
  <1>8. /\ n \in DOMAIN e.clock
        /\ Time(e) = At(clock[n], n) + 1
        /\ At(clock'[n], n) = At(clock[n], n) + 1
        /\ At(clock[n], n) \in Nat
    <2>1. n \in DOMAIN Tick(clock[n], n) /\ Tick(clock[n], n)[n] = At(clock[n], n) + 1
      BY TickParts
    <2>2. At(clock[n], n) \in Nat
      BY <1>5, AtType, TimesAreNat DEF Clock
    <2>3. QED
      BY <2>1, <2>2, <1>3, <1>7 DEF Time, At
  <1>9. Stamped'
    BY <1>3, <1>4, <1>8 DEF IInv, Stamped
  <1>10. ClockCoversEntries'
    <2> SUFFICES ASSUME NEW k \in Id, NEW f \in entries'[k]
                 PROVE  Leq(f.clock, clock'[k])
      BY DEF ClockCoversEntries
    <2>1. CASE f \in entries[k]
      <3>1. Leq(f.clock, clock[k]) /\ f.clock \in Clock
        BY <2>1, NotAhead DEF IInv, ClockCoversEntries
      <3>2. QED
        BY <3>1, <1>4, <1>5, LeqTransitive, TimesAreNat DEF Clock
    <2>2. CASE f \notin entries[k]
      BY <2>2, <1>4
    <2>3. QED
      BY <2>1, <2>2
  <1>11. AuthorHasHistory'
    <2>1. ASSUME NEW k \in Id, NEW f \in entries'[k]
          PROVE  f \in entries'[f.id]
      <3>1. CASE f \in entries[k]
        <4>1. f.id \in Id /\ f \in entries[f.id]
          BY <3>1, NotAhead
        <4>2. QED
          BY <4>1, <1>4
      <3>2. CASE f \notin entries[k]
        BY <3>2, <1>3, <1>4
      <3>3. QED
        BY <3>1, <3>2
    <2>2. ASSUME NEW k \in Id, NEW t \in 1..At(clock'[k], k)
          PROVE  \E f \in entries'[k] : f.id = k /\ Time(f) = t
      <3>1. CASE t \in 1..At(clock[k], k)
        <4>1. PICK f \in entries[k] : f.id = k /\ Time(f) = t
          BY <3>1 DEF IInv, AuthorHasHistory
        <4>2. QED
          BY <4>1, <1>4
      <3>2. CASE t \notin 1..At(clock[k], k)
        <4>1. k = n
          BY <3>2, <1>4
        <4>2. t = At(clock[n], n) + 1
          BY <4>1, <3>2, <1>8
        <4>3. QED
          BY <4>1, <4>2, <1>3, <1>4, <1>8
      <3>3. QED
        BY <3>1, <3>2
    <2>3. QED
      BY <2>1, <2>2 DEF AuthorHasHistory, Time
  <1>12. AuthorAhead'
    <2> SUFFICES ASSUME NEW k \in Id, NEW i \in DOMAIN clock'[k]
                 PROVE  clock'[k][i] <= At(clock'[i], i)
      BY DEF AuthorAhead
    <2>1. i \in Id /\ clock'[k][i] \in Nat
      BY <1>5, ClockShape, AtType, TimesAreNat DEF Clock
    <2>2. At(clock[i], i) <= At(clock'[i], i)
      BY <2>1, <1>4, <1>5, LeqAt
    <2>3. At(clock[i], i) \in Nat /\ At(clock'[i], i) \in Nat
      BY <2>1, <1>5, AtType, TimesAreNat DEF Clock
    <2>4. CASE k # n
      <3>1. i \in DOMAIN clock[k] /\ clock'[k][i] = clock[k][i]
        BY <2>4, <1>4
      <3>2. clock[k][i] <= At(clock[i], i)
        BY <3>1 DEF IInv, AuthorAhead
      <3>3. QED
        BY <3>1, <3>2, <2>1, <2>2, <2>3
    <2>5. CASE k = n /\ i = n
      BY <2>5, <2>1 DEF At
    <2>6. CASE k = n /\ i # n
      <3>1. i \in DOMAIN clock[n] /\ clock'[n][i] = clock[n][i]
        <4>1. /\ DOMAIN Tick(clock[n], n) = DOMAIN clock[n] \cup {n}
              /\ \A j \in DOMAIN clock[n] : j # n => Tick(clock[n], n)[j] = clock[n][j]
          BY TickParts
        <4>2. QED
          BY <4>1, <2>6, <1>7
      <3>2. clock[n][i] <= At(clock[i], i)
        BY <3>1 DEF IInv, AuthorAhead
      <3>3. QED
        BY <3>1, <3>2, <2>1, <2>2, <2>3, <2>6
    <2>7. QED
      BY <2>4, <2>5, <2>6
  <1>13. ASSUME NEW m \in Id, NEW f \in entries[m], f.id = n
         PROVE  /\ Time(f) < Time(e) /\ Time(f) \in Nat
                /\ SmallerThan(f.clock, e.clock)
    <2>1. /\ f.clock \in Clock /\ f \in entries[n] /\ Time(f) \in Nat
          /\ Time(f) <= At(clock[n], n)
      BY <1>13, NotAhead
    <2>2. Leq(f.clock, clock[n])
      BY <2>1 DEF IInv, ClockCoversEntries
    <2>3. Leq(f.clock, e.clock)
      BY <2>1, <2>2, <1>3, <1>5, <1>6, LeqTransitive, TimesAreNat DEF Clock
    <2>4. Time(f) < Time(e)
      BY <2>1, <1>8
    <2>5. f.clock # e.clock
      BY <2>4, <2>1, <1>3, <1>13 DEF Time
    <2>6. QED
      BY <2>1, <2>3, <2>4, <2>5, <1>3, SmallerThanIsStrict, TimesAreNat DEF Clock
  <1>14. ASSUME NEW k \in Id, NEW f \in entries'[k]
         PROVE  f = e \/ (\E m \in Id : f \in entries[m])
    BY <1>4
  <1>15. TransactionsUnique'
    <2> SUFFICES ASSUME NEW k \in Id, NEW m \in Id, NEW f \in entries'[k], NEW g \in entries'[m],
                        f.id = g.id, Time(f) = Time(g)
                 PROVE  f = g
      BY DEF TransactionsUnique, Time
    <2>1. CASE f = e /\ g = e
      BY <2>1
    <2>2. CASE f = e /\ g # e
      <3>1. Time(g) < Time(e) /\ Time(g) \in Nat
        BY <2>2, <1>3, <1>13, <1>14
      <3>2. QED
        BY <3>1, <2>2, <1>8
    <2>3. CASE f # e /\ g = e
      <3>1. Time(f) < Time(e) /\ Time(f) \in Nat
        BY <2>3, <1>3, <1>13, <1>14
      <3>2. QED
        BY <3>1, <2>3, <1>8
    <2>4. CASE f # e /\ g # e
      BY <2>4, <1>14 DEF IInv, TransactionsUnique
    <2>5. QED
      BY <2>1, <2>2, <2>3, <2>4
  <1>16. AuthorsAreSequential'
    <2> SUFFICES ASSUME NEW k \in Id, NEW m \in Id, NEW f \in entries'[k], NEW g \in entries'[m],
                        f.id = g.id, Time(f) < Time(g)
                 PROVE  SmallerThan(f.clock, g.clock)
      BY DEF AuthorsAreSequential, Time
    <2>1. CASE f = e /\ g = e
      BY <2>1, <1>8
    <2>2. CASE f = e /\ g # e
      BY <2>2, <1>3, <1>8, <1>13, <1>14
    <2>3. CASE f # e /\ g = e
      BY <2>3, <1>3, <1>13, <1>14
    <2>4. CASE f # e /\ g # e
      BY <2>4, <1>14 DEF IInv, AuthorsAreSequential
    <2>5. QED
      BY <2>1, <2>2, <2>3, <2>4
  <1>17. QED
    BY <1>4, <1>9, <1>10, <1>11, <1>12, <1>15, <1>16 DEF IInv

\* A received entry keeps the invariant: it is not one of the receiver's own,
\* and everything its clock counts its authors have counted.
LEMMA ReceiveKeeps ==
  ASSUME IInv, NEW n \in Id, NEW m \in Id, NEW e \in entries[m], Receive(n, e)
  PROVE  IInv'
  <1>1. TypeOK /\ Insert(n, e) /\ IsNext(e.clock, clock[n], e.id)
    BY DEF IInv, Receive, Insert
  <1>2. /\ e \in Entry /\ e.id \in Id /\ e.clock \in Clock
        /\ e \in entries[e.id]
        /\ Time(e) = e.clock[e.id] /\ Time(e) \in Nat \ {0}
        /\ Time(e) <= At(clock[e.id], e.id)
        /\ \A i \in Id : At(e.clock, i) <= At(clock[i], i)
    BY NotAhead
  <1>3. /\ TypeOK'
        /\ entries'[n] = entries[n] \cup {e}
        /\ \A k \in Id \ {n} : entries'[k] = entries[k] /\ clock'[k] = clock[k]
        /\ clock'[n] = Merge(clock[n], e.clock)
        /\ \A k \in Id : Leq(clock[k], clock'[k])
        /\ Leq(e.clock, clock'[n])
    BY <1>1, <1>2, InsertStep
  <1>4. \A k \in Id : clock[k] \in Clock /\ clock'[k] \in Clock /\ entries[k] \subseteq Entry
    BY <1>1, <1>3 DEF TypeOK
  <1>5. e.id # n
    <2> SUFFICES ASSUME e.id = n PROVE FALSE
      OBVIOUS
    <2>1. e.clock[n] = At(clock[n], n) + 1
      BY <1>1, <1>4, ClockAt DEF IsNext
    <2>2. At(clock[n], n) \in Nat
      BY <1>4, ClockAt
    <2>3. QED
      BY <2>1, <2>2, <1>2
  <1>6. ASSUME NEW k \in Id, NEW f \in entries'[k]
        PROVE  \E l \in Id : f \in entries[l]
    BY <1>3
  <1>7. ASSUME NEW i \in DOMAIN clock'[n]
        PROVE  i \in Id /\ (clock'[n][i] = At(clock[n], i) \/ clock'[n][i] = At(e.clock, i))
    <2>1. i \in DOMAIN clock[n] \cup DOMAIN e.clock
      BY <1>3, MergeDomain
    <2>2. Merge(clock[n], e.clock)[i] = At(clock[n], i) \/ Merge(clock[n], e.clock)[i] = At(e.clock, i)
      BY <2>1 DEF Merge
    <2>3. QED
      BY <2>1, <2>2, <1>2, <1>3, <1>4, ClockAt
  <1>8. At(clock'[n], n) = At(clock[n], n)
    <2>1. At(clock[n], n) <= At(clock'[n], n)
      BY <1>3, <1>4, LeqAt
    <2>2. At(clock'[n], n) <= At(clock[n], n)
      <3>1. At(e.clock, n) <= At(clock[n], n) /\ At(clock[n], n) \in Nat
        BY <1>2, <1>4, ClockAt
      <3>2. CASE n \in DOMAIN clock'[n]
        <4>1. At(clock'[n], n) = clock'[n][n]
          BY <3>2, <1>4, ClockAt
        <4>2. QED
          BY <4>1, <3>1, <3>2, <1>7
      <3>3. CASE n \notin DOMAIN clock'[n]
        <4>1. At(clock'[n], n) = 0
          BY <3>3, <1>4, ClockAt
        <4>2. QED
          BY <4>1, <3>1
      <3>4. QED
        BY <3>2, <3>3
    <2>3. QED
      BY <2>1, <2>2, <1>4, ClockAt
  <1>9. Stamped'
    BY <1>6 DEF IInv, Stamped
  <1>10. ClockCoversEntries'
    <2> SUFFICES ASSUME NEW k \in Id, NEW f \in entries'[k]
                 PROVE  Leq(f.clock, clock'[k])
      BY DEF ClockCoversEntries
    <2>1. CASE f \in entries[k]
      <3>1. Leq(f.clock, clock[k]) /\ f.clock \in Clock
        BY <2>1, NotAhead DEF IInv, ClockCoversEntries
      <3>2. QED
        BY <3>1, <1>3, <1>4, LeqTransitive, TimesAreNat DEF Clock
    <2>2. CASE f \notin entries[k]
      BY <2>2, <1>3
    <2>3. QED
      BY <2>1, <2>2
  <1>11. AuthorHasHistory'
    <2>1. ASSUME NEW k \in Id, NEW f \in entries'[k]
          PROVE  f \in entries'[f.id]
      <3>1. f.id \in Id /\ f \in entries[f.id]
        BY <1>6, NotAhead
      <3>2. QED
        BY <3>1, <1>3
    <2>2. ASSUME NEW k \in Id, NEW t \in 1..At(clock'[k], k)
          PROVE  \E f \in entries'[k] : f.id = k /\ Time(f) = t
      <3>1. t \in 1..At(clock[k], k)
        BY <1>3, <1>8
      <3>2. PICK f \in entries[k] : f.id = k /\ Time(f) = t
        BY <3>1 DEF IInv, AuthorHasHistory
      <3>3. QED
        BY <3>2, <1>3
    <2>3. QED
      BY <2>1, <2>2 DEF AuthorHasHistory, Time
  <1>12. AuthorAhead'
    <2> SUFFICES ASSUME NEW k \in Id, NEW i \in DOMAIN clock'[k]
                 PROVE  clock'[k][i] <= At(clock'[i], i)
      BY DEF AuthorAhead
    <2>1. i \in Id /\ clock'[k][i] \in Nat
      BY <1>4, ClockAt
    <2>2. /\ At(clock[i], i) <= At(clock'[i], i)
          /\ At(clock[i], i) \in Nat /\ At(clock'[i], i) \in Nat
      BY <2>1, <1>3, <1>4, LeqAt, ClockAt
    <2>3. At(clock[k], i) <= At(clock[i], i)
      <3>1. CASE i \in DOMAIN clock[k]
        <4>1. clock[k][i] <= At(clock[i], i)
          BY <3>1 DEF IInv, AuthorAhead
        <4>2. QED
          BY <4>1, <3>1, <1>4, ClockAt
      <3>2. CASE i \notin DOMAIN clock[k]
        BY <3>2, <2>2, <1>4, ClockAt
      <3>3. QED
        BY <3>1, <3>2
    <2>4. clock'[k][i] <= At(clock[i], i)
      <3>1. CASE k # n
        BY <3>1, <2>3, <1>3, <1>4, ClockAt
      <3>2. CASE k = n
        BY <3>2, <2>1, <2>3, <1>2, <1>7
      <3>3. QED
        BY <3>1, <3>2
    <2>5. QED
      BY <2>1, <2>2, <2>4
  <1>13. TransactionsUnique'
    <2> SUFFICES ASSUME NEW k \in Id, NEW l \in Id, NEW f \in entries'[k], NEW g \in entries'[l],
                        f.id = g.id, Time(f) = Time(g)
                 PROVE  f = g
      BY DEF TransactionsUnique, Time
    <2>1. QED
      BY <1>6 DEF IInv, TransactionsUnique
  <1>14. AuthorsAreSequential'
    <2> SUFFICES ASSUME NEW k \in Id, NEW l \in Id, NEW f \in entries'[k], NEW g \in entries'[l],
                        f.id = g.id, Time(f) < Time(g)
                 PROVE  SmallerThan(f.clock, g.clock)
      BY DEF AuthorsAreSequential, Time
    <2>1. QED
      BY <1>6 DEF IInv, AuthorsAreSequential
  <1>15. QED
    BY <1>3, <1>9, <1>10, <1>11, <1>12, <1>13, <1>14 DEF IInv

\* A stuttering step keeps the invariant.
LEMMA StutterKeeps ==
  ASSUME IInv, UNCHANGED vars
  PROVE  IInv'
  BY DEF vars, IInv, TypeOK, Stamped, ClockCoversEntries, AuthorHasHistory, AuthorAhead,
         TransactionsUnique, AuthorsAreSequential, Time

\* A new pool satisfies the invariant.
LEMMA InitIsSafe == Init => IInv
  <1> SUFFICES ASSUME Init PROVE IInv
    OBVIOUS
  <1>1. /\ \A n \in Id : entries[n] = {} /\ clock[n] = EmptyClock
        /\ DOMAIN EmptyClock = {}
        /\ EmptyClock \in [{} -> 1..MaxTime]
    BY DEF Init, EmptyClock
  <1>2. EmptyClock \in Clock
    BY <1>1, ClockShape DEF Clock
  <1>3. TypeOK
    BY <1>2 DEF Init, TypeOK
  <1>4. \A n \in Id : At(clock[n], n) = 0
    BY <1>1 DEF At
  <1>5. AuthorHasHistory
    BY <1>1, <1>4 DEF AuthorHasHistory
  <1>6. QED
    BY <1>1, <1>3, <1>5 DEF IInv, Stamped, ClockCoversEntries, AuthorAhead,
       TransactionsUnique, AuthorsAreSequential

\* Every step of the pool keeps the invariant.
LEMMA InvariantKept ==
  ASSUME IInv, [Next]_vars
  PROVE  IInv'
  <1>1. ASSUME NEW n \in Id, NEW value \in Amount, NEW alters \in Clock,
               AppendData(n, value, alters)
        PROVE  IInv'
    BY <1>1, AppendKeeps
  <1>2. ASSUME NEW n \in Id, NEW m \in Id, NEW e \in entries[m], Receive(n, e)
        PROVE  IInv'
    BY <1>2, ReceiveKeeps
  <1>3. CASE UNCHANGED vars
    BY <1>3, StutterKeeps
  <1>4. QED
    BY <1>1, <1>2, <1>3 DEF Next

\* The inductive invariant holds of every pool, whatever order, loss or
\* repetition the brokers' calls give to the deliveries.
THEOREM InvariantHolds == Spec => []IInv
  BY InvariantKept, InitIsSafe, PTL DEF Spec

\* JournalBase::insert never lets two entries share an author and a time,
\* anywhere in the pool.
THEOREM UniqueTransactions == Spec => []TransactionsUnique
  <1>1. IInv => TransactionsUnique
    BY DEF IInv
  <1>2. QED
    BY <1>1, InvariantHolds, PTL

\* The clock of a journal counts all that it stores (JournalBase::insert).
THEOREM ClockCovers == Spec => []ClockCoversEntries
  <1>1. IInv => ClockCoversEntries
    BY DEF IInv
  <1>2. QED
    BY <1>1, InvariantHolds, PTL

\* Authors store all of their own entries, without a gap (BrokerBase::append).
THEOREM AuthorsHaveHistory == Spec => []AuthorHasHistory
  <1>1. IInv => AuthorHasHistory
    BY DEF IInv
  <1>2. QED
    BY <1>1, InvariantHolds, PTL

\* No clock runs ahead of the author it counts (Broker::insert merges clocks
\* that some journal has reached).
THEOREM AuthorsAhead == Spec => []AuthorAhead
  <1>1. IInv => AuthorAhead
    BY DEF IInv
  <1>2. QED
    BY <1>1, InvariantHolds, PTL

\* Clock::smallerThan orders the entries of one author by their times, so
\* Ledger::Replaces never has to break a tie between two of them.
THEOREM SequentialAuthors == Spec => []AuthorsAreSequential
  <1>1. IInv => AuthorsAreSequential
    BY DEF IInv
  <1>2. QED
    BY <1>1, InvariantHolds, PTL

\* An append makes a clock that no entry has: nobody has counted as many events
\* of its author.
LEMMA AppendKeepsKeys ==
  ASSUME IInv, ClocksAreKeys, NEW n \in Id, NEW value \in Amount,
         NEW alters \in Clock, AppendData(n, value, alters)
  PROVE  ClocksAreKeys'
  <1> DEFINE e == Appended(n, value, alters)
  <1>1. /\ TypeOK /\ At(clock[n], n) < MaxTime
        /\ Insert(n, e)
    BY DEF IInv, AppendData, Appended
  <1>2. e \in Entry /\ e.clock = Tick(clock[n], n)
    BY <1>1, AppendedType DEF Appended
  <1> HIDE DEF e
  <1>3. \A k \in Id : \A f \in entries'[k] : f = e \/ f \in entries[k]
    BY <1>1, <1>2, InsertStep
  <1>4. At(e.clock, n) = At(clock[n], n) + 1 /\ At(clock[n], n) \in Nat
    <2>1. clock[n] \in Clock
      BY <1>1 DEF TypeOK
    <2>2. At(clock[n], n) \in Nat
      BY <2>1, ClockAt
    <2>3. n \in DOMAIN Tick(clock[n], n) /\ Tick(clock[n], n)[n] = At(clock[n], n) + 1
      BY TickParts
    <2>4. At(e.clock, n) = Tick(clock[n], n)[n]
      BY <2>3, <1>2 DEF At
    <2> QED
      BY <2>2, <2>3, <2>4
  <1>5. ASSUME NEW k \in Id, NEW f \in entries[k] PROVE f.clock # e.clock
    BY <1>4, NotAhead, ClockAt
  <1> QED
    BY <1>3, <1>5 DEF ClocksAreKeys

\* So does every other step: what is received is stored already.
LEMMA KeysKept ==
  ASSUME IInv, ClocksAreKeys, [Next]_vars
  PROVE  ClocksAreKeys'
  <1>1. ASSUME NEW n \in Id, NEW value \in Amount, NEW alters \in Clock,
               AppendData(n, value, alters)
        PROVE  ClocksAreKeys'
    BY <1>1, AppendKeepsKeys
  <1>2. ASSUME NEW n \in Id, NEW m \in Id, NEW e \in entries[m], Receive(n, e)
        PROVE  ClocksAreKeys'
    <2>1. TypeOK /\ e \in Entry /\ Insert(n, e)
      BY <1>2, NotAhead DEF IInv, Receive
    <2>2. \A k \in Id : \A f \in entries'[k] : \E l \in Id : f \in entries[l]
      BY <2>1, InsertStep
    <2> QED
      BY <2>2 DEF ClocksAreKeys
  <1>3. CASE UNCHANGED vars
    BY <1>3 DEF vars, ClocksAreKeys
  <1> QED
    BY <1>1, <1>2, <1>3 DEF Next

\* An entry's clock names it: the keys of the store, and the clocks that replace
\* and erase are given, are never ambiguous.
THEOREM ClocksIdentify == Spec => []ClocksAreKeys
  <1>1. Init => ClocksAreKeys
    BY DEF Init, ClocksAreKeys
  <1>2. QED
    BY <1>1, KeysKept, InvariantHolds, PTL DEF Spec

\* In a step stored entries stay and clocks never go back.
LEMMA StepGrows ==
  ASSUME TypeOK, [Next]_vars
  PROVE  \A n \in Id : entries[n] \subseteq entries'[n] /\ Leq(clock[n], clock'[n])
  <1>1. CASE UNCHANGED vars
    <2>1. clock' = clock /\ entries' = entries
      BY <1>1 DEF vars
    <2>2. \A n \in Id : Leq(clock[n], clock[n])
      BY TimesAreNat, LeqReflexive DEF TypeOK, Clock
    <2> QED
      BY <2>1, <2>2
  <1>2. CASE Next
    <2>1. PICK n \in Id, e \in Entry : Insert(n, e)
      <3>1. ASSUME NEW n \in Id, NEW value \in Amount, NEW alters \in Clock,
                   AppendData(n, value, alters)
            PROVE  \E e \in Entry : Insert(n, e)
        BY <3>1, AppendedType DEF AppendData, Appended
      <3>2. ASSUME NEW n \in Id, NEW m \in Id, NEW e \in entries[m], Receive(n, e)
            PROVE  \E f \in Entry : Insert(n, f)
        BY <3>2 DEF Receive, TypeOK
      <3>3. QED
        BY <1>2, <3>1, <3>2 DEF Next
    <2>2. QED
      BY <2>1, InsertStep
  <1>3. QED
    BY <1>1, <1>2

\* So no journal ever loses an entry or forgets an event.
THEOREM OnlyGrow == Spec => JournalsOnlyGrow
  <1>1. TypeOK /\ [Next]_vars =>
          [\A n \in Id : entries[n] \subseteq entries'[n] /\ Leq(clock[n], clock'[n])]_vars
    BY StepGrows
  <1>2. QED
    BY <1>1, TypeCorrect, PTL DEF Spec, JournalsOnlyGrow

-----------------------------------------------------------------------------
\* Causal delivery is a special case of delivery.
THEOREM CausalImplementsSpec == CausalSpec => Spec
  <1>1. CausalNext => Next
    BY DEF CausalNext, Next, CausalReceive, Receive
  <1>2. QED
    BY <1>1, PTL DEF CausalSpec, Spec

\* An append keeps a complete journal complete.
LEMMA AppendIsComplete ==
  ASSUME IInv, ClockIsComplete, NEW n \in Id, NEW value \in Amount,
         NEW alters \in Clock, AppendData(n, value, alters)
  PROVE  ClockIsComplete'
  <1> DEFINE e == Appended(n, value, alters)
  <1>1. /\ TypeOK /\ At(clock[n], n) < MaxTime
        /\ Insert(n, e)
    BY DEF IInv, AppendData, Appended
  <1>2. e \in Entry
    BY <1>1, AppendedType
  <1>3. e.id = n /\ e.clock = Tick(clock[n], n)
    BY DEF Appended
  <1> HIDE DEF e
  <1>4. /\ entries'[n] = entries[n] \cup {e}
        /\ \A k \in Id \ {n} : entries'[k] = entries[k] /\ clock'[k] = clock[k]
        /\ clock'[n] = Merge(clock[n], e.clock)
    BY <1>1, <1>2, InsertStep
  <1>5. clock[n] \in Clock
    BY <1>1 DEF TypeOK
  <1>6. /\ DOMAIN Tick(clock[n], n) = DOMAIN clock[n] \cup {n}
        /\ Tick(clock[n], n)[n] = At(clock[n], n) + 1
        /\ \A i \in DOMAIN clock[n] : i # n => Tick(clock[n], n)[i] = clock[n][i]
    BY TickParts
  <1>7. Time(e) = At(clock[n], n) + 1
    BY <1>3, <1>6 DEF Time, At
  <1> SUFFICES ASSUME NEW k \in Id, NEW i \in DOMAIN clock'[k], NEW t \in 1..clock'[k][i]
               PROVE  \E f \in entries'[k] : f.id = i /\ Time(f) = t
    BY DEF ClockIsComplete, Time
  <1>8. CASE i \in DOMAIN clock[k] /\ t \in 1..clock[k][i]
    <2>1. PICK f \in entries[k] : f.id = i /\ Time(f) = t
      BY <1>8 DEF ClockIsComplete
    <2>2. QED
      BY <2>1, <1>4
  <1>9. CASE ~(i \in DOMAIN clock[k] /\ t \in 1..clock[k][i])
    <2>1. k = n
      BY <1>9, <1>4
    <2>2. /\ i \in DOMAIN clock[n] \cup {n}
          /\ clock'[n][i] = At(clock[n], i) \/ clock'[n][i] = At(e.clock, i)
      <3>1. i \in DOMAIN clock[n] \cup DOMAIN e.clock
        BY <2>1, <1>4, MergeDomain
      <3>2. QED
        BY <3>1, <2>1, <1>3, <1>4, <1>6 DEF Merge
    <2>3. At(clock[n], i) \in Nat /\ (i \in DOMAIN clock[n] => At(clock[n], i) = clock[n][i])
          /\ (i \notin DOMAIN clock[n] => At(clock[n], i) = 0)
      BY <1>5, ClockAt
    <2>4. i = n
      BY <2>1, <2>2, <2>3, <1>3, <1>6, <1>9 DEF At
    <2>5. t = At(clock[n], n) + 1
      BY <2>1, <2>2, <2>3, <2>4, <1>3, <1>6, <1>9 DEF At
    <2>6. QED
      BY <2>1, <2>4, <2>5, <1>3, <1>4, <1>7
  <1>10. QED
    BY <1>8, <1>9

\* So does a causal delivery: the only event it makes the clock count is the
\* entry that is stored.
LEMMA CausalReceiveIsComplete ==
  ASSUME IInv, ClockIsComplete, NEW n \in Id, NEW m \in Id, NEW e \in entries[m],
         CausalReceive(n, e)
  PROVE  ClockIsComplete'
  <1>1. /\ TypeOK /\ Insert(n, e) /\ IsNext(e.clock, clock[n], e.id)
        /\ CausallyReady(n, e)
    BY DEF IInv, CausalReceive, Insert
  <1>2. /\ e \in Entry /\ e.id \in Id /\ e.clock \in Clock
        /\ Time(e) = e.clock[e.id] /\ Time(e) \in Nat \ {0}
    BY NotAhead
  <1>3. /\ entries'[n] = entries[n] \cup {e}
        /\ \A k \in Id \ {n} : entries'[k] = entries[k] /\ clock'[k] = clock[k]
        /\ clock'[n] = Merge(clock[n], e.clock)
    BY <1>1, <1>2, InsertStep
  <1>4. clock[n] \in Clock
    BY <1>1 DEF TypeOK
  <1>5. e.clock[e.id] = At(clock[n], e.id) + 1
    BY <1>1, <1>4, ClockAt DEF IsNext
  <1> SUFFICES ASSUME NEW k \in Id, NEW i \in DOMAIN clock'[k], NEW t \in 1..clock'[k][i]
               PROVE  \E f \in entries'[k] : f.id = i /\ Time(f) = t
    BY DEF ClockIsComplete, Time
  <1>6. CASE i \in DOMAIN clock[k] /\ t \in 1..clock[k][i]
    <2>1. PICK f \in entries[k] : f.id = i /\ Time(f) = t
      BY <1>6 DEF ClockIsComplete
    <2>2. QED
      BY <2>1, <1>3
  <1>7. CASE ~(i \in DOMAIN clock[k] /\ t \in 1..clock[k][i])
    <2>1. k = n
      BY <1>7, <1>3
    <2>2. clock'[n][i] = At(clock[n], i) \/ clock'[n][i] = At(e.clock, i)
      <3>1. i \in DOMAIN clock[n] \cup DOMAIN e.clock
        BY <2>1, <1>3, MergeDomain
      <3>2. QED
        BY <3>1, <1>3 DEF Merge
    <2>3. /\ At(clock[n], i) \in Nat
          /\ i \in DOMAIN clock[n] => At(clock[n], i) = clock[n][i]
          /\ i \notin DOMAIN clock[n] => At(clock[n], i) = 0
      BY <1>4, ClockAt
    <2>4. /\ At(e.clock, i) \in Nat
          /\ i \in DOMAIN e.clock => At(e.clock, i) = e.clock[i]
          /\ i \notin DOMAIN e.clock => At(e.clock, i) = 0
      BY <1>2, ClockAt
    <2>5. clock'[n][i] = At(e.clock, i) /\ At(clock[n], i) < t
      BY <2>1, <2>2, <2>3, <2>4, <1>7
    <2>6. i = e.id
      BY <2>1, <2>3, <2>4, <2>5, <1>1 DEF CausallyReady
    <2>7. t = Time(e)
      BY <2>1, <2>3, <2>4, <2>5, <2>6, <1>2, <1>5
    <2>8. QED
      BY <2>1, <2>6, <2>7, <1>3
  <1>8. QED
    BY <1>6, <1>7

\* With causal delivery a journal stores every entry that its clock counts, so
\* two journals with the same clock hold the same entries.
THEOREM CausalIsComplete == CausalSpec => []ClockIsComplete
  <1>1. Init => ClockIsComplete
    BY DEF Init, ClockIsComplete, EmptyClock
  <1>2. IInv /\ ClockIsComplete /\ [CausalNext]_vars => ClockIsComplete'
    <2> SUFFICES ASSUME IInv, ClockIsComplete, [CausalNext]_vars PROVE ClockIsComplete'
      OBVIOUS
    <2>1. ASSUME NEW n \in Id, NEW value \in Amount, NEW alters \in Clock,
                 AppendData(n, value, alters)
          PROVE  ClockIsComplete'
      BY <2>1, AppendIsComplete
    <2>2. ASSUME NEW n \in Id, NEW m \in Id, NEW e \in entries[m], CausalReceive(n, e)
          PROVE  ClockIsComplete'
      BY <2>2, CausalReceiveIsComplete
    <2>3. CASE UNCHANGED vars
      BY <2>3 DEF vars, ClockIsComplete, Time
    <2>4. QED
      BY <2>1, <2>2, <2>3 DEF CausalNext
  <1>3. QED
    BY <1>1, <1>2, CausalImplementsSpec, InvariantHolds, PTL DEF CausalSpec

\* Hence two journals with the same clock hold the same entries.
LEMMA CompleteClocksDecide == IInv /\ ClockIsComplete => SameClockSameEntries
  <1> SUFFICES ASSUME IInv, ClockIsComplete PROVE SameClockSameEntries
    OBVIOUS
  <1>1. ASSUME NEW k \in Id, NEW l \in Id, clock[k] = clock[l], NEW e \in entries[k]
        PROVE  e \in entries[l]
    <2>1. /\ e.id \in DOMAIN e.clock /\ Leq(e.clock, clock[k])
          /\ e.clock \in Clock /\ clock[k] \in Clock
          /\ Time(e) = e.clock[e.id] /\ Time(e) \in Nat \ {0}
      BY NotAhead DEF IInv, Stamped, ClockCoversEntries, TypeOK
    <2>2. e.id \in DOMAIN clock[l] /\ e.clock[e.id] <= clock[l][e.id]
      BY <2>1, <1>1 DEF Leq
    <2>3. Time(e) \in 1..clock[l][e.id]
      BY <2>1, <2>2, <1>1, ClockAt
    <2>4. PICK f \in entries[l] : f.id = e.id /\ Time(f) = Time(e)
      BY <2>2, <2>3 DEF ClockIsComplete
    <2>5. f = e
      BY <2>4 DEF IInv, TransactionsUnique
    <2>6. QED
      BY <2>4, <2>5
  <1>2. QED
    BY <1>1 DEF SameClockSameEntries

\* With causal delivery the clock that brokers exchange on connect decides
\* exactly what a journal lacks.
THEOREM EqualClocksEqualEntries == CausalSpec => []SameClockSameEntries
  BY CompleteClocksDecide, CausalIsComplete, CausalImplementsSpec, InvariantHolds, PTL

=============================================================================
