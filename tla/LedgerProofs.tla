---------------------------- MODULE LedgerProofs ----------------------------
(***************************************************************************)
(* The ledger does not depend on the order of its list where at most two   *)
(* journals edit any one entry, for every number of journals and entries,  *)
(* and its balance is the sum of its rows for every list.                  *)
(***************************************************************************)
EXTENDS JournalLedger, JournalProofs, EntryListsProofs

-----------------------------------------------------------------------------
(***************************************************************************)
(* The loop of Ledger::Ledger.                                             *)
(***************************************************************************)
EmptyLedger == [rows |-> NoRows, balance |-> 0]

\* The loop has run k times, and f has the ledgers of each time.
Ran(list, f, k) ==
  /\ DOMAIN f = 0..k
  /\ f[0] = EmptyLedger
  /\ \A i \in 1..k : f[i] = Apply(f[i - 1], list[i])

\* The loop can run any number of times: a run that is one shorter goes on.
LEMMA LoopRuns ==
  ASSUME NEW list, NEW n \in Nat
  PROVE  \E f : Ran(list, f, n)
  <1> DEFINE D == {k \in Nat : ~\E f : Ran(list, f, k)}
  <1> SUFFICES ASSUME D # {} PROVE FALSE
    OBVIOUS
  <1>1. D \subseteq Nat
    OBVIOUS
  <1> HIDE DEF D
  <1>2. PICK k \in D : \A j \in D : ~(<<j, k>> \in OpToRel(<, Nat))
    BY <1>1, WFMin, NatLessThanWellFounded
  <1>3. k \in Nat /\ \A j \in D : ~(j < k)
    BY <1>1, <1>2 DEF OpToRel
  <1>4. ~\E f : Ran(list, f, k)
    BY <1>2 DEF D
  <1>5. CASE k = 0
    <2> DEFINE f == [i \in 0..0 |-> EmptyLedger]
    <2>1. Ran(list, f, 0)
      BY DEF Ran
    <2> QED
      BY <2>1, <1>4, <1>5
  <1>6. CASE k # 0
    <2>1. k - 1 \in Nat /\ k - 1 \notin D
      BY <1>3, <1>6
    <2>2. PICK f : Ran(list, f, k - 1)
      BY <2>1 DEF D
    <2> DEFINE g == [i \in 0..k |-> IF i = k THEN Apply(f[k - 1], list[k]) ELSE f[i]]
    <2>3. DOMAIN g = 0..k /\ g[0] = EmptyLedger
      BY <1>3, <1>6, <2>2 DEF Ran
    <2>4. ASSUME NEW i \in 1..k PROVE g[i] = Apply(g[i - 1], list[i])
      <3>1. g[i - 1] = f[i - 1]
        BY <1>3
      <3>2. CASE i = k
        BY <3>1, <3>2, <1>3
      <3>3. CASE i # k
        BY <3>1, <3>3, <1>3, <2>2 DEF Ran
      <3> QED
        BY <3>2, <3>3
    <2>5. Ran(list, g, k)
      BY <2>3, <2>4 DEF Ran
    <2> QED
      BY <2>5, <1>4
  <1> QED
    BY <1>5, <1>6

\* So there is the function that LedgerOf defines: it ends with the last ledger of
\* a run over the list.
LEMMA LedgerRan ==
  ASSUME NEW list, Len(list) \in Nat
  PROVE  \E f : Ran(list, f, Len(list)) /\ LedgerOf(list) = f[Len(list)]
  <1> DEFINE n == Len(list)
             R(f) == f = [k \in 0..n |-> IF k = 0 THEN EmptyLedger ELSE Apply(f[k - 1], list[k])]
             after == CHOOSE f : R(f)
  <1>1. PICK g : Ran(list, g, n)
    BY LoopRuns
  <1> DEFINE h == [k \in 0..n |-> g[k]]
  <1>2. R(h)
    <2>1. ASSUME NEW k \in 0..n
          PROVE  h[k] = IF k = 0 THEN EmptyLedger ELSE Apply(h[k - 1], list[k])
      BY <1>1 DEF Ran
    <2> HIDE DEF h
    <2>2. h = [k \in 0..n |-> h[k]]
      BY DEF h
    <2> QED
      BY <2>1, <2>2
  <1>3. R(after)
    <2>1. \E f : R(f)
      BY <1>2
    <2> HIDE DEF R
    <2> QED
      BY <2>1
  <1>4. LedgerOf(list) = after[n]
    BY DEF LedgerOf, EmptyLedger
  <1> HIDE DEF after
  <1>5. Ran(list, after, n)
    <2>1. after = [k \in 0..n |-> IF k = 0 THEN EmptyLedger ELSE Apply(after[k - 1], list[k])]
      BY <1>3
    <2>2. DOMAIN after = 0..n
      BY <2>1
    <2>3. \A k \in 0..n : after[k] = IF k = 0 THEN EmptyLedger ELSE Apply(after[k - 1], list[k])
      BY <2>1
    <2> QED
      BY <2>2, <2>3 DEF Ran
  <1> QED
    BY <1>4, <1>5

-----------------------------------------------------------------------------
(***************************************************************************)
(* Who wins.  What is used of the entries of a journal: no two share a     *)
(* clock, those of one author are in order, an entry is later than what it *)
(* alters, and at most two authors alter the same.                         *)
(***************************************************************************)
\* The later entry wins or, between concurrent ones, the one of the larger id.
Wins(e, f) == Leq(f.clock, e.clock) \/ (~Leq(e.clock, f.clock) /\ f.id < e.id)

Keyed(S) == \A e, f \in S : e.clock = f.clock => e = f

Sequential(S) == \A e, f \in S : e.id = f.id => Leq(e.clock, f.clock) \/ Leq(f.clock, e.clock)

AltersThePast(S) == \A e \in S : Leq(e.alters, e.clock) /\ e.alters # e.clock

EditedByTwo(S) ==
  \A e, f, g \in S :
    e.alters # EmptyClock /\ e.alters = f.alters /\ f.alters = g.alters
      => e.id = f.id \/ f.id = g.id \/ e.id = g.id

Content(S) ==
  S \subseteq Entry /\ Keyed(S) /\ Sequential(S) /\ AltersThePast(S) /\ EditedByTwo(S)

\* The clocks of a journal's entries are partially ordered.
LEMMA ClockOrder ==
  /\ \A c \in Clock : Leq(c, c)
  /\ \A c, d \in Clock : Leq(c, d) /\ Leq(d, c) => c = d
  /\ \A c, d, e \in Clock : Leq(c, d) /\ Leq(d, e) => Leq(c, e)
  BY LeqReflexive, LeqAntisymmetric, LeqTransitive, TimesAreNat DEF Clock

\* Two entries that win over each other are the same.
LEMMA WinsAntisymmetric ==
  ASSUME NEW S, Content(S), NEW e \in S, NEW f \in S, Wins(e, f), Wins(f, e)
  PROVE  e = f
  <1>1. e \in Entry /\ f \in Entry
    BY DEF Content
  <1>2. e.clock \in Clock /\ f.clock \in Clock /\ e.id \in Nat /\ f.id \in Nat
    BY <1>1, IdAssumption DEF Entry
  <1>3. CASE Leq(e.clock, f.clock) /\ Leq(f.clock, e.clock)
    BY <1>2, <1>3, ClockOrder DEF Content, Keyed
  <1>4. CASE ~(Leq(e.clock, f.clock) /\ Leq(f.clock, e.clock))
    BY <1>2, <1>4 DEF Wins
  <1> QED
    BY <1>3, <1>4

\* An entry that is added loses to those that alter it.
LEMMA OriginalLoses ==
  ASSUME NEW S, Content(S), NEW e \in S, NEW f \in S, Target(e) = Target(f), e.alters = EmptyClock
  PROVE  Leq(e.clock, f.clock) /\ (f.alters = EmptyClock => e = f)
  <1>1. e \in Entry /\ f \in Entry
    BY DEF Content
  <1>2. CASE f.alters = EmptyClock
    BY <1>1, <1>2, ClockOrder DEF Target, Content, Keyed, Entry
  <1>3. CASE f.alters # EmptyClock
    BY <1>3 DEF Target, Content, AltersThePast
  <1> QED
    BY <1>2, <1>3

\* Among the entries for one row the winner of a winner wins: with two authors
\* there are no cycles.
LEMMA WinsTransitive ==
  ASSUME NEW S, Content(S), NEW e \in S, NEW f \in S, NEW g \in S,
         Target(e) = Target(f), Target(f) = Target(g), Wins(e, f), Wins(f, g)
  PROVE  Wins(e, g)
  <1> DEFINE a == e.clock
             b == f.clock
             c == g.clock
  <1>1. e \in Entry /\ f \in Entry /\ g \in Entry
    BY DEF Content
  <1> DEFINE i == e.id
             j == f.id
             k == g.id
  <1>2. a \in Clock /\ b \in Clock /\ c \in Clock /\ i \in Nat /\ j \in Nat /\ k \in Nat
    BY <1>1, IdAssumption DEF Entry
  <1>3. /\ Leq(b, a) \/ (~Leq(a, b) /\ j < i)
        /\ Leq(c, b) \/ (~Leq(b, c) /\ k < j)
        /\ Wins(e, g) <=> Leq(c, a) \/ (~Leq(a, c) /\ k < i)
    BY DEF Wins
  <1>4. /\ Leq(a, b) /\ Leq(b, c) => Leq(a, c)
        /\ Leq(a, c) /\ Leq(c, b) => Leq(a, b)
        /\ Leq(b, a) /\ Leq(a, c) => Leq(b, c)
        /\ Leq(c, b) /\ Leq(b, a) => Leq(c, a)
    BY <1>2, ClockOrder
  <1>5. CASE e.alters = EmptyClock
    <2>1. Leq(a, b) /\ Leq(a, c)
      BY <1>5, OriginalLoses
    <2>2. e = f
      BY <2>1, WinsAntisymmetric DEF Wins
    <2> QED
      BY <2>2
  <1>6. CASE f.alters = EmptyClock
    <2>1. Leq(b, c)
      BY <1>6, OriginalLoses
    <2>2. f = g
      BY <2>1, WinsAntisymmetric DEF Wins
    <2> QED
      BY <2>2
  <1>7. CASE g.alters = EmptyClock
    BY <1>3, <1>7, OriginalLoses
  <1>8. CASE e.alters # EmptyClock /\ f.alters # EmptyClock /\ g.alters # EmptyClock
    <2>1. e.alters = f.alters /\ f.alters = g.alters
      BY <1>8 DEF Target
    <2>2. i = j \/ j = k \/ i = k
      BY <2>1, <1>8 DEF Content, EditedByTwo
    <2>3. /\ i = j => Leq(a, b) \/ Leq(b, a)
          /\ j = k => Leq(b, c) \/ Leq(c, b)
          /\ i = k => Leq(a, c) \/ Leq(c, a)
      BY DEF Content, Sequential
    <2> HIDE DEF a, b, c, i, j, k
    <2> QED
      BY <1>2, <1>3, <1>4, <2>2, <2>3
  <1> QED
    BY <1>5, <1>6, <1>7, <1>8

\* Ledger::Replaces lets the winner have the row.
LEMMA ReplacesIsWins ==
  ASSUME NEW S, Content(S), NEW e \in S, NEW f \in S, Target(e) = Target(f), e # f
  PROVE  /\ Replaces(e, f) => Wins(f, e)
         /\ ~Replaces(e, f) => Wins(e, f)
  <1>1. e \in Entry /\ f \in Entry
    BY DEF Content
  <1>2. e.clock \in Clock /\ f.clock \in Clock /\ e.id \in Nat /\ f.id \in Nat
    BY <1>1, IdAssumption DEF Entry
  <1>3. e.clock # f.clock
    BY DEF Content, Keyed
  <1>4. /\ SmallerThan(e.clock, f.clock) <=> Leq(e.clock, f.clock)
        /\ SmallerThan(f.clock, e.clock) <=> Leq(f.clock, e.clock)
    BY <1>2, <1>3, SmallerThanIsStrict, TimesAreNat DEF Clock
  <1>5. ~(Leq(e.clock, f.clock) /\ Leq(f.clock, e.clock))
    BY <1>2, <1>3, ClockOrder
  <1>6. CASE f.alters = EmptyClock
    <2>1. Leq(f.clock, e.clock)
      BY <1>6, OriginalLoses
    <2> QED
      BY <2>1, <1>6 DEF Replaces, Wins
  <1>7. CASE f.alters # EmptyClock
    <2>1. Replaces(e, f) <=> \/ Leq(e.clock, f.clock)
                             \/ ~Leq(f.clock, e.clock) /\ e.id < f.id
      BY <1>4, <1>7 DEF Replaces
    <2>2. e.id = f.id => Leq(e.clock, f.clock) \/ Leq(f.clock, e.clock)
      BY DEF Content, Sequential
    <2> QED
      BY <1>2, <1>5, <2>1, <2>2 DEF Wins
  <1> QED
    BY <1>6, <1>7

-----------------------------------------------------------------------------
(***************************************************************************)
(* The rows after the entries of T have been taken: each has the entry     *)
(* that wins over all of T for it.                                         *)
(***************************************************************************)
Winners(rows, T) ==
  /\ rows = [k \in DOMAIN rows |-> rows[k]]
  /\ DOMAIN rows = {Target(e) : e \in T}
  /\ \A k \in DOMAIN rows : rows[k] \in T /\ Target(rows[k]) = k
  /\ \A e \in T : Wins(rows[Target(e)], e)

\* An entry wins over itself.
LEMMA WinsReflexive ==
  ASSUME NEW e \in Entry
  PROVE  Wins(e, e)
  BY ClockOrder DEF Wins, Entry

\* What a turn of the loop does to the rows.
LEMMA ApplyRows ==
  ASSUME NEW L, NEW e
  PROVE  Apply(L, e).rows =
           IF Target(e) \in DOMAIN L.rows /\ ~Replaces(L.rows[Target(e)], e)
             THEN L.rows
             ELSE [k \in DOMAIN L.rows \cup {Target(e)} |-> IF k = Target(e) THEN e ELSE L.rows[k]]
  <1> DEFINE k == Target(e)
             rows(what) == [i \in DOMAIN L.rows \cup {what} |-> IF i = what THEN e ELSE L.rows[i]]
  <1>1. CASE k \notin DOMAIN L.rows
    <2>1. Evaluate(L.rows, e) = [act |-> "Insert", what |-> k]
      BY <1>1 DEF Evaluate, Target
    <2> QED
      BY <2>1, <1>1 DEF Apply
  <1>2. CASE k \in DOMAIN L.rows /\ Replaces(L.rows[k], e)
    <2>1. Evaluate(L.rows, e) = [act |-> "Replace", what |-> k]
      BY <1>2 DEF Evaluate, Target
    <2> QED
      BY <2>1, <1>2 DEF Apply
  <1>3. CASE k \in DOMAIN L.rows /\ ~Replaces(L.rows[k], e)
    <2>1. Evaluate(L.rows, e) = [act |-> "Ignore", what |-> EmptyClock]
      BY <1>3 DEF Evaluate, Target
    <2> QED
      BY <2>1, <1>3 DEF Apply
  <1> QED
    BY <1>1, <1>2, <1>3

\* A turn of the loop leaves each row to its winner.
LEMMA ApplyKeepsWinners ==
  ASSUME NEW S, Content(S), NEW T \in SUBSET S, NEW L, Winners(L.rows, T), NEW e \in S \ T
  PROVE  Winners(Apply(L, e).rows, T \cup {e})
  <1> DEFINE k == Target(e)
             rows == L.rows
             next == Apply(L, e).rows
             taken == [i \in DOMAIN rows \cup {k} |-> IF i = k THEN e ELSE rows[i]]
  <1>1. next = IF k \in DOMAIN rows /\ ~Replaces(rows[k], e) THEN rows ELSE taken
    BY ApplyRows
  <1>2. /\ rows = [i \in DOMAIN rows |-> rows[i]]
        /\ DOMAIN rows = {Target(f) : f \in T}
        /\ \A i \in DOMAIN rows : rows[i] \in T /\ Target(rows[i]) = i
        /\ \A f \in T : Wins(rows[Target(f)], f)
    BY DEF Winners
  <1>3. e \in Entry /\ Wins(e, e)
    BY WinsReflexive DEF Content
  <1> SUFFICES Winners(next, T \cup {e})
    OBVIOUS
  <1> HIDE DEF k, rows, next
  <1>4. ASSUME next = taken, k \in DOMAIN rows => Wins(e, rows[k])
        PROVE  Winners(next, T \cup {e})
    <2>1. DOMAIN next = {Target(f) : f \in T \cup {e}}
      BY <1>2, <1>4 DEF k
    <2>4. next = [i \in DOMAIN next |-> next[i]]
      BY <1>4
    <2>2. \A i \in DOMAIN next : next[i] \in T \cup {e} /\ Target(next[i]) = i
      BY <1>2, <1>4 DEF k
    <2>3. ASSUME NEW f \in T \cup {e} PROVE Wins(next[Target(f)], f)
      <3>1. CASE f = e
        BY <3>1, <1>3, <1>4 DEF k
      <3>2. CASE f \in T /\ Target(f) # k
        <4>1. next[Target(f)] = rows[Target(f)]
          BY <3>2, <1>2, <1>4
        <4> QED
          BY <4>1, <3>2, <1>2
      <3>3. CASE f \in T /\ Target(f) = k
        <4>1. k \in DOMAIN rows /\ rows[k] \in T /\ Target(rows[k]) = k /\ Wins(rows[k], f)
          BY <3>3, <1>2
        <4>2. Wins(e, rows[k])
          BY <4>1, <1>4
        <4>3. Wins(e, f)
          BY <4>1, <4>2, <3>3, WinsTransitive DEF k
        <4>4. next[k] = e
          BY <1>4
        <4> QED
          BY <4>3, <4>4, <3>3
      <3> QED
        BY <3>1, <3>2, <3>3
    <2> QED
      BY <2>1, <2>2, <2>3, <2>4 DEF Winners
  <1>5. CASE k \notin DOMAIN rows
    BY <1>1, <1>4, <1>5
  <1>6. CASE k \in DOMAIN rows /\ Replaces(rows[k], e)
    <2>1. rows[k] \in S /\ rows[k] # e /\ Target(rows[k]) = Target(e)
      BY <1>2, <1>6 DEF k
    <2>2. Wins(e, rows[k])
      BY <2>1, <1>6, ReplacesIsWins
    <2> QED
      BY <2>2, <1>1, <1>4, <1>6
  <1>7. CASE k \in DOMAIN rows /\ ~Replaces(rows[k], e)
    <2>1. rows[k] \in S /\ rows[k] # e /\ Target(rows[k]) = Target(e)
      BY <1>2, <1>7 DEF k
    <2>2. Wins(rows[k], e)
      BY <2>1, <1>7, ReplacesIsWins
    <2>3. next = rows
      BY <1>1, <1>7
    <2>4. DOMAIN rows = {Target(f) : f \in T \cup {e}}
      BY <1>2, <1>7 DEF k
    <2>5. \A f \in T \cup {e} : Wins(rows[Target(f)], f)
      BY <2>2, <1>2 DEF k
    <2>6. Winners(rows, T \cup {e})
      BY <2>4, <2>5, <1>2 DEF Winners
    <2> QED
      BY <2>3, <2>6
  <1> QED
    BY <1>5, <1>6, <1>7

\* The list has every element of S once.
Enumerates(list, S) ==
  /\ Len(list) \in Nat
  /\ \A i \in 1..Len(list) : list[i] \in S
  /\ \A i, j \in 1..Len(list) : list[i] = list[j] => i = j
  /\ \A e \in S : \E i \in 1..Len(list) : list[i] = e

\* Ledger::Ledger leaves each row to its winner, in whatever order the entries are
\* listed.
THEOREM LedgerHasWinners ==
  ASSUME NEW S, Content(S), NEW list, Enumerates(list, S)
  PROVE  Winners(LedgerOf(list).rows, S)
  <1> DEFINE n == Len(list)
             Seen(k) == {list[i] : i \in 1..k}
  <1>1. n \in Nat
    BY DEF Enumerates
  <1>2. PICK f : Ran(list, f, n) /\ LedgerOf(list) = f[n]
    BY <1>1, LedgerRan
  <1> DEFINE D == {k \in 0..n : ~Winners(f[k].rows, Seen(k))}
  <1>3. ASSUME D # {} PROVE FALSE
    <2>1. D \subseteq Nat
      BY <1>1
    <2> HIDE DEF D
    <2>2. PICK k \in D : \A j \in D : ~(<<j, k>> \in OpToRel(<, Nat))
      BY <1>3, <2>1, WFMin, NatLessThanWellFounded
    <2>3. k \in Nat /\ \A j \in D : ~(j < k)
      BY <2>1, <2>2 DEF OpToRel
    <2>4. k \in 0..n /\ ~Winners(f[k].rows, Seen(k))
      BY <2>2 DEF D
    <2>5. CASE k = 0
      <3>1. Seen(0) = {}
        OBVIOUS
      <3>2. f[0].rows = NoRows /\ DOMAIN NoRows = {}
        BY <1>2 DEF Ran, EmptyLedger, NoRows
      <3>3. Winners(NoRows, {})
        BY <3>2 DEF Winners, NoRows
      <3> QED
        BY <2>4, <2>5, <3>1, <3>2, <3>3
    <2>6. CASE k # 0
      <3>1. k - 1 \in 0..n /\ k - 1 \notin D /\ k \in 1..n
        BY <1>1, <2>3, <2>4, <2>6
      <3>2. Winners(f[k - 1].rows, Seen(k - 1))
        BY <3>1 DEF D
      <3>3. f[k] = Apply(f[k - 1], list[k])
        BY <1>2, <3>1 DEF Ran
      <3>4. list[k] \in S /\ list[k] \notin Seen(k - 1)
        BY <1>1, <3>1 DEF Enumerates
      <3>5. Seen(k - 1) \in SUBSET S
        BY <1>1, <3>1 DEF Enumerates
      <3>6. Seen(k) = Seen(k - 1) \cup {list[k]}
        BY <1>1, <3>1
      <3> HIDE DEF Seen
      <3>7. Winners(f[k].rows, Seen(k - 1) \cup {list[k]})
        BY <3>2, <3>3, <3>4, <3>5, ApplyKeepsWinners
      <3> QED
        BY <2>4, <3>6, <3>7
    <2> QED
      BY <2>5, <2>6
  <1>4. Winners(f[n].rows, Seen(n))
    <2>1. n \in 0..n
      BY <1>1
    <2>2. n \notin D
      <3> HIDE DEF D
      <3> QED
        BY <1>3
    <2> QED
      BY <2>1, <2>2
  <1>5. Seen(n) = S
    BY DEF Enumerates
  <1> QED
    BY <1>2, <1>4, <1>5

\* There is one winner for each row: the rows do not depend on the order in which
\* the entries are listed.
THEOREM WinnersUnique ==
  ASSUME NEW S, Content(S), NEW r, NEW s, Winners(r, S), Winners(s, S)
  PROVE  r = s
  <1>1. DOMAIN r = DOMAIN s
    BY DEF Winners
  <1>2. ASSUME NEW k \in DOMAIN r PROVE r[k] = s[k]
    <2>1. r[k] \in S /\ s[k] \in S /\ Target(r[k]) = k /\ Target(s[k]) = k
      BY <1>1 DEF Winners
    <2>2. Wins(r[k], s[k]) /\ Wins(s[k], r[k])
      BY <2>1 DEF Winners
    <2> QED
      BY <2>1, <2>2, WinsAntisymmetric
  <1>3. r = [k \in DOMAIN r |-> r[k]] /\ s = [k \in DOMAIN s |-> s[k]]
    BY DEF Winners
  <1> QED
    BY <1>1, <1>2, <1>3

-----------------------------------------------------------------------------
(***************************************************************************)
(* What the journals of a pool hold is of this kind.                       *)
(***************************************************************************)
Finite == \A n \in Id : IsFiniteSet(entries[n])

Histories == \A n \in Id : AltersThePast(entries[n])

\* What the proofs about the stores use of a pool.
Facts == IInv /\ ClocksAreKeys /\ Finite

\* It holds of every pool.
LEMMA FactsHold == Spec => []Facts
  <1>1. Init => Finite
    BY FS_EmptySet DEF Init, Finite
  <1>2. IInv /\ Finite /\ [Next]_vars => Finite'
    <2> SUFFICES ASSUME IInv, Finite, [Next]_vars PROVE Finite'
      OBVIOUS
    <2>1. ASSUME NEW n \in Id, NEW e, Insert(n, e) PROVE Finite'
      <3>1. \A m \in Id : entries'[m] = IF m = n THEN entries[m] \cup {e} ELSE entries[m]
        BY <2>1 DEF Insert, IInv, TypeOK
      <3>2. ASSUME NEW m \in Id PROVE IsFiniteSet(entries'[m])
        <4>1. IsFiniteSet(entries[m])
          BY DEF Finite
        <4>2. IsFiniteSet(entries[m] \cup {e})
          BY <4>1, FS_AddElement
        <4> QED
          BY <4>1, <4>2, <3>1
      <3> QED
        BY <3>2 DEF Finite
    <2>2. CASE UNCHANGED vars
      BY <2>2 DEF vars, Finite
    <2> QED
      BY <2>1, <2>2 DEF Next, AppendData, Receive
  <1> QED
    BY <1>1, <1>2, InvariantHolds, ClocksIdentify, PTL DEF Spec, Facts

\* A pool whose users alter what they see is a pool.
LEMMA SeenIsPool == SeenSpec => Spec
  <1>1. IInv /\ SeenNext => Next
    <2> SUFFICES ASSUME IInv, SeenNext PROVE Next
      OBVIOUS
    <2>1. ASSUME NEW n \in Id PROVE Alterable(n) \subseteq Clock
      <3>1. entries[n] \subseteq Entry
        BY DEF IInv, TypeOK
      <3>2. \A e \in entries[n] : e.clock \in Clock
        BY <3>1 DEF Entry
      <3>3. EmptyClock \in Clock
        <4>1. DOMAIN EmptyClock = {} /\ EmptyClock \in [{} -> 1..MaxTime]
          BY DEF EmptyClock
        <4> QED
          BY <4>1, ClockShape DEF Clock
      <3> QED
        BY <3>2, <3>3 DEF Alterable
    <2> QED
      BY <2>1 DEF SeenNext, Next
  <1>2. IInv /\ [SeenNext]_vars => IInv'
    BY <1>1, InvariantKept
  <1>3. Init => IInv
    BY InitIsSafe
  <1> QED
    BY <1>1, <1>2, <1>3, PTL DEF SeenSpec, Spec

\* One entry more.
LEMMA InsertKeepsHistories ==
  ASSUME IInv, Histories, NEW n \in Id, NEW e, Insert(n, e), Leq(e.alters, e.clock), e.alters # e.clock
  PROVE  Histories'
  <1>1. \A m \in Id : entries'[m] = IF m = n THEN entries[m] \cup {e} ELSE entries[m]
    BY DEF Insert, IInv, TypeOK
  <1> QED
    BY <1>1 DEF Histories, AltersThePast

\* A user alters an entry that she sees, which the journal's clock counts: the
\* entry that she makes is later.
LEMMA AppendAltersThePast ==
  ASSUME IInv, NEW n \in Id, NEW alters \in Alterable(n), At(clock[n], n) < MaxTime
  PROVE  Leq(alters, Tick(clock[n], n)) /\ alters # Tick(clock[n], n)
  <1> DEFINE c == clock[n]
             d == Tick(c, n)
  <1>1. c \in Clock /\ entries[n] \subseteq Entry
    BY DEF IInv, TypeOK
  <1>2. Leq(c, d) /\ c # d
    BY <1>1, TickIsAbove, TimesAreNat DEF Clock
  <1>3. d \in Clock
    BY <1>1, TickType
  <1> SUFFICES Leq(alters, d) /\ alters # d
    OBVIOUS
  <1>4. CASE alters = EmptyClock
    <2>1. n \in DOMAIN d /\ DOMAIN EmptyClock = {}
      BY TickParts DEF EmptyClock
    <2> HIDE DEF d
    <2> QED
      BY <2>1, <1>4 DEF Leq
  <1>5. CASE alters # EmptyClock
    <2>1. PICK e \in entries[n] : alters = e.clock
      BY <1>5 DEF Alterable
    <2>2. alters \in Clock /\ Leq(alters, c)
      BY <1>1, <2>1 DEF IInv, ClockCoversEntries, Entry
    <2> HIDE DEF c, d
    <2> QED
      BY <1>1, <1>2, <1>3, <2>2, ClockOrder
  <1> QED
    BY <1>4, <1>5

\* Every step of the pool keeps it so.
LEMMA HistoriesKept ==
  ASSUME IInv, Histories, [SeenNext]_vars
  PROVE  Histories'
  <1>1. ASSUME NEW n \in Id, NEW value \in Amount, NEW alters \in Alterable(n),
               AppendData(n, value, alters)
        PROVE  Histories'
    <2> DEFINE e == [clock |-> Tick(clock[n], n), id |-> n, value |-> value, alters |-> alters]
    <2>1. At(clock[n], n) < MaxTime /\ Insert(n, e)
      BY <1>1 DEF AppendData
    <2>2. Leq(e.alters, e.clock) /\ e.alters # e.clock
      BY <2>1, AppendAltersThePast
    <2> HIDE DEF e
    <2> QED
      BY <2>1, <2>2, InsertKeepsHistories
  <1>2. ASSUME NEW n \in Id, NEW m \in Id, NEW e \in entries[m], Receive(n, e)
        PROVE  Histories'
    <2>1. Leq(e.alters, e.clock) /\ e.alters # e.clock
      BY DEF Histories, AltersThePast
    <2> QED
      BY <2>1, <1>2, InsertKeepsHistories DEF Receive
  <1>3. CASE UNCHANGED vars
    BY <1>3 DEF vars, Histories
  <1> QED
    BY <1>1, <1>2, <1>3 DEF SeenNext

\* What the proofs about the ledger use of a pool.
SeenFacts == Facts /\ Histories

\* It holds of every pool whose users alter what they see.
LEMMA SeenFactsHold == SeenSpec => []SeenFacts
  <1>1. Init => Histories
    BY DEF Init, Histories, AltersThePast
  <1>2. IInv /\ Histories /\ [SeenNext]_vars => Histories'
    BY HistoriesKept
  <1> QED
    BY <1>1, <1>2, SeenIsPool, FactsHold, PTL DEF SeenSpec, SeenFacts, Facts

\* Three that differ are three.
LEMMA ThreeDiffer ==
  ASSUME NEW a, NEW b, NEW c, a # b, b # c, a # c
  PROVE  Cardinality({a, b, c}) = 3
  <1>1. IsFiniteSet({a}) /\ Cardinality({a}) = 1
    BY FS_Singleton
  <1>2. {a, b} = {a} \cup {b} /\ {a, b, c} = {a, b} \cup {c} /\ b \notin {a} /\ c \notin {a, b}
    OBVIOUS
  <1>3. IsFiniteSet({a, b}) /\ Cardinality({a, b}) = 1 + 1
    BY <1>1, <1>2, FS_AddElement
  <1>4. Cardinality({a, b, c}) = 1 + 1 + 1
    BY <1>2, <1>3, FS_AddElement
  <1> QED
    BY <1>4

\* Of three edits of one entry by at most two journals two are of the same journal.
LEMMA TwoAreEditors ==
  ASSUME NEW n, IsFiniteSet(entries[n]), TwoEditors(n)
  PROVE  EditedByTwo(entries[n])
  <1> SUFFICES ASSUME NEW e \in entries[n], NEW f \in entries[n], NEW g \in entries[n],
                      e.alters # EmptyClock, e.alters = f.alters, f.alters = g.alters,
                      e.id # f.id, f.id # g.id, e.id # g.id
               PROVE  FALSE
    BY DEF EditedByTwo
  <1> DEFINE F == {h \in entries[n] : h.alters = e.alters}
             ids == {h.id : h \in F}
             three == {e.id, f.id, g.id}
  <1>1. Cardinality(ids) <= 2
    BY DEF TwoEditors
  <1>2. IsFiniteSet(F)
    BY FS_Subset
  <1>3. IsFiniteSet(ids)
    <2> DEFINE s == [h \in F |-> h.id]
    <2>1. s \in Surjection(F, ids)
      BY DEF Surjection
    <2> HIDE DEF s, F, ids
    <2> QED
      BY <2>1, <1>2, FS_Surjection
  <1>4. three \in SUBSET ids
    OBVIOUS
  <1> HIDE DEF ids
  <1>5. PICK a, b, c : a = e.id /\ b = f.id /\ c = g.id
    OBVIOUS
  <1>6. a # b /\ b # c /\ a # c
    BY <1>5
  <1>7. Cardinality({a, b, c}) = 3
    BY <1>6, ThreeDiffer
  <1>9. Cardinality(three) = 3
    BY <1>5, <1>7
  <1>10. Cardinality(three) <= Cardinality(ids)
    BY <1>3, <1>4, FS_Subset
  <1>11. Cardinality(ids) \in Nat
    BY <1>3, FS_CardinalityType
  <1> QED
    BY <1>1, <1>9, <1>10, <1>11

\* The entries of a journal are of the kind that the ledger can order.
LEMMA JournalContent ==
  ASSUME SeenFacts, NEW n \in Id, TwoEditors(n)
  PROVE  Content(entries[n])
  <1>1. entries[n] \subseteq Entry
    BY DEF SeenFacts, Facts, IInv, TypeOK
  <1>2. Keyed(entries[n])
    BY DEF SeenFacts, Facts, ClocksAreKeys, Keyed
  <1>3. AltersThePast(entries[n]) /\ EditedByTwo(entries[n])
    BY TwoAreEditors DEF SeenFacts, Facts, Histories, Finite
  <1>4. ASSUME NEW e \in entries[n], NEW f \in entries[n], e.id = f.id
        PROVE  Leq(e.clock, f.clock) \/ Leq(f.clock, e.clock)
    <2>1. e.clock \in Clock /\ f.clock \in Clock
      BY <1>1 DEF Entry
    <2>2. Time(e) \in Nat /\ Time(f) \in Nat
      BY <2>1, ClockAt DEF Time
    <2>3. CASE Time(e) = Time(f)
      <3>1. e = f
        BY <1>4, <2>3 DEF SeenFacts, Facts, IInv, TransactionsUnique
      <3> QED
        BY <3>1, <2>1, ClockOrder
    <2>4. CASE Time(e) < Time(f)
      <3>1. SmallerThan(e.clock, f.clock)
        BY <1>4, <2>4 DEF SeenFacts, Facts, IInv, AuthorsAreSequential
      <3> QED
        BY <3>1, <2>1, SmallerThanIsStrict, TimesAreNat DEF Clock
    <2>5. CASE Time(f) < Time(e)
      <3>1. SmallerThan(f.clock, e.clock)
        BY <1>4, <2>5 DEF SeenFacts, Facts, IInv, AuthorsAreSequential
      <3> QED
        BY <3>1, <2>1, SmallerThanIsStrict, TimesAreNat DEF Clock
    <2> QED
      BY <2>2, <2>3, <2>4, <2>5
  <1> QED
    BY <1>1, <1>2, <1>3, <1>4 DEF Content, Sequential

-----------------------------------------------------------------------------
(***************************************************************************)
(* Both stores list what the journal holds.                                *)
(***************************************************************************)

\* A list by a total order has every entry once.
LEMMA OrderEnumerates ==
  ASSUME NEW S, IsFiniteSet(S), NEW R, Orders(R, S)
  PROVE  Enumerates(InOrder(S, R), S)
  <1> DEFINE list == InOrder(S, R)
             n == Cardinality(S)
  <1>1. /\ Len(list) = n
        /\ \A i \in 1..n : list[i] \in S /\ Rank(S, R, list[i]) = i - 1
        /\ \A e \in S : \E i \in 1..n : list[i] = e
    BY InOrderLists
  <1>2. n \in Nat
    BY FS_CardinalityType
  <1> HIDE DEF list, n
  <1>3. \A i, j \in 1..n : list[i] = list[j] => i = j
    <2> SUFFICES ASSUME NEW i \in 1..n, NEW j \in 1..n, list[i] = list[j] PROVE i = j
      OBVIOUS
    <2>1. i - 1 = j - 1
      BY <1>1
    <2> QED
      BY <2>1, <1>2
  <1>4. Enumerates(list, S)
    BY <1>1, <1>2, <1>3 DEF Enumerates
  <1> QED
    BY <1>4 DEF list

\* The entries of a journal by author and time.
LEMMA EntryTimes ==
  ASSUME Facts, NEW n \in Id, NEW e \in entries[n]
  PROVE  /\ e.clock \in Clock /\ e.id \in Id /\ e.id \in Nat
         /\ e.clock[e.id] \in Nat \ {0} /\ Time(e) = e.clock[e.id]
         /\ e.clock[e.id] <= At(clock[n], e.id)
  <1>1. e \in Entry /\ clock[n] \in Clock
    BY DEF Facts, IInv, TypeOK
  <1>2. e.clock \in Clock /\ e.id \in Id /\ e.id \in Nat
    BY <1>1, IdAssumption DEF Entry
  <1>3. e.id \in DOMAIN e.clock /\ Leq(e.clock, clock[n])
    BY DEF Facts, IInv, Stamped, ClockCoversEntries
  <1>4. At(e.clock, e.id) = e.clock[e.id] /\ e.clock[e.id] \in Nat \ {0}
    BY <1>2, <1>3, ClockAt
  <1>5. e.clock[e.id] <= At(clock[n], e.id)
    BY <1>1, <1>2, <1>3, <1>4, LeqAt
  <1> QED
    BY <1>2, <1>4, <1>5 DEF Time

\* Two entries of one author differ in their times.
LEMMA TimesDiffer ==
  ASSUME Facts, NEW n \in Id, NEW e \in entries[n], NEW f \in entries[n],
         e.id = f.id, e.clock[e.id] = f.clock[f.id]
  PROVE  e = f
  <1>1. Time(e) = Time(f)
    BY EntryTimes
  <1> QED
    BY <1>1 DEF Facts, IInv, TransactionsUnique

\* JournalFile::entries reads enough lines of each file: the journal has no more
\* entries of an author, up to any of them, than the clock counts.
LEMMA AllReadable ==
  ASSUME Facts, NEW n \in Id
  PROVE  Readable(entries[n], clock[n]) = entries[n]
  <1> DEFINE S == entries[n]
  <1> SUFFICES ASSUME NEW e \in S
               PROVE  Cardinality({f \in S : f.id = e.id /\ f.clock[f.id] <= e.clock[e.id]}) <= At(clock[n], e.id)
    BY DEF Readable
  <1> DEFINE F == {f \in S : f.id = e.id /\ f.clock[f.id] <= e.clock[e.id]}
             t == e.clock[e.id]
             time == [f \in F |-> f.clock[f.id]]
  <1>1. t \in Nat \ {0} /\ t <= At(clock[n], e.id) /\ At(clock[n], e.id) \in Nat
    <2>1. clock[n] \in Clock
      BY DEF Facts, IInv, TypeOK
    <2> QED
      BY <2>1, EntryTimes, ClockAt
  <1>2. \A f \in F : f.clock[f.id] \in 1..t
    <2> SUFFICES ASSUME NEW f \in F PROVE f.clock[f.id] \in 1..t
      OBVIOUS
    <2>1. f.clock[f.id] \in Nat \ {0} /\ f.clock[f.id] <= t
      BY EntryTimes
    <2> HIDE DEF t
    <2> QED
      BY <2>1, <1>1
  <1>3. time \in Injection(F, 1..t)
    <2>1. time \in [F -> 1..t]
      BY <1>2
    <2>2. ASSUME NEW f \in F, NEW g \in F, time[f] = time[g] PROVE f = g
      <3>1. f \in entries[n] /\ g \in entries[n] /\ f.id = g.id /\ f.clock[f.id] = g.clock[g.id]
        BY <2>2
      <3> QED
        BY <3>1, TimesDiffer
    <2> HIDE DEF time, F, t
    <2>3. DOMAIN time = F
      BY <2>1
    <2> QED
      BY <2>1, <2>2, <2>3 DEF Injection, IsInjective
  <1> HIDE DEF F, t
  <1>4. IsFiniteSet(1..t) /\ Cardinality(1..t) = t
    BY <1>1, FS_Interval
  <1>5. Cardinality(F) <= t /\ IsFiniteSet(F)
    BY <1>3, <1>4, FS_Injection
  <1>6. Cardinality(F) \in Nat
    BY <1>5, FS_CardinalityType
  <1>7. Cardinality(F) <= At(clock[n], e.id)
    BY <1>1, <1>5, <1>6
  <1> QED
    BY <1>7 DEF F

\* What Journal::entries and JournalFile::entries list of a pool's journal is each
\* entry that it stores, once: no entry is lost between two files and no line is
\* out of the clock's reach.
THEOREM StoresListAll ==
  ASSUME Facts, NEW n \in Id
  PROVE  Enumerates(Cached(n), entries[n]) /\ Enumerates(Filed(n), entries[n])
  <1> DEFINE S == entries[n]
  <1>1. IsFiniteSet(S)
    BY DEF Facts, Finite
  <1>2. \A e \in S : e.clock \in Clock /\ e.id \in Nat /\ e.clock[e.id] \in Nat
    BY EntryTimes
  <1>3. \A e, f \in S : e.clock = f.clock => e = f
    BY DEF Facts, ClocksAreKeys
  <1>4. \A e, f \in S : e.id = f.id /\ e.clock[e.id] = f.clock[f.id] => e = f
    BY TimesDiffer
  <1>5. Readable(S, clock[n]) = S
    BY AllReadable
  <1> HIDE DEF S
  <1>6. Orders(KeyOrder(S), S)
    BY <1>2, <1>3, KeyOrderOrders, TimesAreNat, IdAssumption DEF Clock
  <1>7. Orders(LineOrder(S), S)
    BY <1>2, <1>4, LineOrderOrders
  <1>8. Enumerates(CacheEntries(S), S)
    BY <1>1, <1>6, OrderEnumerates DEF CacheEntries
  <1>9. Enumerates(FileEntries(S, clock[n]), S)
    BY <1>1, <1>5, <1>7, OrderEnumerates DEF FileEntries
  <1> QED
    BY <1>8, <1>9 DEF Cached, Filed, S

-----------------------------------------------------------------------------
(***************************************************************************)
(* The ledger of a journal.                                                *)
(***************************************************************************)

\* The ledger of a journal has the winner of each row.
RowsAreWinners ==
  \A n \in Id :
    TwoEditors(n) =>
      LET rows == LedgerOf(Cached(n)).rows
      IN  /\ DOMAIN rows = {Target(e) : e \in entries[n]}
          /\ \A k \in DOMAIN rows : rows[k] \in entries[n]
          /\ \A e \in entries[n] : Wins(rows[Target(e)], e)

\* Where at most two journals edit any one entry, and their users edit what they
\* see, the ledger has the winner of each row, whoever else takes part in the pool
\* and whatever arrives when.
THEOREM LedgersHaveWinners == SeenSpec => []RowsAreWinners
  <1>1. ASSUME SeenFacts PROVE RowsAreWinners
    <2> SUFFICES ASSUME NEW n \in Id, TwoEditors(n)
                 PROVE  LET rows == LedgerOf(Cached(n)).rows
                        IN  /\ DOMAIN rows = {Target(e) : e \in entries[n]}
                            /\ \A k \in DOMAIN rows : rows[k] \in entries[n]
                            /\ \A e \in entries[n] : Wins(rows[Target(e)], e)
      BY DEF RowsAreWinners
    <2>1. Winners(LedgerOf(Cached(n)).rows, entries[n])
      BY <1>1, JournalContent, StoresListAll, LedgerHasWinners DEF SeenFacts
    <2> QED
      BY <2>1 DEF Winners
  <1> QED
    BY <1>1, SeenFactsHold, PTL

\* So no entry for a row is later than the one that the ledger has there: "the last
\* edit wins" (docs).
THEOREM LastEditsWin == SeenSpec => []LastEditWins
  <1>1. ASSUME IInv, RowsAreWinners PROVE LastEditWins
    <2> SUFFICES ASSUME NEW n \in Id, TwoEditors(n)
                 PROVE  LET rows == LedgerOf(Cached(n)).rows
                        IN  /\ DOMAIN rows = {Target(e) : e \in entries[n]}
                            /\ \A e \in entries[n] : ~SmallerThan(rows[Target(e)].clock, e.clock)
      BY DEF LastEditWins
    <2> DEFINE rows == LedgerOf(Cached(n)).rows
    <2>1. /\ DOMAIN rows = {Target(e) : e \in entries[n]}
          /\ \A k \in DOMAIN rows : rows[k] \in entries[n]
          /\ \A e \in entries[n] : Wins(rows[Target(e)], e)
      BY <1>1 DEF RowsAreWinners
    <2> HIDE DEF rows
    <2>2. ASSUME NEW e \in entries[n] PROVE ~SmallerThan(rows[Target(e)].clock, e.clock)
      <3> DEFINE r == rows[Target(e)]
      <3>1. r \in entries[n] /\ Wins(r, e)
        BY <2>1
      <3>2. r \in Entry /\ e \in Entry
        BY <1>1, <3>1 DEF IInv, TypeOK
      <3> HIDE DEF r
      <3>3. r.clock \in Clock /\ e.clock \in Clock
        BY <3>2 DEF Entry
      <3>4. SmallerThan(r.clock, e.clock) <=> Leq(r.clock, e.clock) /\ r.clock # e.clock
        BY <3>3, SmallerThanIsStrict, TimesAreNat DEF Clock
      <3>5. ~SmallerThan(r.clock, e.clock)
        BY <3>1, <3>3, <3>4, ClockOrder DEF Wins
      <3> QED
        BY <3>5 DEF r
    <2> QED
      BY <2>1, <2>2 DEF rows
  <1> QED
    BY <1>1, LedgersHaveWinners, SeenFactsHold, PTL DEF SeenFacts, Facts

\* "They must create the same local model independently of the order they received
\* the transactions" (docs): so it is where at most two journals edit any one entry
\* and their users edit what they see.
THEOREM LedgersAgree == SeenSpec => []PairsOrderIndependent
  <1>1. ASSUME SeenFacts PROVE PairsOrderIndependent
    <2> SUFFICES ASSUME NEW n \in Id, TwoEditors(n)
                 PROVE  LedgerOf(Cached(n)).rows = LedgerOf(Filed(n)).rows
      BY DEF PairsOrderIndependent
    <2>1. Content(entries[n])
      BY <1>1, JournalContent
    <2>2. Winners(LedgerOf(Cached(n)).rows, entries[n]) /\ Winners(LedgerOf(Filed(n)).rows, entries[n])
      BY <1>1, <2>1, StoresListAll, LedgerHasWinners DEF SeenFacts
    <2> QED
      BY <2>1, <2>2, WinnersUnique
  <1> QED
    BY <1>1, SeenFactsHold, PTL

-----------------------------------------------------------------------------
(***************************************************************************)
(* The balance.  A sum over a finite set takes the elements in an order    *)
(* that CHOOSE gives, and does not depend on it.                           *)
(***************************************************************************)
\* The value of the sum over s, if f has the sums over what is left of s.
SumStep(f, rows, s) ==
  IF s = {} THEN 0 ELSE rows[CHOOSE x \in s : TRUE].value + f[s \ {CHOOSE x \in s : TRUE}]

\* The function that MapThenSumSet defines: the sums over the subsets of S.
Sums(f, rows, S) == f = [s \in SUBSET S |-> SumStep(f, rows, s)]

\* Every row has a value.
Valued(rows, S) == \A x \in S : rows[x].value \in Int

\* The same for the subsets of at most k elements.
SumsUpTo(f, rows, S, k) ==
  /\ DOMAIN f = {s \in SUBSET S : Cardinality(s) <= k}
  /\ \A s \in DOMAIN f : f[s] = SumStep(f, rows, s)

LEMMA Subsets ==
  ASSUME NEW S, IsFiniteSet(S), NEW s \in SUBSET S
  PROVE  /\ IsFiniteSet(s)
         /\ Cardinality(s) \in Nat
         /\ s # {} => Cardinality(s) > 0
         /\ \A x \in s : /\ s \ {x} \in SUBSET S
                         /\ Cardinality(s \ {x}) \in Nat
                         /\ Cardinality(s \ {x}) = Cardinality(s) - 1
  <1>1. IsFiniteSet(s) /\ Cardinality(s) \in Nat
    BY FS_Subset, FS_CardinalityType
  <1>2. s # {} => Cardinality(s) > 0
    BY <1>1, FS_EmptySet
  <1>3. ASSUME NEW x \in s
        PROVE  IsFiniteSet(s \ {x}) /\ Cardinality(s \ {x}) = Cardinality(s) - 1
    BY <1>1, FS_RemoveElement
  <1> QED
    BY <1>1, <1>2, <1>3, FS_CardinalityType

LEMMA SumsGrow ==
  ASSUME NEW rows, NEW S, IsFiniteSet(S), NEW n \in Nat
  PROVE  \E f : SumsUpTo(f, rows, S, n)
  <1> DEFINE Bad == {k \in Nat : ~\E f : SumsUpTo(f, rows, S, k)}
  <1> SUFFICES ASSUME Bad # {} PROVE FALSE
    OBVIOUS
  <1>1. Bad \in SUBSET Nat
    OBVIOUS
  <1> HIDE DEF Bad
  <1>2. PICK k \in Bad : \A j \in Nat : j < k => j \notin Bad
    BY <1>1, LeastBad
  <1>3. k \in Nat /\ ~\E f : SumsUpTo(f, rows, S, k)
    BY <1>1, <1>2 DEF Bad
  <1> DEFINE Few(j) == {s \in SUBSET S : Cardinality(s) <= j}
  <1>4. CASE k = 0
    <2> DEFINE f == [s \in Few(0) |-> 0]
    <2>1. \A s \in Few(0) : s = {}
      BY Subsets
    <2>2. SumsUpTo(f, rows, S, 0)
      BY <2>1 DEF SumsUpTo, SumStep
    <2> QED
      BY <2>2, <1>3, <1>4
  <1>5. CASE k # 0
    <2>1. k - 1 \in Nat /\ k - 1 < k
      BY <1>3, <1>5
    <2>2. PICK f : SumsUpTo(f, rows, S, k - 1)
      BY <2>1, <1>2 DEF Bad
    <2> DEFINE g == [s \in Few(k) |-> IF Cardinality(s) = k THEN SumStep(f, rows, s) ELSE f[s]]
    <2>3. ASSUME NEW s \in Few(k) PROVE g[s] = SumStep(g, rows, s)
      <3> DEFINE x == CHOOSE y \in s : TRUE
      <3>1. CASE s = {}
        <4>1. Cardinality(s) = 0 /\ s \in Few(k - 1)
          BY <3>1, <2>1, FS_EmptySet
        <4>2. g[s] = f[s] /\ f[s] = SumStep(f, rows, s)
          BY <4>1, <1>5, <2>2 DEF SumsUpTo
        <4> QED
          BY <3>1, <4>2 DEF SumStep
      <3>2. CASE s # {}
        <4>1. x \in s
          BY <3>2
        <4> HIDE DEF x
        <4>2. /\ s \ {x} \in SUBSET S /\ Cardinality(s) \in Nat
              /\ Cardinality(s \ {x}) \in Nat /\ Cardinality(s \ {x}) = Cardinality(s) - 1
          BY <4>1, Subsets
        <4>3. s \ {x} \in Few(k) /\ Cardinality(s \ {x}) # k
          BY <4>2, <1>3
        <4>4. g[s \ {x}] = f[s \ {x}]
          BY <4>3
        <4>5. SumStep(g, rows, s) = SumStep(f, rows, s)
          BY <4>4 DEF SumStep, x
        <4>6. CASE Cardinality(s) = k
          BY <4>5, <4>6
        <4>7. CASE Cardinality(s) # k
          <5>1. s \in Few(k - 1)
            BY <4>2, <4>7, <1>3
          <5>2. g[s] = f[s] /\ f[s] = SumStep(f, rows, s)
            BY <5>1, <4>7, <2>2 DEF SumsUpTo
          <5> QED
            BY <5>2, <4>5
        <4> QED
          BY <4>6, <4>7
      <3> QED
        BY <3>1, <3>2
    <2>4. DOMAIN g = Few(k)
      OBVIOUS
    <2> HIDE DEF g
    <2>5. SumsUpTo(g, rows, S, k)
      BY <2>3, <2>4 DEF SumsUpTo
    <2> QED
      BY <2>5, <1>3
  <1> QED
    BY <1>4, <1>5

\* The function that the sum is defined by exists.
LEMMA SumsExist ==
  ASSUME NEW rows, NEW S, IsFiniteSet(S)
  PROVE  \E f : Sums(f, rows, S)
  <1>1. Cardinality(S) \in Nat
    BY FS_CardinalityType
  <1>2. PICK f : SumsUpTo(f, rows, S, Cardinality(S))
    BY <1>1, SumsGrow
  <1>3. {s \in SUBSET S : Cardinality(s) <= Cardinality(S)} = SUBSET S
    BY FS_Subset
  <1> DEFINE g == [s \in SUBSET S |-> f[s]]
  <1>4. ASSUME NEW s \in SUBSET S PROVE g[s] = SumStep(g, rows, s)
    <2>1. f[s] = SumStep(f, rows, s)
      BY <1>2, <1>3 DEF SumsUpTo
    <2>2. s \ {CHOOSE x \in s : TRUE} \in SUBSET S
      OBVIOUS
    <2>3. g[s \ {CHOOSE x \in s : TRUE}] = f[s \ {CHOOSE x \in s : TRUE}]
      BY <2>2
    <2> QED
      BY <2>1, <2>3 DEF SumStep
  <1>5. g = [s \in SUBSET S |-> g[s]]
    OBVIOUS
  <1> HIDE DEF g
  <1>6. [s \in SUBSET S |-> g[s]] = [s \in SUBSET S |-> SumStep(g, rows, s)]
    BY <1>4
  <1> QED
    BY <1>5, <1>6 DEF Sums

SumOver(rows, S) == MapThenSumSet(LAMBDA k : rows[k].value, S)

LEMMA SumIsLast ==
  ASSUME NEW rows, NEW S, IsFiniteSet(S)
  PROVE  \E f : Sums(f, rows, S) /\ SumOver(rows, S) = f[S]
  <1> DEFINE R(f) == Sums(f, rows, S)
             iter == CHOOSE f : R(f)
  <1>1. SumOver(rows, S) = iter[S]
    BY DEF SumOver, MapThenSumSet, MapThenFoldSet, Sums, SumStep
  <1>2. R(iter)
    BY SumsExist
  <1> QED
    BY <1>1, <1>2

\* The sum over S does not depend on the order in which the rows are taken.
LEMMA SumOfOneMore ==
  ASSUME NEW rows, NEW S, IsFiniteSet(S), Valued(rows, S),
         NEW f, Sums(f, rows, S), NEW s0 \in SUBSET S
  PROVE  f[s0] \in Int /\ \A y \in s0 : f[s0] = rows[y].value + f[s0 \ {y}]
  <1> DEFINE Right(s) == f[s] \in Int /\ \A y \in s : f[s] = rows[y].value + f[s \ {y}]
             Bad == {k \in Nat : \E s \in SUBSET S : Cardinality(s) = k /\ ~Right(s)}
  <1>0. \A s \in SUBSET S : f[s] = SumStep(f, rows, s)
    BY DEF Sums
  <1> SUFFICES ASSUME ~Right(s0) PROVE FALSE
    OBVIOUS
  <1>1. Bad \in SUBSET Nat /\ Bad # {}
    BY Subsets
  <1> HIDE DEF Bad
  <1>2. PICK k \in Bad : \A j \in Nat : j < k => j \notin Bad
    BY <1>1, LeastBad
  <1>3. PICK s \in SUBSET S : Cardinality(s) = k /\ ~Right(s)
    BY <1>2 DEF Bad
  <1>4. ASSUME NEW r \in SUBSET S, Cardinality(r) < k PROVE Right(r)
    BY <1>2, <1>4, Subsets DEF Bad
  <1>5. s # {}
    BY <1>0, <1>3 DEF SumStep
  <1> DEFINE x == CHOOSE y \in s : TRUE
  <1>6. x \in s
    BY <1>5
  <1>7. f[s] = rows[x].value + f[s \ {x}]
    BY <1>0, <1>5 DEF SumStep
  <1> HIDE DEF x
  <1>8. s \ {x} \in SUBSET S /\ Cardinality(s \ {x}) < k
    BY <1>3, <1>6, Subsets
  <1>9. Right(s \ {x})
    BY <1>4, <1>8
  <1>10. ASSUME NEW y \in s PROVE f[s] = rows[y].value + f[s \ {y}]
    <2>1. CASE y = x
      BY <1>7, <2>1
    <2>2. CASE y # x
      <3>1. s \ {y} \in SUBSET S /\ Cardinality(s \ {y}) < k
        BY <1>3, Subsets
      <3>2. Right(s \ {y})
        BY <1>4, <3>1
      <3>3. f[s \ {y}] = rows[x].value + f[(s \ {y}) \ {x}]
        BY <3>2, <1>6, <2>2
      <3>4. f[s \ {x}] = rows[y].value + f[(s \ {x}) \ {y}]
        BY <1>9, <2>2
      <3>5. (s \ {y}) \ {x} = (s \ {x}) \ {y}
        OBVIOUS
      <3>6. (s \ {y}) \ {x} \in SUBSET S /\ Cardinality((s \ {y}) \ {x}) < k
        <4>1. x \in s \ {y} /\ k \in Nat
          BY <1>1, <1>6, <2>2
        <4>2. (s \ {y}) \ {x} \in SUBSET S /\ Cardinality((s \ {y}) \ {x}) = Cardinality(s \ {y}) - 1
              /\ Cardinality(s \ {y}) \in Nat
          BY <3>1, <4>1, Subsets
        <4> QED
          BY <3>1, <4>1, <4>2
      <3>7. f[(s \ {y}) \ {x}] \in Int
        BY <1>4, <3>6
      <3>8. rows[x].value \in Int /\ rows[y].value \in Int
        BY <1>6 DEF Valued
      <3> DEFINE r == (s \ {y}) \ {x}
      <3>9. f[s] = rows[x].value + (rows[y].value + f[r])
        BY ONLY <1>7, <3>4, <3>5
      <3>10. f[s \ {y}] = rows[x].value + f[r]
        BY ONLY <3>3
      <3>11. f[r] \in Int
        BY <3>7
      <3> HIDE DEF r
      <3> QED
        BY ONLY <3>8, <3>9, <3>10, <3>11
    <2> QED
      BY <2>1, <2>2
  <1>11. f[s] \in Int
    BY <1>6, <1>7, <1>9 DEF Valued
  <1> QED
    BY <1>3, <1>10, <1>11

\* Equal rows have equal sums.
LEMMA SumsAgree ==
  ASSUME NEW rows, NEW S, IsFiniteSet(S), NEW f, Sums(f, rows, S),
         NEW more, NEW T, NEW g, Sums(g, more, T),
         S \subseteq T, \A x \in S : rows[x].value = more[x].value
  PROVE  f[S] = g[S]
  <1> DEFINE Bad == {k \in Nat : \E s \in SUBSET S : Cardinality(s) = k /\ f[s] # g[s]}
  <1> SUFFICES ASSUME f[S] # g[S] PROVE FALSE
    OBVIOUS
  <1>1. Bad \in SUBSET Nat /\ Bad # {}
    BY Subsets
  <1> HIDE DEF Bad
  <1>2. PICK k \in Bad : \A j \in Nat : j < k => j \notin Bad
    BY <1>1, LeastBad
  <1>3. PICK s \in SUBSET S : Cardinality(s) = k /\ f[s] # g[s]
    BY <1>2 DEF Bad
  <1>4. ASSUME NEW r \in SUBSET S, Cardinality(r) < k PROVE f[r] = g[r]
    BY <1>2, <1>4, Subsets DEF Bad
  <1>5. f[s] = SumStep(f, rows, s) /\ g[s] = SumStep(g, more, s)
    BY DEF Sums
  <1>6. s # {}
    BY <1>3, <1>5 DEF SumStep
  <1> DEFINE x == CHOOSE y \in s : TRUE
  <1>7. x \in s
    BY <1>6
  <1>8. f[s] = rows[x].value + f[s \ {x}] /\ g[s] = more[x].value + g[s \ {x}]
    BY <1>5, <1>6 DEF SumStep
  <1> HIDE DEF x
  <1>9. f[s \ {x}] = g[s \ {x}]
    BY <1>3, <1>4, <1>7, Subsets
  <1> QED
    BY <1>3, <1>7, <1>8, <1>9

\* What one row adds to the sum over finitely many rows.
LEMMA SumsOfRows ==
  ASSUME NEW S, IsFiniteSet(S), NEW rows, Valued(rows, S)
  PROVE  /\ SumOver(rows, S) \in Int
         /\ S = {} => SumOver(rows, S) = 0
         /\ \A y \in S : SumOver(rows, S) = rows[y].value + SumOver(rows, S \ {y})
  <1>1. PICK f : Sums(f, rows, S) /\ SumOver(rows, S) = f[S]
    BY SumIsLast
  <1>2. f[S] = SumStep(f, rows, S)
    BY <1>1 DEF Sums
  <1>3. f[S] \in Int /\ \A y \in S : f[S] = rows[y].value + f[S \ {y}]
    <2>1. S \in SUBSET S
      OBVIOUS
    <2> QED
      BY <1>1, <2>1, SumOfOneMore
  <1>4. ASSUME NEW y \in S PROVE f[S \ {y}] = SumOver(rows, S \ {y})
    <2>1. IsFiniteSet(S \ {y})
      BY FS_Subset
    <2>2. PICK g : Sums(g, rows, S \ {y}) /\ SumOver(rows, S \ {y}) = g[S \ {y}]
      BY <2>1, SumIsLast
    <2> QED
      BY <1>1, <2>1, <2>2, SumsAgree
  <1> QED
    BY <1>1, <1>2, <1>3, <1>4 DEF SumStep

LEMMA EqualSums ==
  ASSUME NEW S, IsFiniteSet(S), NEW rows, NEW more, \A x \in S : rows[x].value = more[x].value
  PROVE  SumOver(rows, S) = SumOver(more, S)
  <1>1. PICK f : Sums(f, rows, S) /\ SumOver(rows, S) = f[S]
    BY SumIsLast
  <1>2. PICK g : Sums(g, more, S) /\ SumOver(more, S) = g[S]
    BY SumIsLast
  <1> QED
    BY <1>1, <1>2, SumsAgree

\* What a turn of the loop does to the balance.
LEMMA ApplyBalance ==
  ASSUME NEW L, NEW e
  PROVE  Apply(L, e).balance =
           IF Target(e) \notin DOMAIN L.rows
             THEN L.balance + e.value
             ELSE IF Replaces(L.rows[Target(e)], e)
                    THEN L.balance - L.rows[Target(e)].value + e.value
                    ELSE L.balance
  <1> DEFINE k == Target(e)
  <1>1. CASE k \notin DOMAIN L.rows
    <2>1. Evaluate(L.rows, e) = [act |-> "Insert", what |-> k]
      BY <1>1 DEF Evaluate, Target
    <2> QED
      BY <2>1, <1>1 DEF Apply
  <1>2. CASE k \in DOMAIN L.rows /\ Replaces(L.rows[k], e)
    <2>1. Evaluate(L.rows, e) = [act |-> "Replace", what |-> k]
      BY <1>2 DEF Evaluate, Target
    <2> QED
      BY <2>1, <1>2 DEF Apply
  <1>3. CASE k \in DOMAIN L.rows /\ ~Replaces(L.rows[k], e)
    <2>1. Evaluate(L.rows, e) = [act |-> "Ignore", what |-> EmptyClock]
      BY <1>3 DEF Evaluate, Target
    <2> QED
      BY <2>1, <1>3 DEF Apply
  <1> QED
    BY <1>1, <1>2, <1>3

\* The balance of the ledger L is the sum of its rows.
Balanced(L) ==
  /\ IsFiniteSet(DOMAIN L.rows)
  /\ Valued(L.rows, DOMAIN L.rows)
  /\ L.balance = SumOver(L.rows, DOMAIN L.rows)

\* A turn of the loop keeps the balance: a value that is replaced is subtracted,
\* and one that is ignored was never added.
LEMMA ApplyKeepsBalance ==
  ASSUME NEW L, Balanced(L), NEW e, e.value \in Int
  PROVE  Balanced(Apply(L, e))
  <1> DEFINE k == Target(e)
             D == DOMAIN L.rows
             M == Apply(L, e)
  <1>1. IsFiniteSet(D) /\ Valued(L.rows, D) /\ L.balance = SumOver(L.rows, D)
    BY DEF Balanced
  <1>2. CASE k \in D /\ ~Replaces(L.rows[k], e)
    <2>1. M.rows = L.rows /\ M.balance = L.balance
      BY <1>2, ApplyRows, ApplyBalance
    <2> QED
      BY <2>1, <1>1 DEF Balanced
  <1>3. CASE k \notin D \/ Replaces(L.rows[k], e)
    <2>1. M.rows = [i \in D \cup {k} |-> IF i = k THEN e ELSE L.rows[i]]
      BY <1>3, ApplyRows
    <2>2. DOMAIN M.rows = D \cup {k} /\ M.rows[k] = e /\ \A i \in D \ {k} : M.rows[i] = L.rows[i]
      BY <2>1
    <2>3. IsFiniteSet(D \cup {k}) /\ IsFiniteSet(D \ {k})
      BY <1>1, FS_AddElement, FS_Subset
    <2>4. Valued(M.rows, D \cup {k}) /\ Valued(L.rows, D \ {k}) /\ Valued(M.rows, D \ {k})
      BY <1>1, <2>2 DEF Valued
    <2>5. (D \cup {k}) \ {k} = D \ {k} /\ k \in D \cup {k}
      OBVIOUS
    <2>6. SumOver(M.rows, D \cup {k}) = e.value + SumOver(M.rows, D \ {k})
      <3>1. SumOver(M.rows, D \cup {k}) = M.rows[k].value + SumOver(M.rows, (D \cup {k}) \ {k})
        BY <2>3, <2>4, <2>5, SumsOfRows
      <3> QED
        BY <3>1, <2>2, <2>5
    <2>7. SumOver(M.rows, D \ {k}) = SumOver(L.rows, D \ {k})
      BY <2>2, <2>3, EqualSums
    <2>8. SumOver(L.rows, D \ {k}) \in Int
      BY <2>3, <2>4, SumsOfRows
    <2>9. M.balance = e.value + SumOver(L.rows, D \ {k})
      <3>1. CASE k \notin D
        <4>1. D \ {k} = D
          BY <3>1
        <4>2. M.balance = L.balance + e.value
          BY <3>1, ApplyBalance
        <4>3. L.balance = SumOver(L.rows, D \ {k})
          BY <4>1, <1>1
        <4> HIDE DEF M, D, k
        <4> QED
          BY <4>2, <4>3, <2>8
      <3>2. CASE k \in D
        <4>1. M.balance = L.balance - L.rows[k].value + e.value
          BY <3>2, <1>3, ApplyBalance
        <4>2. L.balance = L.rows[k].value + SumOver(L.rows, D \ {k})
          BY <3>2, <1>1, SumsOfRows
        <4>3. L.rows[k].value \in Int
          BY <3>2, <1>1 DEF Valued
        <4> QED
          BY <4>1, <4>2, <4>3, <2>8
      <3> QED
        BY <3>1, <3>2
    <2> HIDE DEF M, D, k
    <2>10. Balanced(M)
      BY <2>2, <2>3, <2>4, <2>6, <2>7, <2>9 DEF Balanced
    <2> QED
      BY <2>10 DEF M
  <1> QED
    BY <1>2, <1>3

\* Ledger::Balance of any list, whatever its entries alter, is the sum of the rows
\* of its ledger.
THEOREM BalanceOfRows ==
  ASSUME NEW list, Len(list) \in Nat, \A k \in 1..Len(list) : list[k].value \in Int
  PROVE  Balance(list) = RowSum(LedgerOf(list).rows)
  <1> DEFINE n == Len(list)
  <1>1. PICK f : Ran(list, f, n) /\ LedgerOf(list) = f[n]
    BY LedgerRan
  <1> DEFINE Bad == {k \in Nat : k <= n /\ ~Balanced(f[k])}
  <1>2. Bad = {}
    <2> SUFFICES ASSUME Bad # {} PROVE FALSE
      OBVIOUS
    <2>1. Bad \in SUBSET Nat
      OBVIOUS
    <2> HIDE DEF Bad
    <2>2. PICK k \in Bad : \A j \in Nat : j < k => j \notin Bad
      BY <2>1, LeastBad
    <2>3. k \in Nat /\ k <= n /\ ~Balanced(f[k])
      BY <2>2 DEF Bad
    <2>4. CASE k = 0
      <3>1. f[0].rows = NoRows /\ f[0].balance = 0
        BY <1>1 DEF Ran, EmptyLedger
      <3>2. DOMAIN NoRows = {} /\ IsFiniteSet({})
        BY FS_EmptySet DEF NoRows
      <3>3. Valued(NoRows, {})
        BY DEF Valued
      <3>4. SumOver(NoRows, {}) = 0
        BY <3>2, <3>3, SumsOfRows
      <3> QED
        BY <2>3, <2>4, <3>1, <3>2, <3>3, <3>4 DEF Balanced
    <2>5. CASE k # 0
      <3>1. k - 1 \in Nat /\ k - 1 < k /\ k \in 1..n
        BY <2>3, <2>5
      <3>2. Balanced(f[k - 1])
        BY <3>1, <2>2, <2>3 DEF Bad
      <3>3. f[k] = Apply(f[k - 1], list[k])
        BY <3>1, <1>1 DEF Ran
      <3> QED
        BY <2>3, <3>1, <3>2, <3>3, ApplyKeepsBalance
    <2> QED
      BY <2>4, <2>5
  <1>3. Balanced(f[n])
    BY <1>2
  <1> QED
    BY <1>1, <1>3 DEF Balance, Balanced, RowSum, SumOver

\* The ledgers of all journals, by either store, are balanced.
THEOREM LedgersBalance == Spec => []BalanceIsSumOfRows
  <1>1. ASSUME NEW n \in Id, Facts, NEW list \in {Weighed(Cached(n)), Weighed(Filed(n))}
        PROVE  Balance(list) = RowSum(LedgerOf(list).rows)
    <2>1. PICK plain \in {Cached(n), Filed(n)} : list = Weighed(plain)
      OBVIOUS
    <2>2. Len(plain) \in Nat
      BY <1>1, <2>1, StoresListAll DEF Enumerates
    <2>3. \A k \in 1..Len(plain) : plain[k] \in Entry
      <3>1. entries[n] \subseteq Entry
        BY <1>1 DEF Facts, IInv, TypeOK
      <3> QED
        BY <1>1, <2>1, <3>1, StoresListAll DEF Enumerates
    <2>4. list = [k \in 1..Len(plain) |-> [plain[k] EXCEPT !.value = 2^k]]
      BY <2>1 DEF Weighed
    <2>5. Len(list) = Len(plain)
      BY <2>2, <2>4
    <2>6. \A k \in 1..Len(list) : list[k].value \in Int
      <3> SUFFICES ASSUME NEW k \in 1..Len(plain) PROVE list[k].value \in Int
        BY <2>5
      <3>1. list[k] = [plain[k] EXCEPT !.value = 2^k]
        BY <2>4
      <3>2. plain[k] \in [clock : Clock, id : Id, value : Amount, alters : Clock]
        BY <2>3 DEF Entry
      <3>3. list[k].value = 2^k
        BY <3>1, <3>2
      <3>4. 2^k \in Int
        BY <2>2
      <3> QED
        BY <3>3, <3>4
    <2> QED
      BY <2>2, <2>5, <2>6, BalanceOfRows
  <1>2. Facts => BalanceIsSumOfRows
    BY <1>1 DEF BalanceIsSumOfRows
  <1> QED
    BY <1>2, FactsHold, PTL

=============================================================================
