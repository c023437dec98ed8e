--------------------------- MODULE JournalLedger ---------------------------
(***************************************************************************)
(* The ledger of what a journal holds, as the two stores list it.  In this *)
(* order the users' journals give it to Ledger::Ledger.                    *)
(***************************************************************************)
EXTENDS Journal, Ledger, EntryLists, FiniteSetsExt

Cached(n) == CacheEntries(entries[n])

Filed(n) == FileEntries(entries[n], clock[n])

(***************************************************************************)
(* The pool whose users alter only entries that their own journal has, the *)
(* ones they see.  The command line takes any version.                     *)
(***************************************************************************)
Alterable(n) == {EmptyClock} \cup {e.clock : e \in entries[n]}

SeenNext ==
  \E n \in Id :
    \/ \E value \in Amount, alters \in Alterable(n) : AppendData(n, value, alters)
    \/ \E m \in Id : \E e \in entries[m] : Receive(n, e)

SeenSpec == Init /\ [][SeenNext]_vars

-----------------------------------------------------------------------------
\* "They must create the same local model independently of the order they
\* received the transactions": the ledger of a journal does not depend on the
\* store, and so on the order, it is listed by.
OrderIndependent == \A n \in Id : LedgerOf(Cached(n)).rows = LedgerOf(Filed(n)).rows

\* At most two journals edit any one entry.
TwoEditors(n) ==
  \A k \in {e.alters : e \in entries[n]} \ {EmptyClock} :
    Cardinality({e.id : e \in {f \in entries[n] : f.alters = k}}) <= 2

\* Where at most two journals edit any one entry, and they edit what they see,
\* Ledger::Replaces has no cycles and the ledger does not depend on the order of
\* the list.
PairsOrderIndependent ==
  \A n \in Id : TwoEditors(n) => LedgerOf(Cached(n)).rows = LedgerOf(Filed(n)).rows

\* The row an entry is for.
Target(e) == IF e.alters = EmptyClock THEN e.clock ELSE e.alters

\* "The behaviour must trigger an edit on the original value in such a way that
\* the last edit wins" (docs): each clock that is added or altered has one row,
\* and no entry for that row is later than the one that Ledger::Ledger leaves in
\* it.  Between concurrent entries it says nothing.
LastEditWins ==
  \A n \in Id :
    TwoEditors(n) =>
      LET rows == LedgerOf(Cached(n)).rows
      IN  /\ DOMAIN rows = {Target(e) : e \in entries[n]}
          /\ \A e \in entries[n] : ~SmallerThan(rows[Target(e)].clock, e.clock)

\* "We can pick the device with the smaller id (lexicographical) as the winning"
\* (docs): where two journals edit one entry concurrently, the row that
\* Ledger::Replaces leaves has the smaller id.
SmallerIdWins ==
  \A n \in Id :
    TwoEditors(n) =>
      LET rows == LedgerOf(Cached(n)).rows
      IN  \A e \in {f \in entries[n] : f.alters # EmptyClock} :
            Concurrent(rows[e.alters].clock, e.clock) => rows[e.alters].id < e.id

\* The same list with the values 2, 4, 8, ..., whose sums tell which of them
\* were added up.  No step of the ledger depends on a value.
Weighed(list) == [k \in 1..Len(list) |-> [list[k] EXCEPT !.value = 2^k]]

RowSum(rows) == MapThenSumSet(LAMBDA k : rows[k].value, DOMAIN rows)

\* The balance, which Ledger::Ledger keeps up to date by differences, is the sum
\* of the rows.
BalanceIsSumOfRows ==
  \A n \in Id : \A list \in {Weighed(Cached(n)), Weighed(Filed(n))} :
    Balance(list) = RowSum(LedgerOf(list).rows)

=============================================================================
