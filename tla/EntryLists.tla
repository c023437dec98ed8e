----------------------------- MODULE EntryLists -----------------------------
(***************************************************************************)
(* The order in which the stores give out what they hold: entries() of     *)
(* cashmere/plugins/src/cache.cpp and file.cpp.  JournalBase::query keeps  *)
(* that order and the ledger adds up in it.                                *)
(***************************************************************************)
EXTENDS Clocks, Sequences, FiniteSets

\* The elements of S by their ranks in R, a strict total order on S.
InOrder(S, R) ==
  [i \in 1..Cardinality(S) |-> CHOOSE e \in S : Cardinality({f \in S : <<f, e>> \in R}) = i - 1]

\* The order of the keys of std::map<Clock, Data>.
KeyOrder(S) == {pair \in S \X S : LexLess(pair[1].clock, pair[2].clock)}

\* Journal::entries.
CacheEntries(S) == InOrder(S, KeyOrder(S))

\* The files by increasing id, each from its first line: one line per entry of
\* that id, in the order of their times.
LineOrder(S) ==
  {pair \in S \X S :
     LET e == pair[1]
         f == pair[2]
     IN  e.id < f.id \/ (e.id = f.id /\ e.clock[e.id] < f.clock[f.id])}

\* The lines that JournalFile::entries reads: of each file as many as the
\* journal's clock counts for its id.
Readable(S, c) ==
  {e \in S : Cardinality({f \in S : f.id = e.id /\ f.clock[f.id] <= e.clock[e.id]}) <= At(c, e.id)}

\* JournalFile::entries.
FileEntries(S, c) == InOrder(Readable(S, c), LineOrder(Readable(S, c)))

=============================================================================
