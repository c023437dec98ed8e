------------------------------- MODULE Ledger -------------------------------
(***************************************************************************)
(* The balance of a list of entries: cashmere/crdt/src/ledger.cpp.  A row  *)
(* of the ledger stands under a clock: the clock of the entry, or, for an  *)
(* entry that alters another, the clock it alters.                         *)
(***************************************************************************)
EXTENDS Clocks, Integers, Sequences

\* ClockEntryMap: a function from the clocks that have a row to entries.
NoRows == [k \in {} |-> 0]

\* A slip in Replaces: of concurrent entries the one listed last is kept.
ReplacesLast(existing, incoming) ==
  incoming.alters # EmptyClock /\ ~SmallerThan(incoming.clock, existing.clock)

\* A slip in Replaces: the ids are compared and the clocks are not.
ReplacesById(existing, incoming) ==
  incoming.alters # EmptyClock /\ existing.id < incoming.id

\* Ledger::Replaces: whether the incoming entry takes the row of the existing
\* one, by their clocks or, if these are concurrent (or equal), by the ids.
Replaces(existing, incoming) ==
  /\ incoming.alters # EmptyClock
  /\ \/ SmallerThan(existing.clock, incoming.clock)
     \/ /\ ~SmallerThan(incoming.clock, existing.clock)
        /\ existing.id < incoming.id

\* Ledger::Evaluate.
Evaluate(rows, incoming) ==
  LET what == IF incoming.alters = EmptyClock THEN incoming.clock ELSE incoming.alters
  IN  CASE what \notin DOMAIN rows -> [act |-> "Insert", what |-> what]
        [] what \in DOMAIN rows /\ Replaces(rows[what], incoming) -> [act |-> "Replace", what |-> what]
        [] OTHER -> [act |-> "Ignore", what |-> EmptyClock]

\* A slip in the constructor: a replaced value stays in the balance.
ApplyAdds(ledger, incoming) ==
  LET todo == Evaluate(ledger.rows, incoming)
      rows == [k \in DOMAIN ledger.rows \cup {todo.what} |->
                 IF k = todo.what THEN incoming ELSE ledger.rows[k]]
  IN  IF todo.act = "Ignore"
        THEN ledger
        ELSE [rows |-> rows, balance |-> ledger.balance + incoming.value]

\* One turn of the loop of Ledger::Ledger.
Apply(ledger, incoming) ==
  LET todo == Evaluate(ledger.rows, incoming)
      rows == [k \in DOMAIN ledger.rows \cup {todo.what} |->
                 IF k = todo.what THEN incoming ELSE ledger.rows[k]]
  IN  CASE todo.act = "Insert"  -> [rows |-> rows, balance |-> ledger.balance + incoming.value]
        [] todo.act = "Replace" -> [rows |-> rows,
                                    balance |-> ledger.balance - ledger.rows[todo.what].value
                                                + incoming.value]
        [] todo.act = "Ignore"  -> ledger

\* Ledger::Ledger(entries): the loop has taken the first k entries.
LedgerOf(list) ==
  LET after[k \in 0..Len(list)] ==
        IF k = 0 THEN [rows |-> NoRows, balance |-> 0] ELSE Apply(after[k - 1], list[k])
  IN  after[Len(list)]

\* Ledger::Balance.
Balance(list) == LedgerOf(list).balance

=============================================================================
