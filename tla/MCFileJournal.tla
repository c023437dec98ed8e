---------------------------- MODULE MCFileJournal ----------------------------
(***************************************************************************)
(* Instances of module Service for TLC.                                    *)
(***************************************************************************)
EXTENDS Service

CONSTANTS
  MaxEntries,   \* the users make at most this many entries
  MaxLines      \* and no file has more lines than this

\* Each service counts the entries that it makes.
Made == {<<n, t>> \in Id \X (1..MaxTime) : t <= At(clock[n], n)}

Small ==
  /\ Cardinality(Made) <= MaxEntries
  /\ \A n, i \in Id : LineCount(files[n][i]) <= MaxLines

\* The services start, and end, before the first entry; then they stay.
SmallSpec == ServiceInit /\ [][StayNext /\ Small']_svars

\* Services end and are started again on their directory.
SmallRestartSpec == ServiceInit /\ [][StartAny \/ (Work /\ Small')]_svars

=============================================================================
