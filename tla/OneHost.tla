------------------------------ MODULE OneHost ------------------------------
(***************************************************************************)
(* Services on one host, as run.sh starts them.  The twin that GrpcRunner  *)
(* makes for the url of a service that connects is a JournalFile on that   *)
(* service's own directory (file.cpp): each with its own clock, both write *)
(* to the same files.  Elsewhere in this project a twin writes to a        *)
(* directory of that path on another host.                                 *)
(***************************************************************************)
EXTENDS MCServices

LOCAL INSTANCE SequencesExt

VARIABLE
  lines     \* lines[d][i]: the entries in the file of author i in d's directory

hvars == <<svars, lines>>

HostInit == ServicesInit /\ lines = [d \in Owned |-> [i \in Owned |-> <<>>]]

\* JournalFile::save adds a line to the file of the author in the directory of the
\* journal's url; a twin's is that of the journal it was made for.
Written(d, i) == {e \in UNION {entries'[n] \ entries[n] : n \in {m \in Journals : IdOf[m] = d}} : e.id = i}

SaveLines == lines' = [d \in Owned |-> [i \in Owned |-> lines[d][i] \o SetToSeq(Written(d, i))]]

\* JournalFile::entries: of each file, by increasing id, as many lines as the clock
\* counts.
ShownLines(n) ==
  LET file(i) == lines[IdOf[n]][i]
      count(i) == IF At(ClockOf(n), i) <= Len(file(i)) THEN At(ClockOf(n), i) ELSE Len(file(i))
      authors == SetToSortSeq(DOMAIN ClockOf(n), LAMBDA i, j : i < j)
  IN  FlattenSeq([k \in DOMAIN authors |-> SubSeq(file(authors[k]), 1, count(authors[k]))])

\* JournalBase::query of what the files show.
QueryFiles(t) ==
  LET n == Frame(t).node
      from == Frame(t).from
      unseen(e) == Concurrent(e.clock, from) \/ SmallerThan(from, e.clock)
  IN  /\ Running(t, "query") /\ Frame(t).pc = "enter" /\ n \in Journals
      /\ Return(t, [list |-> SelectSeq(ShownLines(n), unseen)])
      /\ UNCHANGED <<conns, entries>>

HostMachine(t) ==
  InsertStep(t) \/ RefreshStep(t) \/ QueryFiles(t) \/ ConnectStep(t) \/ RelayStep(t) \/ RpcStep(t)

\* No call fails and nobody leaves.
HostNext ==
  \E t \in Threads :
    \/ HostMachine(t) /\ SaveLines /\ UNCHANGED <<faults, joined>>
    \/ t \in Users /\ (Join(t) \/ Use(t)) /\ UNCHANGED lines

HostSpec == HostInit /\ [][HostNext]_hvars /\ \A t \in Threads : WF_hvars(HostMachine(t) /\ SaveLines)

\* run.sh runs two services, connects one to the other and compares their
\* directories: `diff "/cashmere/db/aa" "/cashmere/db/bb"`.  So when a connect has
\* returned, no call of which failed, the two directories hold the same files.
SameDirectories ==
  Idle /\ joined # NoServices => lines[joined[1]] = lines[joined[2]]

=============================================================================
