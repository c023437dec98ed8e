---------------------------- MODULE SharedJournal ----------------------------
(***************************************************************************)
(* One journal and the threads of its service: the user's, which runs the  *)
(* commands, and those of the server, which run GrpcRunner's handlers.     *)
(* They share the journal without a lock.  A step is one access to what    *)
(* they share, the clock or the store; BrokerBase::append                  *)
(* (brokerbase.cpp), JournalBase::insert (journalbase.cpp) and the first   *)
(* lines of Broker::insert (hub.cpp) have five of them.  An access is      *)
(* taken to be atomic, which is the best a build can make of the race.     *)
(***************************************************************************)
EXTENDS Clocks, FiniteSets

CONSTANTS
  Owner,    \* the id of the journal
  Peers,    \* the ids of other journals, whose entries the server receives
  Threads,
  Amount,   \* values an entry can carry
  MaxTime   \* largest value of a clock component

VARIABLES
  clock,    \* Broker::clock()
  entries,  \* what JournalFile::save added to the files
  task      \* task[t]: where thread t is in append or insert, and what it holds

vars == <<clock, entries, task>>

Resting == [pc |-> "rest"]

Init ==
  /\ clock = EmptyClock
  /\ entries = {}
  /\ task = [t \in Threads |-> Resting]

IsAt(t, pc) == task[t].pc = pc

Go(t, pc) == task' = [task EXCEPT ![t].pc = pc]

\* BrokerBase::append, by a user or, through relay, by a client: the clock is
\* read and ticked for the new entry.
Append(t, value) ==
  /\ IsAt(t, "rest") /\ At(clock, Owner) < MaxTime
  /\ task' = [task EXCEPT ![t] =
                [pc |-> "check", clock |-> EmptyClock,
                 entry |-> [clock |-> Tick(clock, Owner), id |-> Owner, value |-> value,
                            alters |-> EmptyClock]]]
  /\ UNCHANGED <<clock, entries>>

\* GrpcRunner::Insert with the next entry of a peer that knows only itself, or the
\* same one again.
Receive(t, i) ==
  LET time == Cardinality({e \in entries : e.id = i}) + 1
  IN  /\ IsAt(t, "rest") /\ time <= MaxTime
      /\ task' = [task EXCEPT ![t] =
                    [pc |-> "check", clock |-> EmptyClock,
                     entry |-> [clock |-> [j \in {i} |-> time], id |-> i, value |-> 0,
                                alters |-> EmptyClock]]]
      /\ UNCHANGED <<clock, entries>>

\* JournalBase::insert reads the clock again for isNext; a refusal ends it.
Check(t) ==
  /\ IsAt(t, "check")
  /\ IF IsNext(task[t].entry.clock, clock, task[t].entry.id)
       THEN Go(t, "save")
       ELSE task' = [task EXCEPT ![t] = Resting]
  /\ UNCHANGED <<clock, entries>>

\* JournalFile::save.
Save(t) ==
  /\ IsAt(t, "save")
  /\ entries' = entries \cup {task[t].entry}
  /\ Go(t, "read")
  /\ UNCHANGED clock

\* Broker::insert: setClock(clock().merge(data.clock)) reads
ReadClock(t) ==
  /\ IsAt(t, "read")
  /\ task' = [task EXCEPT ![t].pc = "write", ![t].clock = Merge(clock, task[t].entry.clock)]
  /\ UNCHANGED <<clock, entries>>

\* and writes.
WriteClock(t) ==
  /\ IsAt(t, "write")
  /\ clock' = task[t].clock
  /\ task' = [task EXCEPT ![t] = Resting]
  /\ UNCHANGED entries

Next ==
  \E t \in Threads :
    \/ \E value \in Amount : Append(t, value)
    \/ \E i \in Peers : Receive(t, i)
    \/ Check(t) \/ Save(t) \/ ReadClock(t) \/ WriteClock(t)

Spec == Init /\ [][Next]_vars

-----------------------------------------------------------------------------
\* "A device ID (DID) and transaction ID (TID) can identify uniquely a
\* transaction in a group of devices" (docs/transaction-spec.md): of one author
\* and time the journal stores one entry.
OneEntryPerTransaction ==
  \A e, f \in entries : e.id = f.id /\ e.clock[e.id] = f.clock[f.id] => e = f

=============================================================================
