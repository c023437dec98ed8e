------------------------------- MODULE Journal -------------------------------
(***************************************************************************)
(* What a pool of journals promises, whatever brokers carry the entries:   *)
(* JournalBase::insert (cashmere/src/journalbase.cpp) with the store of    *)
(* cashmere/plugins.  A journal is named by its id.  An entry may reach a  *)
(* journal at any time after some journal stored it, in any order, any     *)
(* number of times, or never: brokers, connections and their synchronous   *)
(* calls are the business of module Broker, which is shown to implement    *)
(* this specification.                                                     *)
(***************************************************************************)
EXTENDS Clocks

CONSTANTS
  Id,       \* ids of the journals of the pool
  Amount,   \* values an entry can carry
  MaxTime   \* largest value of a clock component (2^64 - 1 in the code)

ASSUME IdAssumption == Id \subseteq Nat \ {0}
ASSUME MaxTimeAssumption == MaxTime \in Nat

VARIABLES
  clock,    \* clock[n]: JournalBase::clock(), the clock of _connections.front()
  entries   \* entries[n]: the entries that save() stored

vars == <<clock, entries>>

\* No time is ever 0: Tick and Merge create a component only with a count in it.
Clock == ClocksOver(Id, 1..MaxTime)

Entry == [clock : Clock, id : Id, value : Amount, alters : Clock]

\* The position of an entry in the history of its author.
Time(e) == At(e.clock, e.id)

\* The state after any sequence of append and insert: clocks without zero times
\* and entries of the pool.
TypeOK ==
  /\ clock \in [Id -> Clock]
  /\ entries \in [Id -> SUBSET Entry]

-----------------------------------------------------------------------------
Init ==
  /\ clock = [n \in Id |-> EmptyClock]
  /\ entries = [n \in Id |-> {}]

\* Journal::save refuses a clock it already holds.
Saves(n, e) == \A f \in entries[n] : f.clock # e.clock

\* A slip in Broker::insert: the clock counts the author's component only.
InsertCountsAuthor(n, e) ==
  /\ IsNext(e.clock, clock[n], e.id)
  /\ Saves(n, e)
  /\ entries' = [entries EXCEPT ![n] = @ \cup {e}]
  /\ clock' = [clock EXCEPT ![n] = Tick(@, e.id)]

\* A slip in Broker::insert: setClock is given the entry's clock, not the merge.
InsertAssignsClock(n, e) ==
  /\ IsNext(e.clock, clock[n], e.id)
  /\ Saves(n, e)
  /\ entries' = [entries EXCEPT ![n] = @ \cup {e}]
  /\ clock' = [clock EXCEPT ![n] = e.clock]

\* JournalBase::insert and the part of Broker::insert that is local.  A refused
\* entry changes nothing.
Insert(n, e) ==
  /\ IsNext(e.clock, clock[n], e.id)
  /\ clock' = [clock EXCEPT ![n] = Merge(@, e.clock)]
  /\ Saves(n, e)
  /\ entries' = [entries EXCEPT ![n] = @ \cup {e}]

\* A slip in append: the default id 0 of the command line is not replaced.
AppendUnnamed(n, value, alters) ==
  /\ At(clock[n], 0) < MaxTime
  /\ Insert(n, [clock |-> Tick(clock[n], 0), id |-> 0, value |-> value, alters |-> alters])

\* A slip in append: an entry for another journal is made here.
AppendForAnother(n, value, alters) ==
  \E i \in Id :
    /\ At(clock[n], i) < MaxTime
    /\ Insert(n, [clock |-> Tick(clock[n], i), id |-> i, value |-> value, alters |-> alters])

\* A slip in append: the clock counts what the altered entry knew, not what the
\* journal knows.
AppendOnAltered(n, value, alters) ==
  /\ At(clock[n], n) < MaxTime
  /\ Insert(n, [clock |-> Merge(alters, [i \in {n} |-> At(clock[n], n) + 1]),
                id |-> n, value |-> value, alters |-> alters])

\* BrokerBase::append, with replace (alters the clock of an entry) and erase
\* (the same with the value 0).  Nothing asks whether there is an entry with the
\* altered clock, here or anywhere.
AppendData(n, value, alters) ==
  /\ At(clock[n], n) < MaxTime
  /\ Insert(n, [clock |-> Tick(clock[n], n), id |-> n, value |-> value, alters |-> alters])

\* A slip in insert: the receiver counts the event once more.
ReceiveTicks(n, e) ==
  /\ IsNext(e.clock, clock[n], e.id)
  /\ entries' = [entries EXCEPT ![n] = @ \cup {e}]
  /\ clock' = [clock EXCEPT ![n] = Tick(Merge(@, e.clock), e.id)]

\* A peer's broker hands over an entry that some journal stores.
Receive(n, e) == Insert(n, e)

Next ==
  \E n \in Id :
    \/ \E value \in Amount, alters \in Clock : AppendData(n, value, alters)
    \/ \E m \in Id : \E e \in entries[m] : Receive(n, e)

Spec == Init /\ [][Next]_vars

-----------------------------------------------------------------------------
(***************************************************************************)
(* The same pool when every entry arrives after the entries its clock      *)
(* counts.  JournalBase::insert, looking at the author's component only,   *)
(* does not see to that; the forwarding of brokers that are connected into *)
(* a tree before their second entry provides it.                           *)
(***************************************************************************)
CausallyReady(n, e) == \A i \in DOMAIN e.clock \ {e.id} : e.clock[i] <= At(clock[n], i)

CausalReceive(n, e) == CausallyReady(n, e) /\ Insert(n, e)

CausalNext ==
  \E n \in Id :
    \/ \E value \in Amount, alters \in Clock : AppendData(n, value, alters)
    \/ \E m \in Id : \E e \in entries[m] : CausalReceive(n, e)

CausalSpec == Init /\ [][CausalNext]_vars

-----------------------------------------------------------------------------
\* A journal's clock counts every entry it stores, so that query(clock()) of a
\* peer never sends it an entry again.
ClockCoversEntries == \A n \in Id : \A e \in entries[n] : Leq(e.clock, clock[n])

\* "A device ID (DID) and transaction ID (TID) can identify uniquely a
\* transaction in a group of devices": no two journals ever store different
\* entries under the same author and time.
TransactionsUnique ==
  \A n, m \in Id : \A e \in entries[n], f \in entries[m] :
    e.id = f.id /\ Time(e) = Time(f) => e = f

\* Every entry stored anywhere is stored by its author, who has one for each
\* tick of its own clock component.
AuthorHasHistory ==
  /\ \A n \in Id : \A e \in entries[n] : e \in entries[e.id]
  /\ \A n \in Id : \A t \in 1..At(clock[n], n) : \E e \in entries[n] : e.id = n /\ Time(e) = t

\* No journal's clock counts events of a peer that the peer has not recorded.
AuthorAhead == \A n \in Id : \A i \in DOMAIN clock[n] : clock[n][i] <= At(clock[i], i)

\* The entries of one author are causally ordered by their times, which is why
\* Ledger::Replaces needs the ids only to choose between different authors.
AuthorsAreSequential ==
  \A n, m \in Id : \A e \in entries[n], f \in entries[m] :
    e.id = f.id /\ Time(e) < Time(f) => SmallerThan(e.clock, f.clock)

\* No two entries have the same clock: std::map<Clock, Data>, the store of
\* plugins/src/cache.cpp, and replace and erase name an entry by its clock alone.
ClocksAreKeys ==
  \A n, m \in Id : \A e \in entries[n], f \in entries[m] : e.clock = f.clock => e = f

\* An entry carries a time of its author.
Stamped == \A n \in Id : \A e \in entries[n] : e.id \in DOMAIN e.clock

\* The invariants above rest on each other: together they are inductive.
IInv ==
  /\ TypeOK
  /\ Stamped
  /\ ClockCoversEntries
  /\ AuthorHasHistory
  /\ AuthorAhead
  /\ TransactionsUnique
  /\ AuthorsAreSequential

\* Nothing stored is dropped or replaced and no clock component goes back.
JournalsOnlyGrow ==
  [][\A n \in Id : entries[n] \subseteq entries'[n] /\ Leq(clock[n], clock'[n])]_vars

\* A journal stores every entry its clock counts: JournalBase::insert would
\* refuse an entry that the clock counts already, so one that is missing stays
\* missing.  It is a property of CausalSpec and not of Spec.
ClockIsComplete ==
  \A n \in Id : \A i \in DOMAIN clock[n] : \A t \in 1..clock[n][i] :
    \E e \in entries[n] : e.id = i /\ Time(e) = t

\* Two journals that show the same clock hold the same entries: the clock is
\* all that Broker::connect compares to decide what to send.
SameClockSameEntries ==
  \A n, m \in Id : clock[n] = clock[m] => entries[n] = entries[m]

=============================================================================
