# A verification of Cashmere in TLA+

Cashmere (`src/README.md`) is a replicated register of transactions. Each device
keeps a journal, journals are brokers that call each other, and a ledger turns
the entries of a journal into a balance. This directory holds TLA+ models of
that code, the TLC runs that check them on small instances, and TLAPS proofs, for
every value of the constants, of what the journals, their files, the ledger and the
brokers promise. `PROJECT.json`
lists which definition models which lines, which run checks which property,
and the mutation of the model that each property catches.

## 1. The system

| component | state | operations | talks to |
|---|---|---|---|
| Clock (`crdt/src/clock.cpp`) | a map id -> time | merge, tick, smallerThan, concurrent, isNext, valid | everyone |
| Ledger (`crdt/src/ledger.cpp`) | rows by clock, balance | Evaluate, Replaces, Balance | reads a journal's entries |
| Journal, JournalFile (`plugins/src`) | stored entries; files, one per author | save, entries, entry | called by JournalBase |
| JournalBase (`src/journalbase.cpp`) | that of a Broker | insert, query, sources, relay | its store, Broker |
| Broker (`src/hub.cpp`) | vector of connections; the first one holds the own clock | connect, refresh, insert, query, sources, versions, disconnect, relay | peers, through Connection |
| Connection, BrokerBase (`src/brokerbase.cpp`) | peer (weak pointer), peer's port, peer's clock, routing table `provides` | the calls above, append, replace, erase | the peer broker |
| command line service (`src/cli/main.cpp`) | one journal, one server thread and one user thread | connect, disconnect, add, relay, quit; a client gives a service one command and ends | its journal; clients, a service |
| Command, Options (`src/cli`) | none | Command::Read of a line, Options of the arguments | the service |
| gRPC stub and runner (`grpc`) | none of their own | every call as a remote call, which may fail | the peer process |
| gRPC conversions (`grpc/utils`) | none | clocks, entries and tables to messages and back | stub and runner |
| stores of brokers and wrappers (`src/brokerstore.cpp`, `wrapperstore.cpp`) | a map from urls | getOrCreate, insert | plug-ins |

**What is hard.** All calls are synchronous, so that one insert is a nest of
calls through the whole tree of brokers, and a broker may be called while an
outer call of it has not finished. There is no lock, and the service has a user
thread and the server's threads. An entry is accepted if it is the next one of
its author; what it says of other authors is merged into the clock unseen. So
the order of arrival matters. Routing tables are copies of the peers' tables,
kept right by a flood of `refresh`. Lists given out on connect are in the order
of a `std::map` or of files, neither of which is causal. Services reach each other
over gRPC, where a stub stands for the peer: a call may fail before the peer got
it, after it or while the peer is still at it, and nobody tries again but the user.
File journals count lines, and forget
their clock when the process ends. The list `hazards` of
`PROJECT.json` names each place, with the properties about it.

**What makes it correct.** Clocks: merge is a least upper bound, the order is a
partial order. Journals: an author and a time name one entry; a clock counts
all that is stored, and nothing that is not. Brokers: connected journals hold
the same entries once all calls have returned, tables name the journals behind
each port, calls return. Ledger: it does not depend on the order of the list.

## 2. The modules

| module | models |
|---|---|
| `Clocks` | the map clocks, with absent and zero times kept apart as `std::map` does |
| `Journal` | what a pool of journals promises: append and insert, deliveries in any order, repeated or lost (`Spec`), or only causal ones (`CausalSpec`) |
| `EntryText` | the text of an entry, written and read |
| `FileJournal` | journals on files: opening, save, entry, entries |
| `CommandLine` | what a line and the arguments of the program mean |
| `Service` | services as their users see them: started with arguments, given lines, ended |
| `EntryLists` | the order in which the two stores give out entries |
| `Ledger` | Evaluate, Replaces, the loop of the constructor, Balance |
| `JournalLedger` | the ledger of what a journal of `Journal` holds, listed in either order, with its properties |
| `Wire` | the messages of gRPC and the conversions to and from them |
| `Broker` | brokers, connections and journals with their nested calls, in one process or over gRPC |
| `BrokerCalls` | the inductive invariant of `Broker`: what is true of ports and of calls in flight |
| `SharedJournal` | append and insert of one journal by several threads, one step per access |
| `ClocksProofs`, `JournalProofs`, `WireProofs`, `EntryListsProofs`, `LedgerProofs`, `FileProofs`, `BrokerCallsProofs`, `BrokerProofs` | theorems |
| `MCFileJournal`, `MCLedger`, `MCBroker`, `MCServices` | instances for TLC |
| `OneHost` | services on one host, whose twins write to their files; an instance for TLC |

`Broker` extends `Wire` and `EntryLists`, `JournalLedger` extends `Journal`,
`Ledger` and `EntryLists`, `Service` extends `FileJournal` and
`CommandLine`, and both `Broker` and `FileJournal` instantiate `Journal`, which they
implement.

**Journal.** `clock[n]` is `JournalBase::clock()`, `entries[n]` what `save`
stored. `AppendData` is `BrokerBase::append` with `replace` (the entry alters
a clock) and `erase` (value 0). Nobody looks whether there is an entry with the
clock that is altered (`command.cpp:107`), so that is any clock. `Receive` is an insert of an entry that some journal stores. It is
the abstract specification: a refused entry changes nothing, so a delivery that
is refused is a stuttering step.

**Broker.** `conns[n]` is the vector `_connections`; a port is an index, and
index 0 holds the own clock. `stack[t]` holds the calls a thread is in. Each
frame has the call's arguments and where it is in its body, and an action is the
code of one broker between two calls: `InsertEnter` the local part of insert,
`InsertForward` the call to the next port, `InsertForwarded` what
`Connection::insert` notes on return, and likewise for connect, refresh, query,
relay and disconnect. A broker that waits for a relay or a query of a peer keeps its
frame (`RelayReturn`, `QueryReturn`), since the peer's insert may call it back in the
meantime. A relay and an append carry any version (`Version`). Refusals are the
clock `{{0, 0}}`, as in the code. A hub is a broker that is no journal.
`Source` is unsigned, so the tests `source < 0` never hold and are not modelled.
A connect to a dead broker and a disconnect of a dead port return at once
without changing anything; they are stuttering steps. A call through a connection
that another thread has just reset follows a null pointer, and the thread gets no
further (`Running`). `MaxTime` is the bound of a count: `AppendEnter` and
`RelayHere`, which tick a clock, do not run at the bound.

**Services.** `Process[n]` says where a broker lives. A call of a connection
(`Insert`, `Query`, `Connect`, `Refresh`, `Relay`) is a call of the peer if that
lives in the same process, and otherwise a frame of `BrokerGrpcStub` with a request
in the terms of `Wire`. `RpcServe` lets `GrpcRunner` make of the request the call
that its handler makes (`ServeConnect`, ...); `RpcAnswer` turns what the broker
returned into a message (`Response`) and that into what the stub returns
(`Result`). Every value crosses `Wire` twice. Three differences from a local call
matter: the stub forgets the routing table of a connect answer (`ConnectResult`);
it turns a refused or failed insert into an empty clock, which `valid()` accepts
(`InsertResult`); and the runner looks up the asking broker by its url in the store
of its own process (`GetOrCreate`). That url is the `file://` url of the asker's
journal, so the store makes a second journal with the same id on this side. The
models call it the asker's *twin*; it is a broker of its own, which users cannot
see. `TwinsAssumption` gives each process one for every service of another process,
since `getOrCreate` makes what it lacks. In `Broker` a twin has files of its own: the
services are on different hosts, where the path in the url is another directory.
`OneHost` has services on one host, as `src/run.sh` starts them. There the twin writes to
the asker's own files: `lines[d]` holds the lines in the directory of a service,
`SaveLines` adds those that the service and its twin save, each by its own clock, and
`QueryFiles` answers with what the lines show.

Faults are actions of their own. `RpcFail` ends a call with a failure before the
peer was asked or after it has returned, so the call has happened not at all or
completely. `RpcBreak` ends it while the peer is at it: the caller's frames stay
with its thread, the frames of the peer and of all it has called go on in another
one, as they do in the server. The stub does not retry; after a failure it returns
what `Result` makes of `NotOk`, and for a connect that is an empty `Connection`, with
port 0, on which the asker then continues. Users repeat a connect whether or not the
last one failed, which leaves two connections between the same services.

A client (`RunCommand`) is a process without a broker that makes one call through a
stub and ends: `ClientRelay` (add and relay, with any version), `ClientConnect`, whose request with the
source 0 makes the service connect to another one, and `ClientSources`.

**SharedJournal.** One journal and the threads of its process. `Append` reads the
clock, `Check` reads it again for `isNext`, `Save` writes the file, `ReadClock` and
`WriteClock` are the two halves of `setClock(clock().merge(...))`. The accesses are
taken to be atomic, which is the mildest outcome that the data race has.

**FileJournal.** `files[n][i]` is the text, in tokens, of the file for author `i`
in the directory of journal `n`; `clock[n]` is in memory. `Save` adds the text of
an entry and a line feed. `Shown` reads as many entries as the clock counts,
`Lookup` seeks the line of a count and reads one. Numbers are tokens that keep
their base, since the writer and the reader must agree on it; spaces, which every
reader skips, are left out. The text of a clock has six tokens for each id (`WritePair`),
so what stands at a position is arithmetic: `Turns` is the number of turns that the
loop of `Clock::Read` takes, and `PairsRead` what they leave. `Open` empties the
clock and keeps the files. The refinement `ImplementsPool` maps the files, read back,
to the entries of `Journal`.

**CommandLine, Service.** A line and the arguments of the program are sequences of
tokens like the text of an entry, so the version of `add` is read by the same
`Clock::Read`. `CommandRead` is `Command::Read`, `OptionsRead` the constructor of
`Options`. `Start` is `RunService` up to the first `readline`: it makes the url of
the journal, whose id is read back from it (`UrlId`), opens the journal and runs the
command that the arguments hold. `Enter` is one turn of the loop. The commands about
connections are those of `Broker`; here entries of other services just arrive
(`Deliver`), in whatever order: `JournalBase::insert` looks at the author's component
only. `Lines` is what users type: lines that are well formed, empty, unknown, or end
anywhere in a version. The versions are those of recorded entries, whole or cut, while
`Clock::Read` takes any clock that is well formed; what an entry with a version that
nobody recorded does is in `Journal` and `Broker`. In `StaySpec` services start, and end,
before the first entry and stay from then on; the instance of run `file_journal` is
`StaySpec` with bounds on entries and lines, that of `file_restart` also lets services
end and start again on their files.

**Properties over the graph.** `Connected` and `Hops` are defined from the live
ports, not from the routing tables, so `RoutesExact` compares two different
things.

**EntryLists.** A store's list is its content by rank in an order: that of the
clocks as keys of a `std::map` (`KeyOrder`), or that of the files, their ids and
their lines (`LineOrder`). `JournalFile::entries` reads as many lines of a file as
the clock counts (`Readable`).

**Ledger.** `LedgerOf` is the loop of the constructor, as a recursive function of
the number of entries done. `JournalLedger` takes the contents of the journals of
`Journal` and lists them in both orders. `LastEditWins` says that no entry for a row is
later than the one left in it, `SmallerIdWins` what the documents say of concurrent ones,
`PairsOrderIndependent` that the order of the list does not matter, and
`BalanceIsSumOfRows` the balance
that `Apply` keeps by differences with the sum over the rows that are left.

## 3. The runs

| run | specification, bounds | shows |
|---|---|---|
| `journal` | users edit what they see; 3 journals, times to 2, 4 entries | under any delivery: uniqueness of transactions, complete own histories, clocks that count what is stored and never run ahead of the author or back, one clock per entry (the key of the cache and of the ledger's rows); where at most two journals edit an entry, the same ledger in both orders, and no edit loses to an earlier one; the balance is the sum of the rows |
| `ledger_three` | edits of one original by 3 journals | **violated**: `OrderIndependent` |
| `ledger_conflict` | edits of one original by 3 journals | **violated**: `SmallerIdWins` |
| `file_journal` | 3 services, one with an id of two digits, times to 2, 3 entries | entries arrive in any order; every saved entry that the clock counts is listed, `entry()` finds it where the files it looks into have no gaps, and never finds another one for it; a version of a recorded entry that is typed in part alters nothing; a pool of `Journal!Spec` |
| `file_gap` | 3 services, as in `file_journal` | **violated**: `EveryEntryFound` |
| `file_restart` | 2 services that end and are started again at any time | **violated**: `AllListed` |
| `broker_pool` | 3 journals (one on files) and a hub, 1 thread, all trees that are complete before the second entry, 2 entries | relays that end at the journal they name, convergence, exact routes, versions that track the authors, no re-entry but into a broker that waits for a relay, causal delivery |
| `broker_join` | 3 journals that join at any time | **violated**: `Converged` |
| `services_forged` | 2 services and their twins, with relays | **violated**: `UniqueTransactions` |
| `services_lossy` | 2 services on two hosts and their twins, a user thread, a server thread and clients; 2 faults or leaves, 2 entries, 2 ports | a connect that goes through makes both journals equal, whatever was lost, cut off or repeated before; the inductive invariant `InFlightOK` of the proofs; no clock or table counts an event that its author has not recorded (`NothingInvented`); every call returns; the journals the users own are still a pool of `Journal!Spec` |
| `services_one_host` | 2 services on one host, connects, entries of both, no faults | **violated**: `SameDirectories` |
| `append_race` | 1 journal, 2 threads, entries of its own and of a peer | **violated**: `OneEntryPerTransaction` |

`CHECK_DEADLOCK FALSE` everywhere: the program waits for its users, and the
bounds stop them.

**Bounds.** Three journals are the smallest tree with a broker that forwards;
the hub is a fourth broker, so that there are paths of three hops and a star.
Two entries give each pair of dependent or concurrent entries; an entry that is
missed is missed with two. Four entries let each of three journals write, and
one of them twice. No step depends on a value, so one is enough; the balance is
checked with the values 2, 4, 8, ... in the list, whose sums tell which were added.
The bounds on entries and lines are conjuncts of the instances' next-state
relations (`Small'`, `MayWrite`). The texts of `file_journal` make its states large,
so it has 3 entries; the id 12 is one whose hexadecimal text differs. `MaxTime`
stands for the 64-bit limit that no run of the program reaches. `MaxPorts`
bounds the vector of connections. Brokers are connected into trees: the tests do so, and in a cycle the calls of `refresh`
never end (see below). For the same reason only one service (`Askers`) connects to
the other in `services_lossy`; it may do so twice (`MaxPorts`). Two faults
(`MaxFaults`, shared with the leaves) let a connect fail and its repetition fail
again, or a forward be lost between two connects; two entries are a lost one and one
made on top of it or concurrently. In that run the asked service's user appends, and
clients add at the asker, altering nothing or a recorded entry (`Corrected`). `Users` are the threads that take commands; the
other one finishes what was cut off. The history variable `joined` remembers that the
last command was a connect none of whose calls failed.

**Fairness.** Weak fairness of `Machine(t)`: a thread that is inside a call goes
on, as the operating system lets it. Nobody has to give commands, and no call has to
fail. A remote call is answered or fails, so a thread that waits for one goes on: gRPC
reports a lost connection, and a peer that is there is under the same fairness. (The
stub sets no deadline, so a peer that hangs would hang its callers.)

**What the violated runs show.**

* `ledger_three`: "later wins, else the larger id wins" is not transitive: with
  three authors an edit can beat a second by time, the second a third by id, and
  the third the first by id. The fold keeps a different one in each order, and
  the cache and file stores have different orders. (With two editors there are
  no such cycles: `journal`.)
* `ledger_conflict`: the documents say that of concurrent edits the one with the
  *smaller* id wins (`docs/data-conciliation-spec.md:27`, 60 and 115); `ledger.cpp:62`
  lets the larger win.
* `file_gap`: a journal takes an entry before one that it counts, and the latter is
  refused from then on. The files have fewer lines than the clock counts; `entry()` takes
  the counts for line numbers and gives up at a file that is too short.
* `broker_join`: a journal that connects later takes a list in which an entry
  comes before one it depends on. Its clock then counts both, the second is
  refused, and no later query asks for it.
  The same loss happens between two threads without any list: with
  `Threads = {1, 2}` in `broker_pool.cfg` an entry overtakes the one it was made on
  top of, because the clock is raised before the forwards, and `Converged` is
  violated there too.
* `services_forged`: the asker has no routes to the service it asked, because the
  stub dropped them. An entry of that service which it takes over on connect makes
  a route of distance 0 to its author (`hub.cpp:101`), and a relay to that author
  makes an entry in another journal's name. In one process the same happens after
  a disconnect, whose `refresh` empties the table of a port that is still open on
  the other side.
* `services_one_host`: a service connects, gets an entry, and connects again. The twin
  writes the entry to the same file a second time. Lines are counted, so `entries()` of
  the asker shows that entry twice; with one more entry of the same author it shows the
  first one twice and never the second. `run.sh` compares the two directories. Entries
  that the asked service makes after the connect reach the twin only: the asker's clock does
  not count them until it connects again. So it is on different hosts, too.
* `append_race`: the user's thread and one of the server's read the same clock, both
  pass `isNext` before either writes it, and both entries are saved.
* `file_restart`: the clock starts again at 1 while the files go on, so the line of
  an entry is no longer its time.

## 4. The proofs

`ClocksProofs` proves, for all sets of ids and times, that `Leq` is a partial
order, that merge is its least upper bound (hence commutative, associative,
idempotent), that `SmallerThan` is its strict part, that two clocks are
equal, ordered or concurrent in exactly one way, and that a tick is strictly
above what it ticks.

`JournalProofs` proves the invariants of run `journal` for every set of ids,
every set of amounts and every `MaxTime`, from `IdAssumption` (ids are not 0,
which the code reserves) and `MaxTimeAssumption`. None of the invariants is
inductive alone, and the conjunction `IInv` is:

* that a new entry is unique needs that its author stores all of its own entries
  (`AuthorHasHistory`) and counts them (`ClockCoversEntries`), and that nobody
  has counted more of the author's events than the author (`AuthorAhead`);
* that a received entry is unique needs that it is stored by its author too;
* that `AuthorAhead` survives a receive needs `ClockCoversEntries` of the sender,
  since the receiver merges all components of the entry;
* `AuthorsAreSequential` needs that an append is above all that the author has.

`AppendKeeps` and `ReceiveKeeps` have one step per conjunct. For `CausalSpec`,
`CausalIsComplete` adds the completeness of the clock, on top of `IInv`, and
`EqualClocksEqualEntries` follows from the two and uniqueness. `OnlyGrow` is
the action property, and `CausalImplementsSpec` the refinement between the two
specifications of the pool.

`JournalProofs` also proves that no two entries have the same clock (`ClocksIdentify`,
property `ClocksAreKeys`). A new entry counts one event more of its author than any
stored clock does, by `AuthorAhead` and `ClockCoversEntries`.

**The lists** (`EntryListsProofs`). Listing a finite set by a strict total order gives
every element once and in order (`InOrderLists`), and `KeyOrder` and `LineOrder` are
such orders where clocks, and an author's times, differ.

**The ledger** (`LedgerProofs`), for every pool under any delivery. The first three
assume that users edit only what their journal has (`SeenSpec`), which the program does
not enforce: an edit of an entry that its author has not received has the row if it is
listed before the original, since an original never replaces, but if listed behind it
must win against the original by its clock or its id.

* `LedgersHaveWinners`: where at most two journals edit any one entry, every row of
  the ledger holds the entry that wins over all others for that row, as the code compares
  them (the later one, else the larger id), and there is a row for each entry that was
  added or altered;
* `LastEditsWin`: so no entry for a row is later than the one left in it;
* `LedgersAgree`: there the ledger is the same by either store's list;
* `LedgersBalance`: the balance is the sum of the rows, with any number of editors.

The argument. `Wins` is antisymmetric, and among the entries of two authors it is
transitive (`WinsTransitive`), because of three entries two have one author, and
those are ordered by their times: this is where three authors have cycles, and where
run `ledger_three` fails. The row of an entry that was added is its own clock, so
the winner of a row that also has an original is one of the edits, which are later
(`AltersThePast`, from the history a journal keeps). One pass of the loop keeps the
winners of what was listed so far (`ApplyKeepsWinners`), so the loop ends with the
winners of all (`LedgerHasWinners`), and those are unique (`WinnersUnique`).
`StoresListAll` shows that both stores list exactly what they store: for the files
because an entry's line is its rank among its author's entries, and the clock counts at
least as many. The loop is a recursive function, and the library's induction theorems
cannot be used; `LoopRuns` and `LedgerHasWinners` take the least count for which the
claim fails, which exists because `<` on the naturals is well founded (`LeastBad`).

For the balance the claim is stronger than the property and is about any list
(`BalanceOfRows`), with entries that alter what is missing or come twice: after each
pass the balance is the sum of the rows so far. A pass adds a row, changes one or
leaves all, and a sum over a finite set changes by the difference of the one summand;
`Apply` adds the new value and takes out that of the row that was replaced.

**The files** (`FileProofs`), for any number of services, files of any length and
clocks of any number of ids, from the assumptions that ids are not 0 and that a clock
can count to 1:

* `EntryReadBack`: `Entry::Read` gives back what `operator<<` wrote, wherever it
  stands, and stops behind it; `ClockReadBack` says so of a clock, and `CutClockFails`
  that a clock with anything of its end missing is not read at all;
* `LinesMean`: of a line with the version of a recorded entry, whole or cut off anywhere,
  `Command::Read` makes an append that alters nothing or a recorded entry, or no append;
* `EntriesListed`: under `StaySpec`, whatever order entries arrive in, `entries()` lists
  every entry that was saved;
* `EntriesFound`: `entry()` finds none but the entry with the clock it is given, and finds
  that one if no file that it looks into has gaps (`Gapless`); that it finds every entry is
  false: `file_gap`;
* `AltersEntries`: an entry alters nothing or a recorded one;
* `FilesImplementPool`: the services implement `Journal!Spec`, with what the files
  hold, read back, as the entries.

The argument. Reading back a clock needs no induction over its pairs: the pair of the
`k`-th id stands at six times `k`, a comma is behind all but the last, so `Turns` has
one element, the number of ids (`TurnsOfClock`). A file is kept in order
(`FileOf(text, count, es, ends)`) if it is the texts of the entries `es[1]` to
`es[count]`, each with a line feed behind it at `ends[k]`. No entry's text has a line feed
(`EntryInk`), so the lines are the entries (`FeedsAreEnds`):
line `k` starts behind `ends[k - 1]` (`LinesStart`), the loop of `entries()` is after `k` turns
at the start of line `k + 1` with the first `k` entries (`LinesRead`, by the least count for
which that fails), and a save makes it such a file with one more line (`SavedLine`).

The inductive invariant is `ServicesOK`. Its first part, `FilesOK`, says that the
file of author `i` at journal `n` is in order and has at most as many lines as the clock
of `n` counts events of `i`; that a line's number is at most the time of its entry; and
that behind the line with time `t` there are at most as many lines as there are counts
after `t` (`Keeps`). So number and time are equal if there are as many lines as counts.
Insert takes an entry only if it is the next one of its author, which is later than all
that is counted; the merge of a foreign clock only raises counts, which `Keeps` allows. (After a restart `Keeps` is false, and so is
`AllListed`: `file_restart`.)
The second part, `PoolInv`, is the inductive invariant of `JournalProofs` for the entries
that the files hold. The two are proved together: that a
save without a look for the clock, as `JournalFile::save` is, agrees with `Saves` of
`Journal` follows from the pool's invariant, and the step of the pool from what the
files hold. `EntriesFound` needs both: `entry()` tries the files of all ids in the clock
it looks for, each at the line of that component, and gives up at the first that is too
short. Without gaps none is too short: the journal's clock counts what the entry's clock
does, and the files have as many lines as the journal's clock counts. And no file but
that of the author has an entry with the same clock, since clocks are keys, so that
nothing else is found, with gaps or without. `AltersAnEntry` is the third part.

**The brokers** (`BrokerCallsProofs`, `BrokerProofs`), for any brokers, hubs, twins,
threads and connections, with users who give any commands and remote calls that fail
or break at any point:

* `BrokersImplementPool`: every step maps to a step of `Journal!Spec` or changes
  nothing there, so what `JournalProofs` proves holds of the brokers' journals;
  `BrokersUniqueTransactions` is one such consequence;
* `CallsInOrder`: the inductive invariant `InFlightOK` of module `BrokerCalls`;
* `BrokersInventNothing`: no clock of a port, and no version in a routing table, counts
  an event that its author has not recorded.

The implementation needs that an entry which `JournalBase::insert` takes is one that a
user's journal stores, or a new one of this journal. Such an entry was on its way
through lists, frames, requests and answers, and each of them must be shown to carry
stored entries only (`FrameOK`, `RequestOK`, `ValueOK`). That the frame to which a value
is returned finds a list or a connection there needs that only a fitting call runs for
it (`Answers`), also after `RpcBreak` has cut a stack in two. And `JournalBase::insert`
saves before `Broker::insert` looks at the source: if that were no port of the broker,
an entry would be stored that the clock does not count. So the invariant has the
pairing of ports (`Paired`, `HasPort`, `LeadsTo`): a connection holds the number of a
port that its peer has, and that port leads to what stands for its owner there (the owner,
or in another process the owner's own twin) or has been closed; or it holds 0, which it has
where a connect was not answered or refused, or where the peer has left. With 0 the peer takes an insert for one that came through none of its ports.
`InFlightOK` and the pool's invariant (`PoolInv`) are proved together
(`InFlightAndPool`): a list is complete and in order because clocks are keys, and a
message gives back what went in because entries have their type, both of which are
facts about the pool; and the pool's step needs `InFlightOK`.

These theorems have the hypothesis `[]WellRouted`: a broker that takes a relay for its
own is the journal that the relay names. The code does not guarantee that, and without
it the conclusions are false: this is what `services_forged` shows, where `hub.cpp:101`
leaves a route of distance 0. `WellRouted` is checked by `broker_pool`, where brokers
are connected before the second entry. `OwnRelaysWellRouted` proves it for every
behaviour in which users, and clients, give relays only to the journal they are for
(`RelaysToSelf`): by the id 0, as every `add` of a client does, or by its own id. Such a
relay ends where it arrives, since a journal is in its own table with the distance 0;
the invariant is that no relay on its way, in a call or in a message, is for anyone but
the journal it is at or goes to (`RelaysAtHome`). So `OwnRelaysImplementPool` and
`OwnRelaysInventNothing` have no condition on routes: with adds, connects, disconnects
and calls that fail in any order, the brokers implement the pool, and their clocks and
tables do not run ahead of it. What is left to the hypothesis is a relay by name to a
distant journal.

`BrokersInventNothing` follows a clock along its whole way: `Broker::connect` and
`refresh` read it from a port, merge it into a table, announce it by a call or by a
message, the peer stores it, and the answer of an insert overwrites it. Each of these
copies may be old when it is used, and the property holds all the same because a count
that was right stays right: no author forgets an event, which is `StepGrows` of
`JournalProofs`. The inductive invariant is `ClocksRecorded` of `BrokerCalls`: the
clocks and tables of the ports, those in the frames, requests and answers of every
thread are recorded, where a clock that was answered may also be a refusal, and a call
that waits for a clock has called only what returns one (`Tells`). It holds together
with `InFlightOK` and `PoolInv`: entries carry recorded clocks because the pool's do,
and a value goes to the frame that asked for it. A recorded clock has only ids of
journals, so messages give it back (`WireRecorded`, from `ClockSurvives` and
`TableSurvives`). How far behind a clock may be is another
question, which only `VersionsTrack` asks and TLC checks.

`WireProofs` proves that what the conversions of `grpc/utils` do to a clock, an entry
and a routing table is undone by their inverses (`ClockSurvives`, `EntrySurvives`,
`TableSurvives`), for all ids, times and values. The argument is that the pairs of a
map have different keys, so that `Field` finds the one that was set. These are the
messages that every remote call of `Broker` carries, and `BrokerProofs` uses
`EntrySurvives` for each insert and each answered list that crosses a process.

**Only model-checked**:

* liveness under fairness (`EveryCallReturns`), which is out of the prover's reach;
* what depends on the connections being a tree that was complete before the second
  entry: `Converged`, `RoutesExact`, `VersionsTrack`, `NoReentry`, `WellRouted`,
  `ImplementsCausalPool`. Their inductive invariants would relate every routing table
  to the paths of the graph in the middle of a flood of refreshes;
* `Broker!TypeOK`, whose part about entries and ports is in `InFlightOK`;
* `ConnectRepairs`, a property of one complete connect, over its whole nest of calls.

## 5. Not modelled, and why

* Text other than that of entries, lines and arguments: the syntax of urls beyond the
  id that a service is started with, host names, file names. getopt is taken to meet
  all flags before the command; GNU getopt also finds flags behind it, so that a
  negative amount on the command line of the program is taken for a flag.
* The id 0, which a service has when it is started without `-i`: `relay` and `valid`
  reserve it, and the models do as well.
* A service without `-d`, whose temporary directory goes when it ends: it is one on a
  new directory that is never started again.
* Two threads inside the map of `getOrCreate`, or in `push_back` on a vector of
  connections into which another one holds a reference: undefined behaviour, with no
  set of outcomes to choose from. The instances keep users from writing while a broker
  connects, and serve one connect at a time.
* A connection that closes a cycle: each broker refreshes every port but one, so
  the calls go round without end and no instance is finite.
* Loading of plug-ins, the start and stop of the server, random ids, printing.
* `contains()`, which nothing calls; it is true only for entries that alter another
  (`Data::valid`). `BrokerGrpcStub::versions`, which returns nothing.
* Files that are damaged or edited by hand: every line is one that `save` wrote.

## 6. What is left

The clocks, the abstract pool, the ledger, the messages, the brokers in one process and
over gRPC with calls that fail, the file journal, the command line and the race of the
threads of a journal are modelled; the pool, the ledger, the messages and the file journal
are proved, and that brokers and services implement the pool. Not yet done:

1. The properties of trees of brokers. Their invariant would say, in the middle of a
   flood of refreshes, which tables are already right; a first step is `NoReentry`, since
   in a tree the calls of a stack are a path.
2. Services that connect to each other, on a bounded stack of calls.
