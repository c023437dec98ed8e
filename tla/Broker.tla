------------------------------- MODULE Broker -------------------------------
(***************************************************************************)
(* Brokers and the synchronous calls between them: Broker                  *)
(* (cashmere/src/hub.cpp), Connection and BrokerBase (brokerbase.cpp) and  *)
(* JournalBase (journalbase.cpp) with the stores of cashmere/plugins.      *)
(*                                                                         *)
(* A call blocks its caller until it returns, and on its way it calls      *)
(* further brokers.  Each thread has one stack of such calls, which may    *)
(* span all the brokers; its first frame is the one that runs.  A step is  *)
(* the code of one broker between two calls.  With one thread the users'   *)
(* commands take turns; with more they interleave, as the threads of the   *)
(* command line and of the servers do (the finer races, inside one step,   *)
(* are in module SharedJournal).                                           *)
(*                                                                         *)
(* Brokers of one process find each other in one store; brokers of         *)
(* different processes call each other over gRPC: BrokerGrpcStub           *)
(* (grpc/plugins) sends a message of module Wire, which GrpcRunner         *)
(* (grpc/runner) turns into a call, and either way a message may be lost.  *)
(* The runner looks up the url of a broker that connects in the store of   *)
(* its own process, which creates a broker for it: a journal of that id on *)
(* this side, its twin.                                                    *)
(***************************************************************************)
EXTENDS Wire, EntryLists

CONSTANTS
  Brokers,       \* ids of the brokers
  Journals,      \* the brokers that store entries; the others are hubs
  Twins,         \* the journals that a store made for a broker of another process
  IdOf,          \* IdOf[n]: BrokerBase::id()
  Process,       \* Process[n]: the process that n lives in
  FileJournals,  \* the journals that use plugins/src/file.cpp; the others, cache.cpp
  Threads,       \* the threads that serve commands
  Amount,        \* values an entry can carry
  MaxTime,       \* largest value of a clock component
  MaxPorts       \* largest number of ports of a broker

ASSUME BrokersAssumption == Brokers \subseteq Nat \ {0} /\ Journals \subseteq Brokers
ASSUME FileJournalsAssumption == FileJournals \subseteq Journals
ASSUME ProcessAssumption ==
  /\ Twins \subseteq Journals
  /\ DOMAIN IdOf = Brokers /\ DOMAIN Process = Brokers
  /\ \A n \in Brokers \ Twins : IdOf[n] = n
ASSUME TwinsAssumption ==
  \A n, m \in Brokers \ Twins :
    Process[n] # Process[m] => \E b \in Twins : Process[b] = Process[m] /\ IdOf[b] = IdOf[n]
ASSUME MaxTimeAssumption == MaxTime \in Nat

VARIABLES
  conns,    \* conns[n]: Broker::_connections; port p is at index p + 1
  entries,  \* entries[n]: what the journal's save() stored
  stack,    \* stack[t]: the calls that thread t is in, the innermost first
  ret       \* ret[t]: what the last call of t that ended returned

vars == <<conns, entries, stack, ret>>

\* An expired or reset Connection::_broker.
NoPeer == 0

NoProvides == [i \in {} |-> 0]

\* Connection().
NoConnection == [peer |-> NoPeer, source |-> 0, clock |-> EmptyClock, provides |-> NoProvides]

\* The brokers and the journals that users started.
Started == Brokers \ Twins

Owned == Journals \ Twins

Conn(n, p) == conns[n][p + 1]

\* Connection::valid.
Live(n, p) == Conn(n, p).peer # NoPeer

\* Whether a call from n to m goes through BrokerGrpcStub and GrpcRunner.
Remote(n, m) == m # NoPeer /\ Process[n] # Process[m]

\* BrokerStore::getOrCreate in the given process with the url of n: n itself in
\* its own process, in another one a journal that was made for that url.  (Its store
\* is its own: the directory of the url is one of another host.  Module OneHost is
\* about services of one host.)
GetOrCreate(process, n) ==
  IF Process[n] = process
    THEN n
    ELSE CHOOSE b \in Twins : Process[b] = process /\ IdOf[b] = IdOf[n]

\* Broker::clock.
ClockOf(n) == Conn(n, 0).clock

-----------------------------------------------------------------------------
(***************************************************************************)
(* Routing tables.  provides maps the id of a journal to its distance and  *)
(* to the version it is known to have.                                     *)
(***************************************************************************)

\* Broker::sources and JournalBase::sources: the tables by port.
Sources(n, sender) ==
  [p \in {q \in 1..Len(conns[n]) - 1 :
            q # sender /\ Live(n, q) /\ Conn(n, q).provides # NoProvides}
         \cup (IF n \in Journals THEN {0} ELSE {}) |->
     IF p = 0 THEN [i \in {IdOf[n]} |-> [distance |-> 0, clock |-> ClockOf(n)]] ELSE Conn(n, p).provides]

\* A slip in UpdateProvides: the hop is not counted.
UpdateProvidesSameHop(sources) ==
  LET ids == UNION {DOMAIN sources[p] : p \in DOMAIN sources}
      port(i) == CHOOSE p \in DOMAIN sources :
                   i \in DOMAIN sources[p] /\ \A q \in DOMAIN sources : i \in DOMAIN sources[q] => p <= q
  IN  [i \in ids |-> sources[port(i)][i]]

\* UpdateProvides: one hop further; std::map::merge keeps the entry of the
\* smallest port.
UpdateProvides(sources) ==
  LET ids == UNION {DOMAIN sources[p] : p \in DOMAIN sources}
      port(i) == CHOOSE p \in DOMAIN sources :
                   i \in DOMAIN sources[p] /\ \A q \in DOMAIN sources : i \in DOMAIN sources[q] => p <= q
  IN  [i \in ids |-> [distance |-> sources[port(i)][i].distance + 1, clock |-> sources[port(i)][i].clock]]

\* The Connection that connect and refreshConnections send about port p.
Announcement(n, p) ==
  [peer |-> n, source |-> p, clock |-> ClockOf(n), provides |-> UpdateProvides(Sources(n, p))]

\* Each known version of the table raised by the clock c.
Raised(provides, c) ==
  [i \in DOMAIN provides |-> [provides[i] EXCEPT !.clock = Merge(@, c)]]

\* A slip in Broker::insert: the version of the author is not noted.
SetVersionNot(provides, id, c) == provides

\* provides()[id].clock = c, which creates a missing entry with distance 0.
SetVersion(provides, id, c) ==
  [i \in DOMAIN provides \cup {id} |->
     CASE i # id -> provides[i]
       [] i = id /\ i \in DOMAIN provides -> [provides[i] EXCEPT !.clock = c]
       [] OTHER -> [distance |-> 0, clock |-> c]]

\* Broker::versions.
Versions(n) ==
  LET ids == UNION {DOMAIN Conn(n, p).provides : p \in 0..Len(conns[n]) - 1}
      known(i) == {Conn(n, p).provides[i].clock :
                     p \in {q \in 0..Len(conns[n]) - 1 : i \in DOMAIN Conn(n, q).provides}}
  IN  [i \in ids |-> [j \in UNION {DOMAIN c : c \in known(i)} |->
                        CHOOSE t \in {At(c, j) : c \in known(i)} : \A c \in known(i) : At(c, j) <= t]]

-----------------------------------------------------------------------------
(***************************************************************************)
(* Calls.                                                                  *)
(***************************************************************************)
\* A thread that calls through a connection which another one has reset follows a
\* null pointer: it gets no further.
Running(t, op) ==
  stack[t] # <<>> /\ Head(stack[t]).op = op /\ (op # "rpc" => Head(stack[t]).node # NoPeer)

Frame(t) == Head(stack[t])

Done == [done |-> TRUE]

\* The running call goes on as f (a later point of it, or a call of its own broker
\* that is the last thing it does).
Goto(t, f) == stack' = [stack EXCEPT ![t] = <<f>> \o Tail(@)]

\* The running call goes on as f once the call g has returned.
Call(t, f, g) == stack' = [stack EXCEPT ![t] = <<g, f>> \o Tail(@)]

\* The running call ends; what a command returns is only shown to its user.
Return(t, value) ==
  /\ stack' = [stack EXCEPT ![t] = Tail(@)]
  /\ ret' = [ret EXCEPT ![t] = IF Len(stack[t]) = 1 THEN Done ELSE value]

(***************************************************************************)
(* What a call of a broker is given.                                       *)
(***************************************************************************)
InsertCall(n, e, source) ==
  [op |-> "insert", node |-> n, entry |-> e, source |-> source, pc |-> "enter", port |-> 0]

AppendCall(n, data) == [op |-> "append", node |-> n, data |-> data]

RefreshCall(n, data, sender) ==
  [op |-> "refresh", node |-> n, data |-> data, sender |-> sender]

RefreshConnectionsCall(n, ignore) ==
  [op |-> "refreshConnections", node |-> n, ignore |-> ignore, port |-> 1]

\* Broker::connect asks with a Connection of source 0 and is asked with another.
ConnectCall(n, m) ==
  [op |-> "connect", node |-> n, to |-> m, port |-> 0, pc |-> "enter", mine |-> <<>>]

AcceptCall(n, data) ==
  [op |-> "accept", node |-> n, data |-> data, pc |-> "enter", port |-> 0]

QueryCall(n, from, sender) ==
  [op |-> "query", node |-> n, from |-> from, sender |-> sender, pc |-> "enter"]

RelayCall(n, data, sender) ==
  [op |-> "relay", node |-> n, data |-> data, sender |-> sender, pc |-> "enter"]

(***************************************************************************)
(* The calls of a connection of n to m.  In another process m is           *)
(* represented by a BrokerGrpcStub, which sends a request.                 *)
(***************************************************************************)
Stub(n, m, rpc, request) ==
  [op |-> "rpc", node |-> n, to |-> m, rpc |-> rpc, request |-> request, pc |-> "send"]

\* Connection::insert(Entry).
Insert(n, m, e, sender) ==
  IF Remote(n, m)
    THEN Stub(n, m, "Insert", [sender |-> sender, entry |-> SetEntry(e)])
    ELSE InsertCall(m, e, sender)

\* Connection::insert(EntryList): BrokerBase::insert(EntryList) of m or of the
\* stub, which runs where n is.
InsertList(n, m, list, sender) ==
  [op |-> "insertList", node |-> IF Remote(n, m) THEN n ELSE m, to |-> m, list |-> list,
   sender |-> sender]

\* Connection::query.
Query(n, m, from, sender) ==
  IF Remote(n, m)
    THEN Stub(n, m, "Query", [sender |-> sender, clock |-> SetClock(from)])
    ELSE QueryCall(m, from, sender)

\* Connection::connect.
Connect(n, m, conn) ==
  IF Remote(n, m)
    THEN Stub(n, m, "Connect",
              [source |-> conn.source, clock |-> SetClock(conn.clock), broker |-> conn.peer,
               sources |-> SetIdConnectionInfoMap(conn.provides)])
    ELSE AcceptCall(m, conn)

\* Connection::refresh; the announcement does not say who sends it.
Refresh(n, m, conn, sender) ==
  IF Remote(n, m)
    THEN Stub(n, m, "Refresh",
              [sender |-> sender, source |-> conn.source, clock |-> SetClock(conn.clock),
               sources |-> SetIdConnectionInfoMap(conn.provides)])
    ELSE RefreshCall(m, conn, sender)

\* Connection::relay.
Relay(n, m, data, sender) ==
  IF Remote(n, m)
    THEN Stub(n, m, "Relay", [sender |-> sender, entry |-> SetData(data)])
    ELSE RelayCall(m, data, sender)

\* A slip in the loops: an expired connection is called too.
PortsFromAny(n, first, skip) == {p \in first..Len(conns[n]) - 1 : p # skip}

\* The ports that a loop of n has still to visit, from the given one on.
PortsFrom(n, first, skip) ==
  {p \in first..Len(conns[n]) - 1 : p # skip /\ Live(n, p)}

First(ports) == CHOOSE p \in ports : \A q \in ports : p <= q

-----------------------------------------------------------------------------
(***************************************************************************)
(* insert                                                                  *)
(***************************************************************************)

\* Journal::save refuses a clock it holds; JournalFile::save appends always.
Saves(n, e) == n \in FileJournals \/ \A f \in entries[n] : f.clock # e.clock

\* A slip in JournalBase::insert: isNext is not asked.
AcceptsAny(n, e) == n \in Journals => Saves(n, e)

Accepts(n, e) == n \in Journals => IsNext(e.clock, ClockOf(n), e.id) /\ Saves(n, e)

\* The ports of a broker with the clock c, which the entry of id that came through
\* port source left it.
Advanced(ports, source, id, c) ==
  LET own == [ports EXCEPT ![1].clock = c]
  IN  [own EXCEPT ![source + 1].provides = SetVersion(@, id, c)]

\* JournalBase::insert and Broker::insert up to the first call.  A journal saves
\* before Broker::insert looks at the source.
InsertLocally(t, n, e, source) ==
  LET merged == Merge(ClockOf(n), e.clock)
  IN  \/ /\ ~Accepts(n, e)
         /\ Return(t, [clock |-> InvalidClock])
         /\ UNCHANGED <<conns, entries>>
      \/ /\ Accepts(n, e)
         /\ entries' = IF n \in Journals THEN [entries EXCEPT ![n] = @ \cup {e}] ELSE entries
         /\ IF source >= Len(conns[n])
              THEN Return(t, [clock |-> InvalidClock]) /\ UNCHANGED conns
              ELSE /\ conns' = [conns EXCEPT ![n] = Advanced(@, source, e.id, merged)]
                   /\ Goto(t, [InsertCall(n, e, source) EXCEPT !.pc = "loop"])
                   /\ UNCHANGED ret

InsertEnter(t) ==
  /\ Running(t, "insert") /\ Frame(t).pc = "enter"
  /\ InsertLocally(t, Frame(t).node, Frame(t).entry, Frame(t).source)

\* A slip in append and relay: the clock holds only the author's own count.
StampAlone(n, data) ==
  [clock |-> [i \in {data.id} |-> At(ClockOf(n), data.id) + 1],
   id |-> data.id, value |-> data.value, alters |-> data.alters]

\* The entry that data becomes at n, next in the count of data's id.
Stamp(n, data) ==
  [clock |-> Tick(ClockOf(n), data.id), id |-> data.id, value |-> data.value, alters |-> data.alters]

\* BrokerBase::append(Data).
AppendEnter(t) ==
  /\ Running(t, "append")
  /\ At(ClockOf(Frame(t).node), Frame(t).data.id) < MaxTime
  /\ InsertLocally(t, Frame(t).node, Stamp(Frame(t).node, Frame(t).data), 0)

\* A slip in Broker::insert: the port the entry came from is not skipped.
InsertForwardBack(t) ==
  LET n == Frame(t).node
      ports == PortsFrom(n, Frame(t).port, 0)
      p == First(ports)
  IN  /\ Running(t, "insert") /\ Frame(t).pc = "loop"
      /\ ports # {}
      /\ Call(t, [Frame(t) EXCEPT !.pc = "await", !.port = p],
                 Insert(n, Conn(n, p).peer, Frame(t).entry, Conn(n, p).source))
      /\ UNCHANGED <<conns, entries, ret>>

\* A slip in Broker::insert: the peer is told the port that the entry leaves by, not
\* the one it comes in by.
InsertForwardOwnPort(t) ==
  LET n == Frame(t).node
      ports == PortsFrom(n, Frame(t).port, Frame(t).source)
      p == First(ports)
  IN  /\ Running(t, "insert") /\ Frame(t).pc = "loop"
      /\ ports # {}
      /\ Call(t, [Frame(t) EXCEPT !.pc = "await", !.port = p],
                 Insert(n, Conn(n, p).peer, Frame(t).entry, p))
      /\ UNCHANGED <<conns, entries, ret>>

\* Broker::insert passes the entry on, port by port, except to where it came from.
InsertForward(t) ==
  LET n == Frame(t).node
      ports == PortsFrom(n, Frame(t).port, Frame(t).source)
      p == First(ports)
  IN  /\ Running(t, "insert") /\ Frame(t).pc = "loop"
      /\ ports # {}
      /\ Call(t, [Frame(t) EXCEPT !.pc = "await", !.port = p],
                 Insert(n, Conn(n, p).peer, Frame(t).entry, Conn(n, p).source))
      /\ UNCHANGED <<conns, entries, ret>>

\* A slip in Broker::insert: the loop ends with the first connection.
InsertForwardedOnce(t) ==
  LET n == Frame(t).node
      p == Frame(t).port
  IN  /\ Running(t, "insert") /\ Frame(t).pc = "await"
      /\ UNCHANGED conns
      /\ Goto(t, [Frame(t) EXCEPT !.pc = "loop", !.port = Len(conns[n])])
      /\ UNCHANGED <<entries, ret>>

\* A slip in Broker::insert: an entry that is refused is sent again.
InsertForwardedRetries(t) ==
  LET n == Frame(t).node
      p == Frame(t).port
  IN  /\ Running(t, "insert") /\ Frame(t).pc = "await"
      /\ UNCHANGED conns
      /\ Goto(t, [Frame(t) EXCEPT !.pc = "loop", !.port = IF Valid(ret[t].clock) THEN p + 1 ELSE p])
      /\ UNCHANGED <<entries, ret>>

\* A slip in Connection::insert: the clock of a refusal is noted too.
InsertForwardedUnchecked(t) ==
  LET n == Frame(t).node
      p == Frame(t).port
  IN  /\ Running(t, "insert") /\ Frame(t).pc = "await"
      /\ conns' = [conns EXCEPT ![n][p + 1].provides = Raised(@, Frame(t).entry.clock),
                                ![n][p + 1].clock = ret[t].clock]
      /\ Goto(t, [Frame(t) EXCEPT !.pc = "loop", !.port = p + 1])
      /\ UNCHANGED <<entries, ret>>

\* Connection::insert notes what the peer now has, unless the peer refused.
InsertForwarded(t) ==
  LET n == Frame(t).node
      p == Frame(t).port
  IN  /\ Running(t, "insert") /\ Frame(t).pc = "await"
      /\ conns' = IF Valid(ret[t].clock)
                    THEN [conns EXCEPT ![n][p + 1].provides = Raised(@, Frame(t).entry.clock),
                                       ![n][p + 1].clock = ret[t].clock]
                    ELSE conns
      /\ Goto(t, [Frame(t) EXCEPT !.pc = "loop", !.port = p + 1])
      /\ UNCHANGED <<entries, ret>>

InsertReturn(t) ==
  /\ Running(t, "insert") /\ Frame(t).pc = "loop"
  /\ PortsFrom(Frame(t).node, Frame(t).port, Frame(t).source) = {}
  /\ Return(t, [clock |-> ClockOf(Frame(t).node)])
  /\ UNCHANGED <<conns, entries>>

\* BrokerBase::insert(EntryList): one by one, whatever becomes of each.
InsertListNext(t) ==
  /\ Running(t, "insertList") /\ Frame(t).list # <<>>
  /\ Call(t, [Frame(t) EXCEPT !.list = Tail(@)],
             Insert(Frame(t).node, Frame(t).to, Head(Frame(t).list), Frame(t).sender))
  /\ UNCHANGED <<conns, entries, ret>>

\* Its result is clock(), for which a stub asks the peer.
InsertListReturn(t) ==
  LET n == Frame(t).node
      m == Frame(t).to
  IN  /\ Running(t, "insertList") /\ Frame(t).list = <<>>
      /\ IF Remote(n, m)
           THEN Goto(t, Stub(n, m, "GetClock", [empty |-> TRUE])) /\ UNCHANGED ret
           ELSE Return(t, [clock |-> ClockOf(n)])
      /\ UNCHANGED <<conns, entries>>

-----------------------------------------------------------------------------
(***************************************************************************)
(* refresh and refreshConnections                                          *)
(***************************************************************************)
RefreshUnknown(t) ==
  /\ Running(t, "refresh")
  /\ Frame(t).sender = 0 \/ Frame(t).sender >= Len(conns[Frame(t).node])
  /\ Return(t, [done |-> FALSE])
  /\ UNCHANGED <<conns, entries>>

\* The peer behind port sender is known by what it announces, and everyone
\* else is told.
RefreshEnter(t) ==
  LET n == Frame(t).node
      p == Frame(t).sender
      data == Frame(t).data
  IN  /\ Running(t, "refresh")
      /\ p \in 1..Len(conns[n]) - 1
      /\ conns' = [conns EXCEPT ![n][p + 1].source = data.source,
                                ![n][p + 1].clock = data.clock,
                                ![n][p + 1].provides = data.provides]
      /\ Goto(t, RefreshConnectionsCall(n, p))
      /\ UNCHANGED <<entries, ret>>

RefreshNext(t) ==
  LET n == Frame(t).node
      ports == PortsFrom(n, Frame(t).port, Frame(t).ignore)
      p == First(ports)
  IN  /\ Running(t, "refreshConnections")
      /\ ports # {}
      /\ Call(t, [Frame(t) EXCEPT !.port = p + 1],
                 Refresh(n, Conn(n, p).peer, Announcement(n, p), Conn(n, p).source))
      /\ UNCHANGED <<conns, entries, ret>>

RefreshReturn(t) ==
  /\ Running(t, "refreshConnections")
  /\ PortsFrom(Frame(t).node, Frame(t).port, Frame(t).ignore) = {}
  /\ Return(t, Done)
  /\ UNCHANGED <<conns, entries>>

-----------------------------------------------------------------------------
(***************************************************************************)
(* query                                                                   *)
(***************************************************************************)

\* What entries() of the store lists, and of that, in the store's order, the
\* entries of S.
Listed(n) == IF n \in FileJournals THEN Readable(entries[n], ClockOf(n)) ELSE entries[n]

Listing(n, S) == InOrder(S, IF n \in FileJournals THEN LineOrder(S) ELSE KeyOrder(S))

\* A slip in JournalBase::query: what is concurrent with the asker's clock is left out.
QueryJournalLater(t) ==
  LET n == Frame(t).node
      unseen == {e \in Listed(n) : SmallerThan(Frame(t).from, e.clock)}
  IN  /\ Running(t, "query") /\ Frame(t).pc = "enter" /\ n \in Journals
      /\ Return(t, [list |-> Listing(n, unseen)])
      /\ UNCHANGED <<conns, entries>>

\* JournalBase::query: what the asker has not seen.
QueryJournal(t) ==
  LET n == Frame(t).node
      from == Frame(t).from
      unseen == {e \in Listed(n) : Concurrent(e.clock, from) \/ SmallerThan(from, e.clock)}
  IN  /\ Running(t, "query") /\ Frame(t).pc = "enter" /\ n \in Journals
      /\ Return(t, [list |-> Listing(n, unseen)])
      /\ UNCHANGED <<conns, entries>>

Answerers(n, sender) ==
  {p \in PortsFrom(n, 1, sender) : Conn(n, p).provides # NoProvides}

\* Broker::query: the first port that leads to a journal answers for the hub.
QueryHub(t) ==
  LET n == Frame(t).node
      ports == Answerers(n, Frame(t).sender)
      p == First(ports)
  IN  /\ Running(t, "query") /\ Frame(t).pc = "enter" /\ n \notin Journals /\ ports # {}
      /\ Call(t, [Frame(t) EXCEPT !.pc = "await"], Query(n, Conn(n, p).peer, Frame(t).from, Conn(n, p).source))
      /\ UNCHANGED <<conns, entries, ret>>

QueryReturn(t) ==
  /\ Running(t, "query") /\ Frame(t).pc = "await"
  /\ Return(t, ret[t])
  /\ UNCHANGED <<conns, entries>>

QueryNothing(t) ==
  /\ Running(t, "query") /\ Frame(t).pc = "enter" /\ Frame(t).node \notin Journals
  /\ Answerers(Frame(t).node, Frame(t).sender) = {}
  /\ Return(t, [list |-> <<>>])
  /\ UNCHANGED <<conns, entries>>

-----------------------------------------------------------------------------
(***************************************************************************)
(* connect, from the side that is asked (conn.source() # 0)                *)
(***************************************************************************)
\* A slip in Broker::connect: the asked broker does not tell its other peers.
AcceptQuietly(t) ==
  LET n == Frame(t).node
      data == Frame(t).data
      q == Len(conns[n])
  IN  /\ Running(t, "accept") /\ Frame(t).pc = "enter"
      /\ conns' = [conns EXCEPT ![n] = Append(@, [data EXCEPT !.provides = Raised(@, ClockOf(n))])]
      /\ Goto(t, [Frame(t) EXCEPT !.pc = "refreshed", !.port = q, !.data.clock = ClockOf(n)])
      /\ UNCHANGED <<entries, ret>>

AcceptEnter(t) ==
  LET n == Frame(t).node
      data == Frame(t).data
      q == Len(conns[n])
  IN  /\ Running(t, "accept") /\ Frame(t).pc = "enter"
      /\ conns' = [conns EXCEPT ![n] = Append(@, [data EXCEPT !.provides = Raised(@, ClockOf(n))])]
      \* the clock of the answer is read here, before the refresh
      /\ Call(t, [Frame(t) EXCEPT !.pc = "refreshed", !.port = q, !.data.clock = ClockOf(n)],
                 RefreshConnectionsCall(n, q))
      /\ UNCHANGED <<entries, ret>>

AcceptReturn(t) ==
  LET n == Frame(t).node
      q == Frame(t).port
  IN  /\ Running(t, "accept") /\ Frame(t).pc = "refreshed"
      /\ Return(t, [conn |-> [Announcement(n, q) EXCEPT !.clock = Frame(t).data.clock]])
      /\ UNCHANGED <<conns, entries>>

(***************************************************************************)
(* connect, from the side that asks (conn.source() = 0)                    *)
(***************************************************************************)

ConnectEnter(t) ==
  LET n == Frame(t).node
      m == Frame(t).to
      p == Len(conns[n])
  IN  /\ Running(t, "connect") /\ Frame(t).pc = "enter"
      /\ conns' = [conns EXCEPT ![n] = Append(@, [NoConnection EXCEPT !.peer = m])]
      /\ Call(t, [Frame(t) EXCEPT !.pc = "answered", !.port = p], Connect(n, m, Announcement(n, p)))
      /\ UNCHANGED <<entries, ret>>

\* Connection::connect takes over the answer; Broker::connect asks itself first
\* for what the peer lacks
ConnectAnswered(t) ==
  LET n == Frame(t).node
      p == Frame(t).port
      answer == ret[t].conn
  IN  /\ Running(t, "connect") /\ Frame(t).pc = "answered"
      /\ conns' = [conns EXCEPT ![n][p + 1].source = answer.source,
                                ![n][p + 1].clock = answer.clock,
                                ![n][p + 1].provides = answer.provides]
      /\ Call(t, [Frame(t) EXCEPT !.pc = "mine"], QueryCall(n, answer.clock, p))
      /\ UNCHANGED <<entries, ret>>

\* and then the peer for what it lacks itself;
ConnectMine(t) ==
  LET n == Frame(t).node
      p == Frame(t).port
  IN  /\ Running(t, "connect") /\ Frame(t).pc = "mine"
      /\ Call(t, [Frame(t) EXCEPT !.pc = "theirs", !.mine = ret[t].list],
                 Query(n, Conn(n, p).peer, ClockOf(n), Conn(n, p).source))
      /\ UNCHANGED <<conns, entries, ret>>

\* it inserts the peer's entries
ConnectTheirs(t) ==
  LET f == [Frame(t) EXCEPT !.pc = "inserted"]
  IN  /\ Running(t, "connect") /\ Frame(t).pc = "theirs"
      /\ IF ret[t].list = <<>> THEN Goto(t, f)
                          ELSE Call(t, f, InsertList(f.node, f.node, ret[t].list, f.port))
      /\ UNCHANGED <<conns, entries, ret>>

\* and sends its own.
ConnectInserted(t) ==
  LET n == Frame(t).node
      p == Frame(t).port
  IN  /\ Running(t, "connect") /\ Frame(t).pc = "inserted"
      /\ IF Frame(t).mine = <<>>
           THEN Call(t, [Frame(t) EXCEPT !.pc = "refreshed"], RefreshConnectionsCall(n, p))
           ELSE Call(t, [Frame(t) EXCEPT !.pc = "sent"],
                        InsertList(n, Conn(n, p).peer, Frame(t).mine, Conn(n, p).source))
      /\ UNCHANGED <<conns, entries, ret>>

\* Connection::insert(EntryList) notes the peer's clock.
ConnectSent(t) ==
  LET n == Frame(t).node
      p == Frame(t).port
  IN  /\ Running(t, "connect") /\ Frame(t).pc = "sent"
      /\ conns' = IF Valid(ret[t].clock)
                    THEN [conns EXCEPT ![n][p + 1].provides = Raised(@, ret[t].clock)]
                    ELSE conns
      /\ Call(t, [Frame(t) EXCEPT !.pc = "refreshed"], RefreshConnectionsCall(n, p))
      /\ UNCHANGED <<entries, ret>>

ConnectReturn(t) ==
  /\ Running(t, "connect") /\ Frame(t).pc = "refreshed"
  /\ Return(t, [conn |-> [NoConnection EXCEPT !.peer = Frame(t).node, !.source = Frame(t).port]])
  /\ UNCHANGED <<conns, entries>>

-----------------------------------------------------------------------------
(***************************************************************************)
(* disconnect and relay                                                    *)
(***************************************************************************)
DisconnectReset(t) ==
  LET n == Frame(t).node
      p == Frame(t).port
  IN  /\ Running(t, "disconnect")
      /\ conns' = [conns EXCEPT ![n][p + 1].peer = NoPeer]
      /\ Goto(t, RefreshConnectionsCall(n, p))
      /\ UNCHANGED <<entries, ret>>

\* The ports of a relay's tables that lead to the id, and their distances.
Routes(n, id, sender) ==
  LET sources == Sources(n, 0)
  IN  {[port |-> p, distance |-> sources[p][id].distance] :
         p \in {q \in DOMAIN sources : ~(sender > 0 /\ q = sender) /\ id \in DOMAIN sources[q]}}

\* JournalBase::relay: the id 0 stands for the journal that is asked.
RelayId(n, id) == IF id = 0 /\ n \in Journals THEN IdOf[n] ELSE id

Relayed(t) == [Frame(t).data EXCEPT !.id = RelayId(Frame(t).node, @)]

RelayRoutes(t) == Routes(Frame(t).node, Relayed(t).id, Frame(t).sender)

RelayUnknown(t) ==
  /\ Running(t, "relay") /\ Frame(t).pc = "enter"
  /\ RelayRoutes(t) = {}
  /\ Return(t, [clock |-> InvalidClock])
  /\ UNCHANGED <<conns, entries>>

\* A distance of 0 says that the id is this broker's own.
RelayHere(t) ==
  /\ Running(t, "relay") /\ Frame(t).pc = "enter"
  /\ \E r \in RelayRoutes(t) : r.distance = 0
  /\ At(ClockOf(Frame(t).node), Relayed(t).id) < MaxTime
  /\ InsertLocally(t, Frame(t).node, Stamp(Frame(t).node, Relayed(t)), 0)

\* Otherwise the nearest port, the smallest of them, takes it.
RelayOn(t) ==
  LET n == Frame(t).node
  IN  /\ Running(t, "relay") /\ Frame(t).pc = "enter"
      /\ \A r \in RelayRoutes(t) : r.distance # 0
      /\ \E r \in RelayRoutes(t) :
           /\ \A s \in RelayRoutes(t) :
                r.distance < s.distance \/ (r.distance = s.distance /\ r.port <= s.port)
           /\ Call(t, [Frame(t) EXCEPT !.pc = "await"],
                      Relay(n, Conn(n, r.port).peer, Relayed(t), Conn(n, r.port).source))
      /\ UNCHANGED <<conns, entries, ret>>

RelayReturn(t) ==
  /\ Running(t, "relay") /\ Frame(t).pc = "await"
  /\ Return(t, ret[t])
  /\ UNCHANGED <<conns, entries>>

-----------------------------------------------------------------------------
(***************************************************************************)
(* Remote calls.                                                           *)
(***************************************************************************)
\* GrpcRunner::Connect takes the asking broker from the store of its process.  The
\* source 0 is a client's: the broker it names is one to connect to, and its url
\* one of a stub.
ServeConnect(m, r) ==
  IF r.source = 0
    THEN ConnectCall(m, r.broker)
    ELSE AcceptCall(m, [peer |-> GetOrCreate(Process[m], r.broker), source |-> r.source,
                        clock |-> ClockFrom(r.clock), provides |-> IdConnectionInfoMapFrom(r.sources)])

ServeQuery(m, r) == QueryCall(m, ClockFrom(r.clock), r.sender)

ServeInsert(m, r) == InsertCall(m, EntryFrom(r.entry), r.sender)

ServeRefresh(m, r) ==
  RefreshCall(m, [NoConnection EXCEPT !.source = r.source, !.clock = ClockFrom(r.clock),
                                      !.provides = IdConnectionInfoMapFrom(r.sources)], r.sender)

ServeRelay(m, r) == RelayCall(m, DataFrom(r.entry), r.sender)

\* The call that the runner of m makes for a request.
Served(m, rpc, r) ==
  CASE rpc = "Connect" -> ServeConnect(m, r)
    [] rpc = "Query" -> ServeQuery(m, r)
    [] rpc = "Insert" -> ServeInsert(m, r)
    [] rpc = "Refresh" -> ServeRefresh(m, r)
    [] rpc = "Relay" -> ServeRelay(m, r)

\* Any status but OK.
NotOk == [ok |-> FALSE]

\* The runner's answer to r once its broker has returned value.  An insert that was
\* refused is CANCELLED; else the answer is the broker's clock of that moment.
Response(m, rpc, r, value) ==
  CASE rpc = "Connect" ->
         [ok |-> TRUE, source |-> value.conn.source, clock |-> SetClock(value.conn.clock),
          sources |-> SetIdConnectionInfoMap(value.conn.provides)]
    [] rpc = "Query" -> [ok |-> TRUE, entries |-> [i \in DOMAIN value.list |-> SetEntry(value.list[i])]]
    [] rpc = "Insert" ->
         IF Valid(value.clock) THEN [ok |-> TRUE, clock |-> SetClock(ClockOf(m))] ELSE NotOk
    [] rpc = "Refresh" -> [ok |-> TRUE]
    [] rpc = "Relay" -> [ok |-> TRUE, clock |-> SetClock(value.clock)]
    [] rpc = "GetClock" -> [ok |-> TRUE, clock |-> SetClock(ClockOf(m))]
    [] rpc = "Sources" -> [ok |-> TRUE, sources |-> SetSources(Sources(m, r.sender))]

\* BrokerGrpcStub::connect leaves out the table of the answer.
ConnectResult(m, r) ==
  [conn |-> IF r.ok THEN [NoConnection EXCEPT !.peer = m, !.source = r.source, !.clock = ClockFrom(r.clock)]
                    ELSE NoConnection]

QueryResult(r) ==
  [list |-> IF r.ok THEN [i \in DOMAIN r.entries |-> EntryFrom(r.entries[i])] ELSE <<>>]

\* BrokerGrpcStub::insert answers a refusal, or a failure, with an empty clock,
\* which is a valid one.
InsertResult(r) == [clock |-> IF r.ok THEN ClockFrom(r.clock) ELSE EmptyClock]

\* BrokerGrpcStub::relay and clock.
ClockResult(r) == [clock |-> IF r.ok THEN ClockFrom(r.clock) ELSE InvalidClock]

SourcesResult(r) == [sources |-> IF r.ok THEN SourcesFrom(r.sources) ELSE NoProvides]

\* What the stub of m returns for the answer r.
Result(m, rpc, r) ==
  CASE rpc = "Connect" -> ConnectResult(m, r)
    [] rpc = "Query" -> QueryResult(r)
    [] rpc = "Insert" -> InsertResult(r)
    [] rpc = "Refresh" -> [done |-> r.ok]
    [] rpc \in {"Relay", "GetClock"} -> ClockResult(r)
    [] rpc = "Sources" -> SourcesResult(r)

\* The requests that a runner answers at once.
Reads == {"GetClock", "Sources"}

\* The request arrives.
RpcServe(t) ==
  LET f == Frame(t)
  IN  /\ Running(t, "rpc") /\ f.pc = "send" /\ f.rpc \notin Reads
      /\ Call(t, [f EXCEPT !.pc = "await"], Served(f.to, f.rpc, f.request))
      /\ UNCHANGED <<conns, entries, ret>>

\* The answer arrives.
RpcAnswer(t) ==
  LET f == Frame(t)
  IN  /\ Running(t, "rpc")
      /\ f.pc = "await" \/ f.rpc \in Reads
      /\ Return(t, Result(f.to, f.rpc, Response(f.to, f.rpc, f.request, ret[t])))
      /\ UNCHANGED <<conns, entries>>

\* The call fails: its request is lost, and nothing happens at the peer, or its
\* answer is, and all of it has happened.  There are no retries.
RpcFail(t) ==
  /\ Running(t, "rpc")
  /\ Return(t, Result(Frame(t).to, Frame(t).rpc, NotOk))
  /\ UNCHANGED <<conns, entries>>

\* The channel breaks while the peer is at it: the caller goes on at once, and the
\* peer's thread s, which t had been waiting for, finishes by itself.
RpcBreak(t, s) ==
  /\ stack[s] = <<>>
  /\ \E k \in 2..Len(stack[t]) :
       /\ stack[t][k].op = "rpc"
       /\ stack' = [stack EXCEPT ![t] = SubSeq(@, k + 1, Len(@)), ![s] = SubSeq(stack[t], 1, k - 1)]
       /\ ret' = [ret EXCEPT ![t] = Result(stack[t][k].to, stack[t][k].rpc, NotOk), ![s] = ret[t]]
  /\ UNCHANGED <<conns, entries>>

-----------------------------------------------------------------------------
(***************************************************************************)
(* Commands of the users, taken by a thread that has nothing to do.        *)
(***************************************************************************)
Start(t, call) == stack[t] = <<>> /\ stack' = [stack EXCEPT ![t] = <<call>>]

\* BrokerBase::append, replace and erase at a journal.
AppendCommand(t, n, value, alters) ==
  /\ Start(t, AppendCall(n, [id |-> IdOf[n], value |-> value, alters |-> alters]))
  /\ UNCHANGED <<conns, entries, ret>>

\* connect with the url of m.
ConnectCommand(t, n, m) ==
  /\ Len(conns[n]) <= MaxPorts /\ Len(conns[m]) <= MaxPorts
  /\ Start(t, ConnectCall(n, m))
  /\ UNCHANGED <<conns, entries, ret>>

\* Broker::disconnect: Connection::disconnect tells the peer with an empty
\* Connection and then forgets it.
DisconnectCommand(t, n, p) ==
  /\ p < Len(conns[n]) /\ Live(n, p)
  /\ stack[t] = <<>>
  /\ stack' = [stack EXCEPT ![t] =
                 <<Refresh(n, Conn(n, p).peer, NoConnection, Conn(n, p).source),
                   [op |-> "disconnect", node |-> n, port |-> p]>>]
  /\ UNCHANGED <<conns, entries, ret>>

\* relay(data, 0) at any broker, for a journal's id or 0.
RelayCommand(t, n, id, value, alters) ==
  /\ Start(t, RelayCall(n, [id |-> id, value |-> value, alters |-> alters], 0))
  /\ UNCHANGED <<conns, entries, ret>>

\* RunCommand: a client, a process without a broker, gives one command to the
\* service of n and ends.  Add is a relay for the id 0; both take any version.
ClientCommand(t, n, rpc, request) ==
  Start(t, Stub(NoPeer, n, rpc, request)) /\ UNCHANGED <<conns, entries, ret>>

ClientRelay(t, n, id, value, alters) ==
  ClientCommand(t, n, "Relay",
                [sender |-> 0, entry |-> SetData([id |-> id, value |-> value, alters |-> alters])])

\* sources, always for the sender 0.
ClientSources(t, n) == ClientCommand(t, n, "Sources", [sender |-> 0])

ClientConnect(t, n, m) ==
  /\ Len(conns[n]) <= MaxPorts /\ Len(conns[m]) <= MaxPorts
  /\ ClientCommand(t, n, "Connect",
                   [source |-> 0, clock |-> SetClock(EmptyClock), broker |-> m,
                    sources |-> SetIdConnectionInfoMap(NoProvides)])

-----------------------------------------------------------------------------
Init ==
  /\ conns = [n \in Brokers |-> <<NoConnection>>]
  /\ entries = [n \in Journals |-> {}]
  /\ stack = [t \in Threads |-> <<>>]
  /\ ret = [t \in Threads |-> Done]

InsertStep(t) ==
  InsertEnter(t) \/ AppendEnter(t) \/ InsertForward(t) \/ InsertForwarded(t) \/ InsertReturn(t)
    \/ InsertListNext(t) \/ InsertListReturn(t)

RefreshStep(t) == RefreshUnknown(t) \/ RefreshEnter(t) \/ RefreshNext(t) \/ RefreshReturn(t)

QueryStep(t) == QueryJournal(t) \/ QueryHub(t) \/ QueryReturn(t) \/ QueryNothing(t)

ConnectStep(t) ==
  AcceptEnter(t) \/ AcceptReturn(t) \/ ConnectEnter(t) \/ ConnectAnswered(t) \/ ConnectMine(t)
    \/ ConnectTheirs(t) \/ ConnectInserted(t) \/ ConnectSent(t) \/ ConnectReturn(t)

RelayStep(t) == RelayUnknown(t) \/ RelayHere(t) \/ RelayOn(t) \/ RelayReturn(t)

RpcStep(t) == RpcServe(t) \/ RpcAnswer(t)

Fault(t) == RpcFail(t) \/ \E s \in Threads : RpcBreak(t, s)

\* The thread carries on with the call it is in, in a broker
LocalStep(t) ==
  InsertStep(t) \/ RefreshStep(t) \/ QueryStep(t) \/ ConnectStep(t) \/ DisconnectReset(t) \/ RelayStep(t)

\* or between two processes.
Machine(t) == LocalStep(t) \/ RpcStep(t)

\* What a user may name as the version to alter: nobody looks whether it exists.
Version == ClocksOver(Owned, 1..MaxTime)

\* The users have the brokers that were started, not the twins.
Command(t) ==
  \/ \E n \in Owned, value \in Amount, alters \in Version : AppendCommand(t, n, value, alters)
  \/ \E n \in Started, m \in Started : ConnectCommand(t, n, m)
  \/ \E n \in Started : \E p \in 1..Len(conns[n]) - 1 : DisconnectCommand(t, n, p)
  \/ \E n \in Started, id \in Owned \cup {0}, value \in Amount, alters \in Version :
       RelayCommand(t, n, id, value, alters) \/ ClientRelay(t, n, id, value, alters)
  \/ \E n \in Started, m \in Started : ClientConnect(t, n, m)
  \/ \E n \in Started : ClientSources(t, n)

Next == \E t \in Threads : Machine(t) \/ Fault(t) \/ Command(t)

\* A thread that is in a call goes on; nobody has to give commands.
Fairness == \A t \in Threads : WF_vars(Machine(t))

Spec == Init /\ [][Next]_vars /\ Fairness

-----------------------------------------------------------------------------
(***************************************************************************)
(* The pool of journals that the brokers implement.                        *)
(***************************************************************************)
Pool == INSTANCE Journal WITH
  Id <- Owned,
  clock <- [n \in Owned |-> ClockOf(n)],
  entries <- [n \in Owned |-> entries[n]]

-----------------------------------------------------------------------------
(***************************************************************************)
(* The graph of the connections, as the properties see it.                 *)
(***************************************************************************)
Idle == \A t \in Threads : stack[t] = <<>>

Peers(n) == {Conn(n, p).peer : p \in PortsFrom(n, 1, 0)}

\* The brokers that n can reach in at most k hops.
Within(n, k) ==
  LET ball[i \in Nat] == IF i = 0 THEN {n} ELSE ball[i - 1] \cup UNION {Peers(m) : m \in ball[i - 1]}
  IN  ball[k]

Connected(n, m) == m \in Within(n, Cardinality(Brokers))

Hops(n, m) ==
  CHOOSE k \in 0..Cardinality(Brokers) : m \in Within(n, k) /\ \A i \in 0..k - 1 : m \notin Within(n, i)

-----------------------------------------------------------------------------
ConnType == [peer : Brokers \cup {NoPeer}, source : 0..MaxPorts,
             clock : ClocksOver(Owned, 1..MaxTime)]

ProvidesOK(provides) ==
  /\ DOMAIN provides \subseteq Owned
  /\ \A i \in DOMAIN provides :
       provides[i].distance \in 0..Cardinality(Brokers)
       /\ provides[i].clock \in ClocksOver(Owned, 1..MaxTime)

\* Every connection, table and stored entry has its type, distances included,
\* and no call goes to a broker that is gone.
TypeOK ==
  /\ \A n \in Brokers : \A p \in 0..Len(conns[n]) - 1 :
       LET c == Conn(n, p)
       IN  /\ [peer |-> c.peer, source |-> c.source, clock |-> c.clock] \in ConnType
           /\ ProvidesOK(c.provides)
  /\ \A n \in Journals : entries[n] \subseteq Pool!Entry
  /\ \A t \in Threads : \A i \in 1..Len(stack[t]) : stack[t][i].node \in Brokers

\* Whenever all calls have returned, connected journals hold the same entries
\* and show the same clock.
Converged ==
  Idle => \A n, m \in Owned : Connected(n, m) => entries[n] = entries[m] /\ ClockOf(n) = ClockOf(m)

\* Whenever all calls have returned, each port's table names exactly the
\* journals behind it, with the number of hops to each: a relay finds its way
\* and no distance is stale.
RoutesExact ==
  Idle => \A n \in Brokers : \A p \in PortsFrom(n, 1, 0) :
            LET m == Conn(n, p).peer
                behind == {j \in Journals : Connected(n, j) /\ Connected(m, j) /\ Hops(n, j) = Hops(m, j) + 1}
            IN  /\ DOMAIN Conn(n, p).provides = behind
                /\ \A j \in behind : Conn(n, p).provides[j].distance = Hops(n, j)

\* Whenever all calls have returned, what a broker's versions() says of a
\* journal is neither ahead of the journal nor behind in the journal's own
\* events: it never hides that a journal lacks an entry, and misses none that
\* the journal made.
VersionsTrack ==
  Idle => \A n \in Brokers, j \in Journals :
            Connected(n, j) =>
              LET known == IF j \in DOMAIN Versions(n) THEN Versions(n)[j] ELSE EmptyClock
              IN  Leq(known, ClockOf(j)) /\ At(known, j) = At(ClockOf(j), j)

\* A call of a thread comes back to a broker that the thread is still in only where
\* that broker waits for a relay, of which nothing is left but to return; but for a
\* broker's calls of itself, no other call does: the recursion of insert and of
\* refresh ends, and no vector of connections grows under the feet of a loop.
NoReentry ==
  \A t \in Threads : \A i, j \in 1..Len(stack[t]) :
    i < j /\ stack[t][i].node = stack[t][j].node =>
      \/ \A k \in i..j : stack[t][k].node = stack[t][i].node
      \/ stack[t][j].op = "relay"

\* No broker takes an event for recorded that its author has not recorded: the
\* clocks of its ports and of its routing tables, which connect, refresh and insert
\* copy, merge and send on, count nothing that was made up on the way.  A clock that
\* ran ahead would keep query from ever asking for the entry.
NothingInvented ==
  \A n \in Brokers : \A p \in 0..Len(conns[n]) - 1 :
    LET table == Conn(n, p).provides
    IN  \A c \in {Conn(n, p).clock} \cup {table[i].clock : i \in DOMAIN table} :
          \A j \in DOMAIN c : j \in Owned /\ c[j] <= At(ClockOf(j), j)

\* A broker that takes a relayed entry for its own is the journal the relay
\* names.  The distance 0 by which Broker::relay decides that is not always the
\* journal's own: Broker::insert creates table entries with that distance.
WellRouted ==
  \A t \in Threads :
    Running(t, "relay") /\ Frame(t).pc = "enter"
      /\ (\E r \in RelayRoutes(t) : r.distance = 0)
      => Frame(t).node \in Owned /\ Relayed(t).id = Frame(t).node

\* "A device ID (DID) and transaction ID (TID) can identify uniquely a
\* transaction in a group of devices" (docs/transaction-spec.md).
UniqueTransactions == Pool!TransactionsUnique

\* Every command returns.
EveryCallReturns == \A t \in Threads : []<>(stack[t] = <<>>)

\* Whatever the brokers' calls do, the journals behave as the pool of module
\* Journal: what is proved of it holds of them.
ImplementsPool == Pool!Spec

\* Moreover, every journal receives an entry after the entries its clock counts.
ImplementsCausalPool == Pool!CausalSpec

=============================================================================
