---------------------------- MODULE BrokerProofs ----------------------------
(***************************************************************************)
(* The journals behave as the pool of module Journal under whatever the    *)
(* brokers' calls do, for every set of brokers and processes, every number *)
(* of threads and every way to connect them, with remote calls that fail   *)
(* at any point, as long as no broker takes for its own a relayed entry    *)
(* that names another journal.                                             *)
(***************************************************************************)
EXTENDS BrokerCallsProofs

\* The pool and what is proved of it.
PoolProofs == INSTANCE JournalProofs WITH
  Id <- Owned,
  clock <- [n \in Owned |-> ClockOf(n)],
  entries <- [n \in Owned |-> entries[n]]

-----------------------------------------------------------------------------
(***************************************************************************)
(* Every step keeps the calls in flight in order.  First the steps that    *)
(* only call and return.                                                   *)
(***************************************************************************)

\* The loop of Broker::insert.
LEMMA InsertForwardKeeps ==
  ASSUME InFlightOK, NEW t \in Threads, InsertForward(t)
  PROVE  InFlightOK'
  <1> DEFINE F == Frame(t)
             n == F.node
             ports == PortsFrom(n, F.port, F.source)
             p == First(ports)
             f == [F EXCEPT !.pc = "await", !.port = p]
             g == Insert(n, Conn(n, p).peer, F.entry, Conn(n, p).source)
  <1>1. /\ Running(t, "insert") /\ ports # {} /\ Call(t, f, g)
        /\ conns' = conns /\ entries' = entries /\ ret' = ret
    BY DEF InsertForward
  <1>2. stack[t] # <<>> /\ F.op = "insert" /\ n # NoPeer /\ InsertOK(conns, entries, F)
    BY <1>1, Runs, Kinds
  <1> HIDE DEF F
  <1>3. n \in Brokers /\ F.port \in Nat /\ F.entry \in MadeIn(entries)
    BY <1>2 DEF InsertOK, Nodes
  <1>4. /\ p \in Nat \ {0} /\ PortOK(conns, n, Conn(n, p)) /\ p \in 0..Len(conns[n]) - 1
        /\ Conn(n, p).peer \in Brokers
    BY <1>1, <1>3, FirstPort DEF InFlightOK
  <1> HIDE DEF p, ports
  <1>11. n \in Started /\ HasPort(conns, n, p)
    BY <1>3, <1>4, OnePortTwins DEF InFlightOK, HasPort
  <1>5. InsertOK(conns, entries, f) /\ f.op = "insert"
    BY <1>2, <1>4, <1>11 DEF InsertOK
  <1>6. HasPort(conns, Conn(n, p).peer, Conn(n, p).source)
    BY <1>4, PairedHas DEF PortOK, InFlightOK
  <1>7. FrameOK(conns, entries, g) /\ \A w : ValueOK(conns, entries, g, w)
    BY <1>3, <1>4, <1>6, InsertMade DEF PortOK, Nodes
  <1> HIDE DEF f, g, n
  <1>8. FrameOK(conns, entries, f) /\ Answers(g, f)
    BY <1>5, NoWait DEF FrameOK
  <1>9. \A h : Answers(F, h) => Answers(f, h)
    BY <1>2, Quiet
  <1>10. Sound
    BY <1>1, AllSame
  <1> QED
    BY <1>1, <1>2, <1>7, <1>8, <1>9, <1>10, CallKeeps DEF F

\* A call that was not made for a result ends.
LEMMA QuietReturn ==
  ASSUME InFlightOK, NEW t \in Threads, stack[t] # <<>>, Frame(t).op \notin {"query", "accept", "rpc"},
         NEW w, Return(t, w), Sound
  PROVE  InFlightOK'
  BY Quiet, ReturnKeeps

\* The end of Broker::insert.
LEMMA InsertReturnKeeps ==
  ASSUME InFlightOK, NEW t \in Threads, InsertReturn(t)
  PROVE  InFlightOK'
  <1>1. Running(t, "insert") /\ Return(t, [clock |-> ClockOf(Frame(t).node)]) /\ Sound
    BY AllSame DEF InsertReturn
  <1>2. stack[t] # <<>> /\ Frame(t).op \notin {"query", "accept", "rpc"}
    BY <1>1, Runs
  <1> QED
    BY <1>1, <1>2, QuietReturn

\* BrokerBase::insert(EntryList).
LEMMA InsertListNextKeeps ==
  ASSUME InFlightOK, NEW t \in Threads, InsertListNext(t)
  PROVE  InFlightOK'
  <1> DEFINE F == Frame(t)
             f == [F EXCEPT !.list = Tail(@)]
             g == Insert(F.node, F.to, Head(F.list), F.sender)
  <1>1. /\ Running(t, "insertList") /\ F.list # <<>> /\ Call(t, f, g)
        /\ conns' = conns /\ entries' = entries /\ ret' = ret
    BY DEF InsertListNext
  <1>2. stack[t] # <<>> /\ F.op = "insertList" /\ InsertListOK(conns, entries, F)
    BY <1>1, Runs, Kinds
  <1> HIDE DEF F
  <1>3. Head(F.list) \in MadeIn(entries) /\ Tail(F.list) \in Seq(MadeIn(entries))
    BY <1>1, <1>2, HeadTailProperties DEF InsertListOK
  <1>4. InsertListOK(conns, entries, f) /\ f.op = "insertList"
    BY <1>2, <1>3 DEF InsertListOK
  <1>5. FrameOK(conns, entries, g) /\ \A w : ValueOK(conns, entries, g, w)
    BY <1>2, <1>3, InsertMade DEF InsertListOK
  <1> HIDE DEF f, g
  <1>6. FrameOK(conns, entries, f) /\ Answers(g, f)
    BY <1>4, NoWait DEF FrameOK
  <1>7. \A h : Answers(F, h) => Answers(f, h)
    BY <1>2, Quiet
  <1>8. Sound
    BY <1>1, AllSame
  <1> QED
    BY <1>1, <1>2, <1>5, <1>6, <1>7, <1>8, CallKeeps DEF F

\* The end of BrokerBase::insert(EntryList), where a stub asks for the clock.
LEMMA InsertListReturnKeeps ==
  ASSUME InFlightOK, NEW t \in Threads, InsertListReturn(t)
  PROVE  InFlightOK'
  <1> DEFINE F == Frame(t)
             g == Stub(F.node, F.to, "GetClock", [empty |-> TRUE])
  <1>1. Running(t, "insertList") /\ conns' = conns /\ entries' = entries
    BY DEF InsertListReturn
  <1>2. stack[t] # <<>> /\ F.op = "insertList" /\ InsertListOK(conns, entries, F)
    BY <1>1, Runs, Kinds
  <1>3. Sound
    BY <1>1, AllSame
  <1>4. CASE Remote(F.node, F.to)
    <2>1. Goto(t, g) /\ ret' = ret
      BY <1>4 DEF InsertListReturn
    <2> HIDE DEF F
    <2>2. F.node \in Nodes /\ F.to \in Brokers
      BY <1>2, <1>4 DEF InsertListOK, Remote, Nodes
    <2>3. RpcOK(conns, entries, g) /\ g.op = "rpc" /\ g.pc = "send"
      BY <2>2 DEF RpcOK, RequestOK, Stub, Reads
    <2> HIDE DEF g
    <2>4. FrameOK(conns, entries, g) /\ ValueOK(conns, entries, g, ret[t])
      BY <2>3, Unsent DEF FrameOK
    <2>5. \A h : Answers(F, h) => Answers(g, h)
      BY <1>2, Quiet
    <2> QED
      BY <1>1, <1>2, <1>3, <2>1, <2>4, <2>5, GotoKeeps DEF F
  <1>5. CASE ~Remote(F.node, F.to)
    <2>1. Return(t, [clock |-> ClockOf(F.node)])
      BY <1>5 DEF InsertListReturn
    <2> QED
      BY <1>2, <1>3, <2>1, QuietReturn
  <1> QED
    BY <1>4, <1>5

\* Broker::refresh with an unknown sender.
LEMMA RefreshUnknownKeeps ==
  ASSUME InFlightOK, NEW t \in Threads, RefreshUnknown(t)
  PROVE  InFlightOK'
  <1>1. Running(t, "refresh") /\ Return(t, [done |-> FALSE]) /\ Sound
    BY AllSame DEF RefreshUnknown
  <1>2. stack[t] # <<>> /\ Frame(t).op \notin {"query", "accept", "rpc"}
    BY <1>1, Runs
  <1> QED
    BY <1>1, <1>2, QuietReturn

\* The loop of Broker::refreshConnections.
LEMMA RefreshNextKeeps ==
  ASSUME InFlightOK, NEW t \in Threads, RefreshNext(t)
  PROVE  InFlightOK'
  <1> DEFINE F == Frame(t)
             n == F.node
             ports == PortsFrom(n, F.port, F.ignore)
             p == First(ports)
             f == [F EXCEPT !.port = p + 1]
             g == Refresh(n, Conn(n, p).peer, Announcement(n, p), Conn(n, p).source)
  <1>1. /\ Running(t, "refreshConnections") /\ ports # {} /\ Call(t, f, g)
        /\ conns' = conns /\ entries' = entries /\ ret' = ret
    BY DEF RefreshNext
  <1>2. stack[t] # <<>> /\ F.op = "refreshConnections" /\ RefreshConnectionsOK(F)
    BY <1>1, Runs, Kinds
  <1> HIDE DEF F
  <1>3. n \in Brokers /\ F.port \in Nat
    BY <1>2 DEF RefreshConnectionsOK
  <1>4. /\ p \in Nat \ {0} /\ p \in 0..Len(conns[n]) - 1 /\ PortOK(conns, n, Conn(n, p))
        /\ Conn(n, p).peer \in Brokers
    BY <1>1, <1>3, FirstPort DEF InFlightOK
  <1> HIDE DEF p, ports
  <1>5. RefreshConnectionsOK(f) /\ f.op = "refreshConnections"
    BY <1>2, <1>4 DEF RefreshConnectionsOK
  <1>6. RefreshFits(conns, Conn(n, p).peer, Conn(n, p).source, p)
    BY <1>3, <1>4, AnnouncementFits DEF InFlightOK, Conn
  <1>7. Announcement(n, p).source = p
    BY DEF Announcement
  <1>8. FrameOK(conns, entries, g) /\ \A w : ValueOK(conns, entries, g, w)
    BY <1>3, <1>4, <1>6, <1>7, RefreshMade DEF PortOK, Nodes
  <1> HIDE DEF f, g, n
  <1>9. FrameOK(conns, entries, f) /\ Answers(g, f)
    BY <1>5, NoWait DEF FrameOK
  <1>10. \A h : Answers(F, h) => Answers(f, h)
    BY <1>2, Quiet
  <1>11. Sound
    BY <1>1, AllSame
  <1> QED
    BY <1>1, <1>2, <1>8, <1>9, <1>10, <1>11, CallKeeps DEF F

\* The end of refreshConnections.
LEMMA RefreshReturnKeeps ==
  ASSUME InFlightOK, NEW t \in Threads, RefreshReturn(t)
  PROVE  InFlightOK'
  <1>1. Running(t, "refreshConnections") /\ Return(t, Done) /\ Sound
    BY AllSame DEF RefreshReturn
  <1>2. stack[t] # <<>> /\ Frame(t).op \notin {"query", "accept", "rpc"}
    BY <1>1, Runs
  <1> QED
    BY <1>1, <1>2, QuietReturn

-----------------------------------------------------------------------------
(***************************************************************************)
(* Queries.  What is proved of the pool makes an order of a store's        *)
(* entries total, and so the list complete, and an entry the same after    *)
(* it was sent.                                                            *)
(***************************************************************************)
PoolInv == PoolProofs!IInv /\ PoolProofs!ClocksAreKeys

\* The entries in the users' journals have their type, and an author and its time
\* name one entry, as a clock does.
LEMMA MadeFacts ==
  ASSUME PoolInv
  PROVE  /\ \A e \in Made : /\ e \in [clock : ClocksOver(Owned, 1..MaxTime), id : Owned, value : Amount,
                                      alters : ClocksOver(Owned, 1..MaxTime)]
                            /\ e.id \in DOMAIN e.clock
         /\ \A e, f \in Made : e.clock = f.clock => e = f
         /\ \A e, f \in Made : e.id = f.id /\ e.clock[e.id] = f.clock[f.id] => e = f
  <1> DEFINE E == [n \in Owned |-> entries[n]]
  <1>1. \A e \in Made : \E n \in Owned : e \in E[n]
    BY DEF Made, MadeIn
  <1>2. E \in [Owned -> SUBSET PoolProofs!Entry] /\ \A n \in Owned : \A e \in E[n] : e.id \in DOMAIN e.clock
    BY DEF PoolInv, PoolProofs!IInv, PoolProofs!TypeOK, PoolProofs!Stamped
  <1>3. \A n, m \in Owned : \A e \in E[n], f \in E[m] : e.clock = f.clock => e = f
    BY DEF PoolInv, PoolProofs!ClocksAreKeys
  <1>4. \A n, m \in Owned : \A e \in E[n], f \in E[m] : e.id = f.id /\ At(e.clock, e.id) = At(f.clock, f.id) => e = f
    BY DEF PoolInv, PoolProofs!IInv, PoolProofs!TransactionsUnique, PoolProofs!Time, PoolProofs!At, At
  <1> HIDE DEF E
  <1>5. \A e \in Made : e \in PoolProofs!Entry /\ e.id \in DOMAIN e.clock
    BY <1>1, <1>2
  <1>6. \A e, f \in Made : e.clock = f.clock => e = f
    BY <1>1, <1>3
  <1>7. \A e, f \in Made : e.id = f.id /\ At(e.clock, e.id) = At(f.clock, f.id) => e = f
    BY <1>1, <1>4
  <1>8. \A e, f \in Made : e.id = f.id /\ e.clock[e.id] = f.clock[f.id] => e = f
    BY <1>5, <1>7 DEF At
  <1> QED
    BY <1>5, <1>6, <1>8 DEF PoolProofs!Entry, PoolProofs!Clock, PoolProofs!ClocksOver, ClocksOver

\* A journal's entries() lists any part of its store.
LEMMA ListingLists ==
  ASSUME InFlightOK, PoolInv, NEW n \in Journals, NEW S \in SUBSET entries[n]
  PROVE  Listing(n, S) \in Seq(Made)
  <1>1. S \subseteq Made /\ IsFiniteSet(S)
    BY FS_Subset DEF InFlightOK, StoresOK, Made
  <1>2. Owned \in SUBSET Nat /\ 1..MaxTime \in SUBSET Nat
    BY Ids, MaxTimeAssumption
  <1>3. \A e \in S : e.clock \in ClocksOver(Owned, 1..MaxTime) /\ e.id \in Owned /\ e.id \in DOMAIN e.clock
    BY <1>1, MadeFacts
  <1>4. \A e, f \in S : /\ e.clock = f.clock => e = f
                        /\ e.id = f.id /\ e.clock[e.id] = f.clock[f.id] => e = f
    BY <1>1, MadeFacts
  <1>5. \A e \in S : e.id \in Nat /\ e.clock[e.id] \in Nat
    <2> SUFFICES ASSUME NEW e \in S PROVE e.id \in Nat /\ e.clock[e.id] \in Nat
      OBVIOUS
    <2>1. e.clock \in [DOMAIN e.clock -> 1..MaxTime]
      BY <1>2, <1>3, ClockShape
    <2> QED
      BY <2>1, <1>2, <1>3
  <1>6. Orders(KeyOrder(S), S)
    BY <1>2, <1>3, <1>4, KeyOrderOrders
  <1>7. Orders(LineOrder(S), S)
    BY <1>4, <1>5, LineOrderOrders
  <1>8. InOrder(S, KeyOrder(S)) \in Seq(S) /\ InOrder(S, LineOrder(S)) \in Seq(S)
    BY <1>1, <1>6, <1>7, InOrderLists
  <1>9. Seq(S) \subseteq Seq(Made)
    BY <1>1, SeqMonotonic
  <1> QED
    BY <1>8, <1>9 DEF Listing

\* A query ends with a list of entries that users made.
LEMMA QueryReturns ==
  ASSUME InFlightOK, NEW t \in Threads, stack[t] # <<>>, Frame(t).op = "query",
         NEW w, w.list \in Seq(Made), Return(t, w), conns' = conns, entries' = entries
  PROVE  InFlightOK'
  <1>1. \A h : Answers(Frame(t), h) => ~AwaitsConnection(h)
    BY DEF Answers
  <1>2. \A h : Answers(Frame(t), h) => ValueOK(conns, entries, h, w)
    BY <1>1 DEF ValueOK, Made
  <1>3. Sound
    BY AllSame
  <1> QED
    BY <1>2, <1>3, ReturnKeeps

\* JournalBase::query answers with entries that are stored.
LEMMA QueryJournalKeeps ==
  ASSUME InFlightOK, PoolInv, NEW t \in Threads, QueryJournal(t)
  PROVE  InFlightOK'
  <1> DEFINE n == Frame(t).node
             from == Frame(t).from
             unseen == {e \in Listed(n) : Concurrent(e.clock, from) \/ SmallerThan(from, e.clock)}
             w == [list |-> Listing(n, unseen)]
  <1>1. Running(t, "query") /\ n \in Journals /\ Return(t, w) /\ conns' = conns /\ entries' = entries
    BY DEF QueryJournal
  <1>2. unseen \in SUBSET entries[n]
    BY DEF Listed, Readable
  <1>3. w.list \in Seq(Made)
    BY <1>1, <1>2, ListingLists
  <1>4. stack[t] # <<>> /\ Frame(t).op = "query"
    BY <1>1, Runs
  <1> QED
    BY <1>1, <1>3, <1>4, QueryReturns

\* Broker::query with no journal in reach answers with no entries.
LEMMA QueryNothingKeeps ==
  ASSUME InFlightOK, NEW t \in Threads, QueryNothing(t)
  PROVE  InFlightOK'
  <1>1. Running(t, "query") /\ Return(t, [list |-> <<>>]) /\ conns' = conns /\ entries' = entries
    BY DEF QueryNothing
  <1>2. [list |-> <<>>].list \in Seq(Made)
    OBVIOUS
  <1>3. stack[t] # <<>> /\ Frame(t).op = "query"
    BY <1>1, Runs
  <1> QED
    BY <1>1, <1>2, <1>3, QueryReturns

\* Broker::query of a hub.
LEMMA QueryHubKeeps ==
  ASSUME InFlightOK, NEW t \in Threads, QueryHub(t)
  PROVE  InFlightOK'
  <1> DEFINE F == Frame(t)
             n == F.node
             ports == Answerers(n, F.sender)
             p == First(ports)
             f == [F EXCEPT !.pc = "await"]
             g == Query(n, Conn(n, p).peer, F.from, Conn(n, p).source)
  <1>1. /\ Running(t, "query") /\ ports # {} /\ Call(t, f, g)
        /\ conns' = conns /\ entries' = entries /\ ret' = ret
    BY DEF QueryHub
  <1>2. stack[t] # <<>> /\ F.op = "query" /\ QueryOK(F) /\ n # NoPeer
    BY <1>1, Runs, Kinds
  <1> HIDE DEF F
  <1>3. n \in Brokers
    BY <1>2 DEF QueryOK, Nodes
  <1>4. ports \subseteq PortsFrom(n, 1, F.sender)
    BY DEF Answerers
  <1>5. Conn(n, p).peer \in Brokers
    BY <1>1, <1>3, <1>4, FirstPort DEF InFlightOK
  <1> HIDE DEF p, ports
  <1>6. /\ FrameOK(conns, entries, g) /\ \A w : ValueOK(conns, entries, g, w)
        /\ \A h : ~AwaitsConnection(h) => Answers(g, h)
    BY <1>3, <1>5, QueryMade DEF Nodes
  <1>9. QueryOK(f) /\ f.op = "query"
    BY <1>2 DEF QueryOK
  <1> HIDE DEF g, n, f
  <1>7. FrameOK(conns, entries, f) /\ ~AwaitsConnection(f) /\ \A h : Answers(F, h) => Answers(f, h)
    BY <1>2, <1>9 DEF FrameOK, AwaitsConnection, Answers
  <1>8. Sound
    BY <1>1, AllSame
  <1> QED
    BY <1>1, <1>2, <1>6, <1>7, <1>8, CallKeeps DEF F

\* It returns the list it was answered.
LEMMA QueryReturnKeeps ==
  ASSUME InFlightOK, NEW t \in Threads, QueryReturn(t)
  PROVE  InFlightOK'
  <1>1. /\ Running(t, "query") /\ Frame(t).pc = "await" /\ Return(t, ret[t])
        /\ conns' = conns /\ entries' = entries
    BY DEF QueryReturn
  <1>2. stack[t] # <<>> /\ Frame(t).op = "query" /\ ValueOK(conns, entries, Frame(t), ret[t])
    BY <1>1, Runs
  <1>3. ret[t].list \in Seq(Made)
    BY <1>1, <1>2 DEF ValueOK, AwaitsList, Made
  <1> QED
    BY <1>1, <1>2, <1>3, QueryReturns

-----------------------------------------------------------------------------
(***************************************************************************)
(* Connecting.                                                             *)
(***************************************************************************)

\* The port that a step of n changes, and the ports and entries after it.
LEMMA PortPut ==
  ASSUME InFlightOK, NEW n \in Brokers, NEW p \in 0..Len(conns[n]) - 1, NEW c, PortOK(conns, n, c),
         c.peer \in {Conn(n, p).peer, NoPeer}, conns' = Put(conns, n, p + 1, c), entries' = entries
  PROVE  Sound
  <1>1. ConnsOK(conns) /\ c.peer \in {conns[n][p + 1].peer, NoPeer}
    BY DEF InFlightOK, Conn
  <1>2. ConnsOK(Put(conns, n, p + 1, c)) /\ Widens(conns, Put(conns, n, p + 1, c))
    BY <1>1, PortChanges
  <1>3. StoresOK(entries') /\ Adds(entries, entries')
    BY Unchanged
  <1> QED
    BY <1>2, <1>3 DEF Sound, Extends

\* The asked broker's call after it opened its port.
Refreshed(f, q, c) == [f EXCEPT !.pc = "refreshed", !.port = q, !.data.clock = c]

\* The frame of the asked broker once its port is open.
LEMMA AcceptGoes ==
  ASSUME NEW f, f = [op |-> f.op, node |-> f.node, data |-> f.data, pc |-> f.pc, port |-> f.port],
         IsConnection(f.data), NEW q, NEW c
  PROVE  Refreshed(f, q, c)
           = [op |-> f.op, node |-> f.node, pc |-> "refreshed", port |-> q,
              data |-> [peer |-> f.data.peer, source |-> f.data.source, clock |-> c,
                        provides |-> f.data.provides]]
  <1> DEFINE x == [f.data EXCEPT !.clock = c]
             f1 == [f EXCEPT !.pc = "refreshed"]
             f2 == [f1 EXCEPT !.port = q]
             f3 == [f2 EXCEPT !.data = x]
  <1>1. [f EXCEPT !.pc = "refreshed", !.port = q, !.data.clock = c] = f3
    OBVIOUS
  <1>2. x = [peer |-> f.data.peer, source |-> f.data.source, clock |-> c, provides |-> f.data.provides]
    BY DEF IsConnection
  <1> HIDE DEF x
  <1>3. f1 = [op |-> f.op, node |-> f.node, data |-> f.data, pc |-> "refreshed", port |-> f.port]
    OBVIOUS
  <1> HIDE DEF f1
  <1>4. f2 = [op |-> f.op, node |-> f.node, data |-> f.data, pc |-> "refreshed", port |-> q]
    BY <1>3
  <1> HIDE DEF f2
  <1>5. f3 = [op |-> f.op, node |-> f.node, data |-> x, pc |-> "refreshed", port |-> q]
    BY <1>4
  <1> QED
    BY <1>1, <1>2, <1>5 DEF Refreshed

\* The asked broker opens its port (Broker::connect).
LEMMA AcceptEnterKeeps ==
  ASSUME InFlightOK, NEW t \in Threads, AcceptEnter(t)
  PROVE  InFlightOK'
  <1> DEFINE F == Frame(t)
             n == F.node
             q == Len(conns[n])
             c == [F.data EXCEPT !.provides = Raised(@, ClockOf(n))]
             f == Refreshed(F, q, ClockOf(n))
             g == RefreshConnectionsCall(n, q)
  <1>1. /\ Running(t, "accept") /\ F.pc = "enter" /\ conns' = Opened(conns, n, c)
        /\ Call(t, f, g) /\ entries' = entries /\ ret' = ret
    BY DEF AcceptEnter, Opened, Refreshed
  <1>2. stack[t] # <<>> /\ F.op = "accept" /\ AcceptOK(conns, F)
    BY <1>1, Runs, Kinds
  <1> HIDE DEF F
  <1>3. /\ n \in Started /\ IsConnection(F.data) /\ F.data.peer \in Brokers /\ F.data.source \in Nat
        /\ Paired(conns, n, F.data.peer, F.data.source)
        /\ F = [op |-> F.op, node |-> F.node, data |-> F.data, pc |-> F.pc, port |-> F.port]
    BY <1>1, <1>2 DEF AcceptOK
  <1>4. IsConnection(c) /\ c.peer = F.data.peer /\ c.source = F.data.source
    BY <1>3 DEF IsConnection
  <1>5. PortOK(conns, n, c)
    BY <1>3, <1>4 DEF PortOK, Nodes
  <1> HIDE DEF c
  <1>6. ConnsOK(conns') /\ Widens(conns, conns')
        /\ q \in Nat \ {0} /\ Len(conns'[n]) = q + 1 /\ conns'[n][q + 1] = c
    BY <1>1, <1>3, <1>5, PortOpens DEF InFlightOK
  <1>7. Sound
    BY <1>1, <1>6, Unchanged DEF Sound, Extends
  <1>8. LeadsTo(conns', n, q, F.data.peer)
    BY <1>4, <1>6 DEF LeadsTo
  <1>9. FrameOK(conns', entries', g) /\ \A w : ValueOK(conns', entries', g, w)
    BY <1>3, <1>6, RefreshConnectionsMade, Ids
  <1> HIDE DEF q, g
  <1>10. f = [op |-> F.op, node |-> F.node, pc |-> "refreshed", port |-> q,
              data |-> [peer |-> F.data.peer, source |-> F.data.source, clock |-> ClockOf(n),
                        provides |-> F.data.provides]]
    BY <1>3, AcceptGoes
  <1> HIDE DEF f
  <1>15. /\ f.op = "accept" /\ f.node = n /\ f.data.peer = F.data.peer /\ f.pc = "refreshed" /\ f.port = q
         /\ f.data.source = F.data.source /\ IsConnection(f.data)
    BY <1>2, <1>10 DEF IsConnection
  <1>11. f = [op |-> f.op, node |-> f.node, data |-> f.data, pc |-> f.pc, port |-> f.port]
    BY <1>10
  <1>12. AcceptOK(conns', f)
    BY <1>3, <1>8, <1>11, <1>15 DEF AcceptOK
  <1>13. FrameOK(conns', entries', f) /\ Answers(g, f)
    BY <1>12, <1>15, NoWait DEF FrameOK
  <1>14. \A h : Answers(F, h) => Answers(f, h)
    BY <1>2, <1>15 DEF Answers
  <1> QED
    BY <1>1, <1>2, <1>7, <1>9, <1>13, <1>14, CallKeeps DEF F

\* Its answer names the port it opened.
LEMMA AcceptReturnKeeps ==
  ASSUME InFlightOK, NEW t \in Threads, AcceptReturn(t)
  PROVE  InFlightOK'
  <1> DEFINE F == Frame(t)
             n == F.node
             q == F.port
             w == [conn |-> [Announcement(n, q) EXCEPT !.clock = F.data.clock]]
  <1>1. Running(t, "accept") /\ F.pc = "refreshed" /\ Return(t, w) /\ conns' = conns /\ entries' = entries
    BY DEF AcceptReturn
  <1>2. stack[t] # <<>> /\ F.op = "accept" /\ AcceptOK(conns, F)
    BY <1>1, Runs, Kinds
  <1> HIDE DEF F
  <1>3. n \in Started /\ LeadsTo(conns, n, q, F.data.peer)
    BY <1>1, <1>2 DEF AcceptOK
  <1>4. Len(conns[n]) \in Nat
    BY <1>3, Ids, ConnsLen DEF InFlightOK
  <1>5. w.conn.source = q /\ q \in Nat /\ q \in 0..Len(conns[n]) - 1
    BY <1>3, <1>4 DEF Announcement, LeadsTo
  <1> HIDE DEF w, q
  <1>6. ASSUME NEW h, Answers(F, h) PROVE ValueOK(conns, entries, h, w)
    <2>1. ~AwaitsList(h)
      BY <1>2, <1>6 DEF Answers
    <2>2. AwaitsConnection(h) => n = h.to /\ F.data.peer = GetOrCreate(Process[h.to], h.node)
      BY <1>2, <1>6 DEF Answers
    <2>3. AwaitsConnection(h) => Paired(conns, h.node, h.to, q)
      BY <2>2, <1>3, <1>5 DEF LeadsTo, Paired
    <2> QED
      BY <2>1, <2>3, <1>5 DEF ValueOK
  <1>7. Sound
    BY <1>1, AllSame
  <1> QED
    BY <1>1, <1>2, <1>6, <1>7, ReturnKeeps DEF F

\* The asking broker opens its port first.
LEMMA ConnectEnterKeeps ==
  ASSUME InFlightOK, NEW t \in Threads, ConnectEnter(t)
  PROVE  InFlightOK'
  <1> DEFINE F == Frame(t)
             n == F.node
             m == F.to
             p == Len(conns[n])
             c == [NoConnection EXCEPT !.peer = m]
             a == Announcement(n, p)
             f == [F EXCEPT !.pc = "answered", !.port = p]
             g == Connect(n, m, a)
  <1>1. /\ Running(t, "connect") /\ conns' = Opened(conns, n, c)
        /\ Call(t, f, g) /\ entries' = entries /\ ret' = ret
    BY DEF ConnectEnter, Opened
  <1>2. stack[t] # <<>> /\ F.op = "connect" /\ ConnectOK(conns, entries, F)
    BY <1>1, Runs, Kinds
  <1> HIDE DEF F
  <1>3. n \in Started /\ m \in Started
    BY <1>2 DEF ConnectOK
  <1>4. IsConnection(c) /\ c.peer = m /\ c.source = 0
    BY DEF IsConnection, NoConnection
  <1>5. PortOK(conns, n, c)
    BY <1>3, <1>4, PairedAtZero, Ids DEF PortOK, Nodes, InFlightOK
  <1>6. ConnsOK(conns') /\ Widens(conns, conns')
        /\ p \in Nat \ {0} /\ Len(conns'[n]) = p + 1 /\ conns'[n][p + 1] = c
    BY <1>1, <1>3, <1>5, PortOpens DEF InFlightOK
  <1>7. Sound
    BY <1>1, <1>6, Unchanged DEF Sound, Extends
  <1>8. LeadsTo(conns', n, p, m) /\ (~Remote(n, m) => Paired(conns', m, n, p))
    <2>1. ~Remote(n, m) => GetOrCreate(Process[n], m) = m
      BY <1>3, Ids, SameProcess DEF Remote
    <2> QED
      BY <2>1, <1>4, <1>6 DEF LeadsTo, Paired
  <1>9. IsConnection(a) /\ a.peer = n /\ a.source = p
    BY DEF Announcement, IsConnection
  <1> HIDE DEF a, c, p
  <1>10. /\ FrameOK(conns', entries', g) /\ \A w : ValueOK(conns', entries', g, w)
         /\ \A h : ~AwaitsList(h) /\ h.node = n /\ h.to = m => Answers(g, h)
    BY <1>3, <1>6, <1>8, <1>9, ConnectMade
  <1> HIDE DEF g
  <1>11. entries' = entries
    BY <1>1
  <1>12. ConnectOK(conns', entries', f) /\ f.op = "connect" /\ f.node = n /\ f.to = m /\ f.pc = "answered"
    BY <1>2, <1>6, <1>8, <1>11 DEF ConnectOK
  <1> HIDE DEF f, n, m
  <1>13. FrameOK(conns', entries', f) /\ Answers(g, f)
    BY <1>10, <1>12 DEF FrameOK, AwaitsList
  <1>14. \A h : Answers(F, h) => Answers(f, h)
    BY <1>2, Quiet
  <1> QED
    BY <1>1, <1>2, <1>7, <1>10, <1>13, <1>14, CallKeeps DEF F

\* It takes over the answer's source; the peer has the port by then.
LEMMA ConnectAnsweredKeeps ==
  ASSUME InFlightOK, NEW t \in Threads, ConnectAnswered(t)
  PROVE  InFlightOK'
  <1> DEFINE F == Frame(t)
             n == F.node
             p == F.port
             a == ret[t].conn
             c == ConnectionOf(Conn(n, p).peer, a.source, a.clock, a.provides)
             f == [F EXCEPT !.pc = "mine"]
             g == QueryCall(n, a.clock, p)
  <1>1. /\ Running(t, "connect") /\ F.pc = "answered"
        /\ conns' = Announced(conns, n, p + 1, a.source, a.clock, a.provides)
        /\ Call(t, f, g) /\ entries' = entries /\ ret' = ret
    BY DEF ConnectAnswered, Announced
  <1>2. stack[t] # <<>> /\ F.op = "connect" /\ ConnectOK(conns, entries, F) /\ ValueOK(conns, entries, F, ret[t])
    BY <1>1, Runs, Kinds
  <1> HIDE DEF F
  <1>3. n \in Started /\ n \in Brokers /\ LeadsTo(conns, n, p, F.to) /\ Len(conns[n]) \in Nat
    BY <1>1, <1>2, Ids, ConnsLen DEF ConnectOK, InFlightOK
  <1>4. p \in 0..Len(conns[n]) - 1 /\ p + 1 \in 1..Len(conns[n]) /\ Conn(n, p).peer \in {F.to, NoPeer}
    BY <1>3 DEF LeadsTo, Conn
  <1>5. a.source \in Nat /\ Paired(conns, n, F.to, a.source)
    BY <1>1, <1>2 DEF ValueOK, AwaitsConnection
  <1>6. PortOK(conns, n, Conn(n, p)) /\ DOMAIN conns = Brokers /\ DOMAIN conns[n] = 1..Len(conns[n])
    BY <1>3, <1>4, ConnsLen DEF InFlightOK, ConnsOK, PortsOK, Conn
  <1>7. PortOK(conns, n, c)
    BY <1>4, <1>5, <1>6, Ids DEF PortOK, IsConnection, Paired, ConnectionOf
  <1>8. conns' = Put(conns, n, p + 1, c)
    <2>1. n \in DOMAIN conns /\ p + 1 \in DOMAIN conns[n] /\ IsConnection(conns[n][p + 1])
      BY <1>3, <1>4, <1>6 DEF PortOK, Conn
    <2> QED
      BY <2>1, <1>1, PutAnnounced DEF Conn
  <1>9. Sound
    BY <1>1, <1>3, <1>4, <1>7, <1>8, PortPut DEF ConnectionOf
  <1> HIDE DEF c, a
  <1>10. ConnectOK(conns, entries, f) /\ f.op = "connect" /\ f.pc = "mine"
    BY <1>1, <1>2 DEF ConnectOK
  <1>11. QueryOK(g) /\ g.op = "query" /\ g.pc = "enter"
    BY <1>3 DEF QueryOK, QueryCall, Nodes
  <1> HIDE DEF f, g
  <1>12. FrameOK(conns', entries', f)
    BY <1>9, <1>10, FrameStays DEF FrameOK, Sound, InFlightOK
  <1>13. FrameOK(conns', entries', g) /\ ValueOK(conns', entries', g, ret[t])
    BY <1>11, NoWait DEF FrameOK
  <1>14. Answers(g, f)
    BY <1>10, <1>11 DEF Answers, AwaitsConnection
  <1>15. \A h : Answers(F, h) => Answers(f, h)
    BY <1>2, Quiet
  <1> QED
    BY <1>1, <1>2, <1>9, <1>12, <1>13, <1>14, <1>15, CallKeeps DEF F

\* What is known of a broker that is connecting.
LEMMA Connecting ==
  ASSUME InFlightOK, NEW t \in Threads, Running(t, "connect"), Frame(t).pc # "enter"
  PROVE  LET f == Frame(t)
             n == f.node
             p == f.port
         IN  /\ stack[t] # <<>> /\ f.op = "connect" /\ ConnectOK(conns, entries, f)
             /\ ValueOK(conns, entries, f, ret[t])
             /\ \A g, h : Answers(f, h) => Answers(g, h)
             /\ n \in Started /\ n \in Brokers /\ n \in Nodes /\ p \in Nat
             /\ p \in 0..Len(conns[n]) - 1 /\ p + 1 \in 1..Len(conns[n])
             /\ HasPort(conns, n, p) /\ PortOK(conns, n, Conn(n, p))
             /\ n \in DOMAIN conns /\ p + 1 \in DOMAIN conns[n] /\ Conn(n, p).peer \in {f.to, NoPeer}
  <1> DEFINE f == Frame(t)
             n == f.node
             p == f.port
  <1>1. /\ stack[t] # <<>> /\ f.op = "connect" /\ ConnectOK(conns, entries, f)
        /\ ValueOK(conns, entries, f, ret[t])
    BY Runs, Kinds
  <1> HIDE DEF f
  <1>2. n \in Started /\ n \in Brokers /\ n \in Nodes /\ LeadsTo(conns, n, p, f.to)
    BY <1>1, Ids DEF ConnectOK, Nodes, f
  <1>3. Len(conns[n]) \in Nat /\ DOMAIN conns[n] = 1..Len(conns[n]) /\ DOMAIN conns = Brokers /\ PortsOK(conns, n)
    BY <1>2, ConnsLen DEF InFlightOK, ConnsOK
  <1>4. p \in 0..Len(conns[n]) - 1 /\ p + 1 \in 1..Len(conns[n]) /\ p < Len(conns[n]) /\ p \in Nat
    BY <1>2, <1>3 DEF LeadsTo
  <1>5. PortOK(conns, n, Conn(n, p)) /\ Conn(n, p).peer \in {f.to, NoPeer}
    BY <1>2, <1>3, <1>4 DEF PortsOK, Conn, LeadsTo
  <1>6. HasPort(conns, n, p)
    BY <1>4 DEF HasPort
  <1>7. \A g, h : Answers(f, h) => Answers(g, h)
    BY <1>1, Quiet
  <1> QED
    BY <1>1, <1>2, <1>3, <1>4, <1>5, <1>6, <1>7 DEF f

\* It has its own list and asks for the peer's.
LEMMA ConnectMineKeeps ==
  ASSUME InFlightOK, NEW t \in Threads, ConnectMine(t)
  PROVE  InFlightOK'
  <1> DEFINE F == Frame(t)
             n == F.node
             p == F.port
             f == [F EXCEPT !.pc = "theirs", !.mine = ret[t].list]
             g == Query(n, Conn(n, p).peer, ClockOf(n), Conn(n, p).source)
  <1>1. /\ Running(t, "connect") /\ F.pc = "mine" /\ Call(t, f, g)
        /\ conns' = conns /\ entries' = entries /\ ret' = ret
    BY DEF ConnectMine
  <1>2. /\ stack[t] # <<>> /\ F.op = "connect" /\ ConnectOK(conns, entries, F) /\ ValueOK(conns, entries, F, ret[t])
        /\ n \in Nodes /\ PortOK(conns, n, Conn(n, p))
        /\ \A h : Answers(F, h) => Answers(f, h)
    BY <1>1, Connecting
  <1> HIDE DEF F
  <1>3. ret[t].list \in Seq(MadeIn(entries))
    BY <1>1, <1>2 DEF ValueOK, AwaitsList
  <1>4. ConnectOK(conns, entries, f) /\ f.pc = "theirs"
    BY <1>1, <1>2, <1>3 DEF ConnectOK
  <1>5. /\ FrameOK(conns, entries, g) /\ \A w : ValueOK(conns, entries, g, w)
        /\ \A h : ~AwaitsConnection(h) => Answers(g, h)
    BY <1>2, QueryMade DEF PortOK
  <1> HIDE DEF f, g
  <1>6. FrameOK(conns, entries, f) /\ Answers(g, f)
    BY <1>4, <1>5 DEF FrameOK, AwaitsConnection, ConnectOK
  <1>7. Sound
    BY <1>1, AllSame
  <1> QED
    BY <1>1, <1>2, <1>5, <1>6, <1>7, CallKeeps DEF F

\* It inserts the peer's entries, as coming from its port.
LEMMA ConnectTheirsKeeps ==
  ASSUME InFlightOK, NEW t \in Threads, ConnectTheirs(t)
  PROVE  InFlightOK'
  <1> DEFINE F == Frame(t)
             f == [F EXCEPT !.pc = "inserted"]
             g == InsertList(f.node, f.node, ret[t].list, f.port)
  <1>1. /\ Running(t, "connect") /\ F.pc = "theirs"
        /\ (Goto(t, f) \/ Call(t, f, g))
        /\ conns' = conns /\ entries' = entries /\ ret' = ret
    BY DEF ConnectTheirs
  <1>2. /\ stack[t] # <<>> /\ F.op = "connect" /\ ConnectOK(conns, entries, F) /\ ValueOK(conns, entries, F, ret[t])
        /\ F.node \in Nodes /\ F.port \in Nat /\ HasPort(conns, F.node, F.port)
        /\ \A h : Answers(F, h) => Answers(f, h)
    BY <1>1, Connecting
  <1> HIDE DEF F
  <1>3. ret[t].list \in Seq(MadeIn(entries))
    BY <1>1, <1>2 DEF ValueOK, AwaitsList
  <1>4. ConnectOK(conns, entries, f) /\ f.pc = "inserted"
    BY <1>1, <1>2, <1>3 DEF ConnectOK
  <1>5. f.node = F.node /\ f.port = F.port
    BY <1>2 DEF ConnectOK
  <1>6. FrameOK(conns, entries, g) /\ \A w : ValueOK(conns, entries, g, w)
    BY <1>2, <1>3, <1>5, InsertListMade
  <1> HIDE DEF f, g
  <1>7. FrameOK(conns, entries, f) /\ Answers(g, f) /\ ValueOK(conns, entries, f, ret[t])
    BY <1>4 DEF FrameOK, Answers, AwaitsConnection, AwaitsList, ValueOK, ConnectOK
  <1>8. Sound
    BY <1>1, AllSame
  <1> QED
    BY <1>1, <1>2, <1>6, <1>7, <1>8, CallKeeps, GotoKeeps DEF F

\* It sends its own entries to its port at the peer.
LEMMA ConnectInsertedKeeps ==
  ASSUME InFlightOK, NEW t \in Threads, ConnectInserted(t)
  PROVE  InFlightOK'
  <1> DEFINE F == Frame(t)
             n == F.node
             p == F.port
             f1 == [F EXCEPT !.pc = "refreshed"]
             f2 == [F EXCEPT !.pc = "sent"]
             g1 == RefreshConnectionsCall(n, p)
             g2 == InsertList(n, Conn(n, p).peer, F.mine, Conn(n, p).source)
  <1>1. /\ Running(t, "connect") /\ F.pc = "inserted"
        /\ (Call(t, f1, g1) \/ Call(t, f2, g2))
        /\ conns' = conns /\ entries' = entries /\ ret' = ret
    BY DEF ConnectInserted
  <1>2. /\ stack[t] # <<>> /\ F.op = "connect" /\ ConnectOK(conns, entries, F)
        /\ n \in Nodes /\ n \in Brokers /\ p \in Nat /\ PortOK(conns, n, Conn(n, p))
        /\ (\A h : Answers(F, h) => Answers(f1, h)) /\ (\A h : Answers(F, h) => Answers(f2, h))
    BY <1>1, Connecting
  <1> HIDE DEF F
  <1>3. F.mine \in Seq(MadeIn(entries))
    BY <1>2 DEF ConnectOK
  <1>4. ConnectOK(conns, entries, f1) /\ f1.pc = "refreshed" /\ ConnectOK(conns, entries, f2) /\ f2.pc = "sent"
    BY <1>1, <1>2, <1>3 DEF ConnectOK
  <1>5. FrameOK(conns, entries, g1) /\ \A w : ValueOK(conns, entries, g1, w)
    BY <1>2, RefreshConnectionsMade
  <1>6. HasPort(conns, Conn(n, p).peer, Conn(n, p).source)
    BY <1>2, PairedHas DEF PortOK, InFlightOK
  <1>7. FrameOK(conns, entries, g2) /\ \A w : ValueOK(conns, entries, g2, w)
    BY <1>2, <1>3, <1>6, InsertListMade DEF PortOK
  <1> HIDE DEF f1, f2, g1, g2
  <1>8. FrameOK(conns, entries, f1) /\ Answers(g1, f1) /\ FrameOK(conns, entries, f2) /\ Answers(g2, f2)
    BY <1>4 DEF FrameOK, Answers, AwaitsConnection, AwaitsList, ConnectOK
  <1>9. Sound
    BY <1>1, AllSame
  <1> QED
    BY <1>1, <1>2, <1>5, <1>7, <1>8, <1>9, CallKeeps DEF F

\* Broker::connect notes the peer's clock and tells the others.
LEMMA ConnectSentKeeps ==
  ASSUME InFlightOK, NEW t \in Threads, ConnectSent(t)
  PROVE  InFlightOK'
  <1> DEFINE F == Frame(t)
             n == F.node
             p == F.port
             d == Raised(Conn(n, p).provides, ret[t].clock)
             c == ConnectionOf(Conn(n, p).peer, Conn(n, p).source, Conn(n, p).clock, d)
             f == [F EXCEPT !.pc = "refreshed"]
             g == RefreshConnectionsCall(n, p)
  <1>1. /\ Running(t, "connect") /\ F.pc = "sent"
        /\ conns' = conns \/ conns' = NotedTable(conns, n, p + 1, d)
        /\ Call(t, f, g) /\ entries' = entries /\ ret' = ret
    BY DEF ConnectSent, NotedTable, Conn
  <1>2. /\ stack[t] # <<>> /\ F.op = "connect" /\ ConnectOK(conns, entries, F)
        /\ n \in Brokers /\ p \in Nat /\ p \in 0..Len(conns[n]) - 1 /\ PortOK(conns, n, Conn(n, p))
        /\ n \in DOMAIN conns /\ p + 1 \in DOMAIN conns[n]
        /\ \A h : Answers(F, h) => Answers(f, h)
    BY <1>1, Connecting
  <1> HIDE DEF F, d
  <1>3. F.mine \in Seq(MadeIn(entries))
    BY <1>2 DEF ConnectOK
  <1>4. ConnectOK(conns, entries, f) /\ f.pc = "refreshed"
    BY <1>1, <1>2, <1>3 DEF ConnectOK
  <1>5. PortOK(conns, n, c) /\ c.peer = Conn(n, p).peer
    BY <1>2 DEF PortOK, IsConnection, ConnectionOf
  <1>6. NotedTable(conns, n, p + 1, d) = Put(conns, n, p + 1, c)
    <2>1. IsConnection(conns[n][p + 1])
      BY <1>2 DEF PortOK, Conn
    <2> QED
      BY <2>1, <1>2, PutNotedTable DEF Conn
  <1>7. Sound
    BY <1>1, <1>2, <1>5, <1>6, PortPut, AllSame
  <1>8. FrameOK(conns', entries', g) /\ \A w : ValueOK(conns', entries', g, w)
    BY <1>2, RefreshConnectionsMade
  <1> HIDE DEF f, g, c
  <1>9. FrameOK(conns, entries, f) /\ Answers(g, f)
    BY <1>4 DEF FrameOK, Answers, AwaitsConnection, AwaitsList, ConnectOK
  <1>10. FrameOK(conns', entries', f)
    BY <1>7, <1>9, FrameStays DEF Sound, InFlightOK
  <1> QED
    BY <1>1, <1>2, <1>7, <1>8, <1>9, <1>10, CallKeeps DEF F

\* The end of Broker::connect.
LEMMA ConnectReturnKeeps ==
  ASSUME InFlightOK, NEW t \in Threads, ConnectReturn(t)
  PROVE  InFlightOK'
  <1>1. /\ Running(t, "connect") /\ Sound
        /\ Return(t, [conn |-> [NoConnection EXCEPT !.peer = Frame(t).node, !.source = Frame(t).port]])
    BY AllSame DEF ConnectReturn
  <1>2. stack[t] # <<>> /\ Frame(t).op \notin {"query", "accept", "rpc"}
    BY <1>1, Runs
  <1> QED
    BY <1>1, <1>2, QuietReturn

-----------------------------------------------------------------------------
(***************************************************************************)
(* The other steps that change a port.                                     *)
(***************************************************************************)

\* A port that is open: it knows its number at the peer.
LEMMA OpenPort ==
  ASSUME InFlightOK, NEW n \in Brokers, NEW p \in Nat, p < Len(conns[n])
  PROVE  /\ p \in 0..Len(conns[n]) - 1 /\ n \in DOMAIN conns /\ p + 1 \in DOMAIN conns[n]
         /\ PortOK(conns, n, Conn(n, p)) /\ IsConnection(conns[n][p + 1])
  <1>1. Len(conns[n]) \in Nat /\ DOMAIN conns[n] = 1..Len(conns[n]) /\ DOMAIN conns = Brokers
        /\ PortsOK(conns, n)
    BY ConnsLen DEF InFlightOK, ConnsOK
  <1> DEFINE L == Len(conns[n])
  <1> HIDE DEF L
  <1>2. p \in 0..L - 1 /\ p + 1 \in 1..L
    BY <1>1 DEF L
  <1> QED
    BY <1>1, <1>2 DEF PortsOK, PortOK, Conn, L

\* Broker::refresh takes over what the peer announces.
LEMMA RefreshEnterKeeps ==
  ASSUME InFlightOK, NEW t \in Threads, RefreshEnter(t)
  PROVE  InFlightOK'
  <1> DEFINE F == Frame(t)
             n == F.node
             p == F.sender
             d == F.data
             c == ConnectionOf(Conn(n, p).peer, d.source, d.clock, d.provides)
             g == RefreshConnectionsCall(n, p)
  <1>1. /\ Running(t, "refresh") /\ p \in 1..Len(conns[n]) - 1
        /\ conns' = Announced(conns, n, p + 1, d.source, d.clock, d.provides)
        /\ Goto(t, g) /\ entries' = entries /\ ret' = ret
    BY DEF RefreshEnter, Announced
  <1>2. stack[t] # <<>> /\ F.op = "refresh" /\ n # NoPeer /\ RefreshOK(conns, F)
    BY <1>1, Runs, Kinds
  <1> HIDE DEF F
  <1>3. /\ n \in Brokers /\ p \in Nat /\ d.source \in Nat /\ RefreshFits(conns, n, p, d.source)
        /\ Len(conns[n]) \in Nat
    BY <1>2, ConnsLen DEF RefreshOK, Nodes, InFlightOK
  <1>4. p \in Nat \ {0} /\ p \in 0..Len(conns[n]) - 1
    BY <1>1, <1>3
  <1>5. n \in Started /\ p < Len(conns[n])
    BY <1>3, <1>4, OnePortTwins DEF InFlightOK
  <1>6. /\ n \in DOMAIN conns /\ p + 1 \in DOMAIN conns[n] /\ PortOK(conns, n, Conn(n, p))
        /\ IsConnection(conns[n][p + 1])
    BY <1>3, <1>5, OpenPort
  <1>7. Paired(conns, n, Conn(n, p).peer, d.source)
    BY <1>3, <1>4, <1>5 DEF RefreshFits, Conn
  <1>8. PortOK(conns, n, c) /\ c.peer = Conn(n, p).peer
    BY <1>3, <1>6, <1>7 DEF PortOK, IsConnection, ConnectionOf
  <1>9. conns' = Put(conns, n, p + 1, c)
    BY <1>1, <1>6, PutAnnounced DEF Conn
  <1>10. Sound
    BY <1>1, <1>3, <1>4, <1>8, <1>9, PortPut
  <1>11. FrameOK(conns', entries', g) /\ \A w : ValueOK(conns', entries', g, w)
    BY <1>3, RefreshConnectionsMade
  <1> HIDE DEF g
  <1>12. \A h : Answers(F, h) => Answers(g, h)
    BY <1>2, Quiet
  <1> QED
    BY <1>1, <1>2, <1>10, <1>11, <1>12, GotoKeeps DEF F

\* Connection::disconnect forgets the peer.
LEMMA DisconnectResetKeeps ==
  ASSUME InFlightOK, NEW t \in Threads, DisconnectReset(t)
  PROVE  InFlightOK'
  <1> DEFINE F == Frame(t)
             n == F.node
             p == F.port
             c == ConnectionOf(NoPeer, Conn(n, p).source, Conn(n, p).clock, Conn(n, p).provides)
             g == RefreshConnectionsCall(n, p)
  <1>1. /\ Running(t, "disconnect") /\ conns' = Closed(conns, n, p + 1)
        /\ Goto(t, g) /\ entries' = entries /\ ret' = ret
    BY DEF DisconnectReset, Closed
  <1>2. stack[t] # <<>> /\ F.op = "disconnect" /\ DisconnectOK(conns, F)
    BY <1>1, Runs, Kinds
  <1> HIDE DEF F
  <1>3. n \in Brokers /\ p \in Nat /\ p < Len(conns[n])
    BY <1>2, Ids DEF DisconnectOK, HasPort
  <1>4. /\ n \in DOMAIN conns /\ p + 1 \in DOMAIN conns[n] /\ PortOK(conns, n, Conn(n, p))
        /\ IsConnection(conns[n][p + 1]) /\ p \in 0..Len(conns[n]) - 1
    BY <1>3, OpenPort
  <1>5. PortOK(conns, n, c) /\ c.peer = NoPeer
    BY <1>4, Ids DEF PortOK, IsConnection, ConnectionOf, Paired, Nodes
  <1>6. conns' = Put(conns, n, p + 1, c)
    BY <1>1, <1>4, PutClosed DEF Conn
  <1>7. Sound
    BY <1>1, <1>3, <1>4, <1>5, <1>6, PortPut
  <1>8. FrameOK(conns', entries', g) /\ \A w : ValueOK(conns', entries', g, w)
    BY <1>3, RefreshConnectionsMade
  <1> HIDE DEF g
  <1>9. \A h : Answers(F, h) => Answers(g, h)
    BY <1>2, Quiet
  <1> QED
    BY <1>1, <1>2, <1>7, <1>8, <1>9, GotoKeeps DEF F

\* Connection::insert notes what the peer has.
LEMMA InsertForwardedKeeps ==
  ASSUME InFlightOK, NEW t \in Threads, InsertForwarded(t)
  PROVE  InFlightOK'
  <1> DEFINE F == Frame(t)
             n == F.node
             p == F.port
             d == Raised(Conn(n, p).provides, F.entry.clock)
             c == ConnectionOf(Conn(n, p).peer, Conn(n, p).source, ret[t].clock, d)
             q == p + 1
             f == [F EXCEPT !.pc = "loop", !.port = q]
  <1>1. /\ Running(t, "insert") /\ F.pc = "await"
        /\ conns' = conns \/ conns' = Noted(conns, n, p + 1, ret[t].clock, d)
        /\ Goto(t, f) /\ entries' = entries /\ ret' = ret
    BY DEF InsertForwarded, Noted, Conn
  <1>2. stack[t] # <<>> /\ F.op = "insert" /\ InsertOK(conns, entries, F)
    BY <1>1, Runs, Kinds
  <1> HIDE DEF F, d
  <1>3. n \in Brokers /\ p \in Nat /\ p < Len(conns[n])
    BY <1>1, <1>2, Ids DEF InsertOK, HasPort
  <1>4. /\ n \in DOMAIN conns /\ p + 1 \in DOMAIN conns[n] /\ PortOK(conns, n, Conn(n, p))
        /\ IsConnection(conns[n][p + 1]) /\ p \in 0..Len(conns[n]) - 1
    BY <1>3, OpenPort
  <1>5. PortOK(conns, n, c) /\ c.peer = Conn(n, p).peer
    BY <1>4 DEF PortOK, IsConnection, ConnectionOf
  <1>6. Noted(conns, n, p + 1, ret[t].clock, d) = Put(conns, n, p + 1, c)
    BY <1>4, PutNoted DEF Conn
  <1>7. Sound
    BY <1>1, <1>3, <1>4, <1>5, <1>6, PortPut, AllSame
  <1>11. q \in Nat
    BY <1>3
  <1> HIDE DEF q
  <1>8. InsertOK(conns, entries, f) /\ f.op = "insert"
    BY <1>1, <1>2, <1>11 DEF InsertOK
  <1> HIDE DEF f
  <1>9. FrameOK(conns', entries', f) /\ ValueOK(conns', entries', f, ret[t])
    BY <1>7, <1>8, FrameStays, NoWait DEF FrameOK, Sound, InFlightOK
  <1>10. \A h : Answers(F, h) => Answers(f, h)
    BY <1>2, Quiet
  <1> QED
    BY <1>1, <1>2, <1>7, <1>9, <1>10, GotoKeeps DEF F

\* Broker::relay without a route.
LEMMA RelayUnknownKeeps ==
  ASSUME InFlightOK, NEW t \in Threads, RelayUnknown(t)
  PROVE  InFlightOK'
  <1>1. Running(t, "relay") /\ Return(t, [clock |-> InvalidClock]) /\ Sound
    BY AllSame DEF RelayUnknown
  <1>2. stack[t] # <<>> /\ Frame(t).op \notin {"query", "accept", "rpc"}
    BY <1>1, Runs
  <1> QED
    BY <1>1, <1>2, QuietReturn

\* What a relay passes on differs from what it was given at most in the id.
LEMMA RelayedData ==
  ASSUME NEW t, RelayData(Frame(t).data)
  PROVE  RelayData(Relayed(t))
  <1> DEFINE d == Frame(t).data
             i == RelayId(Frame(t).node, d.id)
  <1>1. Relayed(t) = [d EXCEPT !.id = i]
    BY DEF Relayed
  <1> HIDE DEF d, i
  <1>2. d = [id |-> d.id, value |-> d.value, alters |-> d.alters] /\ d.value \in Amount /\ d.alters \in Version
    BY DEF RelayData, d
  <1>3. [d EXCEPT !.id = i] = [id |-> i, value |-> d.value, alters |-> d.alters]
    BY <1>2
  <1> QED
    BY <1>1, <1>2, <1>3 DEF RelayData

\* Broker::relay passes the data on through the nearest port.
LEMMA RelayOnKeeps ==
  ASSUME InFlightOK, NEW t \in Threads, RelayOn(t)
  PROVE  InFlightOK'
  <1> DEFINE F == Frame(t)
             n == F.node
             f == [F EXCEPT !.pc = "await"]
  <1>1. /\ Running(t, "relay") /\ conns' = conns /\ entries' = entries /\ ret' = ret
        /\ \E r \in RelayRoutes(t) : Call(t, f, Relay(n, Conn(n, r.port).peer, Relayed(t), Conn(n, r.port).source))
    BY DEF RelayOn
  <1>2. stack[t] # <<>> /\ F.op = "relay" /\ n # NoPeer /\ RelayOK(F)
    BY <1>1, Runs, Kinds
  <1>12. RelayOK(f) /\ f.op = "relay"
    BY <1>2 DEF RelayOK
  <1>3. PICK r \in RelayRoutes(t) : Call(t, f, Relay(n, Conn(n, r.port).peer, Relayed(t), Conn(n, r.port).source))
    BY <1>1
  <1>4. n \in Brokers /\ RelayData(Relayed(t))
    BY <1>2, RelayedData DEF RelayOK, Nodes
  <1>5. r.port \in DOMAIN Sources(n, 0)
    BY DEF RelayRoutes, Routes
  <1>6. Len(conns[n]) \in Nat \ {0}
    BY <1>4, ConnsLen DEF InFlightOK
  <1>7. r.port \in Nat /\ r.port < Len(conns[n])
    BY <1>5, <1>6 DEF Sources
  <1> DEFINE p == r.port
             g == Relay(n, Conn(n, p).peer, Relayed(t), Conn(n, p).source)
  <1>8. Conn(n, p).peer \in Nodes
    BY <1>4, <1>7, OpenPort DEF PortOK
  <1> HIDE DEF F, f
  <1>9. FrameOK(conns, entries, g) /\ \A w : ValueOK(conns, entries, g, w)
    BY <1>4, <1>8, RelayMade DEF Nodes
  <1>10. \A h : Answers(F, h) => Answers(f, h)
    BY <1>2, Quiet
  <1>13. FrameOK(conns, entries, f) /\ Answers(g, f)
    BY <1>12, NoWait DEF FrameOK
  <1>14. Call(t, f, g)
    BY <1>3
  <1> HIDE DEF g
  <1>11. Sound
    BY <1>1, AllSame
  <1> QED
    BY <1>1, <1>2, <1>9, <1>10, <1>11, <1>13, <1>14, CallKeeps DEF F

\* It returns the clock it was answered.
LEMMA RelayReturnKeeps ==
  ASSUME InFlightOK, NEW t \in Threads, RelayReturn(t)
  PROVE  InFlightOK'
  <1>1. Running(t, "relay") /\ Return(t, ret[t]) /\ Sound
    BY AllSame DEF RelayReturn
  <1>2. stack[t] # <<>> /\ Frame(t).op \notin {"query", "accept", "rpc"}
    BY <1>1, Runs
  <1> QED
    BY <1>1, <1>2, QuietReturn

-----------------------------------------------------------------------------
(***************************************************************************)
(* An entry is stored.                                                     *)
(***************************************************************************)

\* The ports of a broker with L of them.
Ports(X, L) == X = [j \in 1..L |-> X[j]] /\ \A j \in 1..L : IsConnection(X[j])

\* Broker::insert leaves alone where the ports lead.
LEMMA AdvancedPorts ==
  ASSUME NEW L \in Nat \ {0}, NEW X, Ports(X, L),
         NEW c, NEW id, NEW source \in 0..L - 1, NEW Y, Y = Advanced(X, source, id, c)
  PROVE  /\ Ports(Y, L) /\ Y[1].clock = c
         /\ \A j \in 1..L : Y[j].peer = X[j].peer /\ Y[j].source = X[j].source
  <1> USE DEF Ports
  <1> DEFINE i == source + 1
             x == [X[1] EXCEPT !.clock = c]
             Z == [X EXCEPT ![1] = x]
             v == SetVersion(Z[i].provides, id, c)
             z == [Z[i] EXCEPT !.provides = v]
  <1>1. Y = [Z EXCEPT ![i] = z]
    BY DEF Advanced
  <1>2. 1 \in 1..L /\ i \in 1..L /\ IsConnection(X[1])
    OBVIOUS
  <1>3. IsConnection(x) /\ x.peer = X[1].peer /\ x.source = X[1].source /\ x.clock = c
    BY <1>2 DEF IsConnection
  <1> HIDE DEF x, i
  <1>4. Z = [j \in 1..L |-> IF j = 1 THEN x ELSE X[j]]
    OBVIOUS
  <1> HIDE DEF Z, v
  <1>5. \A j \in 1..L : IsConnection(Z[j]) /\ Z[j].peer = X[j].peer /\ Z[j].source = X[j].source
    BY <1>3, <1>4
  <1>6. Z[1].clock = c
    BY <1>2, <1>3, <1>4
  <1>7. IsConnection(z) /\ z.peer = Z[i].peer /\ z.source = Z[i].source /\ z.clock = Z[i].clock
    <2>1. IsConnection(Z[i])
      BY <1>2, <1>5
    <2> QED
      BY <2>1 DEF IsConnection
  <1> HIDE DEF z
  <1>8. Y = [j \in 1..L |-> IF j = i THEN z ELSE Z[j]]
    BY <1>1, <1>4
  <1>9. Y = [j \in 1..L |-> Y[j]]
    BY <1>8
  <1>10. \A j \in 1..L : IsConnection(Y[j]) /\ Y[j].peer = X[j].peer /\ Y[j].source = X[j].source
    BY <1>5, <1>7, <1>8
  <1>11. Y[1].clock = c
    BY <1>2, <1>6, <1>7, <1>8
  <1> QED
    BY <1>9, <1>10, <1>11

\* The ports of all brokers after it.
LEMMA PortsGrow ==
  ASSUME InFlightOK, NEW n \in Brokers, NEW c, NEW id, NEW source \in 0..Len(conns[n]) - 1,
         conns' = [conns EXCEPT ![n] = Advanced(conns[n], source, id, c)]
  PROVE  /\ ConnsOK(conns') /\ Widens(conns, conns')
         /\ conns'[n][1].clock = c /\ \A m \in Brokers : m # n => conns'[m] = conns[m]
  <1>1. /\ ConnsOK(conns) /\ conns = [m \in Brokers |-> conns[m]] /\ PortsOK(conns, n)
        /\ Len(conns[n]) \in Nat \ {0} /\ DOMAIN conns[n] = 1..Len(conns[n])
    BY ConnsLen DEF InFlightOK, ConnsOK
  <1> DEFINE L == Len(conns[n])
             X == conns[n]
             Y == Advanced(X, source, id, c)
  <1>2. X = [j \in 1..L |-> X[j]] /\ \A j \in 1..L : PortOK(conns, n, X[j]) /\ IsConnection(X[j])
    BY <1>1 DEF PortsOK, IsSeq, PortOK
  <1>3. L \in Nat \ {0} /\ source \in 0..L - 1
    BY <1>1
  <1>4. conns' = [m \in Brokers |-> IF m = n THEN Y ELSE conns[m]]
    BY <1>1
  <1> HIDE DEF L, X, Y
  <1>5. /\ Y = [j \in 1..L |-> Y[j]] /\ Y[1].clock = c
        /\ \A j \in 1..L : IsConnection(Y[j]) /\ Y[j].peer = X[j].peer /\ Y[j].source = X[j].source
    <2>1. Y = Advanced(X, source, id, c)
      BY DEF Y
    <2>2. Ports(X, L)
      BY <1>2 DEF Ports
    <2>3. /\ Ports(Y, L) /\ Y[1].clock = c
          /\ \A j \in 1..L : Y[j].peer = X[j].peer /\ Y[j].source = X[j].source
      BY <1>3, <2>1, <2>2, AdvancedPorts
    <2> QED
      BY <2>3 DEF Ports
  <1>6. \A j \in 1..L : PortOK(conns, n, Y[j])
    BY <1>2, <1>5 DEF PortOK
  <1>7. conns'[n] = Y /\ conns' = [m \in Brokers |-> conns'[m]] /\ \A m \in Brokers : m # n => conns'[m] = conns[m]
    BY <1>4
  <1>8. Changes(conns, n, conns')
    BY <1>5, <1>6, <1>7 DEF Changes, L, X
  <1> QED
    BY <1>1, <1>5, <1>7, <1>8, PortsChange

\* JournalBase::insert and Broker::insert up to the first call: of an entry that is
\* stored somewhere, or at the journal of a user.
LEMMA InsertLocallyKeeps ==
  ASSUME InFlightOK, NEW t \in Threads, stack[t] # <<>>, Frame(t).op \notin {"query", "accept", "rpc"},
         NEW n \in Brokers, NEW e, e \in Made \/ n \in Owned, NEW source \in Nat,
         InsertLocally(t, n, e, source)
  PROVE  InFlightOK'
  <1> DEFINE c == Merge(ClockOf(n), e.clock)
             D == [conns EXCEPT ![n] = Advanced(conns[n], source, e.id, c)]
             f == [InsertCall(n, e, source) EXCEPT !.pc = "loop"]
             w == [clock |-> InvalidClock]
  <1>1. CASE ~Accepts(n, e)
    <2>1. Return(t, w) /\ conns' = conns /\ entries' = entries
      BY <1>1 DEF InsertLocally
    <2> QED
      BY <2>1, AllSame, QuietReturn
  <1>2. CASE Accepts(n, e)
    <2>1. entries' = IF n \in Journals THEN [entries EXCEPT ![n] = @ \cup {e}] ELSE entries
      BY <1>2 DEF InsertLocally
    <2>2. StoresOK(entries') /\ Adds(entries, entries')
      BY <2>1, EntryAdded, Unchanged DEF InFlightOK, Made
    <2>3. CASE source >= Len(conns[n])
      <3>1. Return(t, w) /\ conns' = conns
        BY <1>2, <2>3 DEF InsertLocally
      <3>2. Sound
        BY <2>2, <3>1, Unchanged DEF Sound, Extends
      <3> QED
        BY <3>1, <3>2, QuietReturn
    <2>4. CASE ~(source >= Len(conns[n]))
      <3>1. conns' = D /\ Goto(t, f) /\ ret' = ret
        BY <1>2, <2>4 DEF InsertLocally
      <3>2. Len(conns[n]) \in Nat /\ source \in 0..Len(conns[n]) - 1 /\ source < Len(conns[n])
        BY <2>4, ConnsLen DEF InFlightOK
      <3>3. ConnsOK(conns') /\ Widens(conns, conns')
        BY <3>1, <3>2, PortsGrow
      <3>4. Sound
        BY <2>2, <3>3 DEF Sound, Extends
      <3>5. e \in MadeIn(entries')
        <4>1. CASE e \in Made
          BY <4>1, <2>2 DEF Made, Adds
        <4>2. CASE n \in Owned
          <5>1. n \in Journals /\ entries = [m \in Journals |-> entries[m]]
            BY <4>2, Ids DEF InFlightOK, StoresOK
          <5>2. e \in entries'[n]
            BY <2>1, <5>1
          <5> QED
            BY <4>2, <5>2 DEF MadeIn
        <4> QED
          BY <4>1, <4>2
      <3>6. HasPort(conns', n, source)
        <4>1. HasPort(conns, n, source)
          BY <3>2 DEF HasPort
        <4> QED
          BY <4>1, <3>4, HasPortStays DEF Sound, InFlightOK
      <3>7. f = [op |-> "insert", node |-> n, entry |-> e, source |-> source, pc |-> "loop", port |-> 0]
        BY DEF InsertCall
      <3> HIDE DEF f
      <3>8. InsertOK(conns', entries', f) /\ f.op = "insert"
        BY <3>5, <3>6, <3>7 DEF InsertOK, Nodes
      <3>9. FrameOK(conns', entries', f) /\ ValueOK(conns', entries', f, ret[t])
        BY <3>8, NoWait DEF FrameOK
      <3>10. \A h : Answers(Frame(t), h) => Answers(f, h)
        BY Quiet
      <3> QED
        BY <3>1, <3>4, <3>9, <3>10, GotoKeeps
    <2> QED
      BY <2>3, <2>4
  <1> QED
    BY <1>1, <1>2

\* An entry arrives.
LEMMA InsertEnterKeeps ==
  ASSUME InFlightOK, NEW t \in Threads, InsertEnter(t)
  PROVE  InFlightOK'
  <1>1. Running(t, "insert") /\ InsertLocally(t, Frame(t).node, Frame(t).entry, Frame(t).source)
    BY DEF InsertEnter
  <1>2. stack[t] # <<>> /\ Frame(t).op = "insert" /\ Frame(t).node # NoPeer /\ InsertOK(conns, entries, Frame(t))
    BY <1>1, Runs, Kinds
  <1>3. Frame(t).node \in Brokers /\ Frame(t).entry \in Made /\ Frame(t).source \in Nat
    BY <1>2 DEF InsertOK, Nodes, Made
  <1> QED
    BY <1>1, <1>2, <1>3, InsertLocallyKeeps

\* A user appends to a journal.
LEMMA AppendEnterKeeps ==
  ASSUME InFlightOK, NEW t \in Threads, AppendEnter(t)
  PROVE  InFlightOK'
  <1>1. Running(t, "append") /\ InsertLocally(t, Frame(t).node, Stamp(Frame(t).node, Frame(t).data), 0)
    BY DEF AppendEnter
  <1>2. stack[t] # <<>> /\ Frame(t).op = "append" /\ AppendOK(Frame(t))
    BY <1>1, Runs, Kinds
  <1>3. Frame(t).node \in Brokers /\ Frame(t).node \in Owned
    BY <1>2, Ids DEF AppendOK
  <1> QED
    BY <1>1, <1>2, <1>3, InsertLocallyKeeps

\* A relay has arrived at the journal that it names.
LEMMA RelayHereKeeps ==
  ASSUME InFlightOK, WellRouted, NEW t \in Threads, RelayHere(t)
  PROVE  InFlightOK'
  <1>1. Running(t, "relay") /\ InsertLocally(t, Frame(t).node, Stamp(Frame(t).node, Relayed(t)), 0)
        /\ Frame(t).pc = "enter" /\ \E r \in RelayRoutes(t) : r.distance = 0
    BY DEF RelayHere
  <1>2. stack[t] # <<>> /\ Frame(t).op = "relay" /\ Frame(t).node # NoPeer
    BY <1>1, Runs
  <1>3. Frame(t).node \in Brokers /\ Frame(t).node \in Owned
    BY <1>1, <1>2, Ids DEF WellRouted
  <1> QED
    BY <1>1, <1>2, <1>3, InsertLocallyKeeps

-----------------------------------------------------------------------------
(***************************************************************************)
(* Remote calls.                                                           *)
(***************************************************************************)

\* An entry that a user made survives the message.
LEMMA MadeSurvives ==
  ASSUME PoolInv, NEW e \in Made
  PROVE  EntryFrom(SetEntry(e)) = e
  <1>1. e \in [clock : ClocksOver(Owned, 1..MaxTime), id : Owned, value : Amount,
               alters : ClocksOver(Owned, 1..MaxTime)]
    BY MadeFacts
  <1>2. e.clock \in [DOMAIN e.clock -> 1..MaxTime] /\ e.alters \in [DOMAIN e.alters -> 1..MaxTime]
    BY <1>1, ClockShape
  <1>3. ASSUME NEW A, NEW B, e.clock \in A, e.alters \in B
        PROVE  e \in [clock : A, id : Owned, value : Amount, alters : B]
    BY <1>1, <1>3
  <1>4. e \in [clock : [DOMAIN e.clock -> 1..MaxTime], id : Owned, value : Amount,
               alters : [DOMAIN e.alters -> 1..MaxTime]]
    BY <1>2, <1>3
  <1> QED
    BY <1>4, EntrySurvives

\* The runner makes the call that was asked for.
LEMMA ServedMade ==
  ASSUME InFlightOK, PoolInv, NEW f, RpcOK(conns, entries, f), f.rpc \notin Reads
  PROVE  LET g == Served(f.to, f.rpc, f.request)
         IN  /\ FrameOK(conns, entries, g) /\ \A w : ValueOK(conns, entries, g, w)
             /\ AwaitsList(f) => g.op = "query"
             /\ AwaitsConnection(f) =>
                  g.op = "accept" /\ g.node = f.to /\ g.data.peer = GetOrCreate(Process[f.to], f.node)
  <1> DEFINE m == f.to
             r == f.request
             g == Served(m, f.rpc, r)
  <1>1. m \in Brokers /\ m \in Nodes /\ RequestOK(conns, entries, m, f.rpc, r) /\ f.op = "rpc"
        /\ f.rpc \in {"Connect", "Query", "Insert", "Refresh", "Relay"}
    BY DEF RpcOK, Nodes
  <1>2. CASE f.rpc = "Connect" /\ r.source = 0
    <2>1. g = ConnectCall(m, r.broker)
      BY <1>2 DEF Served, ServeConnect
    <2>2. m \in Started /\ r.broker \in Started
      BY <1>1, <1>2 DEF RequestOK
    <2> HIDE DEF g, m, r
    <2>3. ConnectOK(conns, entries, g) /\ g.op = "connect" /\ g.pc = "enter"
      BY <2>1, <2>2 DEF ConnectOK, ConnectCall
    <2>4. ~AwaitsList(f) /\ ~AwaitsConnection(f) /\ ~AwaitsList(g) /\ ~AwaitsConnection(g)
      BY <1>1, <1>2, <2>3 DEF AwaitsList, AwaitsConnection, r
    <2> QED
      BY <2>3, <2>4 DEF FrameOK, ValueOK, g, m, r
  <1>3. CASE f.rpc = "Connect" /\ r.source # 0
    <2> DEFINE d == [peer |-> GetOrCreate(Process[m], r.broker), source |-> r.source,
                     clock |-> ClockFrom(r.clock), provides |-> IdConnectionInfoMapFrom(r.sources)]
    <2>1. g = AcceptCall(m, d)
      BY <1>3 DEF Served, ServeConnect
    <2>2. m \in Started /\ r.broker \in Started /\ r.source \in Nat /\ Process[r.broker] # Process[m]
      BY <1>1, <1>3 DEF RequestOK
    <2>7. r.broker = f.node
      BY <1>3 DEF RpcOK
    <2>3. d.peer \in Twins /\ d.peer = GetOrCreate(Process[m], f.node)
      BY <2>2, <2>7, TwinFound
    <2>4. IsConnection(d) /\ d.source \in Nat
      BY <2>2 DEF IsConnection
    <2> HIDE DEF d
    <2>5. d.peer \in Brokers /\ Paired(conns, m, d.peer, d.source)
      BY <2>3, Ids DEF Paired
    <2>6. AcceptOK(conns, g) /\ g.op = "accept" /\ g.node = m /\ g.data.peer = GetOrCreate(Process[m], f.node)
      BY <2>1, <2>2, <2>3, <2>4, <2>5 DEF AcceptOK, AcceptCall
    <2> QED
      BY <1>1, <1>3, <2>6, NoWait DEF FrameOK, AwaitsList
  <1>4. CASE f.rpc = "Query"
    <2>1. g = QueryCall(m, ClockFrom(r.clock), r.sender)
      BY <1>4 DEF Served, ServeQuery
    <2>2. QueryOK(g) /\ g.op = "query" /\ g.pc = "enter"
      BY <1>1, <2>1 DEF QueryOK, QueryCall
    <2> QED
      BY <1>1, <1>4, <2>2, NoWait DEF FrameOK, AwaitsConnection
  <1>5. CASE f.rpc = "Insert"
    <2>1. g = InsertCall(m, EntryFrom(r.entry), r.sender)
      BY <1>5 DEF Served, ServeInsert
    <2>2. r.sender \in Nat /\ HasPort(conns, m, r.sender) /\ \E e \in MadeIn(entries) : r.entry = SetEntry(e)
      BY <1>1, <1>5 DEF RequestOK
    <2>3. EntryFrom(r.entry) \in MadeIn(entries)
      BY <2>2, MadeSurvives DEF Made
    <2>4. InsertOK(conns, entries, g) /\ g.op = "insert"
      BY <1>1, <2>1, <2>2, <2>3 DEF InsertOK, InsertCall
    <2> QED
      BY <1>1, <1>5, <2>4, NoWait DEF FrameOK, AwaitsConnection, AwaitsList
  <1>6. CASE f.rpc = "Refresh"
    <2> DEFINE d == [NoConnection EXCEPT !.source = r.source, !.clock = ClockFrom(r.clock),
                                         !.provides = IdConnectionInfoMapFrom(r.sources)]
    <2>1. g = RefreshCall(m, d, r.sender)
      BY <1>6 DEF Served, ServeRefresh
    <2>2. r.sender \in Nat /\ r.source \in Nat /\ RefreshFits(conns, m, r.sender, r.source)
      BY <1>1, <1>6 DEF RequestOK
    <2>3. d.source = r.source
      BY DEF NoConnection
    <2> HIDE DEF d
    <2>4. RefreshOK(conns, g) /\ g.op = "refresh"
      BY <1>1, <2>1, <2>2, <2>3 DEF RefreshOK, RefreshCall
    <2> QED
      BY <1>1, <1>6, <2>4, NoWait DEF FrameOK, AwaitsConnection, AwaitsList
  <1>7. CASE f.rpc = "Relay"
    <2>1. g = RelayCall(m, DataFrom(r.entry), r.sender)
      BY <1>7 DEF Served, ServeRelay
    <2>2. RelayOK(g) /\ g.op = "relay"
      BY <1>1, <1>7, <2>1 DEF RelayOK, RelayCall, RequestOK
    <2> QED
      BY <1>1, <1>7, <2>2, NoWait DEF FrameOK, AwaitsConnection, AwaitsList
  <1> QED
    BY <1>1, <1>2, <1>3, <1>4, <1>5, <1>6, <1>7

\* A request arrives.
LEMMA RpcServeKeeps ==
  ASSUME InFlightOK, PoolInv, NEW t \in Threads, RpcServe(t)
  PROVE  InFlightOK'
  <1> DEFINE F == Frame(t)
             f == [F EXCEPT !.pc = "await"]
             g == Served(F.to, F.rpc, F.request)
  <1>1. /\ Running(t, "rpc") /\ F.rpc \notin Reads /\ Call(t, f, g)
        /\ conns' = conns /\ entries' = entries /\ ret' = ret
    BY DEF RpcServe
  <1>2. stack[t] # <<>> /\ F.op = "rpc" /\ RpcOK(conns, entries, F)
    BY <1>1, Runs, Kinds
  <1> HIDE DEF F
  <1>3. /\ FrameOK(conns, entries, g) /\ \A w : ValueOK(conns, entries, g, w)
        /\ AwaitsList(F) => g.op = "query"
        /\ AwaitsConnection(F) =>
             g.op = "accept" /\ g.node = F.to /\ g.data.peer = GetOrCreate(Process[F.to], F.node)
    BY <1>1, <1>2, ServedMade
  <1> HIDE DEF g
  <1>4. F = [op |-> F.op, node |-> F.node, to |-> F.to, rpc |-> F.rpc, request |-> F.request, pc |-> F.pc]
    BY <1>2 DEF RpcOK
  <1>5. f = [op |-> F.op, node |-> F.node, to |-> F.to, rpc |-> F.rpc, request |-> F.request, pc |-> "await"]
    BY <1>4
  <1> HIDE DEF f
  <1>6. RpcOK(conns, entries, f)
    BY <1>2, <1>5 DEF RpcOK
  <1>7. (AwaitsList(f) <=> AwaitsList(F)) /\ (AwaitsConnection(f) <=> AwaitsConnection(F))
    BY <1>2, <1>5 DEF AwaitsList, AwaitsConnection
  <1>8. Answers(g, f)
    BY <1>3, <1>5, <1>7 DEF Answers
  <1>9. \A h : Answers(F, h) => Answers(f, h)
    BY <1>2, <1>5, <1>7 DEF Answers
  <1>10. Sound
    BY <1>1, AllSame
  <1> QED
    BY <1>1, <1>2, <1>3, <1>6, <1>8, <1>9, <1>10, CallKeeps DEF F, FrameOK

\* What a stub returns is what its caller waits for.
LEMMA StubAnswers ==
  ASSUME NEW C, NEW E, NEW f, f.op = "rpc", NEW w,
         f.rpc = "Query" => w.list \in Seq(MadeIn(E)),
         AwaitsConnection(f) => w.conn.source \in Nat /\ Paired(C, f.node, f.to, w.conn.source),
         NEW h, Answers(f, h)
  PROVE  ValueOK(C, E, h, w)
  <1>1. AwaitsList(h) => f.rpc = "Query"
    BY DEF Answers
  <1>2. AwaitsConnection(h) => AwaitsConnection(f) /\ f.to = h.to /\ f.node = h.node
    BY DEF Answers
  <1> QED
    BY <1>1, <1>2 DEF ValueOK

\* A call that failed has returned no entries and the source 0.
LEMMA FailureAnswers ==
  ASSUME NEW C, ConnsOK(C), NEW E, NEW f, f.op = "rpc", NEW h, Answers(f, h)
  PROVE  ValueOK(C, E, h, Result(f.to, f.rpc, NotOk))
  <1> DEFINE w == Result(f.to, f.rpc, NotOk)
  <1>1. f.rpc = "Query" => w = [list |-> <<>>]
    BY DEF Result, QueryResult, NotOk
  <1>3. AwaitsConnection(f) => w = [conn |-> NoConnection]
    BY DEF Result, ConnectResult, NotOk, AwaitsConnection
  <1> HIDE DEF w
  <1>2. f.rpc = "Query" => w.list \in Seq(MadeIn(E))
    <2>1. f.rpc = "Query" => w.list = <<>>
      BY <1>1
    <2>2. <<>> \in Seq(MadeIn(E))
      BY EmptySeq
    <2> QED
      BY <2>1, <2>2
  <1>4. AwaitsConnection(f) => w.conn.source = 0
    BY <1>3 DEF NoConnection
  <1>5. AwaitsConnection(f) => w.conn.source \in Nat /\ Paired(C, f.node, f.to, w.conn.source)
    BY <1>4, PairedAtZero
  <1> QED
    BY <1>2, <1>5, StubAnswers DEF w

\* An answer arrives.
LEMMA RpcAnswerKeeps ==
  ASSUME InFlightOK, PoolInv, NEW t \in Threads, RpcAnswer(t)
  PROVE  InFlightOK'
  <1> DEFINE F == Frame(t)
             v == ret[t]
             a == Response(F.to, F.rpc, F.request, v)
             w == Result(F.to, F.rpc, a)
  <1>1. /\ Running(t, "rpc") /\ (F.pc = "await" \/ F.rpc \in Reads)
        /\ Return(t, w) /\ conns' = conns /\ entries' = entries
    BY DEF RpcAnswer
  <1>2. stack[t] # <<>> /\ F.op = "rpc" /\ ValueOK(conns, entries, F, v)
    BY <1>1, Runs
  <1> HIDE DEF F
  <1>3. ASSUME F.rpc = "Query" PROVE w.list \in Seq(MadeIn(entries))
    <2>1. F.pc = "await" /\ AwaitsList(F)
      BY <1>1, <1>2, <1>3 DEF Reads, AwaitsList
    <2>2. v.list \in Seq(Made)
      BY <1>2, <2>1 DEF ValueOK, Made
    <2> DEFINE l == v.list
    <2>3. DOMAIN l = 1..Len(l) /\ Len(l) \in Nat /\ \A i \in DOMAIN l : l[i] \in Made
      BY <2>2, ElementOfSeq, LenProperties
    <2>7. l = [i \in DOMAIN l |-> l[i]]
      BY <2>2
    <2>4. a = [ok |-> TRUE, entries |-> [i \in DOMAIN l |-> SetEntry(l[i])]]
      BY <1>3 DEF Response
    <2> HIDE DEF a
    <2>5. w.list = [i \in DOMAIN l |-> EntryFrom(SetEntry(l[i]))]
      BY <1>3, <2>4 DEF Result, QueryResult
    <2> HIDE DEF w, l
    <2>6. \A i \in DOMAIN l : EntryFrom(SetEntry(l[i])) = l[i]
      BY <2>3, MadeSurvives
    <2>8. [i \in DOMAIN l |-> EntryFrom(SetEntry(l[i]))] = [i \in DOMAIN l |-> l[i]]
      BY <2>6
    <2> QED
      BY <2>2, <2>5, <2>7, <2>8 DEF Made, l
  <1>4. ASSUME AwaitsConnection(F) PROVE w.conn.source \in Nat /\ Paired(conns, F.node, F.to, w.conn.source)
    <2>1. F.rpc = "Connect" /\ F.pc = "await"
      BY <1>1, <1>2, <1>4 DEF AwaitsConnection, Reads
    <2>2. v.conn.source \in Nat /\ Paired(conns, F.node, F.to, v.conn.source)
      BY <1>2, <1>4, <2>1 DEF ValueOK
    <2>3. a.ok = TRUE /\ a.source = v.conn.source
      BY <2>1 DEF Response
    <2> HIDE DEF a
    <2>4. w.conn.source = a.source
      BY <2>1, <2>3 DEF Result, ConnectResult, NoConnection
    <2> QED
      BY <2>2, <2>3, <2>4
  <1> HIDE DEF w
  <1>5. \A h : Answers(F, h) => ValueOK(conns, entries, h, w)
    BY <1>2, <1>3, <1>4, StubAnswers
  <1>6. Sound
    BY <1>1, AllSame
  <1> QED
    BY <1>1, <1>2, <1>5, <1>6, ReturnKeeps DEF F

\* A call fails.
LEMMA RpcFailKeeps ==
  ASSUME InFlightOK, NEW t \in Threads, RpcFail(t)
  PROVE  InFlightOK'
  <1> DEFINE F == Frame(t)
             w == Result(F.to, F.rpc, NotOk)
  <1>1. Running(t, "rpc") /\ Return(t, w) /\ conns' = conns /\ entries' = entries
    BY DEF RpcFail
  <1>2. stack[t] # <<>> /\ F.op = "rpc"
    BY <1>1, Runs
  <1>3. \A h : Answers(F, h) => ValueOK(conns, entries, h, w)
    BY <1>2, FailureAnswers DEF InFlightOK
  <1>4. Sound
    BY <1>1, AllSame
  <1> QED
    BY <1>1, <1>2, <1>3, <1>4, ReturnKeeps

\* A part of a thread's calls.
LEMMA PartOfCalls ==
  ASSUME NEW C, NEW E, NEW s, NEW v, ThreadOK(C, E, s, v),
         NEW a \in Nat \ {0}, NEW b \in Nat, b <= Len(s),
         NEW w, a <= b => ValueOK(C, E, s[a], w)
  PROVE  ThreadOK(C, E, SubSeq(s, a, b), w)
  <1> DEFINE r == SubSeq(s, a, b)
             S == {s[i] : i \in 1..Len(s)}
  <1>1. /\ IsSeq(s) /\ Len(s) \in Nat /\ \A i \in 1..Len(s) : FrameOK(C, E, s[i])
        /\ \A i \in 1..Len(s) - 1 : Answers(s[i], s[i + 1])
    BY IsSeqLen DEF ThreadOK
  <1>2. \A i \in a..b : s[i] \in S
    BY <1>1
  <1> HIDE DEF S
  <1>3. /\ r \in Seq(S) /\ Len(r) = IF a <= b THEN b - a + 1 ELSE 0
        /\ \A i \in 1..b - a + 1 : r[i] = s[a + i - 1]
    BY <1>2, SubSeqProperties
  <1>4. IsSeq(r)
    BY <1>3, SeqIsSeq
  <1> HIDE DEF r
  <1>5. ASSUME NEW i \in 1..Len(r)
        PROVE  i \in 1..b - a + 1 /\ a + i - 1 \in 1..Len(s) /\ r[i] = s[a + i - 1]
    <2>1. i \in 1..b - a + 1 /\ a + i - 1 \in 1..Len(s)
      BY <1>1, <1>3
    <2> QED
      BY <2>1, <1>3
  <1>6. \A i \in 1..Len(r) : FrameOK(C, E, r[i])
    BY <1>1, <1>5
  <1>7. ASSUME NEW i \in 1..Len(r) - 1 PROVE Answers(r[i], r[i + 1])
    <2>1. Len(r) \in Nat
      BY <1>3
    <2>2. i \in 1..Len(r) /\ i + 1 \in 1..Len(r)
      BY <2>1
    <2>3. r[i] = s[a + i - 1] /\ r[i + 1] = s[a + (i + 1) - 1]
      BY <2>2, <1>5
    <2>4. a + i - 1 \in 1..Len(s) /\ a + (i + 1) - 1 \in 1..Len(s) /\ a + (i + 1) - 1 = (a + i - 1) + 1
      BY <2>2, <1>5
    <2>5. a + i - 1 \in 1..Len(s) - 1
      BY <2>4, <1>1
    <2> QED
      BY <2>3, <2>4, <2>5, <1>1
  <1>8. ASSUME r # <<>> PROVE ValueOK(C, E, r[1], w)
    <2>1. Len(r) # 0
      BY <1>4, <1>8, IsSeqLen
    <2>2. a <= b /\ r[1] = s[a]
      BY <2>1, <1>3
    <2> QED
      BY <2>2
  <1> QED
    BY <1>4, <1>6, <1>7, <1>8 DEF ThreadOK, r

\* The channel breaks: the caller's thread and the peer's each go on with their part
\* of the calls.
LEMMA RpcBreakKeeps ==
  ASSUME InFlightOK, NEW t \in Threads, NEW u \in Threads, RpcBreak(t, u)
  PROVE  InFlightOK'
  <1> DEFINE s == stack[t]
  <1>1. PICK k \in 2..Len(s) :
          /\ s[k].op = "rpc"
          /\ stack' = [stack EXCEPT ![t] = SubSeq(@, k + 1, Len(@)), ![u] = SubSeq(s, 1, k - 1)]
          /\ ret' = [ret EXCEPT ![t] = Result(s[k].to, s[k].rpc, NotOk), ![u] = ret[t]]
    BY DEF RpcBreak
  <1>2. stack[u] = <<>> /\ conns' = conns /\ entries' = entries
    BY DEF RpcBreak
  <1>3. /\ stack = [x \in Threads |-> stack[x]] /\ ret = [x \in Threads |-> ret[x]]
        /\ \A x \in Threads : ThreadOK(conns, entries, stack[x], ret[x])
    BY DEF InFlightOK, CallsOK
  <1>4. IsSeq(s) /\ Len(s) \in Nat /\ s # <<>>
    <2>1. IsSeq(s)
      BY <1>3 DEF ThreadOK
    <2>2. Len(s) \in Nat /\ (s = <<>> <=> Len(s) = 0)
      BY <2>1, IsSeqLen
    <2> QED
      BY <2>1, <2>2
  <1>5. t # u
    BY <1>2, <1>4
  <1> DEFINE w == Result(s[k].to, s[k].rpc, NotOk)
             a == SubSeq(s, k + 1, Len(s))
             b == SubSeq(s, 1, k - 1)
  <1>6. /\ stack' = [x \in Threads |-> IF x = t THEN a ELSE IF x = u THEN b ELSE stack[x]]
        /\ ret' = [x \in Threads |-> IF x = t THEN w ELSE IF x = u THEN ret[t] ELSE ret[x]]
    BY <1>1, <1>3, <1>5
  <1> HIDE DEF s, w
  <1>7. ThreadOK(conns, entries, s, ret[t])
    BY <1>3 DEF s
  <1>8. ThreadOK(conns, entries, a, w)
    <2>1. k + 1 \in Nat \ {0} /\ Len(s) <= Len(s) /\ k \in 1..Len(s)
      BY <1>4
    <2>2. ASSUME k + 1 <= Len(s) PROVE ValueOK(conns, entries, s[k + 1], w)
      <3>1. k \in 1..Len(s) - 1
        BY <2>2, <1>4
      <3>2. Answers(s[k], s[k + 1])
        BY <3>1, <1>7 DEF ThreadOK
      <3> QED
        BY <3>2, <1>1, FailureAnswers DEF InFlightOK, w
    <2> QED
      BY <2>1, <2>2, <1>4, <1>7, PartOfCalls
  <1>9. ThreadOK(conns, entries, b, ret[t])
    <2>1. k - 1 \in Nat /\ k - 1 <= Len(s) /\ 1 \in Nat \ {0}
      BY <1>4
    <2>2. ValueOK(conns, entries, s[1], ret[t])
      BY <1>4, <1>7 DEF ThreadOK
    <2> QED
      BY <2>1, <2>2, <1>7, PartOfCalls
  <1> HIDE DEF a, b
  <1>10. \A x \in Threads : ThreadOK(conns, entries, stack'[x], ret'[x])
    BY <1>3, <1>6, <1>8, <1>9
  <1>11. stack' = [x \in Threads |-> stack'[x]] /\ ret' = [x \in Threads |-> ret'[x]]
    BY <1>6
  <1> QED
    BY <1>2, <1>10, <1>11 DEF InFlightOK, CallsOK

-----------------------------------------------------------------------------
(***************************************************************************)
(* Commands.                                                               *)
(***************************************************************************)

\* BrokerBase::append, replace and erase.
LEMMA AppendCommandKeeps ==
  ASSUME InFlightOK, NEW t \in Threads, NEW n \in Owned, NEW value \in Amount, NEW alters \in Version,
         AppendCommand(t, n, value, alters)
  PROVE  InFlightOK'
  <1> DEFINE f == AppendCall(n, [id |-> IdOf[n], value |-> value, alters |-> alters])
  <1>1. Start(t, f) /\ conns' = conns /\ entries' = entries /\ ret' = ret
    BY DEF AppendCommand
  <1>2. IdOf[n] = n
    BY ProcessAssumption, Ids
  <1>3. AppendOK(f) /\ f.op = "append"
    BY <1>2 DEF AppendOK, AppendCall
  <1>4. FrameOK(conns, entries, f) /\ ValueOK(conns, entries, f, ret[t])
    BY <1>3, NoWait DEF FrameOK
  <1> HIDE DEF f
  <1>5. Sound
    BY <1>1, AllSame
  <1> QED
    BY <1>1, <1>4, <1>5, StartKeeps

\* connect with the url of another broker.
LEMMA ConnectCommandKeeps ==
  ASSUME InFlightOK, NEW t \in Threads, NEW n \in Started, NEW m \in Started, ConnectCommand(t, n, m)
  PROVE  InFlightOK'
  <1> DEFINE f == ConnectCall(n, m)
  <1>1. Start(t, f) /\ conns' = conns /\ entries' = entries /\ ret' = ret
    BY DEF ConnectCommand
  <1>2. ConnectOK(conns, entries, f) /\ f.op = "connect" /\ f.pc = "enter"
    BY DEF ConnectOK, ConnectCall
  <1>3. ~AwaitsList(f) /\ ~AwaitsConnection(f)
    BY <1>2 DEF AwaitsList, AwaitsConnection
  <1>4. FrameOK(conns, entries, f) /\ ValueOK(conns, entries, f, ret[t])
    BY <1>2, <1>3 DEF FrameOK, ValueOK
  <1> HIDE DEF f
  <1>5. Sound
    BY <1>1, AllSame
  <1> QED
    BY <1>1, <1>4, <1>5, StartKeeps

\* Broker::disconnect tells the peer.
LEMMA DisconnectCommandKeeps ==
  ASSUME InFlightOK, NEW t \in Threads, NEW n \in Started, NEW p \in 1..Len(conns[n]) - 1,
         DisconnectCommand(t, n, p)
  PROVE  InFlightOK'
  <1> DEFINE c == Conn(n, p)
             f == [op |-> "disconnect", node |-> n, port |-> p]
             g == Refresh(n, c.peer, NoConnection, c.source)
             s == <<g, f>>
  <1>1. stack' = [stack EXCEPT ![t] = s] /\ conns' = conns /\ entries' = entries /\ ret' = ret
    BY DEF DisconnectCommand
  <1>2. n \in Brokers /\ n \in Nodes /\ Len(conns[n]) \in Nat
    BY Ids, ConnsLen DEF InFlightOK, Nodes
  <1>3. p \in Nat \ {0} /\ p < Len(conns[n]) /\ p \in 0..Len(conns[n]) - 1
    <2> DEFINE L == Len(conns[n])
    <2>1. L \in Nat /\ p \in 1..L - 1
      BY <1>2
    <2> HIDE DEF L
    <2>2. p \in Nat \ {0} /\ p < L /\ p \in 0..L - 1
      BY <2>1
    <2> QED
      BY <2>2 DEF L
  <1>4. PortOK(conns, n, c)
    BY <1>2, <1>3, OpenPort
  <1>5. RefreshFits(conns, c.peer, c.source, 0)
    BY <1>2, <1>3, AnnouncementFits DEF InFlightOK, Conn
  <1>6. NoConnection.source = 0
    BY DEF NoConnection
  <1>7. DisconnectOK(conns, f) /\ f.op = "disconnect"
    BY <1>3 DEF DisconnectOK, HasPort
  <1> HIDE DEF c, f
  <1>8. FrameOK(conns, entries, g) /\ \A w : ValueOK(conns, entries, g, w)
    BY <1>2, <1>4, <1>5, <1>6, RefreshMade DEF PortOK
  <1> HIDE DEF g
  <1>9. FrameOK(conns, entries, f) /\ Answers(g, f)
    BY <1>7, NoWait DEF FrameOK
  <1>10. s \in Seq({g, f}) /\ Len(s) = 2 /\ s[1] = g /\ s[2] = f
    OBVIOUS
  <1> HIDE DEF s
  <1>11. IsSeq(s)
    BY <1>10, SeqIsSeq
  <1>12. ThreadOK(conns, entries, s, ret[t])
    BY <1>8, <1>9, <1>10, <1>11 DEF ThreadOK
  <1>13. Sound
    BY <1>1, AllSame
  <1>14. ret' = [ret EXCEPT ![t] = ret[t]]
    BY <1>1, KeepsRet
  <1> QED
    BY <1>1, <1>12, <1>13, <1>14, StepKeeps

\* relay at a broker.
LEMMA RelayCommandKeeps ==
  ASSUME InFlightOK, NEW t \in Threads, NEW n \in Started, NEW id, NEW value \in Amount,
         NEW alters \in Version, RelayCommand(t, n, id, value, alters)
  PROVE  InFlightOK'
  <1> DEFINE d == [id |-> id, value |-> value, alters |-> alters]
             f == RelayCall(n, d, 0)
  <1>1. Start(t, f) /\ conns' = conns /\ entries' = entries /\ ret' = ret
    BY DEF RelayCommand
  <1>2. RelayOK(f) /\ f.op = "relay"
    BY Ids DEF RelayOK, RelayCall, RelayData, Nodes
  <1> HIDE DEF f
  <1>3. FrameOK(conns, entries, f) /\ ValueOK(conns, entries, f, ret[t])
    BY <1>2, NoWait DEF FrameOK
  <1>4. Sound
    BY <1>1, AllSame
  <1> QED
    BY <1>1, <1>3, <1>4, StartKeeps

\* A request of a client.
LEMMA ClientCommandKeeps ==
  ASSUME InFlightOK, NEW t \in Threads, NEW n \in Started, NEW rpc, NEW request,
         rpc \in {"Connect", "Relay", "Sources"}, rpc = "Connect" => request.source = 0,
         RequestOK(conns, entries, n, rpc, request),
         ClientCommand(t, n, rpc, request)
  PROVE  InFlightOK'
  <1> DEFINE f == Stub(NoPeer, n, rpc, request)
  <1>1. Start(t, f) /\ conns' = conns /\ entries' = entries /\ ret' = ret
    BY DEF ClientCommand
  <1>2. RpcOK(conns, entries, f) /\ f.op = "rpc" /\ f.pc = "send"
    BY Ids DEF RpcOK, Stub, Nodes, Reads
  <1> HIDE DEF f
  <1>3. FrameOK(conns, entries, f) /\ ValueOK(conns, entries, f, ret[t])
    BY <1>2, Unsent DEF FrameOK
  <1>4. Sound
    BY <1>1, AllSame
  <1> QED
    BY <1>1, <1>3, <1>4, StartKeeps

\* A client's relay, which adds an entry.
LEMMA ClientRelayKeeps ==
  ASSUME InFlightOK, NEW t \in Threads, NEW n \in Started, NEW id, NEW value \in Amount,
         NEW alters \in Version, ClientRelay(t, n, id, value, alters)
  PROVE  InFlightOK'
  <1> DEFINE d == [id |-> id, value |-> value, alters |-> alters]
             r == [sender |-> 0, entry |-> SetData(d)]
  <1>1. ClientCommand(t, n, "Relay", r)
    BY DEF ClientRelay
  <1>2. RelayData(d)
    BY DEF RelayData
  <1> HIDE DEF d
  <1>3. RelayData(DataFrom(r.entry))
    BY <1>2, RelaySurvives
  <1>4. RequestOK(conns, entries, n, "Relay", r)
    BY <1>3 DEF RequestOK
  <1> QED
    BY <1>1, <1>4, ClientCommandKeeps

\* A client's sources.
LEMMA ClientSourcesKeeps ==
  ASSUME InFlightOK, NEW t \in Threads, NEW n \in Started, ClientSources(t, n)
  PROVE  InFlightOK'
  <1>1. ClientCommand(t, n, "Sources", [sender |-> 0])
    BY DEF ClientSources
  <1>2. RequestOK(conns, entries, n, "Sources", [sender |-> 0])
    BY DEF RequestOK
  <1> QED
    BY <1>1, <1>2, ClientCommandKeeps

\* A client's connect.
LEMMA ClientConnectKeeps ==
  ASSUME InFlightOK, NEW t \in Threads, NEW n \in Started, NEW m \in Started, ClientConnect(t, n, m)
  PROVE  InFlightOK'
  <1> DEFINE r == [source |-> 0, clock |-> SetClock(EmptyClock), broker |-> m,
                   sources |-> SetIdConnectionInfoMap(NoProvides)]
  <1>1. ClientCommand(t, n, "Connect", r)
    BY DEF ClientConnect
  <1>2. RequestOK(conns, entries, n, "Connect", r)
    BY DEF RequestOK
  <1> QED
    BY <1>1, <1>2, ClientCommandKeeps

-----------------------------------------------------------------------------
(***************************************************************************)
(* All steps.                                                              *)
(***************************************************************************)

\* At the start every broker has its port 0, nothing is stored and nobody calls.
LEMMA InitInFlight ==
  ASSUME Init
  PROVE  InFlightOK
  <1>1. ConnsOK(conns)
    <2>1. conns = [n \in Brokers |-> <<NoConnection>>]
      BY DEF Init
    <2>2. IsConnection(NoConnection) /\ NoConnection.peer = NoPeer /\ NoConnection.source = 0
      BY DEF NoConnection, IsConnection
    <2> DEFINE s == <<NoConnection>>
    <2>3. s \in Seq({NoConnection}) /\ Len(s) = 1 /\ s[1] = NoConnection /\ s # <<>>
      OBVIOUS
    <2>4. conns = [n \in Brokers |-> s]
      BY <2>1
    <2> HIDE DEF s
    <2>5. IsSeq(s)
      BY <2>3, SeqIsSeq
    <2>6. \A n \in Brokers : PortOK(conns, n, NoConnection)
      BY <2>2, Ids DEF PortOK, Paired, Nodes
    <2>7. \A n \in Brokers : conns[n] = s
      BY <2>4
    <2>8. ASSUME NEW n \in Brokers PROVE PortsOK(conns, n)
      <3>1. \A i \in 1..Len(s) : s[i] = NoConnection
        BY <2>3
      <3> QED
        BY <3>1, <2>2, <2>3, <2>5, <2>6, <2>7 DEF PortsOK
    <2>9. conns = [n \in Brokers |-> conns[n]]
      BY <2>4
    <2> QED
      BY <2>8, <2>9 DEF ConnsOK
  <1>2. StoresOK(entries)
    <2>1. entries = [n \in Journals |-> {}]
      BY DEF Init
    <2> QED
      BY <2>1, FS_EmptySet DEF StoresOK
  <1>3. CallsOK(conns, entries, stack, ret)
    <2>1. stack = [t \in Threads |-> <<>>] /\ ret = [t \in Threads |-> Done]
      BY DEF Init
    <2>2. <<>> \in Seq({}) /\ Len(<<>>) = 0
      BY EmptySeq
    <2>3. IsSeq(<<>>)
      BY <2>2, SeqIsSeq
    <2>4. ThreadOK(conns, entries, <<>>, Done)
      BY <2>2, <2>3 DEF ThreadOK
    <2> QED
      BY <2>1, <2>4 DEF CallsOK
  <1> QED
    BY <1>1, <1>2, <1>3 DEF InFlightOK

\* What is known of a call's order does not depend on what no variable says.
LEMMA StutterInFlight ==
  ASSUME InFlightOK, UNCHANGED vars
  PROVE  InFlightOK'
  BY DEF vars, InFlightOK

\* Every step keeps the calls in flight in order.
LEMMA NextInFlight ==
  ASSUME InFlightOK, PoolInv, WellRouted, [Next]_vars
  PROVE  InFlightOK'
  <1>1. CASE UNCHANGED vars
    BY <1>1, StutterInFlight
  <1>2. ASSUME NEW t \in Threads, InsertStep(t) PROVE InFlightOK'
    BY <1>2, InsertEnterKeeps, AppendEnterKeeps, InsertForwardKeeps, InsertForwardedKeeps,
       InsertReturnKeeps, InsertListNextKeeps, InsertListReturnKeeps DEF InsertStep
  <1>3. ASSUME NEW t \in Threads, RefreshStep(t) PROVE InFlightOK'
    BY <1>3, RefreshUnknownKeeps, RefreshEnterKeeps, RefreshNextKeeps, RefreshReturnKeeps DEF RefreshStep
  <1>4. ASSUME NEW t \in Threads, QueryStep(t) PROVE InFlightOK'
    BY <1>4, QueryJournalKeeps, QueryHubKeeps, QueryReturnKeeps, QueryNothingKeeps DEF QueryStep
  <1>5. ASSUME NEW t \in Threads, ConnectStep(t) PROVE InFlightOK'
    BY <1>5, AcceptEnterKeeps, AcceptReturnKeeps, ConnectEnterKeeps, ConnectAnsweredKeeps, ConnectMineKeeps,
       ConnectTheirsKeeps, ConnectInsertedKeeps, ConnectSentKeeps, ConnectReturnKeeps DEF ConnectStep
  <1>6. ASSUME NEW t \in Threads, DisconnectReset(t) \/ RelayStep(t) PROVE InFlightOK'
    BY <1>6, DisconnectResetKeeps, RelayUnknownKeeps, RelayHereKeeps, RelayOnKeeps, RelayReturnKeeps DEF RelayStep
  <1>7. ASSUME NEW t \in Threads, RpcStep(t) \/ Fault(t) PROVE InFlightOK'
    BY <1>7, RpcServeKeeps, RpcAnswerKeeps, RpcFailKeeps, RpcBreakKeeps DEF RpcStep, Fault
  <1>8. ASSUME NEW t \in Threads, Command(t) PROVE InFlightOK'
    BY <1>8, AppendCommandKeeps, ConnectCommandKeeps, DisconnectCommandKeeps, RelayCommandKeeps,
       ClientRelayKeeps, ClientConnectKeeps, ClientSourcesKeeps DEF Command
  <1> QED
    BY <1>1, <1>2, <1>3, <1>4, <1>5, <1>6, <1>7, <1>8 DEF Next, Machine, LocalStep

-----------------------------------------------------------------------------
(***************************************************************************)
(* What the steps are to the pool.  Most of them it does not see: they     *)
(* store nothing and leave every broker's own clock alone.                 *)
(***************************************************************************)
Unseen == entries' = entries /\ \A n \in Brokers : conns'[n][1].clock = conns[n][1].clock

\* A broker's own clock is at its port 0.
LEMMA OwnClock == \A n : ClockOf(n) = conns[n][1].clock
  BY DEF ClockOf, Conn

\* The pool does not see such a step.
LEMMA UnseenStutters ==
  ASSUME Unseen
  PROVE  UNCHANGED PoolProofs!vars
  <1>1. \A n \in Owned : conns'[n][1].clock = conns[n][1].clock
    BY Ids DEF Unseen
  <1>2. [n \in Owned |-> ClockOf(n)]' = [n \in Owned |-> ClockOf(n)]
    BY <1>1, OwnClock DEF ClockOf, Conn
  <1>3. [n \in Owned |-> entries[n]]' = [n \in Owned |-> entries[n]]
    BY DEF Unseen
  <1> QED
    BY <1>2, <1>3 DEF PoolProofs!vars

\* A port other than port 0 has changed.
LEMMA PutUnseen ==
  ASSUME InFlightOK, NEW n, NEW i, i # 1, NEW x, conns' = Put(conns, n, i, x), entries' = entries
  PROVE  Unseen
  <1>1. conns = [m \in Brokers |-> conns[m]]
    BY DEF InFlightOK, ConnsOK
  <1>2. ASSUME NEW m \in Brokers PROVE conns'[m][1] = conns[m][1]
    <2>1. conns'[m] = IF m = n THEN [conns[m] EXCEPT ![i] = x] ELSE conns[m]
      BY <1>1 DEF Put
    <2> QED
      BY <2>1
  <1> QED
    BY <1>2 DEF Unseen

\* A broker has one more port.
LEMMA OpenedUnseen ==
  ASSUME InFlightOK, NEW n \in Brokers, NEW c, conns' = Opened(conns, n, c), entries' = entries
  PROVE  Unseen
  <1>1. conns = [m \in Brokers |-> conns[m]] /\ Len(conns[n]) \in Nat \ {0} /\ IsSeq(conns[n])
    BY ConnsLen DEF InFlightOK, ConnsOK, PortsOK
  <1>2. Append(conns[n], c)[1] = conns[n][1]
    <2> DEFINE S == {conns[n][i] : i \in 1..Len(conns[n])} \cup {c}
    <2>1. conns[n] \in Seq(S) /\ c \in S /\ 1 \in 1..Len(conns[n])
      BY <1>1, SeqMonotonic DEF IsSeq
    <2> HIDE DEF S
    <2> QED
      BY <2>1, AppendProperties
  <1>3. \A m \in Brokers : conns'[m] = IF m = n THEN Append(conns[m], c) ELSE conns[m]
    BY <1>1 DEF Opened
  <1> QED
    BY <1>2, <1>3 DEF Unseen

\* The steps of connect, refresh and disconnect, and the note of Connection::insert.
LEMMA AcceptEnterUnseen ==
  ASSUME InFlightOK, NEW t \in Threads, AcceptEnter(t)
  PROVE  Unseen
  <1> DEFINE n == Frame(t).node
             c == [Frame(t).data EXCEPT !.provides = Raised(@, ClockOf(n))]
  <1>1. Running(t, "accept") /\ conns' = Opened(conns, n, c) /\ entries' = entries
    BY DEF AcceptEnter, Opened
  <1>2. n \in Brokers
    BY <1>1, Runs, Kinds, Ids DEF AcceptOK
  <1> QED
    BY <1>1, <1>2, OpenedUnseen

\* The pool does not see the asking broker's new port,
LEMMA ConnectEnterUnseen ==
  ASSUME InFlightOK, NEW t \in Threads, ConnectEnter(t)
  PROVE  Unseen
  <1> DEFINE n == Frame(t).node
             c == [NoConnection EXCEPT !.peer = Frame(t).to]
  <1>1. Running(t, "connect") /\ conns' = Opened(conns, n, c) /\ entries' = entries
    BY DEF ConnectEnter, Opened
  <1>2. n \in Brokers
    BY <1>1, Runs, Kinds, Ids DEF ConnectOK
  <1> QED
    BY <1>1, <1>2, OpenedUnseen

\* nor what the peer answers,
LEMMA ConnectAnsweredUnseen ==
  ASSUME InFlightOK, NEW t \in Threads, ConnectAnswered(t)
  PROVE  Unseen
  <1> DEFINE n == Frame(t).node
             p == Frame(t).port
             a == ret[t].conn
             c == ConnectionOf(Conn(n, p).peer, a.source, a.clock, a.provides)
  <1>1. /\ Running(t, "connect") /\ Frame(t).pc = "answered" /\ entries' = entries
        /\ conns' = Announced(conns, n, p + 1, a.source, a.clock, a.provides)
    BY DEF ConnectAnswered, Announced
  <1>2. /\ n \in DOMAIN conns /\ p + 1 \in DOMAIN conns[n] /\ PortOK(conns, n, Conn(n, p)) /\ p \in Nat
        /\ ConnectOK(conns, entries, Frame(t))
    BY <1>1, Connecting
  <1>3. p \in Nat /\ p # 0
    BY <1>1, <1>2 DEF ConnectOK, LeadsTo
  <1>4. conns' = Put(conns, n, p + 1, c)
    <2>1. IsConnection(conns[n][p + 1])
      BY <1>2 DEF PortOK, Conn
    <2> QED
      BY <2>1, <1>1, <1>2, PutAnnounced DEF Conn
  <1> HIDE DEF n, p, c
  <1>5. p + 1 # 1
    BY <1>3
  <1> QED
    BY <1>1, <1>4, <1>5, PutUnseen

\* nor the peer's clock,
LEMMA ConnectSentUnseen ==
  ASSUME InFlightOK, NEW t \in Threads, ConnectSent(t)
  PROVE  Unseen
  <1> DEFINE n == Frame(t).node
             p == Frame(t).port
             d == Raised(Conn(n, p).provides, ret[t].clock)
             c == ConnectionOf(Conn(n, p).peer, Conn(n, p).source, Conn(n, p).clock, d)
  <1>1. /\ Running(t, "connect") /\ Frame(t).pc = "sent" /\ entries' = entries
        /\ conns' = conns \/ conns' = NotedTable(conns, n, p + 1, d)
    BY DEF ConnectSent, NotedTable, Conn
  <1>2. /\ n \in DOMAIN conns /\ p + 1 \in DOMAIN conns[n] /\ PortOK(conns, n, Conn(n, p)) /\ p \in Nat
        /\ ConnectOK(conns, entries, Frame(t))
    BY <1>1, Connecting
  <1>3. p \in Nat /\ p # 0
    BY <1>1, <1>2 DEF ConnectOK, LeadsTo
  <1> HIDE DEF d
  <1>4. NotedTable(conns, n, p + 1, d) = Put(conns, n, p + 1, c)
    <2>1. IsConnection(conns[n][p + 1])
      BY <1>2 DEF PortOK, Conn
    <2> QED
      BY <2>1, <1>2, PutNotedTable DEF Conn
  <1> HIDE DEF n, p, c
  <1>5. p + 1 # 1
    BY <1>3
  <1>6. CASE conns' = conns
    BY <1>1, <1>6 DEF Unseen
  <1> QED
    BY <1>1, <1>4, <1>5, <1>6, PutUnseen

\* nor an announcement,
LEMMA RefreshEnterUnseen ==
  ASSUME InFlightOK, NEW t \in Threads, RefreshEnter(t)
  PROVE  Unseen
  <1> DEFINE n == Frame(t).node
             p == Frame(t).sender
             d == Frame(t).data
             c == ConnectionOf(Conn(n, p).peer, d.source, d.clock, d.provides)
  <1>1. /\ Running(t, "refresh") /\ p \in 1..Len(conns[n]) - 1 /\ entries' = entries
        /\ conns' = Announced(conns, n, p + 1, d.source, d.clock, d.provides)
    BY DEF RefreshEnter, Announced
  <1>2. Frame(t).node # NoPeer /\ RefreshOK(conns, Frame(t))
    BY <1>1, Runs, Kinds
  <1>3. n \in Brokers /\ p \in Nat /\ Len(conns[n]) \in Nat
    BY <1>2, ConnsLen DEF RefreshOK, Nodes, InFlightOK
  <1> HIDE DEF n, p, d
  <1>4. p < Len(conns[n]) /\ p + 1 # 1
    BY <1>1, <1>3
  <1>5. n \in DOMAIN conns /\ p + 1 \in DOMAIN conns[n] /\ IsConnection(conns[n][p + 1])
    BY <1>3, <1>4, OpenPort
  <1>6. conns' = Put(conns, n, p + 1, c)
    BY <1>1, <1>5, PutAnnounced DEF Conn
  <1> HIDE DEF c
  <1> QED
    BY <1>1, <1>4, <1>6, PutUnseen

\* nor the end of a connection,
LEMMA DisconnectResetUnseen ==
  ASSUME InFlightOK, NEW t \in Threads, DisconnectReset(t)
  PROVE  Unseen
  <1> DEFINE n == Frame(t).node
             p == Frame(t).port
             c == ConnectionOf(NoPeer, Conn(n, p).source, Conn(n, p).clock, Conn(n, p).provides)
  <1>1. Running(t, "disconnect") /\ conns' = Closed(conns, n, p + 1) /\ entries' = entries
    BY DEF DisconnectReset, Closed
  <1>2. DisconnectOK(conns, Frame(t))
    BY <1>1, Runs, Kinds
  <1>3. n \in Brokers /\ p \in Nat /\ p # 0 /\ p < Len(conns[n])
    BY <1>2, Ids DEF DisconnectOK, HasPort
  <1> HIDE DEF n, p
  <1>4. n \in DOMAIN conns /\ p + 1 \in DOMAIN conns[n] /\ IsConnection(conns[n][p + 1])
    BY <1>3, OpenPort
  <1>5. conns' = Put(conns, n, p + 1, c)
    BY <1>1, <1>4, PutClosed DEF Conn
  <1> HIDE DEF c
  <1>6. p + 1 # 1
    BY <1>3
  <1> QED
    BY <1>1, <1>5, <1>6, PutUnseen

\* nor what a peer says of an entry that it was sent.
LEMMA InsertForwardedUnseen ==
  ASSUME InFlightOK, NEW t \in Threads, InsertForwarded(t)
  PROVE  Unseen
  <1> DEFINE n == Frame(t).node
             p == Frame(t).port
             d == Raised(Conn(n, p).provides, Frame(t).entry.clock)
             c == ConnectionOf(Conn(n, p).peer, Conn(n, p).source, ret[t].clock, d)
  <1>1. /\ Running(t, "insert") /\ Frame(t).pc = "await" /\ entries' = entries
        /\ conns' = conns \/ conns' = Noted(conns, n, p + 1, ret[t].clock, d)
    BY DEF InsertForwarded, Noted, Conn
  <1>2. InsertOK(conns, entries, Frame(t))
    BY <1>1, Runs, Kinds
  <1>3. n \in Brokers /\ p \in Nat /\ p # 0 /\ p < Len(conns[n])
    BY <1>1, <1>2, Ids DEF InsertOK, HasPort
  <1> HIDE DEF n, p, d
  <1>4. n \in DOMAIN conns /\ p + 1 \in DOMAIN conns[n] /\ IsConnection(conns[n][p + 1])
    BY <1>3, OpenPort
  <1>5. Noted(conns, n, p + 1, ret[t].clock, d) = Put(conns, n, p + 1, c)
    BY <1>4, PutNoted DEF Conn
  <1> HIDE DEF c
  <1>6. p + 1 # 1
    BY <1>3
  <1>7. CASE conns' = conns
    BY <1>1, <1>7 DEF Unseen
  <1> QED
    BY <1>1, <1>5, <1>6, <1>7, PutUnseen

-----------------------------------------------------------------------------
(***************************************************************************)
(* The steps that store an entry at the journal of a user are the pool's.  *)
(***************************************************************************)

\* Both modules use the clocks of module Clocks.
LEMMA SameClocks ==
  /\ \A c, d : PoolProofs!Merge(c, d) = Merge(c, d)
  /\ \A c, i : PoolProofs!At(c, i) = At(c, i)
  /\ \A c, i : PoolProofs!Tick(c, i) = Tick(c, i)
  /\ \A c, d, i : PoolProofs!IsNext(c, d, i) <=> IsNext(c, d, i)
  /\ PoolProofs!EmptyClock = EmptyClock
  BY DEF PoolProofs!Merge, Merge, PoolProofs!At, At, PoolProofs!Tick, Tick, PoolProofs!IsNext, IsNext,
         PoolProofs!EmptyClock, EmptyClock

\* A journal that has an entry is past it: isNext refuses the entry, so that also
\* JournalFile::save, which looks for no clock, stores no clock twice.
LEMMA NextIsNew ==
  ASSUME PoolInv, NEW n \in Owned, NEW e, IsNext(e.clock, ClockOf(n), e.id), NEW f \in entries[n]
  PROVE  f.clock # e.clock
  <1> DEFINE c == ClockOf(n)
             i == e.id
  <1>1. c \in ClocksOver(Owned, 1..MaxTime)
    BY DEF PoolInv, PoolProofs!IInv, PoolProofs!TypeOK, PoolProofs!Clock, PoolProofs!ClocksOver, ClocksOver
  <1>2. Leq(f.clock, c)
    BY DEF PoolInv, PoolProofs!IInv, PoolProofs!ClockCoversEntries, PoolProofs!Leq, Leq
  <1>3. c \in [DOMAIN c -> 1..MaxTime]
    BY <1>1, ClockShape
  <1> SUFFICES ASSUME f.clock = e.clock PROVE FALSE
    OBVIOUS
  <1> HIDE DEF c, i
  <1>4. i \in DOMAIN e.clock /\ (IF i \notin DOMAIN c THEN e.clock[i] = 1 ELSE e.clock[i] = c[i] + 1)
    BY DEF IsNext, c, i
  <1>5. i \in DOMAIN c /\ e.clock[i] <= c[i]
    BY <1>2, <1>4 DEF Leq
  <1>6. c[i] \in Nat
    BY <1>3, <1>5, MaxTimeAssumption
  <1> QED
    BY <1>4, <1>5, <1>6

\* JournalBase::insert with Broker::insert, where the sender's port exists, is the
\* pool's insert at a user's journal; elsewhere the pool does not see it.
LEMMA InsertsInPool ==
  ASSUME InFlightOK, PoolInv, NEW t \in Threads, NEW n \in Brokers, NEW e, NEW source \in Nat,
         HasPort(conns, n, source), InsertLocally(t, n, e, source)
  PROVE  UNCHANGED PoolProofs!vars \/ (n \in Owned /\ PoolProofs!Insert(n, e))
  <1> DEFINE c == Merge(ClockOf(n), e.clock)
             D == [conns EXCEPT ![n] = Advanced(conns[n], source, e.id, c)]
  <1>1. CASE ~Accepts(n, e)
    <2>1. conns' = conns /\ entries' = entries
      BY <1>1 DEF InsertLocally
    <2>2. Unseen
      BY <2>1 DEF Unseen
    <2> QED
      BY <2>2, UnseenStutters
  <1>2. CASE Accepts(n, e)
    <2>1. entries = [m \in Journals |-> entries[m]] /\ Len(conns[n]) \in Nat \ {0}
      BY ConnsLen DEF InFlightOK, StoresOK
    <2>2. \A m \in Owned : entries'[m] = IF m = n THEN entries[m] \cup {e} ELSE entries[m]
      <3>1. entries' = IF n \in Journals THEN [entries EXCEPT ![n] = @ \cup {e}] ELSE entries
        BY <1>2 DEF InsertLocally
      <3> QED
        BY <2>1, <3>1, Ids
    <2>3. \A m \in Brokers : m # n => conns'[m] = conns[m]
      <3>1. CASE source >= Len(conns[n])
        BY <1>2, <3>1 DEF InsertLocally
      <3>2. CASE ~(source >= Len(conns[n]))
        <4>1. conns' = D
          BY <1>2, <3>2 DEF InsertLocally
        <4>2. source \in 0..Len(conns[n]) - 1
          BY <2>1, <3>2
        <4> QED
          BY <4>1, <4>2, PortsGrow
      <3> QED
        BY <3>1, <3>2
    <2>4. CASE n \notin Owned
      <3>1. \A m \in Owned : entries'[m] = entries[m] /\ conns'[m] = conns[m]
        BY <2>2, <2>3, <2>4, Ids
      <3>2. [m \in Owned |-> entries[m]]' = [m \in Owned |-> entries[m]]
        BY <3>1
      <3>3. [m \in Owned |-> ClockOf(m)]' = [m \in Owned |-> ClockOf(m)]
        BY <3>1 DEF ClockOf, Conn
      <3> QED
        BY <3>2, <3>3 DEF PoolProofs!vars
    <2>5. CASE n \in Owned
      <3>1. source < Len(conns[n]) /\ n \in Journals
        BY <2>5, Ids DEF HasPort
      <3>2. source \in 0..Len(conns[n]) - 1 /\ ~(source >= Len(conns[n]))
        BY <2>1, <3>1
      <3>3. conns' = D
        BY <1>2, <3>2 DEF InsertLocally
      <3>4. conns'[n][1].clock = c
        <4>1. conns' = [conns EXCEPT ![n] = Advanced(conns[n], source, e.id, c)]
          BY <3>3
        <4> HIDE DEF c
        <4> QED
          BY <3>2, <4>1, PortsGrow
      <3>5. IsNext(e.clock, ClockOf(n), e.id)
        BY <1>2, <3>1 DEF Accepts
      <3>6. \A f \in entries[n] : f.clock # e.clock
        BY <2>5, <3>5, NextIsNew
      <3> DEFINE K == [m \in Owned |-> ClockOf(m)]
                 E == [m \in Owned |-> entries[m]]
      <3>7. E' = [m \in Owned |-> IF m = n THEN E[m] \cup {e} ELSE E[m]]
        BY <2>2
      <3>8. K' = [m \in Owned |-> IF m = n THEN Merge(K[m], e.clock) ELSE K[m]]
        <4>1. \A m \in Owned : (conns[m][1].clock)' = IF m = n THEN Merge(ClockOf(m), e.clock) ELSE ClockOf(m)
          BY <2>3, <3>4, Ids, OwnClock
        <4> QED
          BY <4>1 DEF ClockOf, Conn
      <3>9. K[n] = ClockOf(n) /\ E[n] = entries[n]
        BY <2>5
      <3>10. PoolProofs!IsNext(e.clock, K[n], e.id) /\ PoolProofs!Saves(n, e)
        BY <3>5, <3>6, <3>9, SameClocks DEF PoolProofs!Saves
      <3>11. E' = [E EXCEPT ![n] = @ \cup {e}]
        BY <2>5, <3>7
      <3>12. K' = [K EXCEPT ![n] = PoolProofs!Merge(@, e.clock)]
        BY <2>5, <3>8, SameClocks
      <3> QED
        BY <2>5, <3>10, <3>11, <3>12 DEF PoolProofs!Insert
    <2> QED
      BY <2>4, <2>5
  <1> QED
    BY <1>1, <1>2

\* An entry that arrives was stored by a user's journal before.
LEMMA InsertEnterInPool ==
  ASSUME InFlightOK, PoolInv, NEW t \in Threads, InsertEnter(t)
  PROVE  [PoolProofs!Next]_(PoolProofs!vars)
  <1>1. PICK n, e, source : n = Frame(t).node /\ e = Frame(t).entry /\ source = Frame(t).source
    OBVIOUS
  <1>2. Running(t, "insert") /\ InsertLocally(t, n, e, source)
    BY <1>1 DEF InsertEnter
  <1>3. Frame(t).node # NoPeer /\ InsertOK(conns, entries, Frame(t))
    BY <1>2, Runs, Kinds
  <1>4. n \in Brokers /\ e \in Made /\ source \in Nat /\ HasPort(conns, n, source)
    BY <1>1, <1>3 DEF InsertOK, Nodes, Made
  <1>5. UNCHANGED PoolProofs!vars \/ (n \in Owned /\ PoolProofs!Insert(n, e))
    BY <1>2, <1>4, InsertsInPool
  <1>6. \E m \in Owned : e \in [k \in Owned |-> entries[k]][m]
    BY <1>4 DEF Made, MadeIn
  <1> QED
    BY <1>5, <1>6 DEF PoolProofs!Next, PoolProofs!Receive

\* An entry that a user makes is the next of the journal.
LEMMA StampInPool ==
  ASSUME InFlightOK, PoolInv, NEW t \in Threads, NEW n \in Owned, NEW d, d.id = n, d.value \in Amount,
         d.alters \in Version, At(ClockOf(n), n) < MaxTime, InsertLocally(t, n, Stamp(n, d), 0)
  PROVE  [PoolProofs!Next]_(PoolProofs!vars)
  <1> DEFINE K == [m \in Owned |-> ClockOf(m)]
  <1>7. PICK e : e = Stamp(n, d)
    OBVIOUS
  <1>8. InsertLocally(t, n, e, 0)
    BY <1>7
  <1>1. n \in Brokers /\ HasPort(conns, n, 0)
    BY Ids, PairedAtZero DEF InFlightOK
  <1>2. UNCHANGED PoolProofs!vars \/ PoolProofs!Insert(n, e)
    BY <1>1, <1>8, InsertsInPool
  <1>3. e = [clock |-> PoolProofs!Tick(K[n], n), id |-> n, value |-> d.value, alters |-> d.alters]
    BY <1>7, SameClocks DEF Stamp
  <1>4. PoolProofs!At(K[n], n) < MaxTime
    BY SameClocks
  <1>5. d.alters \in PoolProofs!Clock
    BY DEF Version, ClocksOver, PoolProofs!Clock, PoolProofs!ClocksOver
  <1>6. CASE PoolProofs!Insert(n, e)
    <2>1. PICK value, alters : value = d.value /\ alters = d.alters
      OBVIOUS
    <2>2. e = [clock |-> PoolProofs!Tick(K[n], n), id |-> n, value |-> value, alters |-> alters]
      BY <2>1, <1>3
    <2>3. PoolProofs!AppendData(n, value, alters)
      BY <1>4, <1>6, <2>2 DEF PoolProofs!AppendData, PoolProofs!Insert, PoolProofs!Saves
    <2> QED
      BY <2>1, <2>3, <1>5 DEF PoolProofs!Next
  <1> QED
    BY <1>2, <1>6

\* append, replace and erase.
LEMMA AppendEnterInPool ==
  ASSUME InFlightOK, PoolInv, NEW t \in Threads, AppendEnter(t)
  PROVE  [PoolProofs!Next]_(PoolProofs!vars)
  <1> DEFINE n == Frame(t).node
             d == Frame(t).data
  <1>1. Running(t, "append") /\ InsertLocally(t, n, Stamp(n, d), 0) /\ At(ClockOf(n), d.id) < MaxTime
    BY DEF AppendEnter
  <1>2. AppendOK(Frame(t))
    BY <1>1, Runs, Kinds
  <1>3. n \in Owned /\ d.id = n /\ d.value \in Amount /\ d.alters \in Version
    BY <1>2 DEF AppendOK
  <1> QED
    BY <1>1, <1>3, StampInPool

\* A relay at the journal that it names.
LEMMA RelayHereInPool ==
  ASSUME InFlightOK, PoolInv, WellRouted, NEW t \in Threads, RelayHere(t)
  PROVE  [PoolProofs!Next]_(PoolProofs!vars)
  <1> DEFINE n == Frame(t).node
             d == Relayed(t)
  <1>1. /\ Running(t, "relay") /\ InsertLocally(t, n, Stamp(n, d), 0) /\ At(ClockOf(n), d.id) < MaxTime
        /\ Frame(t).pc = "enter" /\ \E r \in RelayRoutes(t) : r.distance = 0
    BY DEF RelayHere
  <1>2. stack[t] # <<>> /\ Frame(t).op = "relay" /\ Frame(t).node # NoPeer /\ RelayOK(Frame(t))
    BY <1>1, Runs, Kinds
  <1>3. n \in Owned /\ d.id = n
    BY <1>1, <1>2 DEF WellRouted
  <1>4. RelayData(d)
    BY <1>2, RelayedData DEF RelayOK
  <1> HIDE DEF d
  <1>5. d.value \in Amount /\ d.alters \in Version
    BY <1>4 DEF RelayData
  <1> QED
    BY <1>1, <1>3, <1>5, StampInPool

\* To the pool every step is one of its own, or nothing.
LEMMA NextInPool ==
  ASSUME InFlightOK, PoolInv, WellRouted, [Next]_vars
  PROVE  [PoolProofs!Next]_(PoolProofs!vars)
  <1> DEFINE P == [PoolProofs!Next]_(PoolProofs!vars)
  <1>1. (conns' = conns /\ entries' = entries) \/ Unseen => P
    <2>1. conns' = conns /\ entries' = entries => Unseen
      BY DEF Unseen
    <2> QED
      BY <2>1, UnseenStutters
  <1>2. CASE UNCHANGED vars
    BY <1>1, <1>2 DEF vars
  <1>3. ASSUME NEW t \in Threads, InsertStep(t) PROVE P
    <2>1. CASE InsertEnter(t) \/ AppendEnter(t)
      BY <2>1, InsertEnterInPool, AppendEnterInPool
    <2>2. CASE InsertForwarded(t)
      BY <2>2, <1>1, InsertForwardedUnseen
    <2>3. CASE InsertForward(t) \/ InsertReturn(t) \/ InsertListNext(t) \/ InsertListReturn(t)
      BY <2>3, <1>1 DEF InsertForward, InsertReturn, InsertListNext, InsertListReturn
    <2> QED
      BY <1>3, <2>1, <2>2, <2>3 DEF InsertStep
  <1>4. ASSUME NEW t \in Threads, RefreshStep(t) PROVE P
    <2>1. CASE RefreshEnter(t)
      BY <2>1, <1>1, RefreshEnterUnseen
    <2>2. CASE RefreshUnknown(t) \/ RefreshNext(t) \/ RefreshReturn(t)
      BY <2>2, <1>1 DEF RefreshUnknown, RefreshNext, RefreshReturn
    <2> QED
      BY <1>4, <2>1, <2>2 DEF RefreshStep
  <1>5. ASSUME NEW t \in Threads, QueryStep(t) PROVE P
    BY <1>5, <1>1 DEF QueryStep, QueryJournal, QueryHub, QueryReturn, QueryNothing
  <1>6. ASSUME NEW t \in Threads, ConnectStep(t) PROVE P
    <2>1. CASE AcceptEnter(t) \/ ConnectEnter(t) \/ ConnectAnswered(t) \/ ConnectSent(t)
      BY <2>1, <1>1, AcceptEnterUnseen, ConnectEnterUnseen, ConnectAnsweredUnseen, ConnectSentUnseen
    <2>2. CASE AcceptReturn(t) \/ ConnectMine(t) \/ ConnectTheirs(t) \/ ConnectInserted(t) \/ ConnectReturn(t)
      BY <2>2, <1>1 DEF AcceptReturn, ConnectMine, ConnectTheirs, ConnectInserted, ConnectReturn
    <2> QED
      BY <1>6, <2>1, <2>2 DEF ConnectStep
  <1>7. ASSUME NEW t \in Threads, DisconnectReset(t) \/ RelayStep(t) PROVE P
    <2>1. CASE DisconnectReset(t)
      BY <2>1, <1>1, DisconnectResetUnseen
    <2>2. CASE RelayHere(t)
      BY <2>2, RelayHereInPool
    <2>3. CASE RelayUnknown(t) \/ RelayOn(t) \/ RelayReturn(t)
      BY <2>3, <1>1 DEF RelayUnknown, RelayOn, RelayReturn
    <2> QED
      BY <1>7, <2>1, <2>2, <2>3 DEF RelayStep
  <1>8. ASSUME NEW t \in Threads, RpcStep(t) \/ Fault(t) PROVE P
    BY <1>8, <1>1 DEF RpcStep, Fault, RpcServe, RpcAnswer, RpcFail, RpcBreak
  <1>9. ASSUME NEW t \in Threads, Command(t) PROVE P
    <2>1. conns' = conns /\ entries' = entries
      BY <1>9 DEF Command, AppendCommand, ConnectCommand, DisconnectCommand, RelayCommand, ClientCommand,
                  ClientRelay, ClientConnect, ClientSources
    <2> QED
      BY <1>1, <2>1
  <1>10. ASSUME NEW t \in Threads, Machine(t) \/ Fault(t) \/ Command(t) PROVE P
    BY <1>3, <1>4, <1>5, <1>6, <1>7, <1>8, <1>9, <1>10 DEF Machine, LocalStep
  <1> QED
    BY <1>2, <1>10 DEF Next

\* The brokers start as the pool does.
LEMMA InitInPool ==
  ASSUME Init
  PROVE  PoolProofs!Init /\ PoolInv
  <1>1. conns = [n \in Brokers |-> <<NoConnection>>] /\ entries = [n \in Journals |-> {}]
    BY DEF Init
  <1>2. \A n \in Owned : ClockOf(n) = EmptyClock /\ entries[n] = {}
    BY <1>1, Ids DEF ClockOf, Conn, NoConnection
  <1>3. [n \in Owned |-> ClockOf(n)] = [n \in Owned |-> PoolProofs!EmptyClock]
    BY <1>2, SameClocks
  <1>4. [n \in Owned |-> entries[n]] = [n \in Owned |-> {}]
    BY <1>2
  <1>5. PoolProofs!Init
    BY <1>3, <1>4 DEF PoolProofs!Init
  <1>6. Owned \subseteq Nat \ {0}
    BY Ids
  <1>7. PoolProofs!IInv
    BY <1>5, <1>6, MaxTimeAssumption, PoolProofs!InitIsSafe
  <1>8. PoolProofs!ClocksAreKeys
    BY <1>4 DEF PoolProofs!ClocksAreKeys
  <1> QED
    BY <1>5, <1>7, <1>8 DEF PoolInv

\* A step of the pool keeps what is proved of the pool.
LEMMA PoolKept ==
  ASSUME PoolInv, [PoolProofs!Next]_(PoolProofs!vars)
  PROVE  PoolInv'
  <1>1. Owned \subseteq Nat \ {0}
    BY Ids
  <1>2. PoolProofs!IInv'
    BY <1>1, MaxTimeAssumption, PoolProofs!InvariantKept DEF PoolInv
  <1>3. PoolProofs!ClocksAreKeys'
    BY <1>1, MaxTimeAssumption, PoolProofs!KeysKept DEF PoolInv
  <1> QED
    BY <1>2, <1>3 DEF PoolInv

\* Both definitions of the pool are the same one.
LEMMA SamePool ==
  /\ Pool!Init <=> PoolProofs!Init
  /\ Pool!Next <=> PoolProofs!Next
  /\ UNCHANGED Pool!vars <=> UNCHANGED PoolProofs!vars
  /\ Pool!TransactionsUnique <=> PoolProofs!TransactionsUnique
  BY DEF Pool!Init, PoolProofs!Init, Pool!vars, PoolProofs!vars, Pool!EmptyClock, PoolProofs!EmptyClock,
         Pool!Next, PoolProofs!Next, Pool!AppendData, PoolProofs!AppendData, Pool!Receive, PoolProofs!Receive,
         Pool!Insert, PoolProofs!Insert, Pool!Saves, PoolProofs!Saves, Pool!Clock, PoolProofs!Clock, Pool!ClocksOver, PoolProofs!ClocksOver,
         Pool!IsNext, PoolProofs!IsNext, Pool!Tick, PoolProofs!Tick, Pool!Merge, PoolProofs!Merge,
         Pool!At, PoolProofs!At, Pool!TransactionsUnique, PoolProofs!TransactionsUnique, Pool!Time, PoolProofs!Time

-----------------------------------------------------------------------------
(***************************************************************************)
(* What holds of every behaviour in which relays are well routed.          *)
(***************************************************************************)

\* The calls in flight and the pool stay in order, each because of the other: a
\* list that is answered or sent holds entries of the pool because the stores do,
\* and a journal stores only what a call carries.
LEMMA InFlightAndPool == Init /\ [][Next]_vars /\ []WellRouted => [](InFlightOK /\ PoolInv)
  <1>1. Init => InFlightOK /\ PoolInv
    BY InitInFlight, InitInPool
  <1>2. InFlightOK /\ PoolInv /\ WellRouted /\ [Next]_vars => (InFlightOK /\ PoolInv)'
    BY NextInFlight, NextInPool, PoolKept
  <1> QED
    BY <1>1, <1>2, PTL

\* However commands interleave, whatever journals and hubs are connected and
\* disconnected and whichever remote calls fail: every entry that Broker::insert,
\* query or connect hands on is one that its author stored; the port number that a
\* connection gives the peer leads back to the caller there, or to the caller's twin
\* in the peer's process, or to nobody (0, or a port that was closed), and never to a
\* third broker; and every call that waits gets the kind of answer it waits for.
THEOREM CallsInOrder == Spec /\ []WellRouted => []InFlightOK
  BY InFlightAndPool, PTL DEF Spec

\* The brokers implement the pool: JournalBase::insert with Broker::insert, append
\* and relay, called by any brokers over any connections and altering any version,
\* change the journals only as the pool of module Journal does.
THEOREM BrokersImplementPool == Spec /\ []WellRouted => ImplementsPool
  <1>1. Init => Pool!Init
    BY InitInPool, SamePool
  <1>2. InFlightOK /\ PoolInv /\ WellRouted /\ [Next]_vars => [Pool!Next]_(Pool!vars)
    BY NextInPool, SamePool
  <1> QED
    BY <1>1, <1>2, InFlightAndPool, PTL DEF Spec, ImplementsPool, Pool!Spec

\* "A device ID (DID) and transaction ID (TID) can identify uniquely a transaction
\* in a group of devices" (docs/transaction-spec.md), for brokers as for the pool.
THEOREM BrokersUniqueTransactions == Spec /\ []WellRouted => []UniqueTransactions
  <1>1. PoolInv => UniqueTransactions
    BY SamePool DEF PoolInv, PoolProofs!IInv, UniqueTransactions
  <1> QED
    BY <1>1, InFlightAndPool, PTL DEF Spec

-----------------------------------------------------------------------------
(***************************************************************************)
(* Relays that are not for another journal.  The program's add is one, for *)
(* the id 0, when a client gives it.  Such a relay ends where it arrives,  *)
(* whatever the routing tables hold.                                       *)
(***************************************************************************)
AtHome(f) ==
  /\ f.op = "relay" => f.node \in Owned /\ f.data.id \in {0, f.node}
  /\ f.op = "rpc" /\ f.rpc = "Relay" => f.to \in Owned /\ DataFrom(f.request.entry).id \in {0, f.to}

RelaysAtHome == \A t \in Threads : \A i \in 1..Len(stack[t]) : AtHome(stack[t][i])

\* Users give relays to the journal that they are for.
RelaysToSelf ==
  \A t \in Threads, n \in Started, id \in Owned \cup {0}, value \in Amount, alters \in Version :
    RelayCommand(t, n, id, value, alters) \/ ClientRelay(t, n, id, value, alters) => n \in Owned /\ id \in {0, n}

\* A call of another kind.
NoRelay(f) == f.op # "relay" /\ (f.op = "rpc" => f.rpc # "Relay")

\* What the calls of a connection other than Connection::relay are.
LEMMA CallsNoRelay ==
  /\ \A n, m, e, sender : NoRelay(Insert(n, m, e, sender))
  /\ \A n, m, conn, sender : NoRelay(Refresh(n, m, conn, sender))
  /\ \A n, m, from, sender : NoRelay(Query(n, m, from, sender))
  /\ \A n, m, conn : NoRelay(Connect(n, m, conn))
  /\ \A n, m, list, sender : NoRelay(InsertList(n, m, list, sender))
  /\ \A n, p : NoRelay(RefreshConnectionsCall(n, p))
  /\ \A n, from, p : NoRelay(QueryCall(n, from, p))
  <1>1. \A n, m, e, sender : NoRelay(Insert(n, m, e, sender))
    BY DEF NoRelay, Insert, Stub, InsertCall
  <1>2. \A n, m, conn, sender : NoRelay(Refresh(n, m, conn, sender))
    BY DEF NoRelay, Refresh, Stub, RefreshCall
  <1>3. \A n, m, from, sender : NoRelay(Query(n, m, from, sender))
    BY DEF NoRelay, Query, Stub, QueryCall
  <1>4. \A n, m, conn : NoRelay(Connect(n, m, conn))
    BY DEF NoRelay, Connect, Stub, AcceptCall
  <1>5. \A n, m, list, sender : NoRelay(InsertList(n, m, list, sender))
    BY DEF NoRelay, InsertList
  <1>6. \A n, p : NoRelay(RefreshConnectionsCall(n, p))
    BY DEF NoRelay, RefreshConnectionsCall
  <1>7. \A n, from, p : NoRelay(QueryCall(n, from, p))
    BY DEF NoRelay, QueryCall
  <1> QED
    BY <1>1, <1>2, <1>3, <1>4, <1>5, <1>6, <1>7

\* A thread whose calls are at home after the step.
LEMMA StepHome ==
  ASSUME InFlightOK, RelaysAtHome, NEW t \in Threads, NEW s,
         stack' = [stack EXCEPT ![t] = s], \A i \in 1..Len(s) : AtHome(s[i])
  PROVE  RelaysAtHome'
  <1>1. stack = [u \in Threads |-> stack[u]]
    BY DEF InFlightOK, CallsOK
  <1>2. \A u \in Threads : stack'[u] = IF u = t THEN s ELSE stack[u]
    BY <1>1
  <1>3. ASSUME NEW u \in Threads PROVE \A i \in 1..Len(stack'[u]) : AtHome(stack'[u][i])
    BY <1>2 DEF RelaysAtHome
  <1> QED
    BY <1>3 DEF RelaysAtHome, AtHome

\* Goto, Call, Return and Start with calls that are at home.
LEMMA GotoHome ==
  ASSUME InFlightOK, RelaysAtHome, NEW t \in Threads, stack[t] # <<>>, NEW f, Goto(t, f), AtHome(f)
  PROVE  RelaysAtHome'
  <1> DEFINE s == stack[t]
             r == <<f>> \o Tail(s)
  <1>1. IsSeq(s) /\ stack = [u \in Threads |-> stack[u]] /\ \A i \in 1..Len(s) : AtHome(s[i])
    BY DEF InFlightOK, CallsOK, ThreadOK, RelaysAtHome
  <1>2. Len(s) \in Nat /\ Len(r) = Len(s) /\ r[1] = f /\ \A i \in 2..Len(s) : r[i] = s[i]
    BY <1>1, GotoSeq, IsSeqLen
  <1>3. stack' = [stack EXCEPT ![t] = r]
    BY <1>1 DEF Goto
  <1> HIDE DEF r, s
  <1>4. \A i \in 1..Len(r) : AtHome(r[i])
    BY <1>1, <1>2
  <1> QED
    BY <1>3, <1>4, StepHome

\* A call that is made.
LEMMA CallHome ==
  ASSUME InFlightOK, RelaysAtHome, NEW t \in Threads, stack[t] # <<>>, NEW f, NEW g, Call(t, f, g),
         AtHome(f), AtHome(g)
  PROVE  RelaysAtHome'
  <1> DEFINE s == stack[t]
             r == <<g, f>> \o Tail(s)
  <1>1. IsSeq(s) /\ stack = [u \in Threads |-> stack[u]] /\ \A i \in 1..Len(s) : AtHome(s[i])
    BY DEF InFlightOK, CallsOK, ThreadOK, RelaysAtHome
  <1>2. /\ Len(s) \in Nat /\ Len(r) = Len(s) + 1 /\ r[1] = g /\ r[2] = f
        /\ \A i \in 2..Len(s) : r[i + 1] = s[i]
    BY <1>1, CallSeq, IsSeqLen
  <1>3. stack' = [stack EXCEPT ![t] = r]
    BY <1>1 DEF Call
  <1> HIDE DEF r, s
  <1>4. ASSUME NEW i \in 1..Len(r) PROVE AtHome(r[i])
    <2>1. CASE i \in {1, 2}
      BY <2>1, <1>2
    <2>2. CASE i \notin {1, 2}
      <3>1. i - 1 \in 2..Len(s) /\ i - 1 \in 1..Len(s) /\ (i - 1) + 1 = i
        BY <2>2, <1>2
      <3>2. r[i] = s[i - 1]
        BY <3>1, <1>2
      <3> QED
        BY <3>1, <3>2, <1>1
    <2> QED
      BY <2>1, <2>2
  <1> QED
    BY <1>3, <1>4, StepHome

\* A call that ends.
LEMMA ReturnHome ==
  ASSUME InFlightOK, RelaysAtHome, NEW t \in Threads, stack[t] # <<>>, NEW w, Return(t, w)
  PROVE  RelaysAtHome'
  <1> DEFINE s == stack[t]
             r == Tail(s)
  <1>1. IsSeq(s) /\ stack = [u \in Threads |-> stack[u]] /\ \A i \in 1..Len(s) : AtHome(s[i])
    BY DEF InFlightOK, CallsOK, ThreadOK, RelaysAtHome
  <1>2. Len(s) \in Nat /\ Len(r) = Len(s) - 1 /\ \A i \in 1..Len(s) - 1 : r[i] = s[i + 1]
    BY <1>1, ReturnSeq, IsSeqLen
  <1>3. stack' = [stack EXCEPT ![t] = r]
    BY <1>1 DEF Return
  <1> HIDE DEF r, s
  <1>4. \A i \in 1..Len(r) : AtHome(r[i])
    BY <1>1, <1>2
  <1> QED
    BY <1>3, <1>4, StepHome

\* A command that is given.
LEMMA StartHome ==
  ASSUME InFlightOK, RelaysAtHome, NEW t \in Threads, NEW f, Start(t, f), AtHome(f)
  PROVE  RelaysAtHome'
  <1> DEFINE r == <<f>>
  <1>1. Len(r) = 1 /\ r[1] = f
    OBVIOUS
  <1>2. stack' = [stack EXCEPT ![t] = r]
    BY DEF Start
  <1> HIDE DEF r
  <1>3. \A i \in 1..Len(r) : AtHome(r[i])
    BY <1>1
  <1> QED
    BY <1>2, <1>3, StepHome

\* The steps of insert, append and lists.
LEMMA InsertsHome ==
  ASSUME InFlightOK, RelaysAtHome, NEW t \in Threads, InsertStep(t)
  PROVE  RelaysAtHome'
  <1> DEFINE F == Frame(t)
             n == F.node
             p == First(PortsFrom(n, F.port, F.source))
  <1>1. ASSUME stack[t] # <<>>, NEW m, NEW e, NEW source, InsertLocally(t, m, e, source)
        PROVE  RelaysAtHome'
    <2> DEFINE f == [InsertCall(m, e, source) EXCEPT !.pc = "loop"]
    <2>1. AtHome(f)
      BY DEF AtHome, InsertCall
    <2>2. Goto(t, f) \/ Return(t, [clock |-> InvalidClock])
      BY <1>1 DEF InsertLocally
    <2> QED
      BY <1>1, <2>1, <2>2, GotoHome, ReturnHome
  <1>2. CASE InsertEnter(t)
    BY <1>1, <1>2, Runs DEF InsertEnter
  <1>3. CASE AppendEnter(t)
    BY <1>1, <1>3, Runs DEF AppendEnter
  <1>4. ASSUME Running(t, "insert"), NEW pc, NEW port PROVE NoRelay([F EXCEPT !.pc = pc, !.port = port])
    <2>1. F.op = "insert" /\ InsertOK(conns, entries, F)
      BY <1>4, Runs, Kinds
    <2> HIDE DEF F
    <2>2. [F EXCEPT !.pc = pc, !.port = port].op = "insert"
      BY <2>1 DEF InsertOK
    <2> QED
      BY <2>2 DEF NoRelay
  <1>5. CASE InsertForward(t)
    <2> DEFINE f == [F EXCEPT !.pc = "await", !.port = p]
               g == Insert(n, Conn(n, p).peer, F.entry, Conn(n, p).source)
    <2>1. Running(t, "insert") /\ Call(t, f, g)
      BY <1>5 DEF InsertForward
    <2>2. NoRelay(f) /\ NoRelay(g) /\ stack[t] # <<>>
      BY <2>1, <1>4, Runs, CallsNoRelay
    <2> HIDE DEF f, g
    <2> QED
      BY <2>1, <2>2, CallHome DEF NoRelay, AtHome
  <1>6. CASE InsertForwarded(t)
    <2>1. Running(t, "insert") /\ Goto(t, [F EXCEPT !.pc = "loop", !.port = F.port + 1])
      BY <1>6 DEF InsertForwarded
    <2> QED
      BY <2>1, <1>4, Runs, GotoHome DEF NoRelay, AtHome
  <1>7. CASE InsertReturn(t)
    BY <1>7, Runs, ReturnHome DEF InsertReturn
  <1>8. CASE InsertListNext(t)
    <2>1. /\ Running(t, "insertList")
          /\ Call(t, [F EXCEPT !.list = Tail(@)], Insert(n, F.to, Head(F.list), F.sender))
      BY <1>8 DEF InsertListNext
    <2>2. F.op = "insertList" /\ InsertListOK(conns, entries, F) /\ stack[t] # <<>>
      BY <2>1, Runs, Kinds
    <2> HIDE DEF F
    <2>3. [F EXCEPT !.list = Tail(@)].op = "insertList"
      BY <2>2 DEF InsertListOK
    <2> QED
      BY <2>1, <2>2, <2>3, CallHome, CallsNoRelay DEF NoRelay, AtHome
  <1>9. CASE InsertListReturn(t)
    <2> DEFINE f == Stub(n, F.to, "GetClock", [empty |-> TRUE])
    <2>1. Running(t, "insertList") /\ (Goto(t, f) \/ Return(t, [clock |-> ClockOf(n)]))
      BY <1>9 DEF InsertListReturn
    <2>2. AtHome(f)
      BY DEF AtHome, Stub
    <2> QED
      BY <2>1, <2>2, Runs, GotoHome, ReturnHome
  <1> QED
    BY <1>2, <1>3, <1>5, <1>6, <1>7, <1>8, <1>9 DEF InsertStep

\* The steps of refresh and of query.
LEMMA RefreshesHome ==
  ASSUME InFlightOK, RelaysAtHome, NEW t \in Threads, RefreshStep(t) \/ QueryStep(t)
  PROVE  RelaysAtHome'
  <1> DEFINE F == Frame(t)
             n == F.node
  <1>1. CASE RefreshUnknown(t)
    BY <1>1, Runs, ReturnHome DEF RefreshUnknown
  <1>2. CASE RefreshEnter(t)
    <2>1. Running(t, "refresh") /\ Goto(t, RefreshConnectionsCall(n, F.sender))
      BY <1>2 DEF RefreshEnter
    <2> QED
      BY <2>1, Runs, GotoHome, CallsNoRelay DEF NoRelay, AtHome
  <1>3. CASE RefreshNext(t)
    <2> DEFINE p == First(PortsFrom(n, F.port, F.ignore))
    <2>1. /\ Running(t, "refreshConnections")
          /\ Call(t, [F EXCEPT !.port = p + 1], Refresh(n, Conn(n, p).peer, Announcement(n, p), Conn(n, p).source))
      BY <1>3 DEF RefreshNext
    <2>2. F.op = "refreshConnections" /\ RefreshConnectionsOK(F) /\ stack[t] # <<>>
      BY <2>1, Runs, Kinds
    <2> HIDE DEF F
    <2>3. [F EXCEPT !.port = p + 1].op = "refreshConnections"
      BY <2>2 DEF RefreshConnectionsOK
    <2> QED
      BY <2>1, <2>2, <2>3, CallHome, CallsNoRelay DEF NoRelay, AtHome
  <1>4. CASE RefreshReturn(t)
    BY <1>4, Runs, ReturnHome DEF RefreshReturn
  <1>5. CASE QueryJournal(t)
    BY <1>5, Runs, ReturnHome DEF QueryJournal
  <1>6. CASE QueryHub(t)
    <2> DEFINE p == First(Answerers(n, F.sender))
               g == Query(n, Conn(n, p).peer, F.from, Conn(n, p).source)
    <2>1. Running(t, "query") /\ Call(t, [F EXCEPT !.pc = "await"], g)
      BY <1>6 DEF QueryHub
    <2>2. F.op = "query" /\ QueryOK(F) /\ stack[t] # <<>> /\ NoRelay(g)
      BY <2>1, Runs, Kinds, CallsNoRelay
    <2> HIDE DEF F, g
    <2>3. [F EXCEPT !.pc = "await"].op = "query"
      BY <2>2 DEF QueryOK
    <2> QED
      BY <2>1, <2>2, <2>3, CallHome DEF NoRelay, AtHome
  <1>7. CASE QueryNothing(t)
    BY <1>7, Runs, ReturnHome DEF QueryNothing
  <1>8. CASE QueryReturn(t)
    BY <1>8, Runs, ReturnHome DEF QueryReturn
  <1> QED
    BY <1>1, <1>2, <1>3, <1>4, <1>5, <1>6, <1>7, <1>8 DEF RefreshStep, QueryStep

\* The steps of connect, on both sides, and of disconnect.
LEMMA ConnectsHome ==
  ASSUME InFlightOK, RelaysAtHome, NEW t \in Threads, ConnectStep(t) \/ DisconnectReset(t)
  PROVE  RelaysAtHome'
  <1> DEFINE F == Frame(t)
             n == F.node
             p == F.port
  <1>1. ASSUME Running(t, "accept"), NEW q, NEW c
        PROVE  NoRelay([F EXCEPT !.pc = "refreshed", !.port = q, !.data.clock = c])
    <2>1. F.op = "accept" /\ AcceptOK(conns, F)
      BY <1>1, Runs, Kinds
    <2> HIDE DEF F
    <2>2. [F EXCEPT !.pc = "refreshed", !.port = q, !.data.clock = c].op = "accept"
      BY <2>1 DEF AcceptOK
    <2> QED
      BY <2>2 DEF NoRelay
  <1>2. ASSUME Running(t, "connect"), NEW pc
        PROVE  /\ stack[t] # <<>> /\ NoRelay([F EXCEPT !.pc = pc])
               /\ \A q : NoRelay([F EXCEPT !.pc = pc, !.port = q])
               /\ \A list : NoRelay([F EXCEPT !.pc = pc, !.mine = list])
    <2>1. stack[t] # <<>> /\ F.op = "connect" /\ ConnectOK(conns, entries, F)
      BY <1>2, Runs, Kinds
    <2> HIDE DEF F
    <2>2. /\ [F EXCEPT !.pc = pc].op = "connect"
          /\ \A q : [F EXCEPT !.pc = pc, !.port = q].op = "connect"
          /\ \A list : [F EXCEPT !.pc = pc, !.mine = list].op = "connect"
      BY <2>1 DEF ConnectOK
    <2> QED
      BY <2>1, <2>2 DEF NoRelay
  <1>3. CASE AcceptEnter(t)
    <2> DEFINE q == Len(conns[n])
               f == [F EXCEPT !.pc = "refreshed", !.port = q, !.data.clock = ClockOf(n)]
               g == RefreshConnectionsCall(n, q)
    <2>1. Running(t, "accept") /\ Call(t, f, g)
      BY <1>3 DEF AcceptEnter
    <2>2. NoRelay(f) /\ NoRelay(g) /\ stack[t] # <<>>
      BY <2>1, <1>1, Runs, CallsNoRelay
    <2> HIDE DEF f, g
    <2> QED
      BY <2>1, <2>2, CallHome DEF NoRelay, AtHome
  <1>4. CASE AcceptReturn(t)
    BY <1>4, Runs, ReturnHome DEF AcceptReturn
  <1>5. CASE ConnectEnter(t)
    <2> DEFINE q == Len(conns[n])
    <2>1. /\ Running(t, "connect")
          /\ Call(t, [F EXCEPT !.pc = "answered", !.port = q], Connect(n, F.to, Announcement(n, q)))
      BY <1>5 DEF ConnectEnter
    <2> QED
      BY <2>1, <1>2, CallHome, CallsNoRelay DEF NoRelay, AtHome
  <1>6. CASE ConnectAnswered(t)
    <2>1. Running(t, "connect") /\ Call(t, [F EXCEPT !.pc = "mine"], QueryCall(n, ret[t].conn.clock, p))
      BY <1>6 DEF ConnectAnswered
    <2> QED
      BY <2>1, <1>2, CallHome, CallsNoRelay DEF NoRelay, AtHome
  <1>7. CASE ConnectMine(t)
    <2> DEFINE f == [F EXCEPT !.pc = "theirs", !.mine = ret[t].list]
               g == Query(n, Conn(n, p).peer, ClockOf(n), Conn(n, p).source)
    <2>1. Running(t, "connect") /\ Call(t, f, g)
      BY <1>7 DEF ConnectMine
    <2>2. NoRelay(f) /\ NoRelay(g) /\ stack[t] # <<>>
      BY <2>1, <1>2, CallsNoRelay
    <2> HIDE DEF f, g
    <2> QED
      BY <2>1, <2>2, CallHome DEF NoRelay, AtHome
  <1>8. CASE ConnectTheirs(t)
    <2> DEFINE f == [F EXCEPT !.pc = "inserted"]
    <2>1. Running(t, "connect") /\ (Goto(t, f) \/ Call(t, f, InsertList(f.node, f.node, ret[t].list, f.port)))
      BY <1>8 DEF ConnectTheirs
    <2>2. NoRelay(f) /\ stack[t] # <<>>
      BY <2>1, <1>2
    <2> HIDE DEF f
    <2> QED
      BY <2>1, <2>2, GotoHome, CallHome, CallsNoRelay DEF NoRelay, AtHome
  <1>9. CASE ConnectInserted(t) \/ ConnectSent(t)
    <2>1. /\ Running(t, "connect")
          /\ \/ Call(t, [F EXCEPT !.pc = "refreshed"], RefreshConnectionsCall(n, p))
             \/ Call(t, [F EXCEPT !.pc = "sent"], InsertList(n, Conn(n, p).peer, F.mine, Conn(n, p).source))
      BY <1>9 DEF ConnectInserted, ConnectSent
    <2> QED
      BY <2>1, <1>2, CallHome, CallsNoRelay DEF NoRelay, AtHome
  <1>10. CASE ConnectReturn(t)
    BY <1>10, Runs, ReturnHome DEF ConnectReturn
  <1>11. CASE DisconnectReset(t)
    <2>1. Running(t, "disconnect") /\ Goto(t, RefreshConnectionsCall(n, p))
      BY <1>11 DEF DisconnectReset
    <2> QED
      BY <2>1, Runs, GotoHome, CallsNoRelay DEF NoRelay, AtHome
  <1> QED
    BY <1>3, <1>4, <1>5, <1>6, <1>7, <1>8, <1>9, <1>10, <1>11 DEF ConnectStep

\* A relay at home is one for the journal it has reached, which is a route of
\* distance 0 for itself: RelayOn never takes it.
LEMMA HomeIsHere ==
  ASSUME InFlightOK, RelaysAtHome, NEW t \in Threads, Running(t, "relay")
  PROVE  /\ Frame(t).node \in Owned /\ Relayed(t).id = Frame(t).node
         /\ \E r \in RelayRoutes(t) : r.distance = 0
  <1> DEFINE F == Frame(t)
             n == F.node
             d == F.data
  <1>1. stack[t] # <<>> /\ F.op = "relay" /\ RelayOK(F)
    BY Runs, Kinds
  <1>2. F = stack[t][1] /\ 1 \in 1..Len(stack[t])
    <2>1. IsSeq(stack[t])
      BY DEF InFlightOK, CallsOK, ThreadOK
    <2> QED
      BY <1>1, <2>1, IsSeqLen DEF Frame
  <1>3. n \in Owned /\ d.id \in {0, n}
    BY <1>1, <1>2 DEF RelaysAtHome, AtHome
  <1>4. n \in Journals /\ n \in Brokers /\ n # 0 /\ IdOf[n] = n
    BY <1>3, Ids, ProcessAssumption DEF Owned
  <1>5. Relayed(t) = [d EXCEPT !.id = RelayId(n, d.id)]
    BY DEF Relayed
  <1>6. d = [id |-> d.id, value |-> d.value, alters |-> d.alters]
    BY <1>1 DEF RelayOK, RelayData
  <1>7. RelayId(n, d.id) = n
    BY <1>3, <1>4 DEF RelayId
  <1> HIDE DEF d
  <1>8. Relayed(t).id = n
    BY <1>5, <1>6, <1>7
  <1> DEFINE sources == Sources(n, 0)
             r == [port |-> 0, distance |-> sources[0][n].distance]
  <1>9. 0 \in DOMAIN sources /\ sources[0] = [i \in {n} |-> [distance |-> 0, clock |-> ClockOf(n)]]
    BY <1>4 DEF Sources
  <1> HIDE DEF sources
  <1>10. r.distance = 0 /\ n \in DOMAIN sources[0]
    BY <1>9
  <1>11. r \in Routes(n, n, F.sender)
    BY <1>9, <1>10 DEF Routes, sources
  <1> QED
    BY <1>3, <1>8, <1>10, <1>11 DEF RelayRoutes

\* So relays at home are well routed.
LEMMA HomeIsWellRouted ==
  ASSUME InFlightOK, RelaysAtHome
  PROVE  WellRouted
  <1> SUFFICES ASSUME NEW t \in Threads, Running(t, "relay")
               PROVE  Frame(t).node \in Owned /\ Relayed(t).id = Frame(t).node
    BY DEF WellRouted
  <1> QED
    BY HomeIsHere

\* The steps of relay.
LEMMA RelayHome ==
  ASSUME InFlightOK, RelaysAtHome, NEW t \in Threads, RelayStep(t)
  PROVE  RelaysAtHome'
  <1> DEFINE F == Frame(t)
             e == Stamp(F.node, Relayed(t))
             f == [InsertCall(F.node, e, 0) EXCEPT !.pc = "loop"]
  <1>1. CASE RelayUnknown(t)
    BY <1>1, Runs, ReturnHome DEF RelayUnknown
  <1>2. CASE RelayHere(t)
    <2>1. Running(t, "relay") /\ (Goto(t, f) \/ Return(t, [clock |-> InvalidClock]))
      BY <1>2 DEF RelayHere, InsertLocally
    <2>2. AtHome(f)
      BY DEF AtHome, InsertCall
    <2> QED
      BY <2>1, <2>2, Runs, GotoHome, ReturnHome
  <1>3. CASE RelayOn(t)
    BY <1>3, HomeIsHere DEF RelayOn
  <1>4. CASE RelayReturn(t)
    BY <1>4, Runs, ReturnHome DEF RelayReturn
  <1> QED
    BY <1>1, <1>2, <1>3, <1>4 DEF RelayStep

\* The steps between two processes: GrpcRunner makes of a relay at home one at home.
LEMMA RpcHome ==
  ASSUME InFlightOK, RelaysAtHome, NEW t \in Threads, RpcStep(t) \/ RpcFail(t)
  PROVE  RelaysAtHome'
  <1> DEFINE F == Frame(t)
             f == [F EXCEPT !.pc = "await"]
             g == Served(F.to, F.rpc, F.request)
  <1>1. CASE RpcServe(t)
    <2>1. Running(t, "rpc") /\ F.rpc \notin Reads /\ Call(t, f, g)
      BY <1>1 DEF RpcServe
    <2>2. stack[t] # <<>> /\ F.op = "rpc" /\ RpcOK(conns, entries, F)
      BY <2>1, Runs, Kinds
    <2>3. AtHome(F)
      <3>1. IsSeq(stack[t])
        BY DEF InFlightOK, CallsOK, ThreadOK
      <3>2. F = stack[t][1] /\ 1 \in 1..Len(stack[t])
        BY <2>2, <3>1, IsSeqLen DEF Frame
      <3> QED
        BY <3>2 DEF RelaysAtHome
    <2> HIDE DEF F
    <2>4. F = [op |-> F.op, node |-> F.node, to |-> F.to, rpc |-> F.rpc, request |-> F.request, pc |-> F.pc]
      BY <2>2 DEF RpcOK
    <2>5. f = [op |-> F.op, node |-> F.node, to |-> F.to, rpc |-> F.rpc, request |-> F.request, pc |-> "await"]
      BY <2>4
    <2>6. AtHome(f)
      BY <2>3, <2>5 DEF AtHome
    <2>7. AtHome(g)
      <3>1. CASE F.rpc = "Relay"
        <4>1. g = RelayCall(F.to, DataFrom(F.request.entry), F.request.sender)
          BY <3>1 DEF Served, ServeRelay
        <4> QED
          BY <4>1, <3>1, <2>2, <2>3 DEF AtHome, RelayCall
      <3>2. CASE F.rpc = "Connect"
        <4>1. g = ServeConnect(F.to, F.request)
          BY <3>2 DEF Served
        <4>2. g.op \in {"connect", "accept"}
          BY <4>1 DEF ServeConnect, ConnectCall, AcceptCall
        <4> QED
          BY <4>2 DEF AtHome
      <3>3. CASE F.rpc \in {"Query", "Insert", "Refresh"}
        <4>1. /\ F.rpc = "Query" => g = ServeQuery(F.to, F.request)
              /\ F.rpc = "Insert" => g = ServeInsert(F.to, F.request)
              /\ F.rpc = "Refresh" => g = ServeRefresh(F.to, F.request)
          BY DEF Served
        <4>2. g.op \in {"query", "insert", "refresh"}
          BY <4>1, <3>3 DEF ServeQuery, ServeInsert, ServeRefresh, QueryCall, InsertCall, RefreshCall
        <4> QED
          BY <4>2 DEF AtHome
      <3> QED
        BY <3>1, <3>2, <3>3, <2>1, <2>2 DEF RpcOK
    <2> HIDE DEF f, g
    <2> QED
      BY <2>1, <2>2, <2>6, <2>7, CallHome
  <1>2. CASE RpcAnswer(t)
    BY <1>2, Runs, ReturnHome DEF RpcAnswer
  <1>3. CASE RpcFail(t)
    BY <1>3, Runs, ReturnHome DEF RpcFail
  <1> QED
    BY <1>1, <1>2, <1>3 DEF RpcStep

\* A channel that breaks leaves both sides' relays at home.
LEMMA BreakHome ==
  ASSUME InFlightOK, RelaysAtHome, NEW t \in Threads, NEW u \in Threads, RpcBreak(t, u)
  PROVE  RelaysAtHome'
  <1> DEFINE s == stack[t]
  <1>1. PICK k \in 2..Len(s) :
          stack' = [stack EXCEPT ![t] = SubSeq(@, k + 1, Len(@)), ![u] = SubSeq(s, 1, k - 1)]
    BY DEF RpcBreak
  <1>2. stack = [x \in Threads |-> stack[x]] /\ IsSeq(s)
    BY DEF InFlightOK, CallsOK, ThreadOK
  <1>3. Len(s) \in Nat /\ s \in Seq({s[i] : i \in 1..Len(s)}) /\ \A i \in 1..Len(s) : AtHome(s[i])
    BY <1>2, IsSeqLen DEF IsSeq, RelaysAtHome
  <1> DEFINE S == {s[i] : i \in 1..Len(s)}
  <1>4. ASSUME NEW a \in Nat \ {0}, NEW b \in Nat, b <= Len(s)
        PROVE  \A i \in 1..Len(SubSeq(s, a, b)) : AtHome(SubSeq(s, a, b)[i])
    <2> DEFINE r == SubSeq(s, a, b)
    <2>1. (\A x \in S : AtHome(x)) /\ \A i \in 1..Len(s) : s[i] \in S
      BY <1>3
    <2> HIDE DEF S, s
    <2>2. \A i \in a..b : s[i] \in S
      BY <1>3, <1>4, <2>1
    <2>3. r \in Seq(S) /\ Len(r) \in Nat
      BY <2>2, SubSeqProperties
    <2>4. \A i \in 1..Len(r) : r[i] \in S
      BY <2>3, ElementOfSeq
    <2> QED
      BY <2>1, <2>4
  <1> DEFINE a == SubSeq(s, k + 1, Len(s))
             b == SubSeq(s, 1, k - 1)
  <1>5. (\A i \in 1..Len(a) : AtHome(a[i])) /\ (\A i \in 1..Len(b) : AtHome(b[i]))
    <2>1. k + 1 \in Nat \ {0} /\ k - 1 \in Nat /\ k - 1 <= Len(s) /\ Len(s) <= Len(s) /\ 1 \in Nat \ {0}
      BY <1>3
    <2> QED
      BY <2>1, <1>3, <1>4
  <1>6. \A x \in Threads : stack'[x] \in {a, b, stack[x]}
    BY <1>1, <1>2
  <1> HIDE DEF a, b, s
  <1>7. ASSUME NEW x \in Threads PROVE \A i \in 1..Len(stack'[x]) : AtHome(stack'[x][i])
    BY <1>5, <1>6 DEF RelaysAtHome
  <1> QED
    BY <1>7 DEF RelaysAtHome, AtHome

\* The commands of users who relay to the journal itself only.
LEMMA CommandHome ==
  ASSUME InFlightOK, RelaysAtHome, RelaysToSelf, NEW t \in Threads, Command(t)
  PROVE  RelaysAtHome'
  <1>1. ASSUME NEW n \in Owned, NEW value \in Amount, NEW alters, AppendCommand(t, n, value, alters)
        PROVE  RelaysAtHome'
    <2> DEFINE f == AppendCall(n, [id |-> IdOf[n], value |-> value, alters |-> alters])
    <2>1. Start(t, f) /\ AtHome(f)
      BY <1>1 DEF AppendCommand, AppendCall, AtHome
    <2> HIDE DEF f
    <2> QED
      BY <2>1, StartHome
  <1>2. ASSUME NEW n \in Started, NEW m \in Started, ConnectCommand(t, n, m) PROVE RelaysAtHome'
    <2> DEFINE f == ConnectCall(n, m)
    <2>1. Start(t, f) /\ AtHome(f)
      BY <1>2 DEF ConnectCommand, ConnectCall, AtHome
    <2> HIDE DEF f
    <2> QED
      BY <2>1, StartHome
  <1>3. ASSUME NEW n \in Started, NEW p, DisconnectCommand(t, n, p) PROVE RelaysAtHome'
    <2> DEFINE g == Refresh(n, Conn(n, p).peer, NoConnection, Conn(n, p).source)
               f == [op |-> "disconnect", node |-> n, port |-> p]
    <2>1. stack' = [stack EXCEPT ![t] = <<g, f>>]
      BY <1>3 DEF DisconnectCommand
    <2>2. AtHome(f) /\ AtHome(g)
      BY CallsNoRelay DEF NoRelay, AtHome
    <2> HIDE DEF f, g
    <2> DEFINE s == <<g, f>>
    <2>3. Len(s) = 2 /\ s[1] = g /\ s[2] = f
      OBVIOUS
    <2> HIDE DEF s
    <2>4. \A i \in 1..Len(s) : AtHome(s[i])
      BY <2>2, <2>3
    <2> QED
      BY <2>1, <2>4, StepHome DEF s
  <1>4. ASSUME NEW n \in Started, NEW id \in Owned \cup {0}, NEW value \in Amount, NEW alters \in Version,
               RelayCommand(t, n, id, value, alters)
        PROVE  RelaysAtHome'
    <2> DEFINE f == RelayCall(n, [id |-> id, value |-> value, alters |-> alters], 0)
    <2>1. n \in Owned /\ id \in {0, n}
      BY <1>4 DEF RelaysToSelf
    <2>2. Start(t, f) /\ AtHome(f)
      BY <1>4, <2>1 DEF RelayCommand, RelayCall, AtHome
    <2> HIDE DEF f
    <2> QED
      BY <2>2, StartHome
  <1>5. ASSUME NEW n \in Started, NEW id \in Owned \cup {0}, NEW value \in Amount, NEW alters \in Version,
               ClientRelay(t, n, id, value, alters)
        PROVE  RelaysAtHome'
    <2> DEFINE d == [id |-> id, value |-> value, alters |-> alters]
               f == Stub(NoPeer, n, "Relay", [sender |-> 0, entry |-> SetData(d)])
    <2>1. n \in Owned /\ id \in {0, n}
      BY <1>5 DEF RelaysToSelf
    <2>2. DataFrom(SetData(d)) = d
      BY RelaySurvives DEF RelayData
    <2>3. f.to = n /\ f.op = "rpc" /\ DataFrom(f.request.entry).id = id
      BY <2>2 DEF Stub
    <2>4. Start(t, f)
      BY <1>5 DEF ClientRelay, ClientCommand
    <2> HIDE DEF f
    <2>5. AtHome(f)
      BY <2>1, <2>3 DEF AtHome
    <2> QED
      BY <2>4, <2>5, StartHome
  <1>6. ASSUME NEW n \in Started, NEW rpc, rpc # "Relay", NEW r, ClientCommand(t, n, rpc, r)
        PROVE  RelaysAtHome'
    <2> DEFINE f == Stub(NoPeer, n, rpc, r)
    <2>1. Start(t, f) /\ AtHome(f)
      BY <1>6 DEF ClientCommand, Stub, AtHome
    <2> HIDE DEF f
    <2> QED
      BY <2>1, StartHome
  <1>7. ASSUME NEW n \in Started, NEW m \in Started, ClientConnect(t, n, m) PROVE RelaysAtHome'
    BY <1>6, <1>7 DEF ClientConnect
  <1>8. ASSUME NEW n \in Started, ClientSources(t, n) PROVE RelaysAtHome'
    BY <1>6, <1>8 DEF ClientSources
  <1> QED
    BY <1>1, <1>2, <1>3, <1>4, <1>5, <1>7, <1>8 DEF Command

\* Every step leaves the relays at home.
LEMMA NextHome ==
  ASSUME InFlightOK, RelaysAtHome, [RelaysToSelf]_vars, [Next]_vars
  PROVE  RelaysAtHome'
  <1>1. CASE UNCHANGED vars
    BY <1>1 DEF vars, RelaysAtHome, AtHome
  <1>2. ASSUME NEW t \in Threads, Machine(t) PROVE RelaysAtHome'
    BY <1>2, InsertsHome, RefreshesHome, ConnectsHome, RelayHome, RpcHome DEF Machine, LocalStep
  <1>3. ASSUME NEW t \in Threads, Fault(t) PROVE RelaysAtHome'
    BY <1>3, RpcHome, BreakHome DEF Fault
  <1>4. ASSUME RelaysToSelf, NEW t \in Threads, Command(t) PROVE RelaysAtHome'
    BY <1>4, CommandHome
  <1> QED
    BY <1>1, <1>2, <1>3, <1>4 DEF Next

\* Where users relay only to the journal they address, whatever its number of ports,
\* peers and failing calls, no broker ever takes a relay in another journal's name:
\* the distance 0 that Broker::insert leaves in a table does no harm.
THEOREM OwnRelaysWellRouted == Spec /\ [][RelaysToSelf]_vars => []WellRouted
  <1>1. Init => InFlightOK /\ PoolInv /\ RelaysAtHome
    <2>1. ASSUME Init PROVE RelaysAtHome
      BY <2>1 DEF Init, RelaysAtHome
    <2> QED
      BY <2>1, InitInFlight, InitInPool
  <1>2. InFlightOK /\ RelaysAtHome => WellRouted
    BY HomeIsWellRouted
  <1>3. InFlightOK /\ PoolInv /\ RelaysAtHome /\ [Next]_vars /\ [RelaysToSelf]_vars
          => (InFlightOK /\ PoolInv /\ RelaysAtHome)'
    BY <1>2, NextInFlight, NextInPool, PoolKept, NextHome
  <1> QED
    BY <1>1, <1>2, <1>3, PTL DEF Spec

\* So then the brokers implement the pool without further conditions: the entries of
\* the service's add, and of a client's, however they travel.
THEOREM OwnRelaysImplementPool == Spec /\ [][RelaysToSelf]_vars => ImplementsPool
  BY OwnRelaysWellRouted, BrokersImplementPool, PTL

-----------------------------------------------------------------------------
(***************************************************************************)
(* No event is invented.  The clocks and the tables that brokers send each *)
(* other were read from ports and from entries, and a count that was right *)
(* stays right, because no author forgets an event.                        *)
(***************************************************************************)

\* Every author counts its events.
Counts(C) == \A i \in Owned : Count(C, i) \in Nat

\* Every author has recorded at least as many events in D as in C.
Later(C, D) == Counts(C) /\ Counts(D) /\ \A i \in Owned : Count(C, i) <= Count(D, i)

\* A clock that is recorded is one later.
LEMMA RecordedStays ==
  ASSUME NEW C, NEW D, Later(C, D)
  PROVE  /\ \A c : Recorded(C, c) => Recorded(D, c)
         /\ \A table : RecordedTable(C, table) => RecordedTable(D, table)
         /\ \A c, table : RecordedIn(C, c, table) => RecordedIn(D, c, table)
  <1>1. ASSUME NEW c, Recorded(C, c) PROVE Recorded(D, c)
    <2>1. ASSUME NEW i \in DOMAIN c PROVE i \in Owned /\ c[i] \in 0..Count(D, i)
      <3> DEFINE k == Count(C, i)
                 l == Count(D, i)
      <3>1. i \in Owned /\ c[i] \in 0..k
        BY <1>1 DEF Recorded
      <3>2. k \in Nat /\ l \in Nat /\ k <= l
        BY <3>1 DEF Later, Counts
      <3> HIDE DEF k, l
      <3>3. c[i] \in 0..l
        BY <3>1, <3>2
      <3> QED
        BY <3>1, <3>3 DEF l
    <2> QED
      BY <1>1, <2>1 DEF Recorded
  <1>2. \A table : RecordedTable(C, table) => RecordedTable(D, table)
    BY <1>1 DEF RecordedTable
  <1> QED
    BY <1>1, <1>2 DEF RecordedIn

\* So it is in a call, in an answer and in a thread.
LEMMA ThreadRecordedStays ==
  ASSUME NEW C, NEW D, Later(C, D)
  PROVE  /\ \A f : FrameRecorded(C, f) => FrameRecorded(D, f)
         /\ \A f, v : ValueRecorded(C, f, v) => ValueRecorded(D, f, v)
         /\ \A s, v : ThreadRecorded(C, s, v) => ThreadRecorded(D, s, v)
  <1>1. \A f : FrameRecorded(C, f) => FrameRecorded(D, f)
    BY RecordedStays DEF FrameRecorded
  <1>2. \A f, v : ValueRecorded(C, f, v) => ValueRecorded(D, f, v)
    BY RecordedStays DEF ValueRecorded
  <1> QED
    BY <1>1, <1>2 DEF ThreadRecorded

\* Clock() and a table without journals.
LEMMA EmptyRecorded == \A C : Recorded(C, EmptyClock) /\ RecordedTable(C, NoProvides)
  BY DEF Recorded, RecordedTable, EmptyClock, NoProvides

\* Clock::merge makes no events.
LEMMA MergeRecorded ==
  ASSUME NEW C, Counts(C), NEW c, NEW d, Recorded(C, c), Recorded(C, d)
  PROVE  Recorded(C, Merge(c, d))
  <1> DEFINE m == Merge(c, d)
             value(i) == IF At(c, i) > At(d, i) THEN At(c, i) ELSE At(d, i)
  <1>1. m = [i \in DOMAIN c \cup DOMAIN d |-> value(i)]
    BY DEF Merge
  <1> HIDE DEF m
  <1>2. DOMAIN m = DOMAIN c \cup DOMAIN d /\ m = [i \in DOMAIN m |-> m[i]]
    BY <1>1
  <1>3. ASSUME NEW i \in DOMAIN m PROVE i \in Owned /\ m[i] \in 0..Count(C, i)
    <2> DEFINE k == Count(C, i)
    <2>1. /\ i \in DOMAIN c => i \in Owned /\ c[i] \in 0..k
          /\ i \in DOMAIN d => i \in Owned /\ d[i] \in 0..k
      BY DEF Recorded
    <2>2. i \in Owned /\ (i \in DOMAIN c \/ i \in DOMAIN d) /\ k \in Nat
      BY <1>2, <2>1 DEF Counts
    <2> HIDE DEF k
    <2>3. At(c, i) \in 0..k /\ At(d, i) \in 0..k
      <3>1. 0 \in 0..k
        BY <2>1, <2>2
      <3> QED
        BY <2>1, <3>1 DEF At
    <2>4. m[i] = value(i)
      BY <1>1
    <2>5. m[i] \in {At(c, i), At(d, i)}
      BY <2>4
    <2> QED
      BY <2>2, <2>3, <2>5 DEF k
  <1> QED
    BY <1>2, <1>3 DEF Recorded, m

\* The tables after Connection::insert and Broker::insert.
LEMMA RaisedRecorded ==
  ASSUME NEW C, Counts(C), NEW table, RecordedTable(C, table), NEW c, Recorded(C, c)
  PROVE  RecordedTable(C, Raised(table, c))
  <1> DEFINE r == Raised(table, c)
  <1>1. ASSUME NEW i \in DOMAIN table
        PROVE  /\ [table[i] EXCEPT !.clock = Merge(@, c)]
                     = [distance |-> table[i].distance, clock |-> Merge(table[i].clock, c)]
               /\ Recorded(C, Merge(table[i].clock, c))
    <2>1. table[i] = [distance |-> table[i].distance, clock |-> table[i].clock] /\ Recorded(C, table[i].clock)
      BY DEF RecordedTable
    <2> DEFINE x == table[i]
               y == Merge(x.clock, c)
    <2>2. Recorded(C, y)
      BY <2>1, MergeRecorded
    <2> HIDE DEF x, y
    <2>3. [x EXCEPT !.clock = y] = [distance |-> x.distance, clock |-> y]
      BY <2>1 DEF x
    <2> QED
      BY <2>2, <2>3 DEF x, y
  <1>2. r = [i \in DOMAIN table |-> [distance |-> table[i].distance, clock |-> Merge(table[i].clock, c)]]
    BY <1>1 DEF Raised
  <1> HIDE DEF r
  <1>3. DOMAIN r = DOMAIN table
    BY <1>2
  <1>4. \A i \in DOMAIN r : r[i] = [distance |-> r[i].distance, clock |-> r[i].clock]
                            /\ r[i].clock = Merge(table[i].clock, c)
    BY <1>2
  <1>5. r = [i \in DOMAIN r |-> [distance |-> r[i].distance, clock |-> r[i].clock]]
    BY <1>2, <1>4
  <1>6. \A i \in DOMAIN r : Recorded(C, r[i].clock)
    BY <1>1, <1>3, <1>4
  <1> QED
    BY <1>5, <1>6 DEF RecordedTable, r

\* provides()[id].clock = c.
LEMMA SetVersionRecorded ==
  ASSUME NEW C, NEW table, RecordedTable(C, table), NEW id, NEW c, Recorded(C, c)
  PROVE  RecordedTable(C, SetVersion(table, id, c))
  <1> DEFINE r == SetVersion(table, id, c)
             I == DOMAIN table \cup {id}
             old(i) == [distance |-> table[i].distance, clock |-> table[i].clock]
             new(i) == IF i \in DOMAIN table THEN [distance |-> table[i].distance, clock |-> c]
                                              ELSE [distance |-> 0, clock |-> c]
  <1>1. \A i \in DOMAIN table : table[i] = old(i) /\ Recorded(C, table[i].clock)
    BY DEF RecordedTable
  <1>2. \A i \in DOMAIN table : [table[i] EXCEPT !.clock = c] = [distance |-> table[i].distance, clock |-> c]
    BY <1>1
  <1>3. r = [i \in I |-> IF i # id THEN old(i) ELSE new(i)]
    BY <1>1, <1>2 DEF SetVersion
  <1> HIDE DEF r
  <1>4. DOMAIN r = I
    BY <1>3
  <1>5. ASSUME NEW i \in I
        PROVE  r[i] = [distance |-> r[i].distance, clock |-> r[i].clock] /\ Recorded(C, r[i].clock)
    <2>1. r[i] = IF i # id THEN old(i) ELSE new(i)
      BY <1>3
    <2>2. CASE i # id
      <3>1. r[i] = old(i) /\ i \in DOMAIN table
        BY <2>1, <2>2
      <3> QED
        BY <3>1, <1>1
    <2>3. CASE i = id
      <3>1. r[i] = new(i)
        BY <2>1, <2>3
      <3>2. r[i].clock = c /\ r[i] = [distance |-> r[i].distance, clock |-> r[i].clock]
        BY <3>1
      <3> QED
        BY <3>2
    <2> QED
      BY <2>2, <2>3
  <1>6. r = [i \in I |-> [distance |-> r[i].distance, clock |-> r[i].clock]]
    BY <1>3, <1>4, <1>5
  <1> QED
    BY <1>4, <1>5, <1>6 DEF RecordedTable, r

\* The port whose entry UpdateProvides keeps for journal i.
PortKept(sources, i) ==
  CHOOSE p \in DOMAIN sources :
    i \in DOMAIN sources[p] /\ \A q \in DOMAIN sources : i \in DOMAIN sources[q] => p <= q

\* It is one of those that lead to i.
LEMMA PortIsKept ==
  ASSUME NEW sources, DOMAIN sources \subseteq Nat, NEW i, \E p \in DOMAIN sources : i \in DOMAIN sources[p]
  PROVE  PortKept(sources, i) \in DOMAIN sources /\ i \in DOMAIN sources[PortKept(sources, i)]
  <1> DEFINE S == {p \in DOMAIN sources : i \in DOMAIN sources[p]}
  <1>1. S \subseteq Nat /\ S # {}
    OBVIOUS
  <1> HIDE DEF S
  <1>2. PICK p \in S : \A q \in S : ~(<<q, p>> \in OpToRel(<, Nat))
    BY <1>1, WFMin, NatLessThanWellFounded
  <1>3. \A q \in S : p <= q
    <2>1. \A q \in S : ~(q < p)
      BY <1>1, <1>2 DEF OpToRel
    <2> QED
      BY <1>1, <2>1
  <1>4. \E x \in DOMAIN sources : i \in DOMAIN sources[x] /\ \A q \in DOMAIN sources : i \in DOMAIN sources[q] => x <= q
    BY <1>3 DEF S
  <1> QED
    BY <1>4 DEF PortKept

\* UpdateProvides merges tables and counts hops; it makes no versions.
LEMMA UpdateRecorded ==
  ASSUME NEW C, NEW sources, DOMAIN sources \subseteq Nat,
         \A p \in DOMAIN sources : RecordedTable(C, sources[p])
  PROVE  RecordedTable(C, UpdateProvides(sources))
  <1> DEFINE r == UpdateProvides(sources)
             I == UNION {DOMAIN sources[p] : p \in DOMAIN sources}
             x(i) == sources[PortKept(sources, i)][i]
  <1>1. r = [i \in I |-> [distance |-> x(i).distance + 1, clock |-> x(i).clock]]
    BY DEF UpdateProvides, PortKept
  <1>2. ASSUME NEW i \in I PROVE Recorded(C, x(i).clock)
    <2>1. \E p \in DOMAIN sources : i \in DOMAIN sources[p]
      OBVIOUS
    <2>2. PortKept(sources, i) \in DOMAIN sources /\ i \in DOMAIN sources[PortKept(sources, i)]
      BY <2>1, PortIsKept
    <2> QED
      BY <2>2 DEF RecordedTable
  <1> HIDE DEF r, I, x
  <1>3. DOMAIN r = I /\ \A i \in I : r[i] = [distance |-> r[i].distance, clock |-> r[i].clock]
                                     /\ r[i].clock = x(i).clock
    BY <1>1
  <1>4. r = [i \in DOMAIN r |-> [distance |-> r[i].distance, clock |-> r[i].clock]]
    BY <1>1, <1>3
  <1>5. \A i \in DOMAIN r : Recorded(C, r[i].clock)
    BY <1>2, <1>3
  <1> QED
    BY <1>4, <1>5 DEF RecordedTable, r

\* What a broker knows at a port is recorded.
LEMMA PortRecorded ==
  ASSUME InFlightOK, PortsRecorded(conns), NEW n \in Brokers, NEW p \in Nat, p < Len(conns[n])
  PROVE  Recorded(conns, Conn(n, p).clock) /\ RecordedTable(conns, Conn(n, p).provides)
  <1>1. Len(conns[n]) \in Nat
    BY ConnsLen DEF InFlightOK
  <1>2. p + 1 \in 1..Len(conns[n])
    BY <1>1
  <1> QED
    BY <1>2 DEF PortsRecorded, RecordedIn, Conn

\* So is its own clock.
LEMMA ClockOfRecorded ==
  ASSUME InFlightOK, PortsRecorded(conns), NEW n \in Brokers
  PROVE  Recorded(conns, ClockOf(n))
  <1>1. Len(conns[n]) \in Nat \ {0}
    BY ConnsLen DEF InFlightOK
  <1>2. 0 \in Nat /\ 0 < Len(conns[n])
    BY <1>1
  <1> QED
    BY <1>2, PortRecorded DEF ClockOf

\* So is what connect and refreshConnections announce.
LEMMA AnnouncementRecorded ==
  ASSUME InFlightOK, PortsRecorded(conns), NEW n \in Brokers, NEW p
  PROVE  RecordedIn(conns, Announcement(n, p).clock, Announcement(n, p).provides)
  <1> DEFINE sources == Sources(n, p)
             P == {q \in 1..Len(conns[n]) - 1 : q # p /\ Live(n, q) /\ Conn(n, q).provides # NoProvides}
                    \cup (IF n \in Journals THEN {0} ELSE {})
             own == [i \in {IdOf[n]} |-> [distance |-> 0, clock |-> ClockOf(n)]]
  <1>1. Len(conns[n]) \in Nat \ {0}
    BY ConnsLen DEF InFlightOK
  <1>2. sources = [q \in P |-> IF q = 0 THEN own ELSE Conn(n, q).provides]
    BY DEF Sources
  <1>3. \A q \in P : q \in Nat /\ q < Len(conns[n])
    BY <1>1
  <1>4. Recorded(conns, ClockOf(n))
    BY ClockOfRecorded
  <1>5. RecordedTable(conns, own)
    <2>1. DOMAIN own = {IdOf[n]} /\ own[IdOf[n]] = [distance |-> 0, clock |-> ClockOf(n)]
      OBVIOUS
    <2>2. own = [i \in DOMAIN own |-> [distance |-> own[i].distance, clock |-> own[i].clock]]
      OBVIOUS
    <2> HIDE DEF own
    <2>3. \A i \in DOMAIN own : own[i].clock = ClockOf(n)
      BY <2>1
    <2> QED
      BY <1>4, <2>2, <2>3 DEF RecordedTable
  <1>6. \A q \in P : RecordedTable(conns, Conn(n, q).provides)
    BY <1>3, PortRecorded
  <1> HIDE DEF P, own, sources
  <1>7. DOMAIN sources = P /\ P \subseteq Nat
    BY <1>2, <1>3
  <1>8. \A q \in DOMAIN sources : RecordedTable(conns, sources[q])
    BY <1>2, <1>5, <1>6, <1>7
  <1>9. RecordedTable(conns, UpdateProvides(sources))
    BY <1>7, <1>8, UpdateRecorded
  <1>10. Announcement(n, p).clock = ClockOf(n) /\ Announcement(n, p).provides = UpdateProvides(sources)
    BY DEF Announcement, sources
  <1> QED
    BY <1>4, <1>9, <1>10 DEF RecordedIn

\* A recorded clock and a recorded table arrive as they were sent.
LEMMA WireRecorded ==
  ASSUME NEW C
  PROVE  /\ \A c : Recorded(C, c) => ClockFrom(SetClock(c)) = c
         /\ \A table : RecordedTable(C, table) => IdConnectionInfoMapFrom(SetIdConnectionInfoMap(table)) = table
  <1>1. ASSUME NEW c, Recorded(C, c) PROVE ClockFrom(SetClock(c)) = c
    <2>1. c \in [DOMAIN c -> {c[i] : i \in DOMAIN c}]
      BY <1>1 DEF Recorded
    <2> QED
      BY <2>1, ClockSurvives
  <1>2. ASSUME NEW table, RecordedTable(C, table)
        PROVE  IdConnectionInfoMapFrom(SetIdConnectionInfoMap(table)) = table
    <2>1. \A i \in DOMAIN table : table[i].clock = [j \in DOMAIN table[i].clock |-> table[i].clock[j]]
      BY <1>2 DEF RecordedTable, Recorded
    <2>2. table = [i \in DOMAIN table |-> [distance |-> table[i].distance, clock |-> table[i].clock]]
      BY <1>2 DEF RecordedTable
    <2> QED
      BY <2>1, <2>2, TableSurvives
  <1> QED
    BY <1>1, <1>2

-----------------------------------------------------------------------------
(***************************************************************************)
(* Calls that carry no clock of a broker, and those that do.               *)
(***************************************************************************)
Plain(f) == f.op \notin {"refresh", "accept"} /\ (f.op = "rpc" => f.rpc \notin {"Connect", "Refresh"})

\* A call that has just been made.
Fresh(f) == ~AwaitsClock(f) /\ (AwaitsConnection(f) => f.pc = "send")

\* Neither has anything to show.
LEMMA PlainRecorded ==
  /\ \A C, f : Plain(f) => FrameRecorded(C, f)
  /\ \A C, f, v : Fresh(f) => ValueRecorded(C, f, v)
  /\ \A g, f : ~AwaitsClock(f) => Tells(g, f)
  BY DEF Plain, Fresh, FrameRecorded, ValueRecorded, Tells

\* The calls of a connection that carry entries or nothing.
LEMMA PlainCalls ==
  /\ \A n, m, e, sender : LET g == Insert(n, m, e, sender)
                          IN  Plain(g) /\ Fresh(g) /\ \A f : Tells(g, f)
  /\ \A n, m, list, sender : LET g == InsertList(n, m, list, sender)
                             IN  Plain(g) /\ Fresh(g) /\ \A f : Tells(g, f)
  /\ \A n, m, from, sender : Plain(Query(n, m, from, sender)) /\ Fresh(Query(n, m, from, sender))
  /\ \A n, m, data, sender : Plain(Relay(n, m, data, sender)) /\ Fresh(Relay(n, m, data, sender))
  /\ \A n, p : Plain(RefreshConnectionsCall(n, p)) /\ Fresh(RefreshConnectionsCall(n, p))
  /\ \A n, from, p : Plain(QueryCall(n, from, p)) /\ Fresh(QueryCall(n, from, p))
  <1> USE DEF Plain, Fresh, AwaitsClock, AwaitsConnection, Tells
  <1>1. \A n, m, e, sender : LET g == Insert(n, m, e, sender)
                             IN  Plain(g) /\ Fresh(g) /\ \A f : Tells(g, f)
    BY DEF Insert, Stub, InsertCall
  <1>2. \A n, m, list, sender : LET g == InsertList(n, m, list, sender)
                                IN  Plain(g) /\ Fresh(g) /\ \A f : Tells(g, f)
    BY DEF InsertList
  <1>3. \A n, m, from, sender : Plain(Query(n, m, from, sender)) /\ Fresh(Query(n, m, from, sender))
    BY DEF Query, Stub, QueryCall
  <1>4. \A n, m, data, sender : Plain(Relay(n, m, data, sender)) /\ Fresh(Relay(n, m, data, sender))
    BY DEF Relay, Stub, RelayCall
  <1>5. \A n, p : Plain(RefreshConnectionsCall(n, p)) /\ Fresh(RefreshConnectionsCall(n, p))
    BY DEF RefreshConnectionsCall
  <1>6. \A n, from, p : Plain(QueryCall(n, from, p)) /\ Fresh(QueryCall(n, from, p))
    BY DEF QueryCall
  <1> QED
    BY <1>1, <1>2, <1>3, <1>4, <1>5, <1>6

\* Connection::refresh carries what it was given, here and by a message.
LEMMA RefreshRecorded ==
  ASSUME NEW C, NEW n, NEW m, NEW conn, NEW sender, RecordedIn(C, conn.clock, conn.provides)
  PROVE  FrameRecorded(C, Refresh(n, m, conn, sender)) /\ Fresh(Refresh(n, m, conn, sender))
  <1> DEFINE f == Refresh(n, m, conn, sender)
             r == [sender |-> sender, source |-> conn.source, clock |-> SetClock(conn.clock),
                   sources |-> SetIdConnectionInfoMap(conn.provides)]
  <1>1. CASE Remote(n, m)
    <2>1. f = Stub(n, m, "Refresh", r)
      BY <1>1 DEF Refresh
    <2>2. ClockFrom(r.clock) = conn.clock /\ IdConnectionInfoMapFrom(r.sources) = conn.provides
      BY WireRecorded DEF RecordedIn
    <2> HIDE DEF r
    <2>3. f.op = "rpc" /\ f.rpc = "Refresh" /\ f.request = r
      BY <2>1 DEF Stub
    <2> QED
      BY <2>2, <2>3 DEF FrameRecorded, Fresh, AwaitsClock, AwaitsConnection
  <1>2. CASE ~Remote(n, m)
    <2>1. f.op = "refresh" /\ f.data = conn
      BY <1>2 DEF Refresh, RefreshCall
    <2> QED
      BY <2>1 DEF FrameRecorded, Fresh, AwaitsClock, AwaitsConnection
  <1> QED
    BY <1>1, <1>2

\* So does Connection::connect.
LEMMA ConnectRecorded ==
  ASSUME NEW C, NEW n, NEW m, NEW conn, RecordedIn(C, conn.clock, conn.provides)
  PROVE  FrameRecorded(C, Connect(n, m, conn)) /\ Fresh(Connect(n, m, conn))
  <1> DEFINE f == Connect(n, m, conn)
             r == [source |-> conn.source, clock |-> SetClock(conn.clock), broker |-> conn.peer,
                   sources |-> SetIdConnectionInfoMap(conn.provides)]
  <1>1. CASE Remote(n, m)
    <2>1. f = Stub(n, m, "Connect", r)
      BY <1>1 DEF Connect
    <2>2. ClockFrom(r.clock) = conn.clock /\ IdConnectionInfoMapFrom(r.sources) = conn.provides
      BY WireRecorded DEF RecordedIn
    <2> HIDE DEF r
    <2>3. f.op = "rpc" /\ f.rpc = "Connect" /\ f.request = r /\ f.pc = "send"
      BY <2>1 DEF Stub
    <2> QED
      BY <2>2, <2>3 DEF FrameRecorded, Fresh, AwaitsClock, AwaitsConnection
  <1>2. CASE ~Remote(n, m)
    <2>1. f.op = "accept" /\ f.data = conn
      BY <1>2 DEF Connect, AcceptCall
    <2> QED
      BY <2>1 DEF FrameRecorded, Fresh, AwaitsClock, AwaitsConnection
  <1> QED
    BY <1>1, <1>2

-----------------------------------------------------------------------------
(***************************************************************************)
(* A step of a thread.                                                     *)
(***************************************************************************)

\* The ports are right after the step and no author has forgotten an event.
Recording == InFlightOK /\ ClocksRecorded /\ Later(conns, conns') /\ PortsRecorded(conns')

\* A step that leaves the ports alone.
LEMMA PortsSame ==
  ASSUME InFlightOK, ClocksRecorded, Later(conns, conns'), conns' = conns
  PROVE  Recording
  BY DEF Recording, ClocksRecorded

\* A thread whose calls are right after the step.
LEMMA StepRecorded ==
  ASSUME Recording, NEW t \in Threads, NEW s, NEW v, stack' = [stack EXCEPT ![t] = s],
         ret' = [ret EXCEPT ![t] = v], ThreadRecorded(conns', s, v)
  PROVE  ClocksRecorded'
  <1>1. stack = [u \in Threads |-> stack[u]] /\ ret = [u \in Threads |-> ret[u]]
    BY DEF Recording, InFlightOK, CallsOK
  <1>2. \A u \in Threads : /\ stack'[u] = IF u = t THEN s ELSE stack[u]
                           /\ ret'[u] = IF u = t THEN v ELSE ret[u]
    BY <1>1
  <1>3. \A u \in Threads : ThreadRecorded(conns', stack[u], ret[u])
    BY ThreadRecordedStays DEF Recording, ClocksRecorded
  <1>4. \A u \in Threads : ThreadRecorded(conns', stack'[u], ret'[u])
    BY <1>2, <1>3
  <1> QED
    BY <1>4 DEF Recording, ClocksRecorded

\* What is known of the calls of a thread before its step.
LEMMA RecordedBefore ==
  ASSUME Recording, NEW t \in Threads, stack[t] # <<>>
  PROVE  /\ IsSeq(stack[t]) /\ Len(stack[t]) \in Nat \ {0} /\ Frame(t) = stack[t][1]
         /\ \A i \in 1..Len(stack[t]) : FrameRecorded(conns', stack[t][i])
         /\ \A i \in 1..Len(stack[t]) - 1 : Tells(stack[t][i], stack[t][i + 1]) /\ Answers(stack[t][i], stack[t][i + 1])
  <1>1. ThreadRecorded(conns', stack[t], ret[t])
    BY ThreadRecordedStays DEF Recording, ClocksRecorded
  <1>2. ThreadOK(conns, entries, stack[t], ret[t])
    BY DEF Recording, InFlightOK, CallsOK
  <1>3. IsSeq(stack[t]) /\ Len(stack[t]) \in Nat \ {0} /\ Frame(t) = stack[t][1]
    BY <1>2, IsSeqLen DEF ThreadOK, Frame
  <1> QED
    BY <1>1, <1>2, <1>3 DEF ThreadRecorded, ThreadOK

\* The call that is running, and what was returned to it.
LEMMA RunsRecorded ==
  ASSUME InFlightOK, ClocksRecorded, NEW t \in Threads, stack[t] # <<>>
  PROVE  FrameRecorded(conns, Frame(t)) /\ ValueRecorded(conns, Frame(t), ret[t])
  <1>1. ThreadRecorded(conns, stack[t], ret[t]) /\ ThreadOK(conns, entries, stack[t], ret[t])
    BY DEF ClocksRecorded, InFlightOK, CallsOK
  <1>2. Len(stack[t]) \in Nat \ {0} /\ Frame(t) = stack[t][1]
    BY <1>1, IsSeqLen DEF ThreadOK, Frame
  <1> QED
    BY <1>1, <1>2 DEF ThreadRecorded

\* The running call goes on, as one that tells its callers what they take over.
LEMMA GotoRecorded ==
  ASSUME Recording, NEW t \in Threads, stack[t] # <<>>, NEW f, Goto(t, f), ret' = ret,
         FrameRecorded(conns', f), \A h : Tells(Frame(t), h) => Tells(f, h),
         ValueRecorded(conns', f, ret[t])
  PROVE  ClocksRecorded'
  <1> DEFINE s == stack[t]
             r == <<f>> \o Tail(s)
  <1>1. /\ IsSeq(s) /\ Len(s) \in Nat \ {0} /\ Frame(t) = s[1]
        /\ \A i \in 1..Len(s) : FrameRecorded(conns', s[i])
        /\ \A i \in 1..Len(s) - 1 : Tells(s[i], s[i + 1])
    BY RecordedBefore
  <1>2. Len(r) = Len(s) /\ r[1] = f /\ \A i \in 2..Len(s) : r[i] = s[i]
    BY <1>1, GotoSeq
  <1>3. stack' = [stack EXCEPT ![t] = r]
    BY DEF Goto
  <1>4. ret' = [ret EXCEPT ![t] = ret[t]]
    BY KeepsRet DEF Recording
  <1> HIDE DEF r, s
  <1>5. \A i \in 1..Len(r) : FrameRecorded(conns', r[i])
    BY <1>1, <1>2
  <1>6. ASSUME NEW i \in 1..Len(r) - 1 PROVE Tells(r[i], r[i + 1])
    <2>1. i \in 1..Len(s) - 1 /\ i + 1 \in 2..Len(s)
      BY <1>1, <1>2
    <2>2. r[i + 1] = s[i + 1] /\ Tells(s[i], s[i + 1])
      BY <2>1, <1>1, <1>2
    <2>3. CASE i = 1
      BY <2>2, <2>3, <1>1, <1>2
    <2>4. CASE i # 1
      <3>1. i \in 2..Len(s)
        BY <2>1, <2>4, <1>1
      <3> QED
        BY <3>1, <2>2, <1>2
    <2> QED
      BY <2>3, <2>4
  <1>7. ThreadRecorded(conns', r, ret[t])
    BY <1>2, <1>5, <1>6 DEF ThreadRecorded
  <1> QED
    BY <1>3, <1>4, <1>7, StepRecorded

\* A call is made.
LEMMA CallRecorded ==
  ASSUME Recording, NEW t \in Threads, stack[t] # <<>>, NEW f, NEW g, Call(t, f, g), ret' = ret,
         FrameRecorded(conns', f), FrameRecorded(conns', g), Tells(g, f),
         \A h : Tells(Frame(t), h) => Tells(f, h), Fresh(g)
  PROVE  ClocksRecorded'
  <1> DEFINE s == stack[t]
             r == <<g, f>> \o Tail(s)
  <1>1. /\ IsSeq(s) /\ Len(s) \in Nat \ {0} /\ Frame(t) = s[1]
        /\ \A i \in 1..Len(s) : FrameRecorded(conns', s[i])
        /\ \A i \in 1..Len(s) - 1 : Tells(s[i], s[i + 1])
    BY RecordedBefore
  <1>2. Len(r) = Len(s) + 1 /\ r[1] = g /\ r[2] = f /\ \A i \in 2..Len(s) : r[i + 1] = s[i]
    BY <1>1, CallSeq
  <1>3. stack' = [stack EXCEPT ![t] = r]
    BY DEF Call
  <1>4. ret' = [ret EXCEPT ![t] = ret[t]]
    BY KeepsRet DEF Recording
  <1> HIDE DEF r, s
  <1>5. ASSUME NEW i \in 1..Len(r), i \notin {1, 2} PROVE i - 1 \in 2..Len(s) /\ r[i] = s[i - 1]
    <2>1. i - 1 \in 2..Len(s) /\ (i - 1) + 1 = i
      BY <1>1, <1>2, <1>5
    <2> QED
      BY <2>1, <1>2
  <1>6. ASSUME NEW i \in 1..Len(r) PROVE FrameRecorded(conns', r[i])
    <2>1. CASE i \in {1, 2}
      BY <2>1, <1>2
    <2>2. CASE i \notin {1, 2}
      BY <2>2, <1>1, <1>5
    <2> QED
      BY <2>1, <2>2
  <1>7. ASSUME NEW i \in 1..Len(r) - 1 PROVE Tells(r[i], r[i + 1])
    <2>1. i + 1 \in 1..Len(r) /\ i \in 1..Len(r) /\ i \in 1..Len(s)
      BY <1>1, <1>2
    <2>2. CASE i = 1
      BY <2>2, <1>2
    <2>3. CASE i # 1
      <3>1. i \in 2..Len(s) /\ i - 1 \in 1..Len(s) - 1 /\ (i - 1) + 1 = i
        BY <2>1, <2>3, <1>1
      <3>2. r[i + 1] = s[i] /\ Tells(s[i - 1], s[i])
        BY <3>1, <1>1, <1>2
      <3>3. CASE i = 2
        BY <3>2, <3>3, <1>1, <1>2
      <3>4. CASE i # 2
        BY <3>2, <3>4, <2>1, <2>3, <1>5
      <3> QED
        BY <3>3, <3>4
    <2> QED
      BY <2>2, <2>3
  <1>8. ThreadRecorded(conns', r, ret[t])
    <2>1. ValueRecorded(conns', r[1], ret[t])
      BY <1>2, PlainRecorded
    <2> QED
      BY <2>1, <1>6, <1>7 DEF ThreadRecorded
  <1> QED
    BY <1>3, <1>4, <1>8, StepRecorded

\* A call ends and tells its caller what it takes over.
LEMMA ReturnRecorded ==
  ASSUME Recording, NEW t \in Threads, stack[t] # <<>>, NEW w, Return(t, w),
         \A h : Tells(Frame(t), h) /\ Answers(Frame(t), h) => ValueRecorded(conns', h, w)
  PROVE  ClocksRecorded'
  <1> DEFINE s == stack[t]
             r == Tail(s)
             v == IF Len(s) = 1 THEN Done ELSE w
  <1>1. /\ IsSeq(s) /\ Len(s) \in Nat \ {0} /\ Frame(t) = s[1]
        /\ \A i \in 1..Len(s) : FrameRecorded(conns', s[i])
        /\ \A i \in 1..Len(s) - 1 : Tells(s[i], s[i + 1]) /\ Answers(s[i], s[i + 1])
    BY RecordedBefore
  <1>2. IsSeq(r) /\ Len(r) = Len(s) - 1 /\ \A i \in 1..Len(s) - 1 : r[i] = s[i + 1]
    BY <1>1, ReturnSeq
  <1>3. stack' = [stack EXCEPT ![t] = r] /\ ret' = [ret EXCEPT ![t] = v]
    BY DEF Return
  <1> HIDE DEF r, s
  <1>4. \A i \in 1..Len(r) : FrameRecorded(conns', r[i])
    BY <1>1, <1>2
  <1>5. ASSUME NEW i \in 1..Len(r) - 1 PROVE Tells(r[i], r[i + 1])
    <2>1. i \in 1..Len(s) - 1 /\ i + 1 \in 1..Len(s) - 1
      BY <1>1, <1>2
    <2>2. r[i] = s[i + 1] /\ r[i + 1] = s[(i + 1) + 1]
      BY <2>1, <1>2
    <2> QED
      BY <2>1, <2>2, <1>1
  <1>6. ASSUME r # <<>> PROVE ValueRecorded(conns', r[1], v)
    <2>1. Len(r) # 0
      BY <1>2, <1>6, IsSeqLen
    <2>2. Len(s) # 1 /\ 1 \in 1..Len(s) - 1
      BY <2>1, <1>1, <1>2
    <2>3. r[1] = s[1 + 1] /\ Tells(s[1], s[1 + 1]) /\ Answers(s[1], s[1 + 1])
      BY <2>2, <1>1, <1>2
    <2>4. v = w
      BY <2>2
    <2> QED
      BY <2>3, <2>4, <1>1
  <1> HIDE DEF v
  <1>7. ThreadRecorded(conns', r, v)
    BY <1>4, <1>5, <1>6 DEF ThreadRecorded
  <1> QED
    BY <1>3, <1>7, StepRecorded

\* A command is given.
LEMMA StartRecorded ==
  ASSUME Recording, NEW t \in Threads, NEW f, Start(t, f), ret' = ret, FrameRecorded(conns', f), Fresh(f)
  PROVE  ClocksRecorded'
  <1> DEFINE r == <<f>>
  <1>1. Len(r) = 1 /\ r[1] = f
    OBVIOUS
  <1>2. stack' = [stack EXCEPT ![t] = r]
    BY DEF Start
  <1>3. ret' = [ret EXCEPT ![t] = ret[t]]
    BY KeepsRet DEF Recording
  <1> HIDE DEF r
  <1>4. ThreadRecorded(conns', r, ret[t])
    BY <1>1, PlainRecorded DEF ThreadRecorded
  <1> QED
    BY <1>2, <1>3, <1>4, StepRecorded

\* A call ends whose result holds no clock that anybody takes over.
LEMMA SilentReturn ==
  ASSUME Recording, NEW t \in Threads, stack[t] # <<>>, NEW w, Return(t, w),
         Frame(t).op \notin {"insert", "insertList", "accept", "rpc"}
  PROVE  ClocksRecorded'
  <1>1. \A h : Tells(Frame(t), h) /\ Answers(Frame(t), h) => ValueRecorded(conns', h, w)
    BY DEF Tells, Answers, ValueRecorded
  <1> QED
    BY <1>1, ReturnRecorded

\* A call ends that was made for a clock, with a refusal or a clock that is right.
LEMMA ClockReturn ==
  ASSUME Recording, NEW t \in Threads, stack[t] # <<>>, NEW w, Return(t, w),
         Frame(t).op \notin {"accept", "rpc"}, Valid(w.clock) => Recorded(conns', w.clock)
  PROVE  ClocksRecorded'
  <1>1. \A h : Tells(Frame(t), h) /\ Answers(Frame(t), h) => ValueRecorded(conns', h, w)
    BY DEF Tells, Answers, ValueRecorded
  <1> QED
    BY <1>1, ReturnRecorded

-----------------------------------------------------------------------------
(***************************************************************************)
(* Clocks of entries, and the authors' counts.                             *)
(***************************************************************************)

\* What is proved of the pool: the authors count, and an entry's clock counts what
\* its authors recorded.
LEMMA PoolCounts == PoolInv => Counts(conns) /\ \A e \in MadeIn(entries) : Recorded(conns, e.clock)
  <1> SUFFICES ASSUME PoolInv PROVE Counts(conns) /\ \A e \in MadeIn(entries) : Recorded(conns, e.clock)
    OBVIOUS
  <1>1. \A n \in Owned : ClockOf(n) \in ClocksOver(Owned, 1..MaxTime)
    BY DEF PoolInv, PoolProofs!IInv, PoolProofs!TypeOK, PoolProofs!Clock, PoolProofs!ClocksOver, ClocksOver
  <1>2. \A n \in Owned : \A e \in entries[n] : Leq(e.clock, ClockOf(n))
    BY DEF PoolInv, PoolProofs!IInv, PoolProofs!ClockCoversEntries, PoolProofs!Leq, Leq
  <1>3. \A n \in Owned : DOMAIN ClockOf(n) \subseteq Owned /\ ClockOf(n) \in [DOMAIN ClockOf(n) -> 1..MaxTime]
    BY <1>1, ClockShape
  <1>4. \A n \in Owned : \A i \in DOMAIN ClockOf(n) : ClockOf(n)[i] <= At(ClockOf(i), i)
    BY <1>3, SameClocks DEF PoolInv, PoolProofs!IInv, PoolProofs!AuthorAhead
  <1>5. \A i : Count(conns, i) = At(ClockOf(i), i)
    BY OwnClock DEF Count
  <1>6. \A i \in Owned : Count(conns, i) \in Nat
    <2>1. \A i \in Owned : At(ClockOf(i), i) \in Nat
      BY <1>3, MaxTimeAssumption DEF At
    <2> QED
      BY <2>1, <1>5
  <1>7. ASSUME NEW e \in MadeIn(entries) PROVE Recorded(conns, e.clock)
    <2>1. PICK n \in Owned : e \in entries[n]
      BY DEF MadeIn
    <2>2. e.clock \in ClocksOver(Owned, 1..MaxTime)
      BY <1>7, MadeFacts DEF Made
    <2> DEFINE c == e.clock
               d == ClockOf(n)
    <2>3. DOMAIN c \subseteq Owned /\ c \in [DOMAIN c -> 1..MaxTime]
      BY <2>2, ClockShape
    <2>4. Leq(c, d) /\ (\A i \in DOMAIN d : d[i] <= At(ClockOf(i), i)) /\ d \in [DOMAIN d -> 1..MaxTime]
      BY <2>1, <1>2, <1>3, <1>4
    <2> HIDE DEF c, d
    <2>5. ASSUME NEW i \in DOMAIN c PROVE i \in Owned /\ c[i] \in 0..Count(conns, i)
      <3> DEFINE k == At(ClockOf(i), i)
      <3>1. i \in Owned /\ c[i] \in Nat /\ i \in DOMAIN d /\ c[i] <= d[i] /\ d[i] <= k /\ d[i] \in Nat
        BY <2>3, <2>4, MaxTimeAssumption DEF Leq
      <3>2. k = Count(conns, i) /\ k \in Nat
        BY <3>1, <1>5, <1>6
      <3> HIDE DEF k
      <3> QED
        BY <3>1, <3>2
    <2>6. c = [i \in DOMAIN c |-> c[i]]
      BY <2>3
    <2> QED
      BY <2>5, <2>6 DEF Recorded, c
  <1> QED
    BY <1>6, <1>7 DEF Counts

\* So it is after a step.
LEMMA PoolCountsNext == PoolInv' => Counts(conns') /\ \A e \in MadeIn(entries') : Recorded(conns', e.clock)
  <1> DEFINE P == Counts(conns) /\ \A e \in MadeIn(entries) : Recorded(conns, e.clock)
  <1>1. PoolInv => P
    BY PoolCounts
  <1> HIDE DEF P
  <1>2. PoolInv' => P'
    BY <1>1, PTL
  <1> QED
    BY <1>2 DEF P, Counts, Recorded, Count, MadeIn

\* No author forgets an event.
LEMMA CountsGrow ==
  ASSUME PoolInv, [PoolProofs!Next]_(PoolProofs!vars), PoolInv'
  PROVE  Later(conns, conns')
  <1>1. Owned \subseteq Nat \ {0}
    BY Ids
  <1>2. PoolProofs!TypeOK
    BY DEF PoolInv, PoolProofs!IInv
  <1>3. \A n \in Owned : PoolProofs!Leq([m \in Owned |-> ClockOf(m)][n], [m \in Owned |-> ClockOf(m)]'[n])
    BY <1>1, <1>2, MaxTimeAssumption, PoolProofs!StepGrows
  <1>4. \A n \in Owned : Leq(conns[n][1].clock, conns'[n][1].clock)
    BY <1>3 DEF PoolProofs!Leq, Leq, ClockOf, Conn
  <1>5. Counts(conns) /\ Counts(conns')
    BY PoolCounts, PoolCountsNext
  <1>6. ASSUME NEW i \in Owned PROVE Count(conns, i) <= Count(conns', i)
    <2> DEFINE c == conns[i][1].clock
               d == conns'[i][1].clock
    <2>1. Leq(c, d) /\ At(c, i) \in Nat /\ At(d, i) \in Nat
      BY <1>4, <1>5 DEF Counts, Count
    <2> HIDE DEF c, d
    <2>2. At(c, i) <= At(d, i)
      BY <2>1 DEF Leq, At
    <2> QED
      BY <2>2 DEF Count, c, d
  <1> QED
    BY <1>5, <1>6 DEF Later

-----------------------------------------------------------------------------
(***************************************************************************)
(* The ports after a step.                                                 *)
(***************************************************************************)

\* The ports of n have changed.
LEMMA ChangeRecorded ==
  ASSUME InFlightOK, ClocksRecorded, Later(conns, conns'), NEW n \in Brokers,
         \A m \in Brokers : m # n => conns'[m] = conns[m],
         \A i \in 1..Len(conns'[n]) : RecordedIn(conns', conns'[n][i].clock, conns'[n][i].provides)
  PROVE  Recording
  <1>1. \A m \in Brokers : \A i \in 1..Len(conns[m]) : RecordedIn(conns', conns[m][i].clock, conns[m][i].provides)
    BY RecordedStays DEF ClocksRecorded, PortsRecorded
  <1>2. PortsRecorded(conns')
    BY <1>1 DEF PortsRecorded
  <1> QED
    BY <1>2 DEF Recording

\* One port has changed.
LEMMA PutRecorded ==
  ASSUME InFlightOK, ClocksRecorded, Later(conns, conns'), NEW n \in Brokers, NEW p \in 0..Len(conns[n]) - 1,
         NEW x, conns' = Put(conns, n, p + 1, x), RecordedIn(conns, x.clock, x.provides)
  PROVE  Recording
  <1>1. conns = [m \in Brokers |-> conns[m]] /\ PortsOK(conns, n)
    BY DEF InFlightOK, ConnsOK
  <1>2. Len(conns[n]) \in Nat /\ DOMAIN conns[n] = 1..Len(conns[n])
    BY ConnsLen DEF InFlightOK
  <1>3. conns' = [m \in Brokers |-> IF m = n THEN [conns[n] EXCEPT ![p + 1] = x] ELSE conns[m]]
    BY <1>1 DEF Put
  <1>4. conns'[n] = [i \in 1..Len(conns[n]) |-> IF i = p + 1 THEN x ELSE conns[n][i]]
    <2>1. conns[n] = [i \in 1..Len(conns[n]) |-> conns[n][i]]
      BY <1>1, <1>2 DEF PortsOK, IsSeq
    <2> QED
      BY <1>3, <2>1
  <1>5. Len(conns'[n]) = Len(conns[n])
    <2> DEFINE Y == conns'[n]
               L == Len(conns[n])
               S == {x} \cup {conns[n][i] : i \in 1..L}
    <2>1. Y \in [1..L -> S]
      BY <1>4
    <2> HIDE DEF Y, L, S
    <2>2. L \in Nat
      BY <1>2 DEF L
    <2>3. Len(Y) = L
      BY <2>1, <2>2
    <2> QED
      BY <2>3 DEF Y, L
  <1>6. \A i \in 1..Len(conns[n]) : RecordedIn(conns', conns[n][i].clock, conns[n][i].provides)
    BY RecordedStays DEF ClocksRecorded, PortsRecorded
  <1>7. RecordedIn(conns', x.clock, x.provides)
    BY RecordedStays
  <1>8. \A i \in 1..Len(conns'[n]) : RecordedIn(conns', conns'[n][i].clock, conns'[n][i].provides)
    BY <1>4, <1>5, <1>6, <1>7
  <1>9. \A m \in Brokers : m # n => conns'[m] = conns[m]
    BY <1>3
  <1> QED
    BY <1>8, <1>9, ChangeRecorded

\* A port was opened.
LEMMA OpenedRecorded ==
  ASSUME InFlightOK, ClocksRecorded, Later(conns, conns'), NEW n \in Brokers, NEW x,
         conns' = Opened(conns, n, x), RecordedIn(conns, x.clock, x.provides)
  PROVE  Recording
  <1>1. conns = [m \in Brokers |-> conns[m]] /\ IsSeq(conns[n]) /\ Len(conns[n]) \in Nat
    BY ConnsLen DEF InFlightOK, ConnsOK, PortsOK
  <1>2. conns' = [m \in Brokers |-> IF m = n THEN Append(conns[n], x) ELSE conns[m]]
    BY <1>1 DEF Opened
  <1> DEFINE S == {conns[n][i] : i \in 1..Len(conns[n])} \cup {x}
             L == Len(conns[n])
             X == conns[n]
             Y == conns'[n]
  <1>3. X \in Seq(S) /\ x \in S /\ Y = Append(X, x)
    BY <1>1, <1>2, SeqMonotonic DEF IsSeq
  <1>4. \A i \in 1..L : RecordedIn(conns', X[i].clock, X[i].provides)
    BY RecordedStays DEF ClocksRecorded, PortsRecorded
  <1>5. RecordedIn(conns', x.clock, x.provides)
    BY RecordedStays
  <1>6. \A m \in Brokers : m # n => conns'[m] = conns[m]
    BY <1>2
  <1>7. L \in Nat /\ L = Len(X)
    BY <1>1
  <1> HIDE DEF S, L, X, Y
  <1>8. Len(Y) = L + 1 /\ (\A i \in 1..L : Y[i] = X[i]) /\ Y[L + 1] = x
    BY <1>3, <1>7, AppendProperties
  <1>9. ASSUME NEW i \in 1..Len(Y) PROVE RecordedIn(conns', Y[i].clock, Y[i].provides)
    <2>1. i \in 1..L \/ i = L + 1
      BY <1>7, <1>8
    <2> QED
      BY <2>1, <1>4, <1>5, <1>8
  <1>10. \A i \in 1..Len(conns'[n]) : RecordedIn(conns', conns'[n][i].clock, conns'[n][i].provides)
    BY <1>9 DEF Y
  <1> QED
    BY <1>6, <1>10, ChangeRecorded

\* Broker::insert has advanced the ports of a broker.
LEMMA AdvancedRecorded ==
  ASSUME NEW C, NEW L \in Nat \ {0}, NEW X, Ports(X, L),
         \A j \in 1..L : RecordedIn(C, X[j].clock, X[j].provides),
         NEW c, Recorded(C, c), NEW id, NEW source \in 0..L - 1, NEW Y, Y = Advanced(X, source, id, c)
  PROVE  \A j \in 1..L : RecordedIn(C, Y[j].clock, Y[j].provides)
  <1> USE DEF Ports
  <1> DEFINE i == source + 1
             x == [X[1] EXCEPT !.clock = c]
             Z == [X EXCEPT ![1] = x]
             v == SetVersion(Z[i].provides, id, c)
             z == [Z[i] EXCEPT !.provides = v]
  <1>1. Y = [Z EXCEPT ![i] = z]
    BY DEF Advanced
  <1>2. 1 \in 1..L /\ i \in 1..L /\ IsConnection(X[1])
    OBVIOUS
  <1>3. IsConnection(x) /\ x.provides = X[1].provides /\ x.clock = c
    BY <1>2 DEF IsConnection
  <1> HIDE DEF x, i
  <1>4. Z = [j \in 1..L |-> IF j = 1 THEN x ELSE X[j]]
    OBVIOUS
  <1> HIDE DEF Z
  <1>5. \A j \in 1..L : IsConnection(Z[j]) /\ RecordedIn(C, Z[j].clock, Z[j].provides)
    BY <1>2, <1>3, <1>4 DEF RecordedIn
  <1>6. RecordedTable(C, v)
    BY <1>2, <1>5, SetVersionRecorded DEF RecordedIn
  <1> HIDE DEF v
  <1>7. z.clock = Z[i].clock /\ z.provides = v
    <2>1. IsConnection(Z[i])
      BY <1>2, <1>5
    <2> QED
      BY <2>1 DEF IsConnection
  <1>8. RecordedIn(C, z.clock, z.provides)
    BY <1>2, <1>5, <1>6, <1>7 DEF RecordedIn
  <1> HIDE DEF z
  <1>9. Y = [j \in 1..L |-> IF j = i THEN z ELSE Z[j]]
    BY <1>1, <1>4
  <1> QED
    BY <1>5, <1>8, <1>9

-----------------------------------------------------------------------------
(***************************************************************************)
(* Every step keeps the clocks recorded.                                   *)
(***************************************************************************)

\* What is known before a step, and of the journals after it.
StepFrom == InFlightOK /\ PoolInv /\ ClocksRecorded /\ PoolInv' /\ Later(conns, conns')

\* JournalBase::insert and Broker::insert up to the first call.
LEMMA InsertLocallyRecorded ==
  ASSUME StepFrom, NEW t \in Threads, stack[t] # <<>>, Frame(t).op \in {"insert", "append", "relay"},
         NEW n \in Brokers, NEW e, e \in Made \/ n \in Owned, NEW source \in Nat,
         InsertLocally(t, n, e, source)
  PROVE  ClocksRecorded'
  <1> USE DEF StepFrom
  <1> DEFINE c == Merge(ClockOf(n), e.clock)
             D == [conns EXCEPT ![n] = Advanced(conns[n], source, e.id, c)]
             f == [InsertCall(n, e, source) EXCEPT !.pc = "loop"]
             w == [clock |-> InvalidClock]
  <1>1. ~Valid(w.clock) /\ Frame(t).op \notin {"accept", "rpc"}
    BY DEF Valid, InvalidClock
  <1>2. CASE conns' = conns /\ Return(t, w)
    <2>1. Recording
      BY <1>2, PortsSame
    <2> HIDE DEF w
    <2> QED
      BY <1>1, <1>2, <2>1, ClockReturn
  <1>3. CASE ~(conns' = conns /\ Return(t, w))
    <2>1. /\ entries' = IF n \in Journals THEN [entries EXCEPT ![n] = @ \cup {e}] ELSE entries
          /\ ~(source >= Len(conns[n])) /\ conns' = D /\ Goto(t, f) /\ ret' = ret
      BY <1>3 DEF InsertLocally
    <2>2. Len(conns[n]) \in Nat \ {0} /\ source \in 0..Len(conns[n]) - 1
      BY <2>1, ConnsLen DEF InFlightOK
    <2>3. StoresOK(entries') /\ Adds(entries, entries')
      BY <2>1, EntryAdded, Unchanged DEF InFlightOK, Made
    <2>4. e \in MadeIn(entries')
      <3>1. CASE e \in Made
        BY <3>1, <2>3 DEF Made, Adds
      <3>2. CASE n \in Owned
        <4>1. n \in Journals /\ entries = [m \in Journals |-> entries[m]]
          BY <3>2, Ids DEF InFlightOK, StoresOK
        <4>2. e \in entries'[n]
          BY <2>1, <4>1
        <4> QED
          BY <3>2, <4>2 DEF MadeIn
      <3> QED
        BY <3>1, <3>2
    <2>5. Recorded(conns', c)
      <3>1. Recorded(conns', e.clock)
        BY <2>4, PoolCountsNext
      <3>2. Recorded(conns', ClockOf(n))
        BY ClockOfRecorded, RecordedStays DEF ClocksRecorded
      <3> QED
        BY <3>1, <3>2, MergeRecorded DEF Later
    <2> DEFINE L == Len(conns[n])
               X == conns[n]
               Y == Advanced(X, source, e.id, c)
    <2>6. /\ conns = [m \in Brokers |-> conns[m]] /\ PortsOK(conns, n) /\ DOMAIN conns[n] = 1..Len(conns[n])
      BY ConnsLen DEF InFlightOK, ConnsOK
    <2>7. Ports(X, L)
      BY <2>6 DEF PortsOK, IsSeq, PortOK, Ports
    <2>8. \A j \in 1..L : RecordedIn(conns', X[j].clock, X[j].provides)
      BY RecordedStays DEF ClocksRecorded, PortsRecorded
    <2>9. conns' = [m \in Brokers |-> IF m = n THEN Y ELSE conns[m]]
      BY <2>1, <2>6
    <2>10. conns'[n] = Y /\ \A m \in Brokers : m # n => conns'[m] = conns[m]
      BY <2>9
    <2>11. L \in Nat \ {0} /\ source \in 0..L - 1
      BY <2>2
    <2> HIDE DEF c, L, X
    <2>12. \A j \in 1..L : RecordedIn(conns', Y[j].clock, Y[j].provides)
      BY <2>5, <2>7, <2>8, <2>11, AdvancedRecorded
    <2>13. Ports(Y, L)
      BY <2>7, <2>11, AdvancedPorts
    <2> HIDE DEF Y
    <2>14. Len(Y) = L
      <3>1. Y \in [1..L -> {Y[j] : j \in 1..L}]
        BY <2>13 DEF Ports
      <3> QED
        BY <3>1, <2>11
    <2>15. \A i \in 1..Len(conns'[n]) : RecordedIn(conns', conns'[n][i].clock, conns'[n][i].provides)
      BY <2>10, <2>12, <2>14
    <2>16. Recording
      BY <2>10, <2>15, ChangeRecorded
    <2>17. f.op = "insert" /\ f.pc = "loop"
      BY DEF InsertCall
    <2> HIDE DEF f
    <2>18. Plain(f) /\ Fresh(f) /\ \A h : Tells(f, h)
      BY <2>17 DEF Plain, Fresh, AwaitsClock, AwaitsConnection, Tells
    <2> QED
      BY <2>1, <2>16, <2>18, PlainRecorded, GotoRecorded
  <1> QED
    BY <1>2, <1>3

\* An entry arrives, is made, or was relayed here.
LEMMA EnterRecorded ==
  ASSUME StepFrom, WellRouted, NEW t \in Threads, InsertEnter(t) \/ AppendEnter(t) \/ RelayHere(t)
  PROVE  ClocksRecorded'
  <1> USE DEF StepFrom
  <1>1. CASE InsertEnter(t)
    <2>1. Running(t, "insert") /\ InsertLocally(t, Frame(t).node, Frame(t).entry, Frame(t).source)
      BY <1>1 DEF InsertEnter
    <2>2. stack[t] # <<>> /\ Frame(t).op = "insert" /\ Frame(t).node # NoPeer /\ InsertOK(conns, entries, Frame(t))
      BY <2>1, Runs, Kinds
    <2>3. Frame(t).node \in Brokers /\ Frame(t).entry \in Made /\ Frame(t).source \in Nat
      BY <2>2 DEF InsertOK, Nodes, Made
    <2> QED
      BY <2>1, <2>2, <2>3, InsertLocallyRecorded
  <1>2. CASE AppendEnter(t)
    <2>1. Running(t, "append") /\ InsertLocally(t, Frame(t).node, Stamp(Frame(t).node, Frame(t).data), 0)
      BY <1>2 DEF AppendEnter
    <2>2. stack[t] # <<>> /\ Frame(t).op = "append" /\ AppendOK(Frame(t))
      BY <2>1, Runs, Kinds
    <2>3. Frame(t).node \in Brokers /\ Frame(t).node \in Owned
      BY <2>2, Ids DEF AppendOK
    <2> QED
      BY <2>1, <2>2, <2>3, InsertLocallyRecorded
  <1>3. CASE RelayHere(t)
    <2>1. Running(t, "relay") /\ InsertLocally(t, Frame(t).node, Stamp(Frame(t).node, Relayed(t)), 0)
          /\ Frame(t).pc = "enter" /\ \E r \in RelayRoutes(t) : r.distance = 0
      BY <1>3 DEF RelayHere
    <2>2. stack[t] # <<>> /\ Frame(t).op = "relay" /\ Frame(t).node # NoPeer
      BY <2>1, Runs
    <2>3. Frame(t).node \in Brokers /\ Frame(t).node \in Owned
      BY <2>1, <2>2, Ids DEF WellRouted
    <2> QED
      BY <2>1, <2>2, <2>3, InsertLocallyRecorded
  <1> QED
    BY <1>1, <1>2, <1>3

\* The other steps of insert.
LEMMA InsertsRecorded ==
  ASSUME StepFrom, WellRouted, NEW t \in Threads, InsertStep(t)
  PROVE  ClocksRecorded'
  <1> USE DEF StepFrom
  <1> DEFINE F == Frame(t)
             n == F.node
             p == First(PortsFrom(n, F.port, F.source))
  <1>1. CASE InsertEnter(t) \/ AppendEnter(t)
    BY <1>1, EnterRecorded
  <1>2. ASSUME Running(t, "insert")
        PROVE  stack[t] # <<>> /\ F.op = "insert" /\ n \in Brokers /\ InsertOK(conns, entries, F)
    <2>1. stack[t] # <<>> /\ F.op = "insert" /\ n # NoPeer /\ InsertOK(conns, entries, F)
      BY <1>2, Runs, Kinds
    <2> HIDE DEF F
    <2> QED
      BY <2>1 DEF InsertOK, Nodes
  <1>3. ASSUME NEW f, f.op = "insert" PROVE Plain(f) /\ (\A h : Tells(f, h)) /\ (f.pc # "await" => Fresh(f))
    BY <1>3 DEF Plain, Tells, Fresh, AwaitsClock, AwaitsConnection
  <1>4. CASE InsertForward(t)
    <2> DEFINE f == [F EXCEPT !.pc = "await", !.port = p]
               g == Insert(n, Conn(n, p).peer, F.entry, Conn(n, p).source)
    <2>1. Running(t, "insert") /\ Call(t, f, g) /\ conns' = conns /\ ret' = ret
      BY <1>4 DEF InsertForward
    <2>2. stack[t] # <<>> /\ F.op = "insert" /\ InsertOK(conns, entries, F) /\ Recording
      BY <1>2, <2>1, PortsSame
    <2> HIDE DEF F
    <2>3. f.op = "insert"
      BY <2>2 DEF InsertOK
    <2>4. Plain(g) /\ Fresh(g) /\ Tells(g, f)
      BY PlainCalls
    <2> HIDE DEF f, g
    <2>5. FrameRecorded(conns', f) /\ FrameRecorded(conns', g) /\ \A h : Tells(f, h)
      BY <1>3, <2>3, <2>4, PlainRecorded
    <2> QED
      BY <2>1, <2>2, <2>4, <2>5, CallRecorded
  <1>5. CASE InsertForwarded(t)
    <2> DEFINE q == F.port
               d == Raised(Conn(n, q).provides, F.entry.clock)
               c == ConnectionOf(Conn(n, q).peer, Conn(n, q).source, ret[t].clock, d)
               f == [F EXCEPT !.pc = "loop", !.port = q + 1]
    <2>1. /\ Running(t, "insert") /\ F.pc = "await" /\ Goto(t, f) /\ ret' = ret
          /\ conns' = conns \/ (Valid(ret[t].clock) /\ conns' = Noted(conns, n, q + 1, ret[t].clock, d))
      BY <1>5 DEF InsertForwarded, Noted, Conn
    <2>2. stack[t] # <<>> /\ F.op = "insert" /\ n \in Brokers /\ InsertOK(conns, entries, F)
      BY <1>2, <2>1
    <2>3. ValueRecorded(conns, F, ret[t])
      BY <2>2, RunsRecorded
    <2> HIDE DEF F
    <2>4. q \in Nat /\ q < Len(conns[n]) /\ F.entry \in MadeIn(entries)
      BY <2>1, <2>2 DEF InsertOK, HasPort
    <2>5. /\ n \in DOMAIN conns /\ q + 1 \in DOMAIN conns[n] /\ IsConnection(conns[n][q + 1])
          /\ q \in 0..Len(conns[n]) - 1
      BY <2>2, <2>4, OpenPort
    <2>6. Valid(ret[t].clock) => Recorded(conns, ret[t].clock)
      BY <2>1, <2>2, <2>3 DEF ValueRecorded, AwaitsClock
    <2>7. RecordedTable(conns, d)
      <3>1. RecordedTable(conns, Conn(n, q).provides)
        BY <2>2, <2>4, PortRecorded DEF ClocksRecorded
      <3>2. Recorded(conns, F.entry.clock)
        BY <2>4, PoolCounts
      <3> QED
        BY <3>1, <3>2, RaisedRecorded DEF Later
    <2> HIDE DEF d
    <2>8. Noted(conns, n, q + 1, ret[t].clock, d) = Put(conns, n, q + 1, c)
      BY <2>5, PutNoted DEF Conn
    <2>9. c.clock = ret[t].clock /\ c.provides = d
      BY DEF ConnectionOf
    <2> HIDE DEF c
    <2>10. Recording
      <3>1. CASE conns' = conns
        BY <3>1, PortsSame
      <3>2. CASE Valid(ret[t].clock) /\ conns' = Put(conns, n, q + 1, c)
        BY <3>2, <2>2, <2>5, <2>6, <2>7, <2>9, PutRecorded DEF RecordedIn
      <3> QED
        BY <2>1, <2>8, <3>1, <3>2
    <2>11. f.op = "insert" /\ f.pc = "loop"
      BY <2>2 DEF InsertOK
    <2> HIDE DEF f
    <2>12. FrameRecorded(conns', f) /\ ValueRecorded(conns', f, ret[t]) /\ \A h : Tells(f, h)
      BY <1>3, <2>11, PlainRecorded
    <2> QED
      BY <2>1, <2>2, <2>10, <2>12, GotoRecorded
  <1>6. CASE InsertReturn(t)
    <2> DEFINE w == [clock |-> ClockOf(n)]
    <2>1. Running(t, "insert") /\ Return(t, w) /\ conns' = conns
      BY <1>6 DEF InsertReturn
    <2>2. stack[t] # <<>> /\ F.op = "insert" /\ n \in Brokers /\ Recording
      BY <1>2, <2>1, PortsSame
    <2>3. Recorded(conns', w.clock)
      BY <2>1, <2>2, ClockOfRecorded DEF ClocksRecorded
    <2> HIDE DEF w
    <2> QED
      BY <2>1, <2>2, <2>3, ClockReturn
  <1>7. ASSUME Running(t, "insertList")
        PROVE  stack[t] # <<>> /\ F.op = "insertList" /\ n \in Brokers /\ InsertListOK(conns, entries, F)
    <2>1. stack[t] # <<>> /\ F.op = "insertList" /\ n # NoPeer /\ InsertListOK(conns, entries, F)
      BY <1>7, Runs, Kinds
    <2> HIDE DEF F
    <2> QED
      BY <2>1 DEF InsertListOK, Nodes
  <1>8. CASE InsertListNext(t)
    <2> DEFINE f == [F EXCEPT !.list = Tail(@)]
               g == Insert(n, F.to, Head(F.list), F.sender)
    <2>1. Running(t, "insertList") /\ Call(t, f, g) /\ conns' = conns /\ ret' = ret
      BY <1>8 DEF InsertListNext
    <2>2. stack[t] # <<>> /\ F.op = "insertList" /\ InsertListOK(conns, entries, F) /\ Recording
      BY <1>7, <2>1, PortsSame
    <2> HIDE DEF F
    <2>3. f.op = "insertList"
      BY <2>2 DEF InsertListOK
    <2>4. Plain(g) /\ Fresh(g) /\ Tells(g, f)
      BY PlainCalls
    <2> HIDE DEF f, g
    <2>5. Plain(f) /\ \A h : Tells(f, h)
      BY <2>3 DEF Plain, Tells
    <2>6. FrameRecorded(conns', f) /\ FrameRecorded(conns', g)
      BY <2>4, <2>5, PlainRecorded
    <2> QED
      BY <2>1, <2>2, <2>4, <2>5, <2>6, CallRecorded
  <1>9. CASE InsertListReturn(t)
    <2> DEFINE g == Stub(n, F.to, "GetClock", [empty |-> TRUE])
               w == [clock |-> ClockOf(n)]
    <2>1. Running(t, "insertList") /\ conns' = conns /\ ((Goto(t, g) /\ ret' = ret) \/ Return(t, w))
      BY <1>9 DEF InsertListReturn
    <2>2. stack[t] # <<>> /\ F.op = "insertList" /\ n \in Brokers /\ Recording
      BY <1>7, <2>1, PortsSame
    <2>3. CASE Goto(t, g) /\ ret' = ret
      <3>1. g.op = "rpc" /\ g.rpc = "GetClock"
        BY DEF Stub
      <3> HIDE DEF g
      <3>2. Plain(g) /\ Fresh(g) /\ \A h : Tells(g, h)
        BY <3>1 DEF Plain, Fresh, AwaitsClock, AwaitsConnection, Tells
      <3>3. FrameRecorded(conns', g) /\ ValueRecorded(conns', g, ret[t])
        BY <3>2, PlainRecorded
      <3> QED
        BY <2>2, <2>3, <3>2, <3>3, GotoRecorded
    <2>4. CASE Return(t, w)
      <3>1. Recorded(conns', w.clock)
        BY <2>1, <2>2, ClockOfRecorded DEF ClocksRecorded
      <3> HIDE DEF w
      <3> QED
        BY <2>2, <2>4, <3>1, ClockReturn
    <2> QED
      BY <2>1, <2>3, <2>4
  <1> QED
    BY <1>1, <1>4, <1>5, <1>6, <1>8, <1>9 DEF InsertStep

\* A call that was not made for a clock goes on as another one.
LEMMA Untold == \A f, g, h : f.op \notin {"insert", "insertList", "rpc"} /\ Tells(f, h) => Tells(g, h)
  BY DEF Tells

\* It goes on as one that carries no clock.
LEMMA GoesPlainly ==
  ASSUME Recording, NEW t \in Threads, stack[t] # <<>>, Frame(t).op \notin {"insert", "insertList", "rpc"},
         NEW f, Goto(t, f), ret' = ret, Plain(f), Fresh(f)
  PROVE  ClocksRecorded'
  BY Untold, PlainRecorded, GotoRecorded

\* It waits, for no clock, while another call runs.
LEMMA WaitsPlainly ==
  ASSUME Recording, NEW t \in Threads, stack[t] # <<>>, Frame(t).op \notin {"insert", "insertList", "rpc"},
         NEW f, f.op \in {"query", "relay"}, NEW g, Call(t, f, g), ret' = ret, Plain(g), Fresh(g)
  PROVE  ClocksRecorded'
  <1>1. Plain(f) /\ ~AwaitsClock(f)
    BY DEF Plain, AwaitsClock
  <1>2. FrameRecorded(conns', f) /\ FrameRecorded(conns', g) /\ Tells(g, f)
    BY <1>1, PlainRecorded
  <1> QED
    BY <1>2, Untold, CallRecorded

\* The steps of refresh.
LEMMA RefreshesRecorded ==
  ASSUME StepFrom, NEW t \in Threads, RefreshStep(t)
  PROVE  ClocksRecorded'
  <1> USE DEF StepFrom
  <1> DEFINE F == Frame(t)
             n == F.node
  <1>1. CASE RefreshUnknown(t)
    <2>1. Running(t, "refresh") /\ Return(t, [done |-> FALSE]) /\ conns' = conns
      BY <1>1 DEF RefreshUnknown
    <2>2. stack[t] # <<>> /\ F.op = "refresh" /\ Recording
      BY <2>1, Runs, PortsSame
    <2> QED
      BY <2>1, <2>2, SilentReturn
  <1>2. CASE RefreshEnter(t)
    <2> DEFINE p == F.sender
               d == F.data
               c == ConnectionOf(Conn(n, p).peer, d.source, d.clock, d.provides)
               g == RefreshConnectionsCall(n, p)
    <2>1. /\ Running(t, "refresh") /\ p \in 1..Len(conns[n]) - 1 /\ Goto(t, g) /\ ret' = ret
          /\ conns' = Announced(conns, n, p + 1, d.source, d.clock, d.provides)
      BY <1>2 DEF RefreshEnter, Announced
    <2>2. stack[t] # <<>> /\ F.op = "refresh" /\ n # NoPeer /\ RefreshOK(conns, F)
      BY <2>1, Runs, Kinds
    <2>3. FrameRecorded(conns, F)
      BY <2>2, RunsRecorded
    <2> HIDE DEF F
    <2>4. n \in Brokers /\ p \in Nat /\ Len(conns[n]) \in Nat
      BY <2>2, ConnsLen DEF RefreshOK, Nodes, InFlightOK
    <2>5. p < Len(conns[n])
      BY <2>1, <2>4
    <2>6. /\ n \in DOMAIN conns /\ p + 1 \in DOMAIN conns[n] /\ IsConnection(conns[n][p + 1])
          /\ p \in 0..Len(conns[n]) - 1
      BY <2>4, <2>5, OpenPort
    <2>7. conns' = Put(conns, n, p + 1, c)
      BY <2>1, <2>6, PutAnnounced DEF Conn
    <2>8. RecordedIn(conns, c.clock, c.provides)
      BY <2>2, <2>3 DEF FrameRecorded, ConnectionOf
    <2> HIDE DEF c
    <2>9. Recording
      BY <2>4, <2>6, <2>7, <2>8, PutRecorded
    <2>10. Plain(g) /\ Fresh(g)
      BY PlainCalls
    <2> HIDE DEF g
    <2> QED
      BY <2>1, <2>2, <2>9, <2>10, GoesPlainly DEF F
  <1>3. CASE RefreshNext(t)
    <2> DEFINE p == First(PortsFrom(n, F.port, F.ignore))
               a == Announcement(n, p)
               f == [F EXCEPT !.port = p + 1]
               g == Refresh(n, Conn(n, p).peer, a, Conn(n, p).source)
    <2>1. Running(t, "refreshConnections") /\ Call(t, f, g) /\ conns' = conns /\ ret' = ret
      BY <1>3 DEF RefreshNext
    <2>2. stack[t] # <<>> /\ F.op = "refreshConnections" /\ RefreshConnectionsOK(F) /\ Recording
      BY <2>1, Runs, Kinds, PortsSame
    <2> HIDE DEF F
    <2>3. f.op = "refreshConnections" /\ n \in Brokers
      BY <2>2 DEF RefreshConnectionsOK
    <2>4. RecordedIn(conns', a.clock, a.provides)
      BY <2>1, <2>3, AnnouncementRecorded DEF ClocksRecorded
    <2> HIDE DEF a
    <2>5. FrameRecorded(conns', g) /\ Fresh(g)
      BY <2>4, RefreshRecorded
    <2> HIDE DEF f, g
    <2>6. Plain(f) /\ ~AwaitsClock(f)
      BY <2>3 DEF Plain, AwaitsClock
    <2>7. FrameRecorded(conns', f) /\ Tells(g, f) /\ \A h : Tells(F, h) => Tells(f, h)
      BY <2>2, <2>6, PlainRecorded, Untold
    <2> QED
      BY <2>1, <2>2, <2>5, <2>7, CallRecorded DEF F
  <1>4. CASE RefreshReturn(t)
    <2>1. Running(t, "refreshConnections") /\ Return(t, Done) /\ conns' = conns
      BY <1>4 DEF RefreshReturn
    <2>2. stack[t] # <<>> /\ F.op = "refreshConnections" /\ Recording
      BY <2>1, Runs, PortsSame
    <2> QED
      BY <2>1, <2>2, SilentReturn
  <1> QED
    BY <1>1, <1>2, <1>3, <1>4 DEF RefreshStep

\* Those of query, of relay and of disconnect.
LEMMA OthersRecorded ==
  ASSUME StepFrom, WellRouted, NEW t \in Threads, QueryStep(t) \/ RelayStep(t) \/ DisconnectReset(t)
  PROVE  ClocksRecorded'
  <1> USE DEF StepFrom
  <1> DEFINE F == Frame(t)
             n == F.node
  <1>1. CASE QueryJournal(t) \/ QueryNothing(t)
    <2>1. Running(t, "query") /\ conns' = conns /\ \E list : Return(t, [list |-> list])
      BY <1>1 DEF QueryJournal, QueryNothing
    <2>2. stack[t] # <<>> /\ F.op = "query" /\ Recording
      BY <2>1, Runs, PortsSame
    <2> QED
      BY <2>1, <2>2, SilentReturn
  <1>2. CASE QueryHub(t)
    <2> DEFINE p == First(Answerers(n, F.sender))
               f == [F EXCEPT !.pc = "await"]
               g == Query(n, Conn(n, p).peer, F.from, Conn(n, p).source)
    <2>1. Running(t, "query") /\ Call(t, f, g) /\ conns' = conns /\ ret' = ret
      BY <1>2 DEF QueryHub
    <2>2. stack[t] # <<>> /\ F.op = "query" /\ QueryOK(F) /\ Recording
      BY <2>1, Runs, Kinds, PortsSame
    <2>3. Plain(g) /\ Fresh(g)
      BY PlainCalls
    <2> HIDE DEF F, g
    <2>4. f.op = "query"
      BY <2>2 DEF QueryOK
    <2> HIDE DEF f
    <2> QED
      BY <2>1, <2>2, <2>3, <2>4, WaitsPlainly DEF F
  <1>7. CASE QueryReturn(t)
    BY <1>7, Runs, PortsSame, SilentReturn DEF QueryReturn
  <1>8. CASE RelayReturn(t)
    BY <1>8, Runs, PortsSame, SilentReturn DEF RelayReturn
  <1>3. CASE RelayUnknown(t)
    <2>1. Running(t, "relay") /\ Return(t, [clock |-> InvalidClock]) /\ conns' = conns
      BY <1>3 DEF RelayUnknown
    <2>2. stack[t] # <<>> /\ F.op = "relay" /\ Recording
      BY <2>1, Runs, PortsSame
    <2> QED
      BY <2>1, <2>2, SilentReturn
  <1>4. CASE RelayHere(t)
    BY <1>4, EnterRecorded
  <1>5. CASE RelayOn(t)
    <2> DEFINE f == [F EXCEPT !.pc = "await"]
    <2>1. Running(t, "relay") /\ conns' = conns /\ ret' = ret
      BY <1>5 DEF RelayOn
    <2>2. PICK r \in RelayRoutes(t) : Call(t, f, Relay(n, Conn(n, r.port).peer, Relayed(t), Conn(n, r.port).source))
      BY <1>5 DEF RelayOn
    <2> DEFINE g == Relay(n, Conn(n, r.port).peer, Relayed(t), Conn(n, r.port).source)
    <2>3. stack[t] # <<>> /\ F.op = "relay" /\ RelayOK(F) /\ Recording
      BY <2>1, Runs, Kinds, PortsSame
    <2>4. Plain(g) /\ Fresh(g) /\ Call(t, f, g)
      BY <2>2, PlainCalls
    <2> HIDE DEF g, F
    <2>5. f.op = "relay"
      BY <2>3 DEF RelayOK
    <2> HIDE DEF f
    <2> QED
      BY <2>1, <2>3, <2>4, <2>5, WaitsPlainly DEF F
  <1>6. CASE DisconnectReset(t)
    <2> DEFINE p == F.port
               c == ConnectionOf(NoPeer, Conn(n, p).source, Conn(n, p).clock, Conn(n, p).provides)
               g == RefreshConnectionsCall(n, p)
    <2>1. Running(t, "disconnect") /\ conns' = Closed(conns, n, p + 1) /\ Goto(t, g) /\ ret' = ret
      BY <1>6 DEF DisconnectReset, Closed
    <2>2. stack[t] # <<>> /\ F.op = "disconnect" /\ DisconnectOK(conns, F)
      BY <2>1, Runs, Kinds
    <2> HIDE DEF F
    <2>3. n \in Brokers /\ p \in Nat /\ p < Len(conns[n])
      BY <2>2, Ids DEF DisconnectOK, HasPort
    <2>4. /\ n \in DOMAIN conns /\ p + 1 \in DOMAIN conns[n] /\ IsConnection(conns[n][p + 1])
          /\ p \in 0..Len(conns[n]) - 1
      BY <2>3, OpenPort
    <2>5. conns' = Put(conns, n, p + 1, c)
      BY <2>1, <2>4, PutClosed DEF Conn
    <2>6. RecordedIn(conns, c.clock, c.provides)
      BY <2>3, PortRecorded DEF ClocksRecorded, RecordedIn, ConnectionOf
    <2> HIDE DEF c
    <2>7. Recording
      BY <2>3, <2>4, <2>5, <2>6, PutRecorded
    <2>8. Plain(g) /\ Fresh(g)
      BY PlainCalls
    <2> HIDE DEF g
    <2> QED
      BY <2>1, <2>2, <2>7, <2>8, GoesPlainly DEF F
  <1> QED
    BY <1>1, <1>2, <1>3, <1>4, <1>5, <1>6, <1>7, <1>8 DEF QueryStep, RelayStep

\* Broker::connect makes a call, for which it carries no clock itself.
LEMMA ConnectCalls ==
  ASSUME Recording, NEW t \in Threads, stack[t] # <<>>, Frame(t).op = "connect", NEW f, f.op = "connect",
         NEW g, Call(t, f, g), ret' = ret, FrameRecorded(conns', g), Fresh(g), Tells(g, f)
  PROVE  ClocksRecorded'
  <1>1. Plain(f) /\ \A h : Tells(Frame(t), h) => Tells(f, h)
    BY Untold DEF Plain
  <1> QED
    BY <1>1, PlainRecorded, CallRecorded

\* The steps of the broker that is asked to connect.
LEMMA AcceptsRecorded ==
  ASSUME StepFrom, NEW t \in Threads, AcceptEnter(t) \/ AcceptReturn(t)
  PROVE  ClocksRecorded'
  <1> USE DEF StepFrom
  <1> DEFINE F == Frame(t)
             n == F.node
             d == F.data
  <1>1. ASSUME Running(t, "accept")
        PROVE  /\ stack[t] # <<>> /\ F.op = "accept" /\ AcceptOK(conns, F) /\ n \in Brokers
               /\ RecordedIn(conns, d.clock, d.provides) /\ Recorded(conns, ClockOf(n))
    <2>1. stack[t] # <<>> /\ F.op = "accept" /\ AcceptOK(conns, F)
      BY <1>1, Runs, Kinds
    <2>2. FrameRecorded(conns, F)
      BY <2>1, RunsRecorded
    <2> HIDE DEF F
    <2>3. n \in Brokers
      BY <2>1, Ids DEF AcceptOK
    <2> QED
      BY <2>1, <2>2, <2>3, ClockOfRecorded DEF FrameRecorded, ClocksRecorded
  <1>2. CASE AcceptEnter(t)
    <2> DEFINE q == Len(conns[n])
               v == Raised(d.provides, ClockOf(n))
               c == [d EXCEPT !.provides = v]
               f == Refreshed(F, q, ClockOf(n))
               g == RefreshConnectionsCall(n, q)
    <2>1. Running(t, "accept") /\ conns' = Opened(conns, n, c) /\ Call(t, f, g) /\ ret' = ret
      BY <1>2 DEF AcceptEnter, Opened, Refreshed
    <2>2. /\ stack[t] # <<>> /\ F.op = "accept" /\ AcceptOK(conns, F) /\ n \in Brokers
          /\ RecordedIn(conns, d.clock, d.provides) /\ Recorded(conns, ClockOf(n))
      BY <1>1, <2>1
    <2> HIDE DEF F
    <2>3. /\ IsConnection(d)
          /\ F = [op |-> F.op, node |-> F.node, data |-> F.data, pc |-> F.pc, port |-> F.port]
      BY <2>2 DEF AcceptOK
    <2>4. RecordedTable(conns, v)
      BY <2>2, RaisedRecorded DEF RecordedIn, Later
    <2> HIDE DEF v
    <2>5. c.clock = d.clock /\ c.provides = v
      BY <2>3 DEF IsConnection
    <2> HIDE DEF c
    <2>6. Recording
      BY <2>1, <2>2, <2>4, <2>5, OpenedRecorded DEF RecordedIn
    <2>7. f = [op |-> F.op, node |-> F.node, pc |-> "refreshed", port |-> q,
               data |-> [peer |-> d.peer, source |-> d.source, clock |-> ClockOf(n), provides |-> d.provides]]
      BY <2>3, AcceptGoes
    <2>8. Plain(g) /\ Fresh(g)
      BY PlainCalls
    <2> HIDE DEF f, g
    <2>9. f.op = "accept" /\ f.data.clock = ClockOf(n) /\ f.data.provides = d.provides
      BY <2>2, <2>7
    <2>10. RecordedIn(conns', f.data.clock, f.data.provides)
      BY <2>2, <2>9, RecordedStays DEF RecordedIn
    <2>11. FrameRecorded(conns', f) /\ FrameRecorded(conns', g) /\ ~AwaitsClock(f)
      BY <2>8, <2>9, <2>10, PlainRecorded DEF FrameRecorded, AwaitsClock
    <2>12. Tells(g, f) /\ \A h : Tells(F, h) => Tells(f, h)
      BY <2>2, <2>11, PlainRecorded, Untold
    <2> QED
      BY <2>1, <2>2, <2>6, <2>8, <2>11, <2>12, CallRecorded DEF F
  <1>3. CASE AcceptReturn(t)
    <2> DEFINE a == Announcement(n, F.port)
               w == [conn |-> [a EXCEPT !.clock = d.clock]]
    <2>1. Running(t, "accept") /\ Return(t, w) /\ conns' = conns
      BY <1>3 DEF AcceptReturn
    <2>2. stack[t] # <<>> /\ F.op = "accept" /\ n \in Brokers /\ RecordedIn(conns, d.clock, d.provides)
      BY <1>1, <2>1
    <2>3. Recording
      BY <2>1, PortsSame
    <2> HIDE DEF F
    <2>4. RecordedIn(conns, a.clock, a.provides)
      BY <2>2, AnnouncementRecorded DEF ClocksRecorded
    <2>5. w.conn.clock = d.clock /\ w.conn.provides = a.provides
      BY DEF Announcement
    <2> HIDE DEF w, a
    <2>6. RecordedIn(conns', w.conn.clock, w.conn.provides)
      BY <2>1, <2>2, <2>4, <2>5 DEF RecordedIn
    <2>7. \A h : Tells(F, h) => ValueRecorded(conns', h, w)
      BY <2>2, <2>6 DEF Tells, ValueRecorded
    <2> QED
      BY <2>1, <2>2, <2>3, <2>7, ReturnRecorded DEF F
  <1> QED
    BY <1>2, <1>3

\* The steps of the broker that asks.
LEMMA ConnectsRecorded ==
  ASSUME StepFrom, NEW t \in Threads, ConnectStep(t)
  PROVE  ClocksRecorded'
  <1> USE DEF StepFrom
  <1> DEFINE F == Frame(t)
             n == F.node
             p == F.port
  <1>1. ASSUME Running(t, "connect"), NEW pc
        PROVE  /\ stack[t] # <<>> /\ F.op = "connect" /\ ConnectOK(conns, entries, F) /\ n \in Brokers
               /\ ValueRecorded(conns, F, ret[t])
               /\ [F EXCEPT !.pc = pc].op = "connect" /\ [F EXCEPT !.pc = pc].pc = pc
               /\ \A q : [F EXCEPT !.pc = pc, !.port = q].op = "connect" /\ [F EXCEPT !.pc = pc, !.port = q].pc = pc
               /\ \A list : [F EXCEPT !.pc = pc, !.mine = list].op = "connect"
                            /\ [F EXCEPT !.pc = pc, !.mine = list].pc = pc
    <2>1. stack[t] # <<>> /\ F.op = "connect" /\ ConnectOK(conns, entries, F)
      BY <1>1, Runs, Kinds
    <2>2. ValueRecorded(conns, F, ret[t])
      BY <2>1, RunsRecorded
    <2> HIDE DEF F
    <2>3. n \in Brokers
      BY <2>1, Ids DEF ConnectOK
    <2>4. /\ [F EXCEPT !.pc = pc].op = "connect" /\ [F EXCEPT !.pc = pc].pc = pc
          /\ \A q : [F EXCEPT !.pc = pc, !.port = q].op = "connect" /\ [F EXCEPT !.pc = pc, !.port = q].pc = pc
          /\ \A list : [F EXCEPT !.pc = pc, !.mine = list].op = "connect"
                       /\ [F EXCEPT !.pc = pc, !.mine = list].pc = pc
      BY <2>1 DEF ConnectOK
    <2> QED
      BY <2>1, <2>2, <2>3, <2>4
  <1>2. CASE AcceptEnter(t) \/ AcceptReturn(t)
    BY <1>2, AcceptsRecorded
  <1>3. CASE ConnectEnter(t)
    <2> DEFINE q == Len(conns[n])
               c == [NoConnection EXCEPT !.peer = F.to]
               a == Announcement(n, q)
               f == [F EXCEPT !.pc = "answered", !.port = q]
               g == Connect(n, F.to, a)
    <2>1. Running(t, "connect") /\ conns' = Opened(conns, n, c) /\ Call(t, f, g) /\ ret' = ret
      BY <1>3 DEF ConnectEnter, Opened
    <2>2. stack[t] # <<>> /\ F.op = "connect" /\ n \in Brokers /\ f.op = "connect" /\ f.pc = "answered"
      BY <1>1, <2>1
    <2>3. c.clock = EmptyClock /\ c.provides = NoProvides
      BY DEF NoConnection
    <2> HIDE DEF c
    <2>4. Recording
      BY <2>1, <2>2, <2>3, EmptyRecorded, OpenedRecorded DEF RecordedIn
    <2>5. RecordedIn(conns', a.clock, a.provides)
      BY <2>2, AnnouncementRecorded, RecordedStays DEF ClocksRecorded
    <2> HIDE DEF a
    <2>6. FrameRecorded(conns', g) /\ Fresh(g)
      BY <2>5, ConnectRecorded
    <2> HIDE DEF f, g
    <2>7. Tells(g, f)
      BY <2>2, PlainRecorded DEF AwaitsClock
    <2> QED
      BY <2>1, <2>2, <2>4, <2>6, <2>7, ConnectCalls
  <1>4. CASE ConnectAnswered(t)
    <2> DEFINE a == ret[t].conn
               c == ConnectionOf(Conn(n, p).peer, a.source, a.clock, a.provides)
               f == [F EXCEPT !.pc = "mine"]
               g == QueryCall(n, a.clock, p)
    <2>1. /\ Running(t, "connect") /\ F.pc = "answered" /\ Call(t, f, g) /\ ret' = ret
          /\ conns' = Announced(conns, n, p + 1, a.source, a.clock, a.provides)
      BY <1>4 DEF ConnectAnswered, Announced
    <2>2. /\ stack[t] # <<>> /\ F.op = "connect" /\ f.op = "connect" /\ f.pc = "mine"
          /\ n \in Brokers /\ ValueRecorded(conns, F, ret[t])
      BY <1>1, <2>1
    <2>3. /\ n \in DOMAIN conns /\ p + 1 \in DOMAIN conns[n] /\ PortOK(conns, n, Conn(n, p))
          /\ p \in 0..Len(conns[n]) - 1
      BY <2>1, Connecting
    <2>4. RecordedIn(conns, a.clock, a.provides)
      BY <2>1, <2>2 DEF ValueRecorded, AwaitsConnection
    <2>5. Plain(g) /\ Fresh(g)
      BY PlainCalls
    <2> HIDE DEF F, a
    <2>6. conns' = Put(conns, n, p + 1, c)
      <3>1. IsConnection(conns[n][p + 1])
        BY <2>3 DEF PortOK, Conn
      <3> QED
        BY <3>1, <2>1, <2>3, PutAnnounced DEF Conn
    <2>7. RecordedIn(conns, c.clock, c.provides)
      BY <2>4 DEF ConnectionOf
    <2> HIDE DEF c, f, g
    <2>8. Recording
      BY <2>2, <2>3, <2>6, <2>7, PutRecorded
    <2>9. FrameRecorded(conns', g) /\ Tells(g, f)
      BY <2>2, <2>5, PlainRecorded DEF AwaitsClock
    <2> QED
      BY <2>1, <2>2, <2>5, <2>8, <2>9, ConnectCalls DEF F
  <1>5. CASE ConnectMine(t)
    <2> DEFINE f == [F EXCEPT !.pc = "theirs", !.mine = ret[t].list]
               g == Query(n, Conn(n, p).peer, ClockOf(n), Conn(n, p).source)
    <2>1. Running(t, "connect") /\ Call(t, f, g) /\ conns' = conns /\ ret' = ret
      BY <1>5 DEF ConnectMine
    <2>2. stack[t] # <<>> /\ F.op = "connect" /\ f.op = "connect" /\ f.pc = "theirs" /\ Recording
      BY <1>1, <2>1, PortsSame
    <2>3. Plain(g) /\ Fresh(g)
      BY PlainCalls
    <2> HIDE DEF f, g
    <2>4. FrameRecorded(conns', g) /\ Tells(g, f)
      BY <2>2, <2>3, PlainRecorded DEF AwaitsClock
    <2> QED
      BY <2>1, <2>2, <2>3, <2>4, ConnectCalls
  <1>6. CASE ConnectTheirs(t)
    <2> DEFINE f == [F EXCEPT !.pc = "inserted"]
               g == InsertList(f.node, f.node, ret[t].list, f.port)
    <2>1. Running(t, "connect") /\ (Goto(t, f) \/ Call(t, f, g)) /\ conns' = conns /\ ret' = ret
      BY <1>6 DEF ConnectTheirs
    <2>2. stack[t] # <<>> /\ F.op = "connect" /\ f.op = "connect" /\ f.pc = "inserted" /\ Recording
      BY <1>1, <2>1, PortsSame
    <2>3. Plain(g) /\ Fresh(g) /\ Tells(g, f)
      BY PlainCalls
    <2> HIDE DEF f, g
    <2>4. FrameRecorded(conns', g)
      BY <2>3, PlainRecorded
    <2>5. Plain(f) /\ Fresh(f)
      BY <2>2 DEF Plain, Fresh, AwaitsClock, AwaitsConnection
    <2> QED
      BY <2>1, <2>2, <2>3, <2>4, <2>5, ConnectCalls, GoesPlainly
  <1>7. CASE ConnectInserted(t)
    <2> DEFINE f1 == [F EXCEPT !.pc = "refreshed"]
               f2 == [F EXCEPT !.pc = "sent"]
               g1 == RefreshConnectionsCall(n, p)
               g2 == InsertList(n, Conn(n, p).peer, F.mine, Conn(n, p).source)
    <2>1. Running(t, "connect") /\ (Call(t, f1, g1) \/ Call(t, f2, g2)) /\ conns' = conns /\ ret' = ret
      BY <1>7 DEF ConnectInserted
    <2>2. /\ stack[t] # <<>> /\ F.op = "connect" /\ f1.op = "connect" /\ f1.pc = "refreshed" /\ f2.op = "connect"
          /\ Recording
      BY <1>1, <2>1, PortsSame
    <2>3. Plain(g1) /\ Fresh(g1) /\ Plain(g2) /\ Fresh(g2) /\ Tells(g2, f2)
      BY PlainCalls
    <2> HIDE DEF f1, f2, g1, g2
    <2>4. FrameRecorded(conns', g1) /\ FrameRecorded(conns', g2) /\ Tells(g1, f1)
      BY <2>2, <2>3, PlainRecorded DEF AwaitsClock
    <2> QED
      BY <2>1, <2>2, <2>3, <2>4, ConnectCalls
  <1>8. CASE ConnectSent(t)
    <2> DEFINE d == Raised(Conn(n, p).provides, ret[t].clock)
               c == ConnectionOf(Conn(n, p).peer, Conn(n, p).source, Conn(n, p).clock, d)
               f == [F EXCEPT !.pc = "refreshed"]
               g == RefreshConnectionsCall(n, p)
    <2>1. /\ Running(t, "connect") /\ F.pc = "sent" /\ Call(t, f, g) /\ ret' = ret
          /\ conns' = conns \/ (Valid(ret[t].clock) /\ conns' = NotedTable(conns, n, p + 1, d))
      BY <1>8 DEF ConnectSent, NotedTable, Conn
    <2>2. /\ stack[t] # <<>> /\ F.op = "connect" /\ f.op = "connect" /\ f.pc = "refreshed" /\ n \in Brokers
          /\ ValueRecorded(conns, F, ret[t])
      BY <1>1, <2>1
    <2>3. /\ n \in DOMAIN conns /\ p + 1 \in DOMAIN conns[n] /\ PortOK(conns, n, Conn(n, p))
          /\ p \in 0..Len(conns[n]) - 1 /\ p \in Nat /\ Len(conns[n]) \in Nat
      BY <2>1, <2>2, Connecting, ConnsLen DEF InFlightOK
    <2>4. Valid(ret[t].clock) => Recorded(conns, ret[t].clock)
      BY <2>1, <2>2 DEF ValueRecorded, AwaitsClock
    <2>5. Plain(g) /\ Fresh(g)
      BY PlainCalls
    <2> HIDE DEF F
    <2>6. p < Len(conns[n])
      BY <2>3
    <2>7. Recorded(conns, Conn(n, p).clock) /\ RecordedTable(conns, Conn(n, p).provides)
      BY <2>2, <2>3, <2>6, PortRecorded DEF ClocksRecorded
    <2>8. Valid(ret[t].clock) => RecordedTable(conns, d)
      BY <2>4, <2>7, RaisedRecorded DEF Later
    <2> HIDE DEF d
    <2>9. NotedTable(conns, n, p + 1, d) = Put(conns, n, p + 1, c)
      <3>1. IsConnection(conns[n][p + 1])
        BY <2>3 DEF PortOK, Conn
      <3> QED
        BY <3>1, <2>3, PutNotedTable DEF Conn
    <2>10. c.clock = Conn(n, p).clock /\ c.provides = d
      BY DEF ConnectionOf
    <2> HIDE DEF c, f, g
    <2>11. Recording
      <3>1. CASE conns' = conns
        BY <3>1, PortsSame
      <3>2. CASE Valid(ret[t].clock) /\ conns' = Put(conns, n, p + 1, c)
        BY <3>2, <2>2, <2>3, <2>7, <2>8, <2>10, PutRecorded DEF RecordedIn
      <3> QED
        BY <2>1, <2>9, <3>1, <3>2
    <2>12. FrameRecorded(conns', g) /\ Tells(g, f)
      BY <2>2, <2>5, PlainRecorded DEF AwaitsClock
    <2> QED
      BY <2>1, <2>2, <2>5, <2>11, <2>12, ConnectCalls DEF F
  <1>9. CASE ConnectReturn(t)
    <2>1. /\ Running(t, "connect") /\ conns' = conns
          /\ Return(t, [conn |-> [NoConnection EXCEPT !.peer = n, !.source = p]])
      BY <1>9 DEF ConnectReturn
    <2>2. stack[t] # <<>> /\ F.op = "connect" /\ Recording
      BY <2>1, Runs, PortsSame
    <2> QED
      BY <2>1, <2>2, SilentReturn
  <1> QED
    BY <1>2, <1>3, <1>4, <1>5, <1>6, <1>7, <1>8, <1>9 DEF ConnectStep

\* The call that the runner makes carries what the request brought.
LEMMA ServedRecorded ==
  ASSUME InFlightOK, NEW f, RpcOK(conns, entries, f), f.rpc \notin Reads, NEW C, FrameRecorded(C, f)
  PROVE  FrameRecorded(C, Served(f.to, f.rpc, f.request)) /\ Fresh(Served(f.to, f.rpc, f.request))
  <1> DEFINE m == f.to
             r == f.request
             g == Served(m, f.rpc, r)
  <1>1. f.op = "rpc" /\ f.rpc \in {"Connect", "Query", "Insert", "Refresh", "Relay"}
    BY DEF RpcOK
  <1>2. f.rpc \in {"Connect", "Refresh"} => RecordedIn(C, ClockFrom(r.clock), IdConnectionInfoMapFrom(r.sources))
    BY <1>1 DEF FrameRecorded
  <1>3. CASE f.rpc = "Connect" /\ r.source = 0
    <2>1. g = ConnectCall(m, r.broker)
      BY <1>3 DEF Served, ServeConnect
    <2> HIDE DEF g
    <2>2. g.op = "connect" /\ g.pc = "enter"
      BY <2>1 DEF ConnectCall
    <2>3. Plain(g) /\ Fresh(g)
      BY <2>2 DEF Plain, Fresh, AwaitsClock, AwaitsConnection
    <2> QED
      BY <2>3, PlainRecorded DEF g
  <1>4. CASE f.rpc = "Connect" /\ r.source # 0
    <2> DEFINE d == [peer |-> GetOrCreate(Process[m], r.broker), source |-> r.source,
                     clock |-> ClockFrom(r.clock), provides |-> IdConnectionInfoMapFrom(r.sources)]
    <2>1. g = AcceptCall(m, d)
      BY <1>4 DEF Served, ServeConnect
    <2>2. RecordedIn(C, d.clock, d.provides)
      BY <1>2, <1>4
    <2> HIDE DEF g, d
    <2>3. g.op = "accept" /\ g.data = d
      BY <2>1 DEF AcceptCall
    <2>4. FrameRecorded(C, g) /\ Fresh(g)
      BY <2>2, <2>3 DEF FrameRecorded, Fresh, AwaitsClock, AwaitsConnection
    <2> QED
      BY <2>4 DEF g
  <1>5. CASE f.rpc = "Refresh"
    <2> DEFINE d == [NoConnection EXCEPT !.source = r.source, !.clock = ClockFrom(r.clock),
                                         !.provides = IdConnectionInfoMapFrom(r.sources)]
    <2>1. g = RefreshCall(m, d, r.sender)
      BY <1>5 DEF Served, ServeRefresh
    <2>2. d.clock = ClockFrom(r.clock) /\ d.provides = IdConnectionInfoMapFrom(r.sources)
      BY DEF NoConnection
    <2> HIDE DEF g, d
    <2>3. g.op = "refresh" /\ g.data = d
      BY <2>1 DEF RefreshCall
    <2>4. FrameRecorded(C, g) /\ Fresh(g)
      BY <1>2, <1>5, <2>2, <2>3 DEF FrameRecorded, Fresh, AwaitsClock, AwaitsConnection
    <2> QED
      BY <2>4 DEF g
  <1>6. CASE f.rpc \in {"Query", "Insert", "Relay"}
    <2>1. g.op \in {"query", "insert", "relay"} /\ (g.op = "insert" => g.pc = "enter")
      BY <1>6 DEF Served, ServeQuery, ServeInsert, ServeRelay, QueryCall, InsertCall, RelayCall
    <2> HIDE DEF g
    <2>2. Plain(g) /\ Fresh(g)
      BY <2>1 DEF Plain, Fresh, AwaitsClock, AwaitsConnection
    <2> QED
      BY <2>2, PlainRecorded DEF g
  <1> QED
    BY <1>1, <1>3, <1>4, <1>5, <1>6

\* A stub returns what its caller takes over.
LEMMA StubTells ==
  ASSUME NEW C, NEW f, f.op = "rpc", NEW w,
         f.rpc \in {"Insert", "GetClock"} /\ Valid(w.clock) => Recorded(C, w.clock),
         AwaitsConnection(f) => RecordedIn(C, w.conn.clock, w.conn.provides),
         NEW h, Tells(f, h), Answers(f, h)
  PROVE  ValueRecorded(C, h, w)
  <1>1. AwaitsClock(h) => f.rpc \in {"Insert", "GetClock"}
    BY DEF Tells
  <1>2. AwaitsConnection(h) => AwaitsConnection(f)
    BY DEF Answers
  <1> QED
    BY <1>1, <1>2 DEF ValueRecorded

\* What a call that failed has returned counts no events.
LEMMA FailureTells ==
  ASSUME NEW C, NEW f, f.op = "rpc", NEW h, Tells(f, h), Answers(f, h)
  PROVE  ValueRecorded(C, h, Result(f.to, f.rpc, NotOk))
  <1> DEFINE w == Result(f.to, f.rpc, NotOk)
  <1>1. f.rpc = "Insert" => w = [clock |-> EmptyClock]
    BY DEF Result, InsertResult, NotOk
  <1>2. f.rpc = "GetClock" => w = [clock |-> InvalidClock]
    BY DEF Result, ClockResult, NotOk
  <1>3. AwaitsConnection(f) => w = [conn |-> NoConnection]
    BY DEF Result, ConnectResult, NotOk, AwaitsConnection
  <1> HIDE DEF w
  <1>4. ~Valid(InvalidClock)
    BY DEF Valid, InvalidClock
  <1>5. f.rpc \in {"Insert", "GetClock"} /\ Valid(w.clock) => Recorded(C, w.clock)
    BY <1>1, <1>2, <1>4, EmptyRecorded
  <1>6. AwaitsConnection(f) => w.conn.clock = EmptyClock /\ w.conn.provides = NoProvides
    BY <1>3 DEF NoConnection
  <1>7. AwaitsConnection(f) => RecordedIn(C, w.conn.clock, w.conn.provides)
    BY <1>6, EmptyRecorded DEF RecordedIn
  <1> QED
    BY <1>5, <1>7, StubTells DEF w

\* The steps of a remote call.
LEMMA RpcRecorded ==
  ASSUME StepFrom, NEW t \in Threads, RpcStep(t) \/ RpcFail(t)
  PROVE  ClocksRecorded'
  <1> USE DEF StepFrom
  <1> DEFINE F == Frame(t)
  <1>1. /\ Running(t, "rpc") /\ conns' = conns
    BY DEF RpcStep, RpcServe, RpcAnswer, RpcFail
  <1>2. stack[t] # <<>> /\ F.op = "rpc" /\ RpcOK(conns, entries, F) /\ Recording
    BY <1>1, Runs, Kinds, PortsSame
  <1>3. FrameRecorded(conns, F) /\ ValueRecorded(conns, F, ret[t])
    BY <1>2, RunsRecorded
  <1>4. CASE RpcServe(t)
    <2> DEFINE f == [F EXCEPT !.pc = "await"]
               g == Served(F.to, F.rpc, F.request)
    <2>1. F.rpc \notin Reads /\ Call(t, f, g) /\ ret' = ret
      BY <1>4 DEF RpcServe
    <2> HIDE DEF F
    <2>2. FrameRecorded(conns', g) /\ Fresh(g)
      BY <1>1, <1>2, <1>3, <2>1, ServedRecorded
    <2>3. f.op = "rpc" /\ f.rpc = F.rpc /\ f.request = F.request
      BY <1>2 DEF RpcOK
    <2> HIDE DEF f, g
    <2>4. FrameRecorded(conns', f)
      BY <1>1, <1>2, <1>3, <2>3 DEF FrameRecorded
    <2>5. Tells(g, f) /\ \A h : Tells(F, h) => Tells(f, h)
      BY <1>2, <2>3 DEF Tells, AwaitsClock
    <2> QED
      BY <1>2, <2>1, <2>2, <2>4, <2>5, CallRecorded DEF F
  <1>5. CASE RpcAnswer(t)
    <2> DEFINE m == F.to
               v == ret[t]
               a == Response(m, F.rpc, F.request, v)
               w == Result(m, F.rpc, a)
    <2>1. (F.pc = "await" \/ F.rpc \in Reads) /\ Return(t, w)
      BY <1>5 DEF RpcAnswer
    <2> HIDE DEF F
    <2>2. Recorded(conns, ClockOf(m)) /\ ClockFrom(SetClock(ClockOf(m))) = ClockOf(m)
      <3>1. m \in Brokers
        BY <1>2 DEF RpcOK
      <3>2. Recorded(conns, ClockOf(m))
        BY <3>1, ClockOfRecorded DEF ClocksRecorded
      <3> QED
        BY <3>2, WireRecorded
    <2>3. ASSUME F.rpc \in {"Insert", "GetClock"} PROVE Recorded(conns, w.clock)
      <3>1. a \in {[ok |-> TRUE, clock |-> SetClock(ClockOf(m))], NotOk}
            /\ (F.rpc = "GetClock" => a = [ok |-> TRUE, clock |-> SetClock(ClockOf(m))])
        BY <2>3 DEF Response
      <3> HIDE DEF a
      <3>2. w.clock \in {ClockFrom(SetClock(ClockOf(m))), EmptyClock}
        BY <2>3, <3>1 DEF Result, InsertResult, ClockResult, NotOk
      <3> HIDE DEF w
      <3> QED
        BY <2>2, <3>2, EmptyRecorded
    <2>4. ASSUME AwaitsConnection(F) PROVE RecordedIn(conns, w.conn.clock, w.conn.provides)
      <3>1. F.rpc = "Connect" /\ F.pc = "await"
        BY <1>2, <2>1, <2>4 DEF AwaitsConnection, Reads
      <3>2. RecordedIn(conns, v.conn.clock, v.conn.provides)
        BY <1>3, <2>4, <3>1 DEF ValueRecorded
      <3>3. a.ok = TRUE /\ a.clock = SetClock(v.conn.clock)
        BY <3>1 DEF Response
      <3> HIDE DEF a
      <3>4. w.conn.clock = ClockFrom(a.clock) /\ w.conn.provides = NoProvides
        BY <3>1, <3>3 DEF Result, ConnectResult, NoConnection
      <3> HIDE DEF w
      <3>5. w.conn.clock = v.conn.clock
        BY <3>2, <3>3, <3>4, WireRecorded DEF RecordedIn
      <3> QED
        BY <3>2, <3>4, <3>5, EmptyRecorded DEF RecordedIn
    <2> HIDE DEF w
    <2>5. \A h : Tells(F, h) /\ Answers(F, h) => ValueRecorded(conns', h, w)
      BY <1>1, <1>2, <2>3, <2>4, StubTells
    <2> QED
      BY <1>2, <2>1, <2>5, ReturnRecorded DEF F
  <1>6. CASE RpcFail(t)
    <2> DEFINE w == Result(F.to, F.rpc, NotOk)
    <2>1. Return(t, w)
      BY <1>6 DEF RpcFail
    <2>2. \A h : Tells(F, h) /\ Answers(F, h) => ValueRecorded(conns', h, w)
      BY <1>2, FailureTells
    <2> HIDE DEF w
    <2> QED
      BY <1>2, <2>1, <2>2, ReturnRecorded
  <1> QED
    BY <1>4, <1>5, <1>6 DEF RpcStep

\* A part of a thread's calls.
LEMMA PartRecorded ==
  ASSUME NEW C, NEW s, IsSeq(s), NEW v, ThreadRecorded(C, s, v),
         NEW a \in Nat \ {0}, NEW b \in Nat, b <= Len(s),
         NEW w, a <= b => ValueRecorded(C, s[a], w)
  PROVE  ThreadRecorded(C, SubSeq(s, a, b), w)
  <1> DEFINE r == SubSeq(s, a, b)
             S == {s[i] : i \in 1..Len(s)}
  <1>1. /\ Len(s) \in Nat /\ \A i \in 1..Len(s) : FrameRecorded(C, s[i])
        /\ \A i \in 1..Len(s) - 1 : Tells(s[i], s[i + 1])
    BY IsSeqLen DEF ThreadRecorded
  <1>2. \A i \in a..b : s[i] \in S
    BY <1>1
  <1> HIDE DEF S
  <1>3. /\ r \in Seq(S) /\ Len(r) = IF a <= b THEN b - a + 1 ELSE 0
        /\ \A i \in 1..b - a + 1 : r[i] = s[a + i - 1]
    BY <1>2, SubSeqProperties
  <1>4. IsSeq(r)
    BY <1>3, SeqIsSeq
  <1> HIDE DEF r
  <1>5. ASSUME NEW i \in 1..Len(r)
        PROVE  i \in 1..b - a + 1 /\ a + i - 1 \in 1..Len(s) /\ r[i] = s[a + i - 1]
    <2>1. i \in 1..b - a + 1 /\ a + i - 1 \in 1..Len(s)
      BY <1>1, <1>3
    <2> QED
      BY <2>1, <1>3
  <1>6. \A i \in 1..Len(r) : FrameRecorded(C, r[i])
    BY <1>1, <1>5
  <1>7. ASSUME NEW i \in 1..Len(r) - 1 PROVE Tells(r[i], r[i + 1])
    <2>1. Len(r) \in Nat
      BY <1>3
    <2>2. i \in 1..Len(r) /\ i + 1 \in 1..Len(r)
      BY <2>1
    <2>3. r[i] = s[a + i - 1] /\ r[i + 1] = s[a + (i + 1) - 1]
      BY <2>2, <1>5
    <2>4. a + i - 1 \in 1..Len(s) /\ a + (i + 1) - 1 \in 1..Len(s) /\ a + (i + 1) - 1 = (a + i - 1) + 1
      BY <2>2, <1>5
    <2>5. a + i - 1 \in 1..Len(s) - 1
      BY <2>4, <1>1
    <2> QED
      BY <2>3, <2>4, <2>5, <1>1
  <1>8. ASSUME r # <<>> PROVE ValueRecorded(C, r[1], w)
    <2>1. Len(r) # 0
      BY <1>4, <1>8, IsSeqLen
    <2>2. a <= b /\ r[1] = s[a]
      BY <2>1, <1>3
    <2> QED
      BY <2>2
  <1> QED
    BY <1>6, <1>7, <1>8 DEF ThreadRecorded, r

\* A channel breaks.
LEMMA BreakRecorded ==
  ASSUME StepFrom, NEW t \in Threads, NEW u \in Threads, RpcBreak(t, u)
  PROVE  ClocksRecorded'
  <1> USE DEF StepFrom
  <1> DEFINE s == stack[t]
  <1>1. PICK k \in 2..Len(s) :
          /\ s[k].op = "rpc"
          /\ stack' = [stack EXCEPT ![t] = SubSeq(@, k + 1, Len(@)), ![u] = SubSeq(s, 1, k - 1)]
          /\ ret' = [ret EXCEPT ![t] = Result(s[k].to, s[k].rpc, NotOk), ![u] = ret[t]]
    BY DEF RpcBreak
  <1>2. stack[u] = <<>> /\ conns' = conns
    BY DEF RpcBreak
  <1>3. /\ stack = [x \in Threads |-> stack[x]] /\ ret = [x \in Threads |-> ret[x]]
        /\ IsSeq(s) /\ \A i \in 1..Len(s) - 1 : Answers(s[i], s[i + 1])
    BY DEF InFlightOK, CallsOK, ThreadOK
  <1>4. Len(s) \in Nat /\ s # <<>>
    <2>1. Len(s) \in Nat /\ (s = <<>> <=> Len(s) = 0)
      BY <1>3, IsSeqLen
    <2> QED
      BY <2>1
  <1>5. t # u
    BY <1>2, <1>4
  <1> DEFINE w == Result(s[k].to, s[k].rpc, NotOk)
             a == SubSeq(s, k + 1, Len(s))
             b == SubSeq(s, 1, k - 1)
  <1>6. /\ stack' = [x \in Threads |-> IF x = t THEN a ELSE IF x = u THEN b ELSE stack[x]]
        /\ ret' = [x \in Threads |-> IF x = t THEN w ELSE IF x = u THEN ret[t] ELSE ret[x]]
    BY <1>1, <1>3, <1>5
  <1>7. ThreadRecorded(conns, s, ret[t])
    BY DEF ClocksRecorded
  <1> HIDE DEF s, w
  <1>8. ThreadRecorded(conns, a, w)
    <2>1. k + 1 \in Nat \ {0} /\ Len(s) <= Len(s) /\ k \in 1..Len(s)
      BY <1>4
    <2>2. ASSUME k + 1 <= Len(s) PROVE ValueRecorded(conns, s[k + 1], w)
      <3>1. k \in 1..Len(s) - 1
        BY <2>2, <1>4
      <3>2. Answers(s[k], s[k + 1]) /\ Tells(s[k], s[k + 1])
        BY <3>1, <1>3, <1>7 DEF ThreadRecorded
      <3> QED
        BY <3>2, <1>1, FailureTells DEF w
    <2> QED
      BY <2>1, <2>2, <1>3, <1>4, <1>7, PartRecorded
  <1>9. ThreadRecorded(conns, b, ret[t])
    <2>1. k - 1 \in Nat /\ k - 1 <= Len(s) /\ 1 \in Nat \ {0}
      BY <1>4
    <2>2. ValueRecorded(conns, s[1], ret[t])
      BY <1>4, <1>7 DEF ThreadRecorded
    <2> QED
      BY <2>1, <2>2, <1>3, <1>7, PartRecorded
  <1> HIDE DEF a, b
  <1>10. \A x \in Threads : ThreadRecorded(conns, stack'[x], ret'[x])
    BY <1>6, <1>8, <1>9 DEF ClocksRecorded
  <1> QED
    BY <1>2, <1>10 DEF ClocksRecorded

\* A user gives a command, which holds no clock but that of Connection().
LEMMA CommandRecorded ==
  ASSUME StepFrom, NEW t \in Threads, Command(t)
  PROVE  ClocksRecorded'
  <1> USE DEF StepFrom
  <1>1. conns' = conns /\ ret' = ret
    BY DEF Command, AppendCommand, ConnectCommand, DisconnectCommand, RelayCommand, ClientCommand,
           ClientRelay, ClientConnect, ClientSources
  <1>2. Recording
    BY <1>1, PortsSame
  <1>3. ASSUME NEW f, Start(t, f), Plain(f), Fresh(f) PROVE ClocksRecorded'
    BY <1>1, <1>2, <1>3, PlainRecorded, StartRecorded
  <1>4. ASSUME NEW n, NEW value, NEW alters, AppendCommand(t, n, value, alters) PROVE ClocksRecorded'
    <2> DEFINE f == AppendCall(n, [id |-> IdOf[n], value |-> value, alters |-> alters])
    <2>1. Start(t, f) /\ f.op = "append"
      BY <1>4 DEF AppendCommand, AppendCall
    <2> HIDE DEF f
    <2> QED
      BY <2>1, <1>3 DEF Plain, Fresh, AwaitsClock, AwaitsConnection
  <1>5. ASSUME NEW n, NEW m, ConnectCommand(t, n, m) PROVE ClocksRecorded'
    <2> DEFINE f == ConnectCall(n, m)
    <2>1. Start(t, f) /\ f.op = "connect" /\ f.pc = "enter"
      BY <1>5 DEF ConnectCommand, ConnectCall
    <2> HIDE DEF f
    <2> QED
      BY <2>1, <1>3 DEF Plain, Fresh, AwaitsClock, AwaitsConnection
  <1>6. ASSUME NEW n, NEW p, DisconnectCommand(t, n, p) PROVE ClocksRecorded'
    <2> DEFINE g == Refresh(n, Conn(n, p).peer, NoConnection, Conn(n, p).source)
               f == [op |-> "disconnect", node |-> n, port |-> p]
               s == <<g, f>>
    <2>1. stack' = [stack EXCEPT ![t] = s]
      BY <1>6 DEF DisconnectCommand
    <2>2. ret' = [ret EXCEPT ![t] = ret[t]]
      BY <1>1, KeepsRet
    <2>3. RecordedIn(conns', NoConnection.clock, NoConnection.provides)
      BY EmptyRecorded DEF NoConnection, RecordedIn
    <2>4. FrameRecorded(conns', g) /\ Fresh(g)
      BY <2>3, RefreshRecorded
    <2>5. Plain(f) /\ ~AwaitsClock(f)
      BY DEF Plain, AwaitsClock
    <2> HIDE DEF f, g
    <2>6. Len(s) = 2 /\ s[1] = g /\ s[2] = f
      OBVIOUS
    <2> HIDE DEF s
    <2>7. FrameRecorded(conns', f) /\ Tells(g, f) /\ ValueRecorded(conns', g, ret[t])
      BY <2>4, <2>5, PlainRecorded
    <2>8. ThreadRecorded(conns', s, ret[t])
      BY <2>4, <2>6, <2>7 DEF ThreadRecorded
    <2> QED
      BY <1>2, <2>1, <2>2, <2>8, StepRecorded
  <1>7. ASSUME NEW n, NEW id, NEW value, NEW alters, RelayCommand(t, n, id, value, alters)
        PROVE  ClocksRecorded'
    <2> DEFINE f == RelayCall(n, [id |-> id, value |-> value, alters |-> alters], 0)
    <2>1. Start(t, f) /\ f.op = "relay"
      BY <1>7 DEF RelayCommand, RelayCall
    <2> HIDE DEF f
    <2> QED
      BY <2>1, <1>3 DEF Plain, Fresh, AwaitsClock, AwaitsConnection
  <1>8. ASSUME NEW n, NEW rpc, rpc \in {"Relay", "Sources"}, NEW r, ClientCommand(t, n, rpc, r)
        PROVE  ClocksRecorded'
    <2> DEFINE f == Stub(NoPeer, n, rpc, r)
    <2>1. Start(t, f) /\ f.op = "rpc" /\ f.rpc = rpc
      BY <1>8 DEF ClientCommand, Stub
    <2> HIDE DEF f
    <2> QED
      BY <1>8, <2>1, <1>3 DEF Plain, Fresh, AwaitsClock, AwaitsConnection
  <1>9. ASSUME NEW n, NEW m, ClientConnect(t, n, m) PROVE ClocksRecorded'
    <2> DEFINE r == [source |-> 0, clock |-> SetClock(EmptyClock), broker |-> m,
                     sources |-> SetIdConnectionInfoMap(NoProvides)]
               f == Stub(NoPeer, n, "Connect", r)
    <2>1. Start(t, f)
      BY <1>9 DEF ClientConnect, ClientCommand
    <2>2. f.op = "rpc" /\ f.rpc = "Connect" /\ f.request = r /\ f.pc = "send"
      BY DEF Stub
    <2>3. Recorded(conns', EmptyClock) /\ RecordedTable(conns', NoProvides)
      BY EmptyRecorded
    <2>4. ClockFrom(r.clock) = EmptyClock /\ IdConnectionInfoMapFrom(r.sources) = NoProvides
      BY <2>3, WireRecorded
    <2> HIDE DEF f, r
    <2>5. FrameRecorded(conns', f) /\ Fresh(f)
      BY <2>2, <2>3, <2>4 DEF FrameRecorded, RecordedIn, Fresh, AwaitsClock, AwaitsConnection
    <2> QED
      BY <1>1, <1>2, <2>1, <2>5, StartRecorded
  <1> QED
    BY <1>4, <1>5, <1>6, <1>7, <1>8, <1>9 DEF Command, ClientRelay, ClientSources

\* Every step.
LEMMA NextRecorded ==
  ASSUME InFlightOK, PoolInv, ClocksRecorded, WellRouted, [Next]_vars
  PROVE  ClocksRecorded'
  <1>1. StepFrom
    <2>1. [PoolProofs!Next]_(PoolProofs!vars)
      BY NextInPool
    <2>2. PoolInv'
      BY <2>1, PoolKept
    <2>3. Later(conns, conns')
      BY <2>1, <2>2, CountsGrow
    <2> QED
      BY <2>2, <2>3 DEF StepFrom
  <1>2. CASE UNCHANGED vars
    BY <1>2 DEF vars, ClocksRecorded
  <1>3. ASSUME NEW t \in Threads, Machine(t) PROVE ClocksRecorded'
    BY <1>1, <1>3, InsertsRecorded, RefreshesRecorded, OthersRecorded, ConnectsRecorded, RpcRecorded
       DEF Machine, LocalStep
  <1>4. ASSUME NEW t \in Threads, Fault(t) PROVE ClocksRecorded'
    BY <1>1, <1>4, RpcRecorded, BreakRecorded DEF Fault
  <1>5. ASSUME NEW t \in Threads, Command(t) PROVE ClocksRecorded'
    BY <1>1, <1>5, CommandRecorded
  <1> QED
    BY <1>2, <1>3, <1>4, <1>5 DEF Next

\* The first state.
LEMMA InitRecorded ==
  ASSUME Init
  PROVE  ClocksRecorded
  <1>1. /\ conns = [n \in Brokers |-> <<NoConnection>>] /\ stack = [t \in Threads |-> <<>>]
    BY DEF Init
  <1>2. PortsRecorded(conns)
    <2>1. RecordedIn(conns, NoConnection.clock, NoConnection.provides)
      BY EmptyRecorded DEF NoConnection, RecordedIn
    <2> DEFINE s == <<NoConnection>>
    <2>2. Len(s) = 1 /\ s[1] = NoConnection
      OBVIOUS
    <2>3. \A n \in Brokers : conns[n] = s
      BY <1>1
    <2> HIDE DEF s
    <2> QED
      BY <2>1, <2>2, <2>3 DEF PortsRecorded
  <1>3. \A t \in Threads : ThreadRecorded(conns, stack[t], ret[t])
    <2>1. \A t \in Threads : stack[t] = <<>>
      BY <1>1
    <2> QED
      BY <2>1 DEF ThreadRecorded
  <1> QED
    BY <1>2, <1>3 DEF ClocksRecorded

\* What the tables say.
LEMMA RecordedIsNotInvented == InFlightOK /\ PoolInv /\ ClocksRecorded => NothingInvented
  <1> SUFFICES ASSUME InFlightOK, PoolInv, ClocksRecorded, NEW n \in Brokers, NEW p \in 0..Len(conns[n]) - 1
               PROVE  LET table == Conn(n, p).provides
                      IN  \A c \in {Conn(n, p).clock} \cup {table[i].clock : i \in DOMAIN table} :
                            \A j \in DOMAIN c : j \in Owned /\ c[j] <= At(ClockOf(j), j)
    BY DEF NothingInvented
  <1>1. Len(conns[n]) \in Nat
    BY ConnsLen DEF InFlightOK
  <1>2. p \in Nat /\ p < Len(conns[n])
    BY <1>1
  <1>3. Recorded(conns, Conn(n, p).clock) /\ RecordedTable(conns, Conn(n, p).provides)
    BY <1>2, PortRecorded DEF ClocksRecorded
  <1>4. ASSUME NEW c, Recorded(conns, c), NEW j \in DOMAIN c PROVE j \in Owned /\ c[j] <= At(ClockOf(j), j)
    <2>1. j \in Owned /\ c[j] \in 0..Count(conns, j) /\ Count(conns, j) \in Nat
      BY <1>4, PoolCounts DEF Recorded, Counts
    <2>2. c[j] <= Count(conns, j)
      BY <2>1
    <2> QED
      BY <2>1, <2>2, OwnClock DEF Count
  <1> QED
    BY <1>3, <1>4 DEF RecordedTable

\* Whatever users do and whichever remote calls fail, no connection's clock and no
\* version in a routing table counts an event that its journal has not recorded:
\* neither a refusal's clock, which Connection::insert leaves aside, nor a merge of
\* Connection::insert or Broker::insert, nor an answer that comes late invents one.
THEOREM BrokersInventNothing == Spec /\ []WellRouted => []NothingInvented
  <1>1. Init => ClocksRecorded
    BY InitRecorded
  <1>2. InFlightOK /\ PoolInv /\ WellRouted /\ ClocksRecorded /\ [Next]_vars => ClocksRecorded'
    BY NextRecorded
  <1>3. InFlightOK /\ PoolInv /\ ClocksRecorded => NothingInvented
    BY RecordedIsNotInvented
  <1> QED
    BY <1>1, <1>2, <1>3, InFlightAndPool, PTL DEF Spec

\* So it is where users relay only to the journal they address.
THEOREM OwnRelaysInventNothing == Spec /\ [][RelaysToSelf]_vars => []NothingInvented
  BY OwnRelaysWellRouted, BrokersInventNothing, PTL
=============================================================================
