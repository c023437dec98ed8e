---------------------------- MODULE BrokerCalls ----------------------------
(***************************************************************************)
(* What is true of the brokers' ports and of the calls they are in at any  *)
(* moment, whatever the users do: the inductive invariant from which       *)
(* module BrokerProofs shows that the journals behave as the pool of       *)
(* module Journal.  C stands for the connections, E for the stored         *)
(* entries, so that a step's two states can be compared.                   *)
(***************************************************************************)
EXTENDS Broker

Nodes == Brokers \cup {NoPeer}

\* The entries that the users' journals store.
MadeIn(E) == UNION {E[n] : n \in Owned}

Made == MadeIn(entries)

IsSeq(s) == s \in Seq({s[i] : i \in 1..Len(s)})

-----------------------------------------------------------------------------
(***************************************************************************)
(* Ports.  A connection holds the number that its port has at the peer,    *)
(* which the peer told it.                                                 *)
(***************************************************************************)
IsConnection(c) ==
  c = [peer |-> c.peer, source |-> c.source, clock |-> c.clock, provides |-> c.provides]

\* A call that n makes at m with the sender s arrives at a port of m that leads to
\* what stands for n there: n, or in another process the twin of n; or that led to
\* it, and was closed.  The sender 0 is no port: n has it where its connect was
\* refused or not answered, or where m has left.
Paired(C, n, m, s) ==
  m \in Started =>
    s = 0 \/ (s \in 1..Len(C[m]) - 1 /\ C[m][s + 1].peer \in {GetOrCreate(Process[m], n), NoPeer})

HasPort(C, m, s) == m \in Started => s < Len(C[m])

\* Port p of n leads to m, unless it was closed.
LeadsTo(C, n, p, m) == p \in 1..Len(C[n]) - 1 /\ C[n][p + 1].peer \in {m, NoPeer}

PortOK(C, n, c) ==
  IsConnection(c) /\ c.peer \in Nodes /\ c.source \in Nat /\ Paired(C, n, c.peer, c.source)

PortsOK(C, n) ==
  /\ IsSeq(C[n]) /\ C[n] # <<>>
  /\ n \in Twins => Len(C[n]) = 1
  /\ C[n][1].peer = NoPeer
  /\ \A i \in 1..Len(C[n]) : PortOK(C, n, C[n][i])

ConnsOK(C) == C = [n \in Brokers |-> C[n]] /\ \A n \in Brokers : PortsOK(C, n)

\* Twins store copies.
StoresOK(E) ==
  /\ E = [n \in Journals |-> E[n]]
  /\ \A n \in Journals : E[n] \subseteq MadeIn(E) /\ IsFiniteSet(E[n])

-----------------------------------------------------------------------------
(***************************************************************************)
(* Calls in flight.                                                        *)
(***************************************************************************)
InsertOK(C, E, f) ==
  /\ f.op = "insert"
  /\ f \in [op : {"insert"}, node : Nodes, entry : MadeIn(E), source : Nat,
            pc : {"enter", "loop", "await"}, port : Nat]
  /\ HasPort(C, f.node, f.source)
  /\ f.pc = "await" => f.node \in Started /\ f.port # 0 /\ HasPort(C, f.node, f.port)

AppendOK(f) ==
  /\ f.op = "append"
  /\ f.node \in Owned /\ f.data.id = f.node /\ f.data.value \in Amount /\ f.data.alters \in Version

InsertListOK(C, E, f) ==
  /\ f.op = "insertList"
  /\ f \in [op : {"insertList"}, node : Nodes, to : Nodes, list : Seq(MadeIn(E)), sender : Nat]
  /\ HasPort(C, f.to, f.sender)

\* What a peer announces to port sender of n is the port by which it reaches n.
RefreshFits(C, n, sender, source) ==
  n \in Started => /\ sender \in 0..Len(C[n]) - 1
                   /\ sender # 0 => Paired(C, n, C[n][sender + 1].peer, source)

RefreshOK(C, f) ==
  /\ f.op = "refresh"
  /\ f.node \in Nodes /\ f.sender \in Nat /\ f.data.source \in Nat
  /\ RefreshFits(C, f.node, f.sender, f.data.source)

RefreshConnectionsOK(f) ==
  /\ f.op = "refreshConnections"
  /\ f \in [op : {"refreshConnections"}, node : Brokers, ignore : Nat, port : Nat \ {0}]

ConnectOK(C, E, f) ==
  /\ f.op = "connect"
  /\ f \in [op : {"connect"}, node : Started, to : Started, port : Nat,
            pc : {"enter", "answered", "mine", "theirs", "inserted", "sent", "refreshed"},
            mine : Seq(MadeIn(E))]
  /\ f.pc # "enter" => LeadsTo(C, f.node, f.port, f.to)

AcceptOK(C, f) ==
  /\ f.op = "accept"
  /\ f = [op |-> f.op, node |-> f.node, data |-> f.data, pc |-> f.pc, port |-> f.port]
  /\ f.node \in Started /\ IsConnection(f.data) /\ f.data.peer \in Brokers /\ f.data.source \in Nat
  /\ \/ f.pc = "enter" /\ Paired(C, f.node, f.data.peer, f.data.source)
     \/ f.pc = "refreshed" /\ LeadsTo(C, f.node, f.port, f.data.peer)

QueryOK(f) ==
  /\ f.op = "query"
  /\ f = [op |-> f.op, node |-> f.node, from |-> f.from, sender |-> f.sender, pc |-> f.pc]
  /\ f.node \in Nodes /\ f.pc \in {"enter", "await"}

\* What a relay carries: a new value, alone or for any version.
RelayData(d) ==
  d = [id |-> d.id, value |-> d.value, alters |-> d.alters] /\ d.value \in Amount /\ d.alters \in Version

RelayOK(f) ==
  /\ f.op = "relay"
  /\ f = [op |-> f.op, node |-> f.node, data |-> f.data, sender |-> f.sender, pc |-> f.pc]
  /\ f.node \in Nodes /\ f.pc \in {"enter", "await"} /\ RelayData(f.data)

DisconnectOK(C, f) ==
  /\ f.op = "disconnect" /\ f.node \in Started
  /\ f.port \in Nat \ {0} /\ HasPort(C, f.node, f.port)

RequestOK(C, E, m, rpc, r) ==
  /\ rpc = "Insert" => /\ r.sender \in Nat /\ HasPort(C, m, r.sender)
                       /\ \E e \in MadeIn(E) : r.entry = SetEntry(e)
  /\ rpc = "Connect" => /\ m \in Started /\ r.broker \in Started /\ r.source \in Nat
                        /\ r.source # 0 => Process[r.broker] # Process[m]
  /\ rpc = "Refresh" => r.sender \in Nat /\ r.source \in Nat /\ RefreshFits(C, m, r.sender, r.source)
  /\ rpc = "Relay" => RelayData(DataFrom(r.entry))

RpcOK(C, E, f) ==
  /\ f.op = "rpc"
  /\ f = [op |-> f.op, node |-> f.node, to |-> f.to, rpc |-> f.rpc, request |-> f.request, pc |-> f.pc]
  /\ f.node \in Nodes /\ f.to \in Brokers /\ f.pc \in {"send", "await"}
  /\ f.rpc \in {"Connect", "Query", "Insert", "Refresh", "Relay"} \cup Reads
  /\ f.rpc = "Connect" /\ f.request.source # 0 => f.request.broker = f.node
  /\ RequestOK(C, E, f.to, f.rpc, f.request)

FrameOK(C, E, f) ==
  \/ InsertOK(C, E, f) \/ AppendOK(f) \/ InsertListOK(C, E, f)
  \/ RefreshOK(C, f) \/ RefreshConnectionsOK(f) \/ ConnectOK(C, E, f) \/ AcceptOK(C, f)
  \/ QueryOK(f) \/ RelayOK(f) \/ DisconnectOK(C, f) \/ RpcOK(C, E, f)

(***************************************************************************)
(* A call that waits gets the kind of result it waits for.                 *)
(***************************************************************************)
AwaitsList(f) ==
  \/ f.op = "connect" /\ f.pc \in {"mine", "theirs"}
  \/ f.op = "query" /\ f.pc = "await"
  \/ f.op = "rpc" /\ f.rpc = "Query"

AwaitsConnection(f) ==
  \/ f.op = "connect" /\ f.pc = "answered"
  \/ f.op = "rpc" /\ f.rpc = "Connect" /\ f.request.source # 0

\* The call g may run for f.
Answers(g, f) ==
  /\ AwaitsList(f) => g.op = "query" \/ (g.op = "rpc" /\ g.rpc = "Query")
  /\ AwaitsConnection(f) =>
       \/ g.op = "accept" /\ g.node = f.to /\ g.data.peer = GetOrCreate(Process[f.to], f.node)
       \/ g.op = "rpc" /\ AwaitsConnection(g) /\ g.to = f.to /\ g.node = f.node

\* The value v that has been returned to f is one that f can use.
ValueOK(C, E, f, v) ==
  /\ AwaitsList(f) /\ f.pc # "send" => v.list \in Seq(MadeIn(E))
  /\ AwaitsConnection(f) /\ f.pc # "send" =>
       v.conn.source \in Nat /\ Paired(C, f.node, f.to, v.conn.source)

\* A thread in the calls s, to which the last one has returned v.
ThreadOK(C, E, s, v) ==
  /\ IsSeq(s)
  /\ \A i \in 1..Len(s) : FrameOK(C, E, s[i])
  /\ \A i \in 1..Len(s) - 1 : Answers(s[i], s[i + 1])
  /\ s # <<>> => ValueOK(C, E, s[1], v)

CallsOK(C, E, S, R) ==
  /\ S = [t \in Threads |-> S[t]] /\ R = [t \in Threads |-> R[t]]
  /\ \A t \in Threads : ThreadOK(C, E, S[t], R[t])

-----------------------------------------------------------------------------
\* Every entry on its way, in a call, in a message or in an answer, is one that a
\* user's journal stores.  The port by which a connection names its caller to the peer
\* leads back to the caller there (to the caller's twin, in another process) until it
\* is closed, or is 0, after a connect that was not answered or a peer that left.  And
\* every call that waits gets an answer of the kind it waits for, faults included.
InFlightOK == ConnsOK(conns) /\ StoresOK(entries) /\ CallsOK(conns, entries, stack, ret)

-----------------------------------------------------------------------------
(***************************************************************************)
(* What brokers know of each other's clocks.                               *)
(***************************************************************************)

\* The events that journal i has recorded.
Count(C, i) == At(C[i][1].clock, i)

\* Every event that c counts is one that its author recorded.
Recorded(C, c) ==
  c = [i \in DOMAIN c |-> c[i]] /\ \A i \in DOMAIN c : i \in Owned /\ c[i] \in 0..Count(C, i)

RecordedTable(C, table) ==
  /\ table = [i \in DOMAIN table |-> [distance |-> table[i].distance, clock |-> table[i].clock]]
  /\ \A i \in DOMAIN table : Recorded(C, table[i].clock)

RecordedIn(C, c, table) == Recorded(C, c) /\ RecordedTable(C, table)

\* So are those in what a call is given,
FrameRecorded(C, f) ==
  /\ f.op \in {"refresh", "accept"} => RecordedIn(C, f.data.clock, f.data.provides)
  /\ f.op = "rpc" /\ f.rpc \in {"Connect", "Refresh"} =>
       RecordedIn(C, ClockFrom(f.request.clock), IdConnectionInfoMapFrom(f.request.sources))

\* and in what it returns to one that takes the clock over.
AwaitsClock(f) == (f.op = "insert" /\ f.pc = "await") \/ (f.op = "connect" /\ f.pc = "sent")

Tells(g, f) ==
  AwaitsClock(f) => g.op \in {"insert", "insertList"} \/ (g.op = "rpc" /\ g.rpc \in {"Insert", "GetClock"})

ValueRecorded(C, f, v) ==
  /\ AwaitsClock(f) /\ Valid(v.clock) => Recorded(C, v.clock)
  /\ AwaitsConnection(f) /\ f.pc # "send" => RecordedIn(C, v.conn.clock, v.conn.provides)

ThreadRecorded(C, s, v) ==
  /\ \A i \in 1..Len(s) : FrameRecorded(C, s[i])
  /\ \A i \in 1..Len(s) - 1 : Tells(s[i], s[i + 1])
  /\ s # <<>> => ValueRecorded(C, s[1], v)

PortsRecorded(C) ==
  \A n \in Brokers : \A i \in 1..Len(C[n]) : RecordedIn(C, C[n][i].clock, C[n][i].provides)

\* The inductive invariant behind NothingInvented.
ClocksRecorded == PortsRecorded(conns) /\ \A t \in Threads : ThreadRecorded(conns, stack[t], ret[t])

=============================================================================
