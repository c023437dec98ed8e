------------------------------ MODULE MCBroker ------------------------------
(***************************************************************************)
(* Instances of module Broker for TLC: which commands the users give.  The *)
(* brokers are connected into trees, the topology of the tests.            *)
(***************************************************************************)
EXTENDS BrokerCalls

CONSTANTS
  MaxEntries,   \* the users make at most this many entries
  MaxLeaves     \* and disconnect at most this many times

\* A broker below 10 is one that a user started, nm the twin of n in the
\* process of m.
OwnId == [b \in Brokers |-> IF b < 10 THEN b ELSE b \div 10]

\* All brokers in one process, as in the tests.
OneProcess == [b \in Brokers |-> 0]

\* Each broker that was started is a service of its own, as RunService does.
Services == [b \in Brokers |-> b % 10]

InCall(t, ops) == \E i \in 1..Len(stack[t]) : stack[t][i].op \in ops

\* Nobody writes while brokers connect: Broker::connect holds references into
\* the vector of connections, so with several threads that is undefined.
MayWrite ==
  /\ Cardinality(Made) + Cardinality({t \in Threads : InCall(t, {"append", "relay"})}) < MaxEntries
  /\ \A t \in Threads : ~InCall(t, {"connect", "refreshConnections"})

DeadPorts == UNION {{<<n, p>> : p \in {q \in 1..Len(conns[n]) - 1 : ~Live(n, q)}} : n \in Brokers}

\* A connection that closes no cycle.  A broker that left is still called by the
\* one it left, and may come back; two services that connected to each other would
\* refresh each other without end.
Fresh(n, m) == ~Connected(n, m) /\ (Remote(n, m) => ~Connected(m, n))

\* The versions that a relayed entry may alter here: those that are recorded
\* somewhere, which the journal that takes the entry need not know.
Named == {EmptyClock} \cup {e.clock : e \in Made}

AppendAny(t) ==
  MayWrite /\ \E n \in Owned, value \in Amount : AppendCommand(t, n, value, EmptyClock)

RelayAny(t) ==
  /\ MayWrite
  /\ \E n \in Started, id \in Owned \cup {0}, value \in Amount, alters \in Named :
       RelayCommand(t, n, id, value, alters)

ConnectAny(t) == \E n, m \in Started : Idle /\ Fresh(n, m) /\ ConnectCommand(t, n, m)

DisconnectAny(t) ==
  /\ Idle /\ Cardinality(DeadPorts) < MaxLeaves
  /\ \E n \in Started : \E p \in 1..Len(conns[n]) - 1 : DisconnectCommand(t, n, p)

\* A call of a pool that nobody leaves: no disconnect runs, and no refresh names a
\* port that the peer does not have.
PoolStep(t) ==
  InsertStep(t) \/ RefreshEnter(t) \/ RefreshNext(t) \/ RefreshReturn(t) \/ QueryStep(t)
    \/ ConnectStep(t) \/ RelayStep(t)

\* The pool is formed before the second entry: with one entry there is no order that
\* a list could have wrong.
PoolFirstNext ==
  \E t \in Threads :
    PoolStep(t) \/ (Cardinality(Made) <= 1 /\ ConnectAny(t)) \/ AppendAny(t) \/ RelayAny(t)

\* Brokers join at any time.
JoinNext == \E t \in Threads : LocalStep(t) \/ ConnectAny(t) \/ AppendAny(t) \/ RelayAny(t)

\* The brokers of one process
PoolFirstSpec == Init /\ [][PoolFirstNext]_vars /\ Fairness

JoinSpec == Init /\ [][JoinNext]_vars /\ Fairness

\* and of several, where every remote call is answered.
Answered == \E t \in Threads : RpcStep(t)

ServicesJoinSpec == Init /\ [][JoinNext \/ Answered]_vars /\ Fairness

=============================================================================
