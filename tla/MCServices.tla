----------------------------- MODULE MCServices -----------------------------
(***************************************************************************)
(* Services whose calls to each other fail at any time.  Users repeat a    *)
(* connect, whether or not the last one failed, and leave; clients of the  *)
(* service that asks connect it and add its entries.                       *)
(***************************************************************************)
EXTENDS MCBroker

CONSTANTS
  Users,     \* the threads that take commands; the others finish what was cut off
  Askers,    \* the services that connect to the others (two that connected to each
             \* other would refresh each other without end), and that clients use
  MaxFaults  \* at most this many remote calls fail; a broker that leaves is one of them

VARIABLES
  faults,  \* how many calls have failed
  joined   \* the services of the last command, if that was a connect and none of
           \* its calls has failed (a history variable)

NoServices == <<>>

svars == <<conns, entries, stack, ret, faults, joined>>

ServicesInit == Init /\ faults = 0 /\ joined = NoServices

Budget == faults + Cardinality(DeadPorts) < MaxFaults

\* A client corrects an entry as soon as there is one.
Corrected == IF Made = {} THEN {EmptyClock} ELSE {e.clock : e \in Made}

Join(t) ==
  \E n \in Askers, m \in Started \ Askers :
    /\ Idle
    /\ ConnectCommand(t, n, m) \/ ClientConnect(t, n, m)
    /\ joined' = <<n, m>> /\ UNCHANGED faults

\* Any other command.
Use(t) ==
  /\ \/ MayWrite /\ \E n \in Started \ Askers, value \in Amount : AppendCommand(t, n, value, EmptyClock)
     \/ Budget /\ DisconnectAny(t)
     \/ MayWrite /\ \E n \in Askers, value \in Amount, alters \in Corrected : ClientRelay(t, n, 0, value, alters)
     \/ Idle /\ \E n \in Askers : ClientSources(t, n)
  /\ joined' = NoServices /\ UNCHANGED faults

ServicesNext ==
  \E t \in Threads :
    \/ Machine(t) /\ UNCHANGED <<faults, joined>>
    \/ Fault(t) /\ Budget /\ faults' = faults + 1 /\ joined' = NoServices
    \/ t \in Users /\ (Join(t) \/ Use(t))

ServicesFairness == \A t \in Threads : WF_svars(Machine(t) /\ UNCHANGED <<faults, joined>>)

ServicesSpec == ServicesInit /\ [][ServicesNext]_svars /\ ServicesFairness

\* When a connect of two services on different hosts has returned and no call of it
\* failed, both journals hold the same entries and show the same clock, whatever was
\* lost, cut off or repeated before it.  (On one host see SameDirectories of OneHost.)
ConnectRepairs ==
  Idle /\ joined # NoServices =>
    LET n == joined[1]
        m == joined[2]
    IN  entries[n] = entries[m] /\ ClockOf(n) = ClockOf(m)

=============================================================================
