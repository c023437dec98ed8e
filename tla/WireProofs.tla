----------------------------- MODULE WireProofs -----------------------------
(***************************************************************************)
(* What is sent over gRPC arrives as it was: the conversions of grpcutils  *)
(* into a message and back give the same clock, entry, table and tables by *)
(* port, for all of them.                                                  *)
(***************************************************************************)
EXTENDS Wire, TLAPS

\* SetClock and ClockFrom (grpcutils.cpp) are inverse: a clock, the refusal
\* {{0, 0}} and an empty clock included, arrives as it was sent.
THEOREM ClockSurvives ==
  ASSUME NEW S, NEW T, NEW c \in [S -> T]
  PROVE  ClockFrom(SetClock(c)) = c
<1>1. \A x \in S : <<x, c[x]>> \in SetClock(c)
  BY DEF SetClock
<1>2. \A pair \in SetClock(c) : pair[1] \in S /\ pair[2] = c[pair[1]]
  BY DEF SetClock
<1>3. Keys(SetClock(c)) = S
  <2>1. \A x \in S : \E pair \in SetClock(c) : pair[1] = x
    BY <1>1
  <2> QED
    BY <1>2, <2>1 DEF Keys
<1>4. ASSUME NEW x \in S
      PROVE  Field(SetClock(c), x) = c[x]
  <2> DEFINE pair == CHOOSE p \in SetClock(c) : p[1] = x
  <2>1. \E p \in SetClock(c) : p[1] = x
    BY <1>1
  <2>2. pair \in SetClock(c) /\ pair[1] = x
    BY <2>1
  <2> QED
    BY <1>2, <2>2 DEF Field
<1> QED
  BY <1>3, <1>4 DEF ClockFrom

\* SetData and DataFrom: a relay's or a client's data arrive as they were sent.
THEOREM DataSurvives ==
  ASSUME NEW S, NEW T, NEW I, NEW V, NEW d \in [id : I, value : V, alters : [S -> T]]
  PROVE  DataFrom(SetData(d)) = d
<1>1. ClockFrom(SetClock(d.alters)) = d.alters
  BY ClockSurvives
<1> QED
  BY <1>1 DEF DataFrom, SetData

\* SetEntry and EntryFrom: an entry keeps its clock, author, value and the
\* version it alters on its way to another service.
THEOREM EntrySurvives ==
  ASSUME NEW S, NEW R, NEW T, NEW I, NEW V, NEW e,
         e \in [clock : [S -> T], id : I, value : V, alters : [R -> T]]
  PROVE  EntryFrom(SetEntry(e)) = e
<1>1. ClockFrom(SetClock(e.clock)) = e.clock /\ ClockFrom(SetClock(e.alters)) = e.alters
  BY ClockSurvives
<1> QED
  BY <1>1 DEF EntryFrom, SetEntry, DataFrom, SetData

\* SetIdConnectionInfoMap and IdConnectionInfoMapFrom: a routing table arrives with
\* the distance and the version of every journal, whichever journals each version
\* counts.
THEOREM TableSurvives ==
  ASSUME NEW table,
         table = [i \in DOMAIN table |-> [distance |-> table[i].distance, clock |-> table[i].clock]],
         \A i \in DOMAIN table : table[i].clock = [j \in DOMAIN table[i].clock |-> table[i].clock[j]]
  PROVE  IdConnectionInfoMapFrom(SetIdConnectionInfoMap(table)) = table
<1> DEFINE map == SetIdConnectionInfoMap(table)
           I == DOMAIN table
<1>1. \A i \in I : <<i, SetConnectionInfo(table[i])>> \in map
  BY DEF SetIdConnectionInfoMap
<1>2. \A pair \in map : pair[1] \in I /\ pair[2] = SetConnectionInfo(table[pair[1]])
  BY DEF SetIdConnectionInfoMap
<1> HIDE DEF map, I
<1>3. Keys(map) = I
  <2>1. \A i \in I : \E pair \in map : pair[1] = i
    BY <1>1
  <2> QED
    BY <1>2, <2>1 DEF Keys
<1>4. ASSUME NEW i \in I
      PROVE  Field(map, i) = SetConnectionInfo(table[i])
  <2> DEFINE pair == CHOOSE p \in map : p[1] = i
  <2>1. \E p \in map : p[1] = i
    BY <1>1
  <2>2. pair \in map /\ pair[1] = i
    BY <2>1
  <2> QED
    BY <1>2, <2>2 DEF Field
<1>5. ASSUME NEW i \in I
      PROVE  [distance |-> Field(map, i).distance, clock |-> ClockFrom(Field(map, i).clock)] = table[i]
  <2> DEFINE c == table[i].clock
  <2>1. c = [j \in DOMAIN c |-> c[j]] /\ table[i] = [distance |-> table[i].distance, clock |-> c]
    BY DEF I
  <2>2. c \in [DOMAIN c -> {c[j] : j \in DOMAIN c}]
    BY <2>1
  <2>3. ClockFrom(SetClock(c)) = c
    BY <2>2, ClockSurvives
  <2> QED
    BY <1>4, <2>1, <2>3 DEF SetConnectionInfo
<1>6. IdConnectionInfoMapFrom(map) = [i \in I |-> table[i]]
  BY <1>3, <1>5 DEF IdConnectionInfoMapFrom
<1> QED
  BY <1>6 DEF I, map

=============================================================================
