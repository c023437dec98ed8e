------------------------------- MODULE Clocks -------------------------------
(***************************************************************************)
(* The map clocks of cashmere/crdt/src/clock.cpp.  A Clock is a            *)
(* std::map<Id, Time>: here a function whose domain is the set of ids the  *)
(* map holds.  A key that is absent and a key whose time is 0 are          *)
(* different maps, exactly as in the code; only the constructor from a     *)
(* list drops zero times.  Id 0 is reserved: {{0, 0}} is the value that    *)
(* marks a refused operation.                                              *)
(***************************************************************************)
EXTENDS Naturals

\* All clocks over a set of ids, with times from a set.
ClocksOver(ids, times) == UNION {[S -> times] : S \in SUBSET ids}

EmptyClock == [i \in {} |-> 0]

InvalidClock == [i \in {0} |-> 0]

Valid(c) == 0 \notin DOMAIN c

At(c, i) == IF i \in DOMAIN c THEN c[i] ELSE 0

\* Clock(initializer_list): zero times are erased, except under the key 0.
FromList(c) == [i \in {j \in DOMAIN c : j = 0 \/ c[j] # 0} |-> c[i]]

Merge(c, d) ==
  [i \in DOMAIN c \cup DOMAIN d |-> IF At(c, i) > At(d, i) THEN At(c, i) ELSE At(d, i)]

Tick(c, id) == [i \in DOMAIN c \cup {id} |-> IF i = id THEN At(c, i) + 1 ELSE c[i]]

SmallerThan(c, d) == c # d /\ Merge(c, d) = d

Concurrent(c, d) == c # d /\ ~SmallerThan(c, d) /\ ~SmallerThan(d, c)

\* c carries the event of id that follows what d has seen of id.
IsNext(c, d, id) ==
  /\ id \in DOMAIN c
  /\ IF id \notin DOMAIN d THEN c[id] = 1 ELSE c[id] = d[id] + 1

\* operator< of std::map, which orders the keys of std::map<Clock, Data>: the
\* (id, time) pairs, by increasing id, are compared lexicographically.
LexLess(c, d) ==
  \E k \in DOMAIN c \cup DOMAIN d :
    /\ \A j \in DOMAIN c \cup DOMAIN d :
         j < k => j \in DOMAIN c /\ j \in DOMAIN d /\ c[j] = d[j]
    /\ \/ k \in DOMAIN c /\ k \in DOMAIN d /\ c[k] < d[k]
       \/ k \in DOMAIN c /\ k \notin DOMAIN d /\ \E j \in DOMAIN d : j > k
       \/ k \notin DOMAIN c /\ k \in DOMAIN d /\ \A j \in DOMAIN c : j < k

\* d knows every event c knows (the reading of "smaller or equal" that the
\* properties use; SmallerThan is its strict part).
Leq(c, d) == DOMAIN c \subseteq DOMAIN d /\ \A i \in DOMAIN c : c[i] <= d[i]

=============================================================================
