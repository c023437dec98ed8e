-------------------------- MODULE BrokerCallsProofs --------------------------
(***************************************************************************)
(* The means to prove that a step of a broker keeps the calls in flight in *)
(* order (module BrokerCalls): what Goto, Call and Return do to a thread's *)
(* calls, that nothing in order is undone by ports that open and close and *)
(* by entries that are stored, and that the calls a connection makes are   *)
(* in order.  Module BrokerProofs goes through the steps.                  *)
(***************************************************************************)
EXTENDS BrokerCalls, EntryListsProofs, WireProofs, SequenceTheorems, TLAPS

-----------------------------------------------------------------------------
\* The brokers that users started are brokers, and no broker is NoPeer.
LEMMA Ids ==
  /\ Owned \subseteq Started /\ Started \subseteq Brokers /\ Journals \subseteq Brokers
  /\ Owned \subseteq Journals /\ Twins \subseteq Brokers
  /\ NoPeer \notin Brokers /\ NoPeer \notin Started
  /\ \A n \in Brokers : n \in Started <=> n \notin Twins
  /\ \A n \in Brokers : n \in Nat \ {0}
  BY BrokersAssumption, ProcessAssumption DEF Owned, Started, NoPeer

-----------------------------------------------------------------------------
(***************************************************************************)
(* Calls of a thread.                                                      *)
(***************************************************************************)

\* A sequence over some set is one over its elements.
LEMMA SeqIsSeq ==
  ASSUME NEW S, NEW s \in Seq(S)
  PROVE  IsSeq(s) /\ Len(s) \in Nat /\ DOMAIN s = 1..Len(s)
  <1>1. s \in Seq(Range(s)) /\ Range(s) = {s[i] : i \in 1..Len(s)}
    BY SeqOfRange, RangeEquality
  <1>2. Len(s) \in Nat /\ DOMAIN s = 1..Len(s)
    BY LenProperties
  <1> QED
    BY <1>1, <1>2 DEF IsSeq

\* The length and the domain of a stack or of a vector of connections.
LEMMA IsSeqLen ==
  ASSUME NEW s, IsSeq(s)
  PROVE  /\ Len(s) \in Nat
         /\ s = <<>> <=> Len(s) = 0
         /\ s # <<>> => Head(s) = s[1]
  BY EmptySeq, LenProperties DEF IsSeq

\* The calls of a thread after Goto, Call and Return.
LEMMA GotoSeq ==
  ASSUME NEW s, IsSeq(s), s # <<>>, NEW f
  PROVE  LET r == <<f>> \o Tail(s)
         IN  IsSeq(r) /\ Len(r) = Len(s) /\ r[1] = f /\ \A i \in 2..Len(s) : r[i] = s[i]
  <1> DEFINE S == {s[i] : i \in 1..Len(s)} \cup {f}
             r == <<f>> \o Tail(s)
  <1>1. s \in Seq(S) /\ Len(s) \in Nat \ {0}
    BY SeqMonotonic, EmptySeq DEF IsSeq
  <1>2. Tail(s) \in Seq(S) /\ Len(Tail(s)) = Len(s) - 1
        /\ \A i \in 1..Len(Tail(s)) : Tail(s)[i] = s[i + 1]
    BY <1>1, HeadTailProperties
  <1>3. <<f>> \in Seq(S) /\ Len(<<f>>) = 1 /\ <<f>>[1] = f
    OBVIOUS
  <1>4. /\ r \in Seq(S) /\ Len(r) = Len(<<f>>) + Len(Tail(s))
        /\ \A i \in 1..Len(<<f>>) + Len(Tail(s)) :
             r[i] = IF i <= Len(<<f>>) THEN <<f>>[i] ELSE Tail(s)[i - Len(<<f>>)]
    BY <1>2, <1>3, ConcatProperties
  <1>5. Len(r) = Len(s) /\ r[1] = f
    BY <1>1, <1>2, <1>3, <1>4
  <1>6. ASSUME NEW i \in 2..Len(s) PROVE r[i] = s[i]
    <2>1. i \in Nat /\ i - 1 \in 1..Len(Tail(s)) /\ ~(i <= 1)
      BY <1>1, <1>2
    <2>2. r[i] = Tail(s)[i - 1]
      BY <2>1, <1>1, <1>2, <1>3, <1>4
    <2> QED
      BY <2>1, <2>2, <1>2
  <1> QED
    BY <1>4, <1>5, <1>6, SeqIsSeq

\* The stack of a thread that makes a call.
LEMMA CallSeq ==
  ASSUME NEW s, IsSeq(s), s # <<>>, NEW g, NEW f
  PROVE  LET r == <<g, f>> \o Tail(s)
         IN  IsSeq(r) /\ Len(r) = Len(s) + 1 /\ r[1] = g /\ r[2] = f /\ \A i \in 2..Len(s) : r[i + 1] = s[i]
  <1> DEFINE S == {s[i] : i \in 1..Len(s)} \cup {f, g}
             r == <<g, f>> \o Tail(s)
  <1>1. s \in Seq(S) /\ Len(s) \in Nat \ {0}
    BY SeqMonotonic, EmptySeq DEF IsSeq
  <1>2. Tail(s) \in Seq(S) /\ Len(Tail(s)) = Len(s) - 1
        /\ \A i \in 1..Len(Tail(s)) : Tail(s)[i] = s[i + 1]
    BY <1>1, HeadTailProperties
  <1>3. <<g, f>> \in Seq(S) /\ Len(<<g, f>>) = 2 /\ <<g, f>>[1] = g /\ <<g, f>>[2] = f
    OBVIOUS
  <1>4. /\ r \in Seq(S) /\ Len(r) = Len(<<g, f>>) + Len(Tail(s))
        /\ \A i \in 1..Len(<<g, f>>) + Len(Tail(s)) :
             r[i] = IF i <= Len(<<g, f>>) THEN <<g, f>>[i] ELSE Tail(s)[i - Len(<<g, f>>)]
    BY <1>2, <1>3, ConcatProperties
  <1>5. Len(r) = Len(s) + 1 /\ r[1] = g /\ r[2] = f
    BY <1>1, <1>2, <1>3, <1>4
  <1>6. ASSUME NEW i \in 2..Len(s) PROVE r[i + 1] = s[i]
    <2>1. i \in Nat /\ i - 1 \in 1..Len(Tail(s)) /\ ~(i + 1 <= 2) /\ i + 1 - 2 = i - 1
      BY <1>1, <1>2
    <2>2. r[i + 1] = Tail(s)[i - 1]
      BY <2>1, <1>1, <1>2, <1>3, <1>4
    <2> QED
      BY <2>1, <2>2, <1>2
  <1> QED
    BY <1>4, <1>5, <1>6, SeqIsSeq

\* The stack of a thread whose call returns.
LEMMA ReturnSeq ==
  ASSUME NEW s, IsSeq(s), s # <<>>
  PROVE  /\ IsSeq(Tail(s)) /\ Len(Tail(s)) = Len(s) - 1
         /\ \A i \in 1..Len(s) - 1 : Tail(s)[i] = s[i + 1]
  <1> DEFINE S == {s[i] : i \in 1..Len(s)}
  <1>1. s \in Seq(S)
    BY DEF IsSeq
  <1> HIDE DEF S
  <1>2. Tail(s) \in Seq(S) /\ Len(Tail(s)) = Len(s) - 1
        /\ \A i \in 1..Len(Tail(s)) : Tail(s)[i] = s[i + 1]
    BY <1>1, HeadTailProperties
  <1> QED
    BY <1>2, SeqIsSeq

-----------------------------------------------------------------------------
(***************************************************************************)
(* A step may open ports and close them, and add entries; whatever was in  *)
(* order in flight stays so.                                               *)
(***************************************************************************)
Widens(C, D) ==
  \A n \in Brokers :
    Len(C[n]) <= Len(D[n]) /\ \A i \in 1..Len(C[n]) : D[n][i].peer \in {C[n][i].peer, NoPeer}

Adds(E, F) == MadeIn(E) \subseteq MadeIn(F) /\ \A n \in Owned : E[n] \subseteq F[n]

Extends(C, E, D, F) == Widens(C, D) /\ Adds(E, F)

\* Every broker has its port 0.
LEMMA ConnsLen ==
  ASSUME NEW C, ConnsOK(C), NEW n \in Brokers
  PROVE  Len(C[n]) \in Nat \ {0} /\ DOMAIN C[n] = 1..Len(C[n]) /\ DOMAIN C = Brokers
  BY EmptySeq, SeqIsSeq DEF ConnsOK, PortsOK, IsSeq

\* A port that leads to the caller still does so later, or was closed.
LEMMA PairedWidens ==
  ASSUME NEW C, NEW D, Widens(C, D), \A k \in Brokers : Len(C[k]) \in Nat /\ Len(D[k]) \in Nat,
         NEW n, NEW m, NEW s, Paired(C, n, m, s)
  PROVE  Paired(D, n, m, s)
  <1> DEFINE here == GetOrCreate(Process[m], n)
  <1> HIDE DEF here
  <1> SUFFICES ASSUME m \in Started, s # 0
               PROVE  s \in 1..Len(D[m]) - 1 /\ D[m][s + 1].peer \in {here, NoPeer}
    BY DEF Paired, here
  <1>1. m \in Brokers
    BY Ids
  <1>2. Len(C[m]) \in Nat /\ Len(D[m]) \in Nat /\ Len(C[m]) <= Len(D[m])
    BY <1>1 DEF Widens
  <1>3. s \in 1..Len(C[m]) - 1 /\ C[m][s + 1].peer \in {here, NoPeer}
    BY DEF Paired, here
  <1>4. s + 1 \in 1..Len(C[m])
    BY <1>2, <1>3
  <1>5. D[m][s + 1].peer \in {C[m][s + 1].peer, NoPeer}
    BY <1>1, <1>4 DEF Widens
  <1> QED
    BY <1>2, <1>3, <1>5

LEMMA PairedStays ==
  ASSUME NEW C, NEW D, NEW E, NEW F, ConnsOK(C), ConnsOK(D), Extends(C, E, D, F),
         NEW n, NEW m, NEW s, Paired(C, n, m, s)
  PROVE  Paired(D, n, m, s)
  BY ConnsLen, PairedWidens DEF Extends

\* A vector of connections never shrinks.
LEMMA HasPortStays ==
  ASSUME NEW C, NEW D, NEW E, NEW F, ConnsOK(C), ConnsOK(D), Extends(C, E, D, F),
         NEW m, NEW s \in Nat, HasPort(C, m, s)
  PROVE  HasPort(D, m, s)
  <1> SUFFICES ASSUME m \in Started PROVE s < Len(D[m])
    BY DEF HasPort
  <1>1. Len(C[m]) \in Nat /\ Len(D[m]) \in Nat /\ Len(C[m]) <= Len(D[m]) /\ s < Len(C[m])
    BY Ids, ConnsLen DEF Extends, Widens, Adds, HasPort
  <1> QED
    BY <1>1

\* An announcement on its way still fits the port it goes to.
LEMMA RefreshStays ==
  ASSUME NEW C, NEW D, NEW E, NEW F, ConnsOK(C), ConnsOK(D), Extends(C, E, D, F),
         NEW n, NEW sender, NEW source, RefreshFits(C, n, sender, source)
  PROVE  RefreshFits(D, n, sender, source)
  <1> SUFFICES ASSUME n \in Started
               PROVE  /\ sender \in 0..Len(D[n]) - 1
                      /\ sender # 0 => Paired(D, n, D[n][sender + 1].peer, source)
    BY DEF RefreshFits
  <1>1. n \in Brokers
    BY Ids
  <1>2. Len(C[n]) \in Nat /\ Len(D[n]) \in Nat /\ Len(C[n]) <= Len(D[n])
    BY <1>1, ConnsLen DEF Extends, Widens, Adds
  <1>3. sender \in 0..Len(C[n]) - 1 /\ (sender # 0 => Paired(C, n, C[n][sender + 1].peer, source))
    BY DEF RefreshFits
  <1>4. sender + 1 \in 1..Len(C[n])
    BY <1>2, <1>3
  <1>5. D[n][sender + 1].peer \in {C[n][sender + 1].peer, NoPeer}
    BY <1>1, <1>4 DEF Extends, Widens, Adds
  <1>6. Paired(D, n, NoPeer, source)
    BY Ids DEF Paired
  <1>7. sender # 0 => Paired(D, n, C[n][sender + 1].peer, source)
    BY <1>3, PairedStays
  <1> QED
    BY <1>2, <1>3, <1>5, <1>6, <1>7


\* A port that a call has opened still leads to the same peer, or was closed.
LEMMA LeadsStays ==
  ASSUME NEW C, NEW D, NEW E, NEW F, ConnsOK(C), ConnsOK(D), Extends(C, E, D, F),
         NEW n \in Brokers, NEW p, NEW m, LeadsTo(C, n, p, m)
  PROVE  LeadsTo(D, n, p, m)
  <1>1. Len(C[n]) \in Nat /\ Len(D[n]) \in Nat /\ Len(C[n]) <= Len(D[n])
    BY ConnsLen DEF Extends, Widens, Adds
  <1>2. p + 1 \in 1..Len(C[n]) /\ p \in 1..Len(D[n]) - 1
    BY <1>1 DEF LeadsTo
  <1>3. D[n][p + 1].peer \in {C[n][p + 1].peer, NoPeer}
    BY <1>2 DEF Extends, Widens, Adds
  <1> QED
    BY <1>2, <1>3 DEF LeadsTo

\* Nothing that is in order about a call is undone by such a step.
LEMMA FrameStays ==
  ASSUME NEW C, NEW D, NEW E, NEW F, ConnsOK(C), ConnsOK(D), Extends(C, E, D, F),
         NEW f, FrameOK(C, E, f)
  PROVE  FrameOK(D, F, f)
  <1>1. MadeIn(E) \subseteq MadeIn(F) /\ Seq(MadeIn(E)) \subseteq Seq(MadeIn(F))
    BY SeqMonotonic DEF Extends, Widens, Adds
  <1>2. CASE InsertOK(C, E, f)
    <2>1. HasPort(D, f.node, f.source)
      BY <1>2, HasPortStays DEF InsertOK
    <2>3. f.pc = "await" => HasPort(D, f.node, f.port)
      BY <1>2, HasPortStays DEF InsertOK
    <2>2. InsertOK(D, F, f)
      BY <1>1, <1>2, <2>1, <2>3 DEF InsertOK
    <2> QED
      BY <2>2 DEF FrameOK
  <1>4. CASE InsertListOK(C, E, f)
    <2>1. HasPort(D, f.to, f.sender)
      BY <1>4, HasPortStays DEF InsertListOK
    <2>2. InsertListOK(D, F, f)
      BY <1>1, <1>4, <2>1 DEF InsertListOK
    <2> QED
      BY <2>2 DEF FrameOK
  <1>5. CASE RefreshOK(C, f)
    <2>1. RefreshOK(D, f)
      BY <1>5, RefreshStays DEF RefreshOK
    <2> QED
      BY <2>1 DEF FrameOK
  <1>7. CASE ConnectOK(C, E, f)
    <2>1. f.pc # "enter" => LeadsTo(D, f.node, f.port, f.to)
      BY <1>7, LeadsStays, Ids DEF ConnectOK
    <2>2. ConnectOK(D, F, f)
      BY <1>1, <1>7, <2>1 DEF ConnectOK
    <2> QED
      BY <2>2 DEF FrameOK
  <1>8. CASE AcceptOK(C, f)
    <2>1. CASE f.pc = "enter" /\ Paired(C, f.node, f.data.peer, f.data.source)
      <3>1. Paired(D, f.node, f.data.peer, f.data.source)
        BY <2>1, PairedStays
      <3>2. AcceptOK(D, f)
        BY <1>8, <2>1, <3>1 DEF AcceptOK
      <3> QED
        BY <3>2 DEF FrameOK
    <2>2. CASE f.pc = "refreshed" /\ LeadsTo(C, f.node, f.port, f.data.peer)
      <3>1. LeadsTo(D, f.node, f.port, f.data.peer)
        BY <1>8, <2>2, LeadsStays, Ids DEF AcceptOK
      <3>2. AcceptOK(D, f)
        BY <1>8, <2>2, <3>1 DEF AcceptOK
      <3> QED
        BY <3>2 DEF FrameOK
    <2> QED
      BY <1>8, <2>1, <2>2 DEF AcceptOK
  <1>9. CASE RpcOK(C, E, f)
    <2> DEFINE r == f.request
               m == f.to
    <2>1. f.rpc = "Insert" => r.sender \in Nat /\ HasPort(D, m, r.sender)
                              /\ \E e \in MadeIn(F) : r.entry = SetEntry(e)
      BY <1>1, <1>9, HasPortStays DEF RpcOK, RequestOK
    <2>2. f.rpc = "Refresh" => RefreshFits(D, m, r.sender, r.source)
      BY <1>9, RefreshStays DEF RpcOK, RequestOK
    <2>3. RequestOK(D, F, m, f.rpc, r)
      BY <1>9, <2>1, <2>2 DEF RpcOK, RequestOK
    <2>4. RpcOK(D, F, f)
      BY <1>9, <2>3 DEF RpcOK
    <2> QED
      BY <2>4 DEF FrameOK
  <1>10. CASE DisconnectOK(C, f)
    <2>1. DisconnectOK(D, f)
      BY <1>10, HasPortStays DEF DisconnectOK
    <2> QED
      BY <2>1 DEF FrameOK
  <1>11. CASE AppendOK(f) \/ RefreshConnectionsOK(f) \/ QueryOK(f) \/ RelayOK(f)
    BY <1>11 DEF FrameOK
  <1> QED
    BY <1>2, <1>4, <1>5, <1>7, <1>8, <1>9, <1>10, <1>11 DEF FrameOK

\* Nor about a result, or a thread that does not take the step.
LEMMA ValueStays ==
  ASSUME NEW C, NEW D, NEW E, NEW F, ConnsOK(C), ConnsOK(D), Extends(C, E, D, F),
         NEW f, NEW v, ValueOK(C, E, f, v)
  PROVE  ValueOK(D, F, f, v)
  <1>1. Seq(MadeIn(E)) \subseteq Seq(MadeIn(F))
    BY SeqMonotonic DEF Extends, Widens, Adds
  <1>2. Paired(C, f.node, f.to, v.conn.source) => Paired(D, f.node, f.to, v.conn.source)
    BY PairedStays
  <1> QED
    BY <1>1, <1>2 DEF ValueOK

\* What is true of a thread stays true while other threads go on.
LEMMA ThreadStays ==
  ASSUME NEW C, NEW D, NEW E, NEW F, ConnsOK(C), ConnsOK(D), Extends(C, E, D, F),
         NEW s, NEW v, ThreadOK(C, E, s, v)
  PROVE  ThreadOK(D, F, s, v)
  <1>1. \A f : FrameOK(C, E, f) => FrameOK(D, F, f)
    BY FrameStays
  <1>2. ValueOK(C, E, s[1], v) => ValueOK(D, F, s[1], v)
    BY ValueStays
  <1> QED
    BY <1>1, <1>2 DEF ThreadOK

-----------------------------------------------------------------------------
(***************************************************************************)
(* A step of a thread, by what it does to the thread's calls: if ports and *)
(* entries are in order after it and the calls and the result it leaves at *)
(* the top are, all is.                                                    *)
(***************************************************************************)
Sound == ConnsOK(conns') /\ StoresOK(entries') /\ Extends(conns, entries, conns', entries')

\* The other threads need no attention.
LEMMA StepKeeps ==
  ASSUME InFlightOK, Sound, NEW t \in Threads, NEW s, NEW v,
         stack' = [stack EXCEPT ![t] = s], ret' = [ret EXCEPT ![t] = v],
         ThreadOK(conns', entries', s, v)
  PROVE  InFlightOK'
  <1>1. /\ stack = [u \in Threads |-> stack[u]] /\ ret = [u \in Threads |-> ret[u]]
        /\ \A u \in Threads : ThreadOK(conns, entries, stack[u], ret[u])
    BY DEF InFlightOK, CallsOK
  <1>2. /\ stack' = [u \in Threads |-> IF u = t THEN s ELSE stack[u]]
        /\ ret' = [u \in Threads |-> IF u = t THEN v ELSE ret[u]]
    BY <1>1
  <1>3. stack' = [u \in Threads |-> stack'[u]] /\ ret' = [u \in Threads |-> ret'[u]]
    BY <1>2
  <1>4. ASSUME NEW u \in Threads PROVE ThreadOK(conns', entries', stack'[u], ret'[u])
    <2>1. CASE u = t
      BY <1>2, <2>1
    <2>2. CASE u # t
      <3>1. stack'[u] = stack[u] /\ ret'[u] = ret[u]
        BY <1>2, <2>2
      <3> QED
        BY <1>1, <3>1, ThreadStays DEF Sound, InFlightOK
    <2> QED
      BY <2>1, <2>2
  <1> QED
    BY <1>3, <1>4 DEF Sound, InFlightOK, CallsOK

\* A thread's calls before the step, as they are after it.
LEMMA CallsBefore ==
  ASSUME InFlightOK, Sound, NEW t \in Threads, stack[t] # <<>>
  PROVE  /\ IsSeq(stack[t]) /\ Len(stack[t]) \in Nat \ {0} /\ Frame(t) = stack[t][1]
         /\ \A i \in 1..Len(stack[t]) : FrameOK(conns', entries', stack[t][i])
         /\ \A i \in 1..Len(stack[t]) - 1 : Answers(stack[t][i], stack[t][i + 1])
  <1>1. ThreadOK(conns, entries, stack[t], ret[t])
    BY DEF InFlightOK, CallsOK
  <1>2. ThreadOK(conns', entries', stack[t], ret[t])
    BY <1>1, ThreadStays DEF Sound, InFlightOK
  <1> QED
    BY <1>2, IsSeqLen DEF ThreadOK, Frame

\* A function that keeps one of its values.
LEMMA KeepsRet ==
  ASSUME InFlightOK, NEW t \in Threads, ret' = ret
  PROVE  ret' = [ret EXCEPT ![t] = ret[t]]
  BY DEF InFlightOK, CallsOK

\* The call that is running goes on, as one that its callers take for it.
LEMMA GotoKeeps ==
  ASSUME InFlightOK, Sound, NEW t \in Threads, stack[t] # <<>>, NEW f,
         Goto(t, f), ret' = ret, FrameOK(conns', entries', f),
         \A h : Answers(Frame(t), h) => Answers(f, h),
         ValueOK(conns', entries', f, ret[t])
  PROVE  InFlightOK'
  <1> DEFINE s == stack[t]
             r == <<f>> \o Tail(s)
  <1>1. /\ IsSeq(s) /\ Len(s) \in Nat \ {0} /\ Frame(t) = s[1]
        /\ \A i \in 1..Len(s) : FrameOK(conns', entries', s[i])
        /\ \A i \in 1..Len(s) - 1 : Answers(s[i], s[i + 1])
    BY CallsBefore
  <1>2. IsSeq(r) /\ Len(r) = Len(s) /\ r[1] = f /\ \A i \in 2..Len(s) : r[i] = s[i]
    BY <1>1, GotoSeq
  <1>3. stack' = [stack EXCEPT ![t] = r]
    BY DEF Goto, InFlightOK, CallsOK
  <1> HIDE DEF r, s
  <1>4. \A i \in 1..Len(r) : FrameOK(conns', entries', r[i])
    BY <1>1, <1>2
  <1>5. ASSUME NEW i \in 1..Len(r) - 1 PROVE Answers(r[i], r[i + 1])
    <2>1. i + 1 \in 2..Len(s) /\ i \in 1..Len(s) - 1 /\ (i # 1 => i \in 2..Len(s))
      BY <1>1, <1>2
    <2>2. r[i + 1] = s[i + 1] /\ (i # 1 => r[i] = s[i]) /\ Answers(s[i], s[i + 1])
      BY <2>1, <1>1, <1>2
    <2> QED
      BY <2>2, <1>1, <1>2
  <1>6. ThreadOK(conns', entries', r, ret[t])
    BY <1>2, <1>4, <1>5 DEF ThreadOK
  <1> QED
    BY <1>3, <1>6, KeepsRet, StepKeeps

\* It calls g and will go on as f.
LEMMA CallKeeps ==
  ASSUME InFlightOK, Sound, NEW t \in Threads, stack[t] # <<>>, NEW f, NEW g,
         Call(t, f, g), ret' = ret, FrameOK(conns', entries', f), FrameOK(conns', entries', g),
         \A h : Answers(Frame(t), h) => Answers(f, h), Answers(g, f),
         ValueOK(conns', entries', g, ret[t])
  PROVE  InFlightOK'
  <1> DEFINE s == stack[t]
             r == <<g, f>> \o Tail(s)
  <1>1. /\ IsSeq(s) /\ Len(s) \in Nat \ {0} /\ Frame(t) = s[1]
        /\ \A i \in 1..Len(s) : FrameOK(conns', entries', s[i])
        /\ \A i \in 1..Len(s) - 1 : Answers(s[i], s[i + 1])
    BY CallsBefore
  <1>2. /\ IsSeq(r) /\ Len(r) = Len(s) + 1 /\ r[1] = g /\ r[2] = f
        /\ \A i \in 2..Len(s) : r[i + 1] = s[i]
    BY <1>1, CallSeq
  <1>3. stack' = [stack EXCEPT ![t] = r]
    BY DEF Call, InFlightOK, CallsOK
  <1> HIDE DEF r, s
  <1>4. ASSUME NEW i \in 1..Len(r) PROVE FrameOK(conns', entries', r[i])
    <2>1. CASE i \in {1, 2}
      BY <2>1, <1>2
    <2>2. CASE i \notin {1, 2}
      <3>1. i - 1 \in 2..Len(s) /\ i - 1 \in 1..Len(s) /\ (i - 1) + 1 = i
        BY <2>2, <1>1, <1>2
      <3>2. r[i] = s[i - 1]
        BY <3>1, <1>2
      <3> QED
        BY <3>1, <3>2, <1>1
    <2> QED
      BY <2>1, <2>2
  <1>5. ASSUME NEW i \in 1..Len(r) - 1 PROVE Answers(r[i], r[i + 1])
    <2>1. CASE i = 1
      BY <2>1, <1>2
    <2>2. CASE i # 1
      <3>1. i \in 2..Len(s) /\ i - 1 \in 1..Len(s) - 1 /\ (i # 2 => i - 1 \in 2..Len(s)) /\ (i - 1) + 1 = i
        BY <2>2, <1>1, <1>2
      <3>2. r[i + 1] = s[i] /\ (i # 2 => r[i] = s[i - 1]) /\ Answers(s[i - 1], s[i])
        BY <3>1, <1>1, <1>2
      <3>3. i = 2 => r[i] = f /\ s[i - 1] = s[1]
        BY <1>2
      <3> QED
        BY <3>2, <3>3, <1>1, <1>2
    <2> QED
      BY <2>1, <2>2
  <1>6. ThreadOK(conns', entries', r, ret[t])
    BY <1>2, <1>4, <1>5 DEF ThreadOK
  <1> QED
    BY <1>3, <1>6, KeepsRet, StepKeeps

\* It ends with a result that every caller it may have can use.
LEMMA ReturnKeeps ==
  ASSUME InFlightOK, Sound, NEW t \in Threads, stack[t] # <<>>, NEW w, Return(t, w),
         \A h : FrameOK(conns', entries', h) /\ Answers(Frame(t), h) => ValueOK(conns', entries', h, w)
  PROVE  InFlightOK'
  <1> DEFINE s == stack[t]
             r == Tail(s)
             v == IF Len(s) = 1 THEN Done ELSE w
  <1>1. /\ IsSeq(s) /\ Len(s) \in Nat \ {0} /\ Frame(t) = s[1]
        /\ \A i \in 1..Len(s) : FrameOK(conns', entries', s[i])
        /\ \A i \in 1..Len(s) - 1 : Answers(s[i], s[i + 1])
    BY CallsBefore
  <1>2. IsSeq(r) /\ Len(r) = Len(s) - 1 /\ \A i \in 1..Len(s) - 1 : r[i] = s[i + 1]
    BY <1>1, ReturnSeq
  <1>3. stack' = [stack EXCEPT ![t] = r] /\ ret' = [ret EXCEPT ![t] = v]
    BY DEF Return, InFlightOK, CallsOK
  <1>7. Len(s) # 1 => v = w
    OBVIOUS
  <1> HIDE DEF r, s, v
  <1>4. \A i \in 1..Len(r) : FrameOK(conns', entries', r[i])
    BY <1>1, <1>2
  <1>5. \A i \in 1..Len(r) - 1 : Answers(r[i], r[i + 1])
    BY <1>1, <1>2
  <1>6. ASSUME r # <<>> PROVE ValueOK(conns', entries', r[1], v)
    <2>1. Len(r) # 0 /\ Len(r) \in Nat
      BY <1>2, <1>6, IsSeqLen
    <2>2. 1 \in 1..Len(s) - 1 /\ 2 \in 1..Len(s) /\ 1 + 1 = 2 /\ Len(s) # 1
      BY <2>1, <1>1, <1>2
    <2>3. r[1] = s[2] /\ FrameOK(conns', entries', s[2]) /\ Answers(s[1], s[2])
      BY <2>2, <1>1, <1>2
    <2> QED
      BY <2>2, <2>3, <1>1, <1>7
  <1>8. ThreadOK(conns', entries', r, v)
    BY <1>2, <1>4, <1>5, <1>6 DEF ThreadOK
  <1> QED
    BY <1>3, <1>8, StepKeeps

\* An idle thread takes a command.
LEMMA StartKeeps ==
  ASSUME InFlightOK, Sound, NEW t \in Threads, NEW f, Start(t, f), ret' = ret,
         FrameOK(conns', entries', f), ValueOK(conns', entries', f, ret[t])
  PROVE  InFlightOK'
  <1> DEFINE r == <<f>>
  <1>1. r \in Seq({f}) /\ Len(r) = 1 /\ r[1] = f
    OBVIOUS
  <1>2. stack' = [stack EXCEPT ![t] = r]
    BY DEF Start
  <1> HIDE DEF r
  <1>3. IsSeq(r)
    BY <1>1, SeqIsSeq
  <1>4. ThreadOK(conns', entries', r, ret[t])
    BY <1>1, <1>3 DEF ThreadOK
  <1> QED
    BY <1>2, <1>4, KeepsRet, StepKeeps

-----------------------------------------------------------------------------
(***************************************************************************)
(* What steps do to ports and entries.                                     *)
(***************************************************************************)

\* Ports of n change, each still leads where it led or nowhere, and knows its
\* number at the peer.
Changes(C, n, D) ==
  /\ D = [m \in Brokers |-> D[m]]
  /\ \A m \in Brokers : m # n => D[m] = C[m]
  /\ D[n] = [i \in 1..Len(C[n]) |-> D[n][i]]
  /\ \A i \in 1..Len(C[n]) : PortOK(C, n, D[n][i]) /\ D[n][i].peer \in {C[n][i].peer, NoPeer}

\* A change of one port that keeps its peer, or closes it, keeps the ports in order.
LEMMA PortsChange ==
  ASSUME NEW C, ConnsOK(C), NEW n \in Brokers, NEW D, Changes(C, n, D)
  PROVE  ConnsOK(D) /\ Widens(C, D)
  <1> USE DEF Changes
  <1>1. \A m \in Brokers : Len(C[m]) \in Nat \ {0} /\ PortsOK(C, m)
    BY ConnsLen DEF ConnsOK
  <1>2. D[n] \in [1..Len(C[n]) -> {D[n][i] : i \in 1..Len(C[n])}]
    OBVIOUS
  <1>3. D[n] \in Seq({D[n][i] : i \in 1..Len(C[n])})
    BY <1>1, <1>2
  <1>4. IsSeq(D[n]) /\ Len(D[n]) \in Nat /\ DOMAIN D[n] = 1..Len(D[n])
    BY <1>3, SeqIsSeq
  <1>5. Len(D[n]) = Len(C[n])
    BY <1>1, <1>2, <1>4
  <1>6. Widens(C, D)
    BY <1>1, <1>5 DEF Widens
  <1>7. ASSUME NEW k, NEW m, NEW s, Paired(C, k, m, s)
        PROVE  Paired(D, k, m, s)
    BY <1>1, <1>5, <1>6, <1>7, PairedWidens
  <1>8. \A c : \A m \in Brokers : PortOK(C, m, c) => PortOK(D, m, c)
    BY <1>7 DEF PortOK
  <1>9. ASSUME NEW m \in Brokers PROVE PortsOK(D, m)
    <2>1. CASE m = n
      <3>1. \A i \in 1..Len(D[n]) : PortOK(D, n, D[n][i])
        BY <1>5, <1>8
      <3>2. D[n] # <<>>
        BY <1>1, <1>4, <1>5, EmptySeq
      <3>3. D[n][1].peer = NoPeer
        BY <1>1 DEF PortsOK
      <3>4. n \in Twins => Len(D[n]) = 1
        BY <1>1, <1>5 DEF PortsOK
      <3> QED
        BY <2>1, <3>1, <3>2, <3>3, <3>4, <1>4 DEF PortsOK
    <2>2. CASE m # n
      <3>1. D[m] = C[m] /\ PortsOK(C, m)
        BY <2>2, <1>1
      <3> QED
        BY <3>1, <1>8 DEF PortsOK
    <2> QED
      BY <2>1, <2>2
  <1> QED
    BY <1>6, <1>9 DEF ConnsOK

\* Port i of n becomes x.
Put(C, n, i, x) == [C EXCEPT ![n] = [@ EXCEPT ![i] = x]]

\* Of two assignments to one port the last counts.
LEMMA PutTwice ==
  ASSUME NEW C, NEW n \in DOMAIN C, NEW i \in DOMAIN C[n], NEW x, NEW y
  PROVE  Put(C, n, i, x)[n][i] = x /\ Put(Put(C, n, i, x), n, i, y) = Put(C, n, i, y)
  BY DEF Put

\* The assignments to a Connection's fields, one after the other.
Announced(C, n, i, a, b, d) == [C EXCEPT ![n][i].source = a, ![n][i].clock = b, ![n][i].provides = d]

Noted(C, n, i, b, d) == [C EXCEPT ![n][i].provides = d, ![n][i].clock = b]

NotedTable(C, n, i, d) == [C EXCEPT ![n][i].provides = d]

Closed(C, n, i) == [C EXCEPT ![n][i].peer = NoPeer]

ConnectionOf(peer, source, clock, provides) ==
  [peer |-> peer, source |-> source, clock |-> clock, provides |-> provides]

\* The three assignments of refresh, and of connect, are one change of the port.
LEMMA PutAnnounced ==
  ASSUME NEW C, NEW n, n \in DOMAIN C, NEW i, i \in DOMAIN C[n], IsConnection(C[n][i]), NEW a, NEW b, NEW d
  PROVE  Announced(C, n, i, a, b, d) = Put(C, n, i, ConnectionOf(C[n][i].peer, a, b, d))
  <1> DEFINE x == C[n][i]
  <1>1. [C EXCEPT ![n][i].source = a, ![n][i].clock = b, ![n][i].provides = d]
          = Put(C, n, i, [peer |-> x.peer, source |-> a, clock |-> b, provides |-> d])
    <2> DEFINE C1 == [C EXCEPT ![n][i].source = a]
               C2 == [C1 EXCEPT ![n][i].clock = b]
               C3 == [C2 EXCEPT ![n][i].provides = d]
               x1 == [x EXCEPT !.source = a]
               x2 == [x1 EXCEPT !.clock = b]
               x3 == [x2 EXCEPT !.provides = d]
    <2>1. C1 = Put(C, n, i, x1)
      BY DEF Put
    <2>2. C2 = Put(C1, n, i, [C1[n][i] EXCEPT !.clock = b])
      BY DEF Put
    <2>3. C3 = Put(C2, n, i, [C2[n][i] EXCEPT !.provides = d])
      BY DEF Put
    <2>4. [C EXCEPT ![n][i].source = a, ![n][i].clock = b, ![n][i].provides = d] = C3
      OBVIOUS
    <2>5. x1 = [peer |-> x.peer, source |-> a, clock |-> x.clock, provides |-> x.provides]
      BY DEF IsConnection
    <2> HIDE DEF C1, C2, C3, x1, x
    <2>6. x2 = [peer |-> x.peer, source |-> a, clock |-> b, provides |-> x.provides]
      BY <2>5
    <2>7. C2 = Put(C, n, i, x2)
      BY <2>1, <2>2, PutTwice
    <2> HIDE DEF x2
    <2>8. x3 = [peer |-> x.peer, source |-> a, clock |-> b, provides |-> d]
      BY <2>6
    <2>9. C3 = Put(C, n, i, x3)
      BY <2>3, <2>7, PutTwice
    <2> HIDE DEF x3
    <2> QED
      BY <2>4, <2>8, <2>9
  <1> QED
    BY <1>1 DEF Announced, ConnectionOf

\* The two assignments of Connection::insert are one change of the port.
LEMMA PutNoted ==
  ASSUME NEW C, NEW n, n \in DOMAIN C, NEW i, i \in DOMAIN C[n], IsConnection(C[n][i]), NEW b, NEW d
  PROVE  Noted(C, n, i, b, d) = Put(C, n, i, ConnectionOf(C[n][i].peer, C[n][i].source, b, d))
  <1> DEFINE x == C[n][i]
  <1>1. [C EXCEPT ![n][i].provides = d, ![n][i].clock = b]
          = Put(C, n, i, [peer |-> x.peer, source |-> x.source, clock |-> b, provides |-> d])
    <2> DEFINE C1 == [C EXCEPT ![n][i].provides = d]
               C2 == [C1 EXCEPT ![n][i].clock = b]
               x1 == [x EXCEPT !.provides = d]
               x2 == [x1 EXCEPT !.clock = b]
    <2>1. C1 = Put(C, n, i, x1)
      BY DEF Put
    <2>2. C2 = Put(C1, n, i, [C1[n][i] EXCEPT !.clock = b])
      BY DEF Put
    <2>3. [C EXCEPT ![n][i].provides = d, ![n][i].clock = b] = C2
      OBVIOUS
    <2>4. x1 = [peer |-> x.peer, source |-> x.source, clock |-> x.clock, provides |-> d]
      BY DEF IsConnection
    <2> HIDE DEF C1, C2, x1, x
    <2>5. x2 = [peer |-> x.peer, source |-> x.source, clock |-> b, provides |-> d]
      BY <2>4
    <2>6. C2 = Put(C, n, i, x2)
      BY <2>1, <2>2, PutTwice
    <2> HIDE DEF x2
    <2> QED
      BY <2>3, <2>5, <2>6
  <1> QED
    BY <1>1 DEF Noted, ConnectionOf

\* So is that of Connection::insert(EntryList).
LEMMA PutNotedTable ==
  ASSUME NEW C, NEW n, n \in DOMAIN C, NEW i, i \in DOMAIN C[n], IsConnection(C[n][i]), NEW d
  PROVE  NotedTable(C, n, i, d) = Put(C, n, i, ConnectionOf(C[n][i].peer, C[n][i].source, C[n][i].clock, d))
  <1> DEFINE x == C[n][i]
  <1>1. [C EXCEPT ![n][i].provides = d]
          = Put(C, n, i, [peer |-> x.peer, source |-> x.source, clock |-> x.clock, provides |-> d])
    <2>1. [x EXCEPT !.provides = d] = [peer |-> x.peer, source |-> x.source, clock |-> x.clock, provides |-> d]
      BY DEF IsConnection
    <2>2. [C EXCEPT ![n][i].provides = d] = Put(C, n, i, [x EXCEPT !.provides = d])
      BY DEF Put
    <2> QED
      BY <2>1, <2>2
  <1> QED
    BY <1>1 DEF NotedTable, ConnectionOf

\* So is the reset of Connection::disconnect.
LEMMA PutClosed ==
  ASSUME NEW C, NEW n, n \in DOMAIN C, NEW i, i \in DOMAIN C[n], IsConnection(C[n][i])
  PROVE  Closed(C, n, i) = Put(C, n, i, ConnectionOf(NoPeer, C[n][i].source, C[n][i].clock, C[n][i].provides))
  <1> DEFINE x == C[n][i]
  <1>1. [C EXCEPT ![n][i].peer = NoPeer]
          = Put(C, n, i, [peer |-> NoPeer, source |-> x.source, clock |-> x.clock, provides |-> x.provides])
    <2>1. [x EXCEPT !.peer = NoPeer]
            = [peer |-> NoPeer, source |-> x.source, clock |-> x.clock, provides |-> x.provides]
      BY DEF IsConnection
    <2>2. [C EXCEPT ![n][i].peer = NoPeer] = Put(C, n, i, [x EXCEPT !.peer = NoPeer])
      BY DEF Put
    <2> QED
      BY <2>1, <2>2
  <1> QED
    BY <1>1 DEF Closed, ConnectionOf

\* One port of n changes.
LEMMA PortChanges ==
  ASSUME NEW C, ConnsOK(C), NEW n \in Brokers, NEW p \in 0..Len(C[n]) - 1, NEW c, PortOK(C, n, c),
         c.peer \in {C[n][p + 1].peer, NoPeer}
  PROVE  ConnsOK(Put(C, n, p + 1, c)) /\ Widens(C, Put(C, n, p + 1, c))
  <1> DEFINE D == Put(C, n, p + 1, c)
  <1>1. C = [m \in Brokers |-> C[m]] /\ PortsOK(C, n)
    BY DEF ConnsOK
  <1>2. Len(C[n]) \in Nat /\ DOMAIN C[n] = 1..Len(C[n])
    BY ConnsLen
  <1>3. D = [m \in Brokers |-> IF m = n THEN [C[n] EXCEPT ![p + 1] = c] ELSE C[m]]
    BY <1>1 DEF Put
  <1> HIDE DEF D
  <1>4. D[n] = [i \in 1..Len(C[n]) |-> IF i = p + 1 THEN c ELSE C[n][i]]
    <2>1. C[n] = [i \in 1..Len(C[n]) |-> C[n][i]]
      BY <1>1, <1>2 DEF PortsOK, IsSeq
    <2> QED
      BY <1>3, <2>1
  <1>5. \A i \in 1..Len(C[n]) : PortOK(C, n, D[n][i]) /\ D[n][i].peer \in {C[n][i].peer, NoPeer}
    BY <1>1, <1>4 DEF PortsOK
  <1>6. D = [m \in Brokers |-> D[m]] /\ \A m \in Brokers : m # n => D[m] = C[m]
    BY <1>3
  <1>7. D[n] = [i \in 1..Len(C[n]) |-> D[n][i]]
    BY <1>4
  <1>8. Changes(C, n, D)
    BY <1>5, <1>6, <1>7 DEF Changes
  <1> QED
    BY <1>8, PortsChange DEF D

\* A broker that a user started opens a port.
Opened(C, n, c) == [C EXCEPT ![n] = Append(@, c)]

\* A new port keeps the ports in order.
LEMMA PortOpens ==
  ASSUME NEW C, ConnsOK(C), NEW n \in Started, NEW c, PortOK(C, n, c)
  PROVE  LET D == Opened(C, n, c)
         IN  /\ ConnsOK(D) /\ Widens(C, D)
             /\ Len(C[n]) \in Nat \ {0} /\ Len(D[n]) = Len(C[n]) + 1 /\ D[n][Len(C[n]) + 1] = c
  <1> DEFINE D == Opened(C, n, c)
  <1>1. \A m \in Brokers : Len(C[m]) \in Nat \ {0} /\ PortsOK(C, m)
    BY ConnsLen DEF ConnsOK
  <1>2. n \in Brokers /\ n \notin Twins /\ C = [m \in Brokers |-> C[m]]
    BY Ids DEF ConnsOK
  <1>3. D = [m \in Brokers |-> IF m = n THEN Append(C[n], c) ELSE C[m]]
    BY <1>2 DEF Opened
  <1> HIDE DEF D
  <1>4. D[n] = Append(C[n], c) /\ (\A m \in Brokers : m # n => D[m] = C[m]) /\ D = [m \in Brokers |-> D[m]]
    BY <1>2, <1>3
  <1> DEFINE S == {C[n][i] : i \in 1..Len(C[n])} \cup {c}
  <1>5. C[n] \in Seq(S) /\ c \in S
    <2>1. IsSeq(C[n])
      BY <1>1, <1>2 DEF PortsOK
    <2>2. C[n] \in Seq({C[n][i] : i \in 1..Len(C[n])})
      BY <2>1 DEF IsSeq
    <2> QED
      BY <2>2, SeqMonotonic
  <1> HIDE DEF S
  <1>6. /\ D[n] \in Seq(S) /\ Len(D[n]) = Len(C[n]) + 1
        /\ \A i \in 1..Len(C[n]) : D[n][i] = C[n][i]
        /\ D[n][Len(C[n]) + 1] = c
    BY <1>4, <1>5, AppendProperties
  <1>7. IsSeq(D[n])
    BY <1>6, SeqIsSeq
  <1>8. Widens(C, D)
    BY <1>1, <1>2, <1>4, <1>6 DEF Widens
  <1>9. ASSUME NEW k, NEW m, NEW s, Paired(C, k, m, s)
        PROVE  Paired(D, k, m, s)
    <2>1. \A j \in Brokers : Len(C[j]) \in Nat /\ Len(D[j]) \in Nat
      BY <1>1, <1>4, <1>6
    <2> QED
      BY <1>8, <1>9, <2>1, PairedWidens
  <1>10. \A d : \A m \in Brokers : PortOK(C, m, d) => PortOK(D, m, d)
    BY <1>9 DEF PortOK
  <1>11. ASSUME NEW m \in Brokers PROVE PortsOK(D, m)
    <2>1. CASE m = n
      <3>1. ASSUME NEW i \in 1..Len(D[n]) PROVE PortOK(D, n, D[n][i])
        <4>1. i \in 1..Len(C[n]) \/ i = Len(C[n]) + 1
          BY <1>1, <1>2, <1>6
        <4>2. PortOK(C, n, D[n][i])
          BY <4>1, <1>1, <1>2, <1>6 DEF PortsOK
        <4> QED
          BY <4>2, <1>2, <1>10
      <3>2. D[n] # <<>>
        BY <1>1, <1>2, <1>6, EmptySeq
      <3>3. D[n][1].peer = NoPeer
        <4>1. 1 \in 1..Len(C[n]) /\ C[n][1].peer = NoPeer
          BY <1>1, <1>2 DEF PortsOK
        <4> QED
          BY <4>1, <1>6
      <3> QED
        BY <2>1, <3>1, <3>2, <3>3, <1>2, <1>7 DEF PortsOK
    <2>2. CASE m # n
      <3>1. D[m] = C[m] /\ PortsOK(C, m)
        BY <2>2, <1>1, <1>4
      <3> QED
        BY <3>1, <1>10 DEF PortsOK
    <2> QED
      BY <2>1, <2>2
  <1> QED
    <2>1. ConnsOK(D)
      BY <1>4, <1>11 DEF ConnsOK
    <2> QED
      BY <2>1, <1>1, <1>2, <1>6, <1>8 DEF D

\* A journal stores an entry: one that some user's journal has, or a new one of a
\* user's journal.
LEMMA EntryAdded ==
  ASSUME NEW E, StoresOK(E), NEW n \in Journals, NEW e, e \in MadeIn(E) \/ n \in Owned, NEW F,
         F = [E EXCEPT ![n] = @ \cup {e}]
  PROVE  StoresOK(F) /\ Adds(E, F)
  <1>1. E = [m \in Journals |-> E[m]] /\ \A m \in Journals : E[m] \subseteq MadeIn(E) /\ IsFiniteSet(E[m])
    BY DEF StoresOK
  <1>2. /\ F = [m \in Journals |-> IF m = n THEN E[n] \cup {e} ELSE E[m]]
        /\ F[n] = E[n] \cup {e} /\ \A m \in Journals : m # n => F[m] = E[m]
    BY <1>1
  <1>3. \A m \in Owned : E[m] \subseteq F[m]
    BY <1>2, Ids
  <1>4. MadeIn(E) \subseteq MadeIn(F)
    BY <1>3 DEF MadeIn
  <1>5. e \in MadeIn(F)
    BY <1>2, <1>4 DEF MadeIn
  <1>6. \A m \in Journals : F[m] \subseteq MadeIn(F)
    BY <1>1, <1>2, <1>4, <1>5
  <1>7. IsFiniteSet(E[n] \cup {e})
    BY <1>1, FS_AddElement
  <1>8. \A m \in Journals : IsFiniteSet(F[m])
    BY <1>1, <1>2, <1>7
  <1> QED
    BY <1>2, <1>3, <1>4, <1>6, <1>8 DEF StoresOK, Adds

\* A step that leaves the connections, or the stores, alone keeps them in order.
LEMMA Unchanged ==
  ASSUME InFlightOK
  PROVE  /\ conns' = conns => ConnsOK(conns') /\ Widens(conns, conns')
         /\ entries' = entries => StoresOK(entries') /\ Adds(entries, entries')
  <1>1. \A n \in Brokers : Len(conns[n]) \in Nat
    BY ConnsLen DEF InFlightOK
  <1> QED
    BY <1>1 DEF InFlightOK, Widens, Adds

\* A step that changes only a stack and an answer leaves the rest sound.
LEMMA AllSame ==
  ASSUME InFlightOK, conns' = conns, entries' = entries
  PROVE  Sound
  BY Unchanged DEF Sound, Extends

-----------------------------------------------------------------------------
(***************************************************************************)
(* The kinds of calls.                                                     *)
(***************************************************************************)

\* What is in order about a call is told by its name.
LEMMA Kinds ==
  ASSUME NEW C, NEW E, NEW f, FrameOK(C, E, f)
  PROVE  /\ f.op = "insert" => InsertOK(C, E, f)
         /\ f.op = "append" => AppendOK(f)
         /\ f.op = "insertList" => InsertListOK(C, E, f)
         /\ f.op = "refresh" => RefreshOK(C, f)
         /\ f.op = "refreshConnections" => RefreshConnectionsOK(f)
         /\ f.op = "connect" => ConnectOK(C, E, f)
         /\ f.op = "accept" => AcceptOK(C, f)
         /\ f.op = "query" => QueryOK(f)
         /\ f.op = "relay" => RelayOK(f)
         /\ f.op = "disconnect" => DisconnectOK(C, f)
         /\ f.op = "rpc" => RpcOK(C, E, f)
  BY DEF FrameOK, InsertOK, AppendOK, InsertListOK, RefreshOK, RefreshConnectionsOK, ConnectOK,
         AcceptOK, QueryOK, RelayOK, DisconnectOK, RpcOK

\* The call that runs is in order.
LEMMA Runs ==
  ASSUME InFlightOK, NEW t \in Threads, NEW op, Running(t, op)
  PROVE  /\ stack[t] # <<>> /\ Frame(t).op = op /\ (op # "rpc" => Frame(t).node # NoPeer)
         /\ FrameOK(conns, entries, Frame(t)) /\ ValueOK(conns, entries, Frame(t), ret[t])
  <1>1. ThreadOK(conns, entries, stack[t], ret[t]) /\ stack[t] # <<>>
    BY DEF InFlightOK, CallsOK, Running
  <1>2. IsSeq(stack[t]) /\ Frame(t) = stack[t][1] /\ Len(stack[t]) \in Nat \ {0}
    BY <1>1, IsSeqLen DEF ThreadOK, Frame
  <1>3. FrameOK(conns, entries, stack[t][1]) /\ ValueOK(conns, entries, stack[t][1], ret[t])
    BY <1>1, <1>2 DEF ThreadOK
  <1> QED
    BY <1>1, <1>2, <1>3 DEF Running, Frame

\* Only queries, connects and remote calls are called for a list or a connection.
LEMMA Quiet ==
  ASSUME NEW f, f.op \notin {"query", "accept", "rpc"}
  PROVE  /\ \A h, g : Answers(f, h) => Answers(g, h)
         /\ \A h, C, E, w : Answers(f, h) => ValueOK(C, E, h, w)
  BY DEF Answers, ValueOK

\* Only they wait for one.
LEMMA NoWait ==
  ASSUME NEW f, f.op \notin {"connect", "rpc"}, f.op = "query" => f.pc = "enter"
  PROVE  /\ ~AwaitsList(f) /\ ~AwaitsConnection(f)
         /\ \A g : Answers(g, f)
         /\ \A C, E, w : ValueOK(C, E, f, w)
  BY DEF Answers, ValueOK, AwaitsList, AwaitsConnection

\* A remote call that was not sent yet has no use for a result.
LEMMA Unsent ==
  ASSUME NEW f, f.op = "rpc", f.pc = "send"
  PROVE  \A C, E, w : ValueOK(C, E, f, w)
  BY DEF ValueOK

\* The calls of a connection of n to m (Connection::insert, refresh, query, connect,
\* relay), here or by a message.
LEMMA InsertMade ==
  ASSUME NEW C, NEW E, NEW n \in Nodes, NEW m \in Nodes, NEW e \in MadeIn(E), NEW sender \in Nat,
         HasPort(C, m, sender)
  PROVE  FrameOK(C, E, Insert(n, m, e, sender)) /\ \A w : ValueOK(C, E, Insert(n, m, e, sender), w)
  <1> DEFINE f == Insert(n, m, e, sender)
  <1>1. CASE Remote(n, m)
    <2>1. f = Stub(n, m, "Insert", [sender |-> sender, entry |-> SetEntry(e)]) /\ m \in Brokers
      BY <1>1 DEF Insert, Remote, Nodes
    <2>2. RpcOK(C, E, f) /\ f.op = "rpc" /\ f.pc = "send"
      BY <2>1 DEF RpcOK, RequestOK, Stub
    <2> QED
      BY <2>2, Unsent DEF FrameOK
  <1>2. CASE ~Remote(n, m)
    <2>1. f = InsertCall(m, e, sender)
      BY <1>2 DEF Insert
    <2>2. InsertOK(C, E, f) /\ f.op = "insert"
      BY <2>1 DEF InsertOK, InsertCall
    <2> QED
      BY <2>2, NoWait DEF FrameOK
  <1> QED
    BY <1>1, <1>2

\* A refresh that fits the peer's port is in order, as a call and as a message.
LEMMA RefreshMade ==
  ASSUME NEW C, NEW E, NEW n \in Nodes, NEW m \in Nodes, NEW conn, conn.source \in Nat, NEW sender \in Nat,
         RefreshFits(C, m, sender, conn.source)
  PROVE  FrameOK(C, E, Refresh(n, m, conn, sender)) /\ \A w : ValueOK(C, E, Refresh(n, m, conn, sender), w)
  <1> DEFINE f == Refresh(n, m, conn, sender)
  <1>1. CASE Remote(n, m)
    <2>1. f = Stub(n, m, "Refresh",
                   [sender |-> sender, source |-> conn.source, clock |-> SetClock(conn.clock),
                    sources |-> SetIdConnectionInfoMap(conn.provides)]) /\ m \in Brokers
      BY <1>1 DEF Refresh, Remote, Nodes
    <2>2. RpcOK(C, E, f) /\ f.op = "rpc" /\ f.pc = "send"
      BY <2>1 DEF RpcOK, RequestOK, Stub
    <2> QED
      BY <2>2, Unsent DEF FrameOK
  <1>2. CASE ~Remote(n, m)
    <2>1. f = RefreshCall(m, conn, sender)
      BY <1>2 DEF Refresh
    <2>2. RefreshOK(C, f) /\ f.op = "refresh"
      BY <2>1 DEF RefreshOK, RefreshCall
    <2> QED
      BY <2>2, NoWait DEF FrameOK
  <1> QED
    BY <1>1, <1>2

\* So is a query, which answers whoever waits for a list.
LEMMA QueryMade ==
  ASSUME NEW C, NEW E, NEW n \in Nodes, NEW m \in Nodes, NEW from, NEW sender
  PROVE  LET g == Query(n, m, from, sender)
         IN  /\ FrameOK(C, E, g) /\ \A w : ValueOK(C, E, g, w)
             /\ \A f : ~AwaitsConnection(f) => Answers(g, f)
  <1> DEFINE g == Query(n, m, from, sender)
  <1>1. CASE Remote(n, m)
    <2>1. g = Stub(n, m, "Query", [sender |-> sender, clock |-> SetClock(from)]) /\ m \in Brokers
      BY <1>1 DEF Query, Remote, Nodes
    <2>2. RpcOK(C, E, g) /\ g.op = "rpc" /\ g.pc = "send" /\ g.rpc = "Query"
      BY <2>1 DEF RpcOK, RequestOK, Stub
    <2> QED
      BY <2>2, Unsent DEF FrameOK, Answers
  <1>2. CASE ~Remote(n, m)
    <2>1. g = QueryCall(m, from, sender)
      BY <1>2 DEF Query
    <2>2. QueryOK(g) /\ g.op = "query" /\ g.pc = "enter"
      BY <2>1 DEF QueryOK, QueryCall
    <2> QED
      BY <2>2, NoWait DEF FrameOK, Answers
  <1> QED
    BY <1>1, <1>2

\* So is a connect that names the caller and its port, which answers the caller.
LEMMA ConnectMade ==
  ASSUME NEW C, NEW E, NEW n \in Started, NEW m \in Started, NEW conn, IsConnection(conn), conn.peer = n,
         conn.source \in Nat \ {0}, ~Remote(n, m) => Paired(C, m, n, conn.source)
  PROVE  LET g == Connect(n, m, conn)
         IN  /\ FrameOK(C, E, g) /\ \A w : ValueOK(C, E, g, w)
             /\ \A f : ~AwaitsList(f) /\ f.node = n /\ f.to = m => Answers(g, f)
  <1> DEFINE g == Connect(n, m, conn)
  <1>1. CASE Remote(n, m)
    <2> DEFINE r == [source |-> conn.source, clock |-> SetClock(conn.clock), broker |-> conn.peer,
                     sources |-> SetIdConnectionInfoMap(conn.provides)]
    <2>1. g = Stub(n, m, "Connect", r) /\ m \in Brokers /\ n \in Nodes /\ Process[n] # Process[m]
      BY <1>1, Ids DEF Connect, Remote, Nodes
    <2>2. /\ RpcOK(C, E, g) /\ g.op = "rpc" /\ g.pc = "send" /\ g.rpc = "Connect"
          /\ g.node = n /\ g.to = m /\ g.request.source # 0
      BY <2>1 DEF RpcOK, RequestOK, Stub
    <2> QED
      BY <2>2, Unsent DEF FrameOK, Answers, AwaitsConnection
  <1>2. CASE ~Remote(n, m)
    <2>1. g = AcceptCall(m, conn) /\ n \in Brokers
      BY <1>2, Ids DEF Connect
    <2>4. Paired(C, m, n, conn.source)
      BY <1>2
    <2>2. GetOrCreate(Process[m], n) = n
      BY <1>2, Ids DEF Remote, GetOrCreate
    <2>3. AcceptOK(C, g) /\ g.op = "accept" /\ g.node = m /\ g.data.peer = n
      BY <2>1, <2>4 DEF AcceptOK, AcceptCall
    <2> QED
      BY <2>2, <2>3, NoWait DEF FrameOK, Answers
  <1> QED
    BY <1>1, <1>2

\* Data that is relayed survives the message.
LEMMA RelaySurvives ==
  ASSUME NEW data, RelayData(data)
  PROVE  DataFrom(SetData(data)) = data
  <1>1. data.alters \in [DOMAIN data.alters -> 1..MaxTime]
    <2>1. data.alters \in ClocksOver(Owned, 1..MaxTime)
      BY DEF RelayData, Version
    <2> QED
      BY <2>1, ClockShape
  <1>2. ASSUME NEW S, data.alters \in S PROVE data \in [id : {data.id}, value : Amount, alters : S]
    BY <1>2 DEF RelayData
  <1>3. data \in [id : {data.id}, value : Amount, alters : [DOMAIN data.alters -> 1..MaxTime]]
    BY <1>1, <1>2
  <1> QED
    BY <1>3, DataSurvives

\* So is a relay.
LEMMA RelayMade ==
  ASSUME NEW C, NEW E, NEW n \in Nodes, NEW m \in Nodes, NEW data, RelayData(data), NEW sender
  PROVE  FrameOK(C, E, Relay(n, m, data, sender)) /\ \A w : ValueOK(C, E, Relay(n, m, data, sender), w)
  <1> DEFINE f == Relay(n, m, data, sender)
  <1>1. CASE Remote(n, m)
    <2>1. f = Stub(n, m, "Relay", [sender |-> sender, entry |-> SetData(data)]) /\ m \in Brokers
      BY <1>1 DEF Relay, Remote, Nodes
    <2>3. DataFrom(SetData(data)) = data
      BY RelaySurvives
    <2>4. RpcOK(C, E, f) /\ f.op = "rpc" /\ f.pc = "send"
      BY <2>1, <2>3 DEF RpcOK, RequestOK, Stub
    <2> QED
      BY <2>4, Unsent DEF FrameOK
  <1>2. CASE ~Remote(n, m)
    <2>1. f = RelayCall(m, data, sender)
      BY <1>2 DEF Relay
    <2>2. RelayOK(f) /\ f.op = "relay"
      BY <2>1 DEF RelayOK, RelayCall
    <2> QED
      BY <2>2, NoWait DEF FrameOK
  <1> QED
    BY <1>1, <1>2

\* So is an insert of a list of stored entries.
LEMMA InsertListMade ==
  ASSUME NEW C, NEW E, NEW n \in Nodes, NEW m \in Nodes, NEW list \in Seq(MadeIn(E)), NEW sender \in Nat,
         HasPort(C, m, sender)
  PROVE  /\ FrameOK(C, E, InsertList(n, m, list, sender))
         /\ \A w : ValueOK(C, E, InsertList(n, m, list, sender), w)
  <1>1. InsertListOK(C, E, InsertList(n, m, list, sender)) /\ InsertList(n, m, list, sender).op = "insertList"
    BY DEF InsertListOK, InsertList
  <1> QED
    BY <1>1, NoWait DEF FrameOK

\* So is refreshConnections.
LEMMA RefreshConnectionsMade ==
  ASSUME NEW C, NEW E, NEW n \in Brokers, NEW p \in Nat
  PROVE  /\ FrameOK(C, E, RefreshConnectionsCall(n, p))
         /\ \A w : ValueOK(C, E, RefreshConnectionsCall(n, p), w)
  <1>1. RefreshConnectionsOK(RefreshConnectionsCall(n, p)) /\ RefreshConnectionsCall(n, p).op = "refreshConnections"
    BY DEF RefreshConnectionsOK, RefreshConnectionsCall
  <1> QED
    BY <1>1, NoWait DEF FrameOK

-----------------------------------------------------------------------------
(***************************************************************************)
(* Ports and their numbers at the peer.                                    *)
(***************************************************************************)

\* The loops of Broker start with the smallest port.
LEMMA FirstIn ==
  ASSUME NEW S, S \subseteq Nat, S # {}
  PROVE  First(S) \in S
  <1>1. PICK p \in S : \A q \in S : ~(<<q, p>> \in OpToRel(<, Nat))
    BY WFMin, NatLessThanWellFounded
  <1>2. \A q \in S : p <= q
    <2>1. \A q \in S : ~(q < p)
      BY <1>1 DEF OpToRel
    <2> QED
      BY <2>1
  <1> QED
    BY <1>2 DEF First

\* A port that a loop visits leads to a broker; port 0 is not one.
LEMMA FirstPort ==
  ASSUME ConnsOK(conns), NEW n \in Brokers, NEW first \in Nat, NEW skip, NEW S,
         S \subseteq PortsFrom(n, first, skip), S # {}
  PROVE  /\ First(S) \in S /\ First(S) \in Nat \ {0}
         /\ First(S) \in 0..Len(conns[n]) - 1 /\ First(S) + 1 \in 1..Len(conns[n])
         /\ PortOK(conns, n, Conn(n, First(S))) /\ Conn(n, First(S)).peer \in Brokers
  <1> DEFINE p == First(S)
  <1>1. Len(conns[n]) \in Nat \ {0} /\ PortsOK(conns, n)
    BY ConnsLen DEF ConnsOK
  <1>2. S \subseteq Nat
    BY <1>1 DEF PortsFrom
  <1>3. p \in S
    BY <1>2, FirstIn
  <1> HIDE DEF p
  <1>4. p \in first..Len(conns[n]) - 1 /\ Conn(n, p).peer # NoPeer
    BY <1>3 DEF PortsFrom, Live
  <1>5. p + 1 \in 1..Len(conns[n]) /\ p \in 0..Len(conns[n]) - 1
    BY <1>1, <1>4
  <1>6. PortOK(conns, n, Conn(n, p))
    BY <1>1, <1>5 DEF PortsOK, Conn
  <1>7. p # 0
    BY <1>1, <1>4 DEF PortsOK, Conn
  <1> QED
    BY <1>3, <1>4, <1>5, <1>6, <1>7 DEF p, PortOK, Nodes

\* A port that leads to the caller exists.
LEMMA PairedHas ==
  ASSUME NEW C, ConnsOK(C), NEW n, NEW m, NEW s \in Nat, Paired(C, n, m, s)
  PROVE  HasPort(C, m, s)
  <1>1. m \in Started => Len(C[m]) \in Nat \ {0}
    BY Ids, ConnsLen
  <1> QED
    BY <1>1 DEF Paired, HasPort

\* Port 0 of a broker is nobody's.
LEMMA PairedAtZero ==
  ASSUME NEW C, ConnsOK(C), NEW n, NEW m
  PROVE  Paired(C, n, m, 0) /\ HasPort(C, m, 0)
  <1>1. ASSUME m \in Started PROVE Len(C[m]) \in Nat \ {0}
    BY <1>1, Ids, ConnsLen
  <1> QED
    BY <1>1 DEF Paired, HasPort

\* What stands for n in the process of m: n itself
LEMMA SameProcess ==
  ASSUME NEW n, NEW m, Process[n] = Process[m]
  PROVE  GetOrCreate(Process[m], n) = n
  BY DEF GetOrCreate

\* or its twin, which GrpcRunner::Connect finds in the store.
LEMMA TwinFound ==
  ASSUME NEW n \in Started, NEW m \in Started, Process[n] # Process[m]
  PROVE  GetOrCreate(Process[m], n) \in Twins
  <1>1. \E b \in Twins : Process[b] = Process[m] /\ IdOf[b] = IdOf[n]
    BY TwinsAssumption DEF Started
  <1> QED
    BY <1>1 DEF GetOrCreate

\* Nobody connects a twin: one with another port was started by a user.
LEMMA OnePortTwins ==
  ASSUME NEW C, ConnsOK(C), NEW n \in Brokers, NEW p \in Nat \ {0}, p \in 0..Len(C[n]) - 1
  PROVE  n \in Started /\ p < Len(C[n])
  <1>1. Len(C[n]) \in Nat /\ (n \in Twins => Len(C[n]) = 1)
    BY ConnsLen DEF ConnsOK, PortsOK
  <1>2. Len(C[n]) # 1 /\ p < Len(C[n])
    <2> DEFINE L == Len(C[n])
    <2>1. L \in Nat /\ p \in 0..L - 1
      BY <1>1
    <2> HIDE DEF L
    <2>2. p \in Nat /\ p # 0 /\ p <= L - 1
      BY <2>1
    <2>3. L # 1 /\ p < L
      BY <2>1, <2>2
    <2> QED
      BY <2>3 DEF L
  <1>3. n \notin Twins
    BY <1>1, <1>2
  <1> QED
    BY <1>2, <1>3, Ids

\* A broker of the same process reaches the port p of n where it is announced.
LEMMA PairedBack ==
  ASSUME NEW C, ConnsOK(C), NEW n \in Brokers, NEW p \in 0..Len(C[n]) - 1,
         NEW m, C[n][p + 1].peer = m, Process[m] = Process[n]
  PROVE  Paired(C, m, n, p)
  <1>1. GetOrCreate(Process[n], m) = m
    BY SameProcess
  <1>2. p = 0 \/ p \in 1..Len(C[n]) - 1
    BY ConnsLen
  <1> QED
    BY <1>1, <1>2 DEF Paired

\* What a broker tells its peer through port p is the peer's way to port p: q stands
\* for p (an announcement) or for 0 (the goodbye of a disconnect).
LEMMA AnnouncementFits ==
  ASSUME NEW C, ConnsOK(C), NEW n \in Brokers, NEW p \in 0..Len(C[n]) - 1, NEW q \in {0, p}
  PROVE  RefreshFits(C, C[n][p + 1].peer, C[n][p + 1].source, q)
  <1> DEFINE m == C[n][p + 1].peer
             s == C[n][p + 1].source
             here == GetOrCreate(Process[m], n)
  <1>1. Len(C[n]) \in Nat \ {0} /\ PortsOK(C, n)
    BY ConnsLen DEF ConnsOK
  <1>2. PortOK(C, n, C[n][p + 1]) /\ (p = 0 => m = NoPeer)
    <2>1. p + 1 \in 1..Len(C[n])
      BY <1>1
    <2> QED
      BY <1>1, <2>1 DEF PortsOK
  <1>3. Paired(C, n, m, s)
    BY <1>2 DEF PortOK
  <1>4. C[n][p + 1].peer = m
    OBVIOUS
  <1> SUFFICES ASSUME m \in Started
               PROVE  s \in 0..Len(C[m]) - 1 /\ (s # 0 => Paired(C, m, C[m][s + 1].peer, q))
    BY DEF RefreshFits
  <1> HIDE DEF m, s, here
  <1>5. Len(C[m]) \in Nat \ {0}
    BY Ids, ConnsLen
  <1>6. s = 0 \/ (s \in 1..Len(C[m]) - 1 /\ C[m][s + 1].peer \in {here, NoPeer})
    BY <1>3 DEF Paired, here
  <1>7. ASSUME s # 0 PROVE Paired(C, m, C[m][s + 1].peer, q)
    <2>1. CASE C[m][s + 1].peer = NoPeer
      BY <2>1, Ids DEF Paired
    <2>2. CASE C[m][s + 1].peer = here /\ Process[n] = Process[m]
      <3>1. C[m][s + 1].peer = n
        BY <2>2, SameProcess DEF here
      <3> QED
        BY <2>2, <3>1, <1>4, PairedBack, PairedAtZero
    <2>3. CASE C[m][s + 1].peer = here /\ Process[n] # Process[m]
      <3>0. p \in Nat \ {0}
        BY <1>1, <1>2, Ids
      <3>1. n \in Started
        BY <3>0, OnePortTwins
      <3>2. here \in Twins
        BY <2>3, <3>1, TwinFound DEF here
      <3> QED
        BY <2>3, <3>2, Ids DEF Paired
    <2> QED
      BY <1>6, <1>7, <2>1, <2>2, <2>3
  <1> QED
    BY <1>5, <1>6, <1>7

=============================================================================
