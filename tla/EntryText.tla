----------------------------- MODULE EntryText -----------------------------
(***************************************************************************)
(* The text of an entry, as JournalFile keeps it: operator<< and Read of   *)
(* clock.cpp and entry.cpp (cashmere/crdt) over ReadChar and ReadPair of   *)
(* utils/src/fileutils.cpp.  A text is a sequence of tokens <<kind, n>>: a *)
(* brace, a comma, a line feed, or a number n in hexadecimal or decimal.   *)
(* Spaces are left out: every reader skips them.                           *)
(***************************************************************************)
EXTENDS Clocks, Integers, Sequences, FiniteSets

Sign(kind) == <<kind, 0>>

Hex(n) == <<"hex", n>>

Dec(n) == <<"dec", n>>

-----------------------------------------------------------------------------
(***************************************************************************)
(* Writing.                                                                *)
(***************************************************************************)

\* The k-th id of a clock, in the order of std::map.
KeyId(c, k) == CHOOSE i \in DOMAIN c : Cardinality({j \in DOMAIN c : j < i}) = k - 1

\* The k-th pair, with the comma or the brace behind it.
WritePair(c, k) ==
  LET id == KeyId(c, k)
  IN  <<Sign("open"), Hex(id), Sign("comma"), Dec(c[id]), Sign("close"),
        Sign(IF k < Cardinality(DOMAIN c) THEN "comma" ELSE "close")>>

\* operator<<(Clock): six tokens for each pair.
WriteClock(c) ==
  <<Sign("open")>> \o IF c = EmptyClock
                     THEN <<Sign("close")>>
                     ELSE [t \in 1..6 * Cardinality(DOMAIN c) |->
                             WritePair(c, (t + 5) \div 6)[1 + ((t + 5) % 6)]]

\* operator<<(Data).
WriteData(e) ==
  <<Sign("open"), Hex(e.id), Sign("comma"), Dec(e.value), Sign("comma")>> \o WriteClock(e.alters) \o <<Sign("close")>>

\* operator<<(Entry).
WriteEntry(e) ==
  <<Sign("open")>> \o WriteClock(e.clock) \o <<Sign("comma")>> \o WriteData(e) \o <<Sign("close")>>

-----------------------------------------------------------------------------
(***************************************************************************)
(* Reading.  A read from the position at gives the set of what it read: no *)
(* element if it fails, one if it succeeds, with the position behind it.   *)
(***************************************************************************)

\* ReadChar, or >> of a number, for each of the kinds in turn.
ReadChars(text, at, kinds) ==
  IF \A k \in 1..Len(kinds) : at + k - 1 <= Len(text) /\ text[at + k - 1][1] = kinds[k]
    THEN {at + Len(kinds)}
    ELSE {}

\* ReadPair: the position behind it.
ReadPair(text, at) == ReadChars(text, at, <<"open", "hex", "comma", "dec", "close">>)

\* The loop of Clock::Read takes n turns: a pair, of five tokens, in each, and a
\* comma behind every pair but the last.
Turns(text, start) ==
  {n \in 1..Len(text) \div 5 :
     /\ ReadPair(text, start + 6 * n - 6) # {}
     /\ ReadChars(text, start + 6 * n - 1, <<"comma">>) = {}
     /\ \A k \in 1..n - 1 : /\ ReadPair(text, start + 6 * k - 6) # {}
                            /\ ReadChars(text, start + 6 * k - 1, <<"comma">>) # {}}

\* The clock of n pairs: clock[id] = time for each in turn, so that of two pairs
\* with one id the later one stays.
PairsRead(text, start, n) ==
  LET id(k) == text[start + 6 * k - 5][2]
      time(k) == text[start + 6 * k - 3][2]
  IN  [i \in {id(k) : k \in 1..n} |->
         time(CHOOSE k \in 1..n : id(k) = i /\ \A j \in k + 1..n : id(j) # i)]

ReadPairs(text, start) ==
  {[at |-> start + 6 * n - 1, clock |-> PairsRead(text, start, n)] : n \in Turns(text, start)}

\* Clock::Read: pairs are read only if another brace follows the first.
ReadClock(text, start) ==
  LET body(at) == IF ReadChars(text, at, <<"open">>) = {}
                    THEN {[at |-> at, clock |-> EmptyClock]}
                    ELSE ReadPairs(text, at)
  IN  UNION {{[at |-> read.at + 1, clock |-> read.clock] :
                read \in {r \in body(at) : ReadChars(text, r.at, <<"close">>) # {}}} :
               at \in ReadChars(text, start, <<"open">>)}

\* Data::Read.
ReadData(text, start) ==
  UNION {{[at |-> alters.at + 1, id |-> text[start + 1][2], value |-> text[start + 3][2],
           alters |-> alters.clock] :
            alters \in {r \in ReadClock(text, at) : ReadChars(text, r.at, <<"close">>) # {}}} :
           at \in ReadChars(text, start, <<"open", "hex", "comma", "dec", "comma">>)}

\* Entry::Read.
ReadEntry(text, start) ==
  UNION {UNION {{[at |-> data.at + 1,
                  entry |-> [clock |-> clock.clock, id |-> data.id,
                             value |-> data.value, alters |-> data.alters]] :
                   data \in {r \in ReadData(text, clock.at + 1) : ReadChars(text, r.at, <<"close">>) # {}}} :
                  clock \in {r \in ReadClock(text, at) : ReadChars(text, r.at, <<"comma">>) # {}}} :
           at \in ReadChars(text, start, <<"open">>)}

=============================================================================
