----------------------------- MODULE FileProofs -----------------------------
(***************************************************************************)
(* The files of a journal.  What Read makes of the text that operator<<    *)
(* wrote is what was written, each file of a journal is the lines of one   *)
(* author's entries in the order of their times, and so a file journal     *)
(* lists and finds what it saved and is a journal of module Journal.       *)
(***************************************************************************)
EXTENDS Service, EntryListsProofs, SequenceTheorems

-----------------------------------------------------------------------------
(***************************************************************************)
(* The ids of a clock.                                                     *)
(***************************************************************************)

\* A clock, as a journal can have it: times of finitely many ids.
IsClock(c) ==
  /\ c = [i \in DOMAIN c |-> c[i]]
  /\ IsFiniteSet(DOMAIN c)
  /\ DOMAIN c \subseteq Nat
  /\ \A i \in DOMAIN c : c[i] \in Nat

\* Every id of a clock is its k-th for one k.
LEMMA KeyIds ==
  ASSUME NEW c, IsClock(c)
  PROVE  /\ Cardinality(DOMAIN c) \in Nat
         /\ \A k \in 1..Cardinality(DOMAIN c) : KeyId(c, k) \in DOMAIN c
         /\ \A i \in DOMAIN c : \E k \in 1..Cardinality(DOMAIN c) : KeyId(c, k) = i
         /\ \A j, k \in 1..Cardinality(DOMAIN c) : KeyId(c, j) = KeyId(c, k) => j = k
  <1> DEFINE S == DOMAIN c
             n == Cardinality(S)
             R == {pair \in S \X S : pair[1] < pair[2]}
             Below(i) == Cardinality({j \in S : j < i})
  <1>1. IsFiniteSet(S) /\ S \subseteq Nat /\ n \in Nat
    BY FS_CardinalityType DEF IsClock
  <1>2. Orders(R, S)
    BY <1>1 DEF Orders
  <1>3. ASSUME NEW i \in S PROVE Rank(S, R, i) = Below(i)
    <2>1. {j \in S : <<j, i>> \in R} = {j \in S : j < i}
      BY <1>3
    <2> QED
      BY <2>1 DEF Rank
  <1>4. ASSUME NEW k \in 1..n PROVE KeyId(c, k) \in S /\ Below(KeyId(c, k)) = k - 1
    <2>1. \E i \in S : Below(i) = k - 1
      BY <1>1, <1>2, <1>3, RankReached
    <2> QED
      BY <2>1 DEF KeyId
  <1>5. ASSUME NEW i \in S PROVE \E k \in 1..n : KeyId(c, k) = i
    <2>1. Below(i) \in 0..n - 1
      BY <1>1, <1>2, <1>3, RankType
    <2>2. PICK k \in 1..n : k - 1 = Below(i)
      <3> HIDE DEF Below, n
      <3>1. Below(i) + 1 \in 1..n /\ (Below(i) + 1) - 1 = Below(i)
        BY <2>1, <1>1
      <3> QED
        BY <3>1
    <2>3. KeyId(c, k) \in S /\ Below(KeyId(c, k)) = Below(i)
      BY <2>2, <1>4
    <2>4. CASE KeyId(c, k) # i
      <3> DEFINE j == KeyId(c, k)
      <3>1. <<i, j>> \in R \/ <<j, i>> \in R
        BY <2>3, <2>4, <1>2 DEF Orders
      <3>2. Below(i) < Below(j) \/ Below(j) < Below(i)
        BY <3>1, <2>3, <1>1, <1>2, <1>3, RankGrows
      <3> HIDE DEF Below, j
      <3> QED
        BY <3>2, <2>1, <2>3 DEF j
    <2> QED
      BY <2>4
  <1>6. ASSUME NEW j \in 1..n, NEW k \in 1..n, KeyId(c, j) = KeyId(c, k) PROVE j = k
    <2>1. j - 1 = k - 1
      BY <1>4, <1>6
    <2> QED
      BY <2>1, <1>1
  <1> QED
    BY <1>1, <1>4, <1>5, <1>6

-----------------------------------------------------------------------------
(***************************************************************************)
(* The text of a clock.                                                    *)
(***************************************************************************)
LEMMA SixTokens ==
  ASSUME NEW k \in Nat, NEW j \in 0..5
  PROVE  (6 * k + j) \div 6 = k /\ (6 * k + j) % 6 = j
  OBVIOUS

\* Two texts, one behind the other.
LEMMA Behind ==
  ASSUME NEW S, NEW s \in Seq(S), NEW t \in Seq(S)
  PROVE  /\ s \o t \in Seq(S)
         /\ Len(s \o t) = Len(s) + Len(t)
         /\ \A i \in 1..Len(s) : (s \o t)[i] = s[i]
         /\ \A i \in 1..Len(t) : (s \o t)[Len(s) + i] = t[i]
  <1>1. Len(s) \in Nat /\ Len(t) \in Nat
    BY LenProperties
  <1>2. /\ s \o t \in Seq(S)
        /\ Len(s \o t) = Len(s) + Len(t)
        /\ \A i \in 1..Len(s) + Len(t) : (s \o t)[i] = IF i <= Len(s) THEN s[i] ELSE t[i - Len(s)]
    BY ConcatProperties
  <1>3. ASSUME NEW i \in 1..Len(s) PROVE (s \o t)[i] = s[i]
    BY <1>1, <1>2
  <1>4. ASSUME NEW i \in 1..Len(t) PROVE (s \o t)[Len(s) + i] = t[i]
    <2>1. Len(s) + i \in 1..Len(s) + Len(t) /\ ~(Len(s) + i <= Len(s)) /\ (Len(s) + i) - Len(s) = i
      BY <1>1
    <2> QED
      BY <1>2, <2>1
  <1> QED
    BY <1>2, <1>3, <1>4

\* A text behind one token.
LEMMA BehindOne ==
  ASSUME NEW S, NEW x \in S, NEW t \in Seq(S), NEW W, W = <<x>> \o t
  PROVE  /\ W \in Seq(S)
         /\ Len(W) = 1 + Len(t)
         /\ W[1] = x
         /\ \A i \in 1..Len(t) : W[i + 1] = t[i]
  <1>1. <<x>> \in Seq(S) /\ Len(<<x>>) = 1 /\ <<x>>[1] = x
    OBVIOUS
  <1>2. \A i \in 1..Len(t) : i + 1 = 1 + i
    BY LenProperties
  <1> QED
    BY <1>1, <1>2, Behind

\* Where each token of a clock stands.
ClockTokens(c, n, W) ==
  /\ W[1] = Sign("open")
  /\ n = 0 => Len(W) = 2 /\ W[2] = Sign("close")
  /\ n > 0 => Len(W) = 6 * n + 1
  /\ \A k \in 1..n :
       /\ W[6 * k - 4] = Sign("open")
       /\ W[6 * k - 3] = Hex(KeyId(c, k))
       /\ W[6 * k - 2] = Sign("comma")
       /\ W[6 * k - 1] = Dec(c[KeyId(c, k)])
       /\ W[6 * k] = Sign("close")
       /\ W[6 * k + 1] = Sign(IF k < n THEN "comma" ELSE "close")

LEMMA ClockText ==
  ASSUME NEW c, IsClock(c)
  PROVE  ClockTokens(c, Cardinality(DOMAIN c), WriteClock(c))
  <1> DEFINE n == Cardinality(DOMAIN c)
             F == [t \in 1..6 * n |-> WritePair(c, (t + 5) \div 6)[1 + ((t + 5) % 6)]]
             W == WriteClock(c)
  <1>1. n \in Nat
    BY KeyIds
  <1>2. CASE n = 0
    <2>1. DOMAIN c = {}
      BY <1>2, FS_EmptySet DEF IsClock
    <2>2. c = EmptyClock
      BY <2>1 DEF IsClock, EmptyClock
    <2>3. W = <<Sign("open")>> \o <<Sign("close")>>
      BY <2>2 DEF WriteClock
    <2> DEFINE T == {Sign("open"), Sign("close")}
    <2> HIDE DEF W, F, n
    <2>4. Sign("open") \in T /\ <<Sign("close")>> \in Seq(T) /\ Len(<<Sign("close")>>) = 1 /\ <<Sign("close")>>[1] = Sign("close")
      OBVIOUS
    <2> HIDE DEF T
    <2>5. Len(W) = 1 + 1 /\ W[1] = Sign("open") /\ \A i \in 1..1 : W[i + 1] = <<Sign("close")>>[i]
      BY <2>3, <2>4, BehindOne
    <2>6. Len(W) = 2 /\ W[2] = Sign("close")
      BY <2>4, <2>5
    <2>7. ClockTokens(c, n, W)
      BY <2>5, <2>6, <1>2 DEF ClockTokens
    <2> QED
      BY <2>7 DEF W, n
  <1>3. CASE n # 0
    <2>1. c # EmptyClock
      <3>1. DOMAIN c # {}
        BY <1>3, FS_EmptySet
      <3> QED
        BY <3>1 DEF EmptyClock
    <2>2. W = <<Sign("open")>> \o F
      BY <2>1 DEF WriteClock
    <2> DEFINE T == {F[t] : t \in 1..6 * n} \cup {Sign("open")}
    <2>3. F \in [1..6 * n -> T]
      OBVIOUS
    <2>4. 6 * n \in Nat
      BY <1>1
    <2> HIDE DEF F, T, W
    <2>5. F \in Seq(T) /\ Len(F) = 6 * n
      BY <2>3, <2>4
    <2>6. Sign("open") \in T
      BY DEF T
    <2>7. Len(W) = 1 + 6 * n /\ \A t \in 1..6 * n : W[t + 1] = F[t]
      <3>1. Len(W) = 1 + Len(F) /\ \A t \in 1..Len(F) : W[t + 1] = F[t]
        BY <2>2, <2>5, <2>6, BehindOne
      <3> QED
        BY <2>5, <3>1
    <2>8. W[1] = Sign("open")
      BY <2>2, <2>5, <2>6, BehindOne
    <2>9. ASSUME NEW k \in 1..n, NEW j \in 0..5
          PROVE  W[6 * k - 4 + j] = WritePair(c, k)[1 + j]
      <3> DEFINE t == 6 * k - 5 + j
      <3>1. t \in 1..6 * n /\ t + 5 = 6 * k + j /\ t + 1 = 6 * k - 4 + j /\ k \in Nat
        BY <1>1
      <3>2. W[t + 1] = F[t]
        BY <3>1, <2>7
      <3>3. F[t] = WritePair(c, (t + 5) \div 6)[1 + ((t + 5) % 6)]
        BY <3>1 DEF F
      <3>4. (t + 5) \div 6 = k /\ (t + 5) % 6 = j
        BY <3>1, SixTokens
      <3> QED
        BY <3>1, <3>2, <3>3, <3>4
    <2>10. ASSUME NEW k \in 1..n
           PROVE  /\ W[6 * k - 4] = Sign("open")
                  /\ W[6 * k - 3] = Hex(KeyId(c, k))
                  /\ W[6 * k - 2] = Sign("comma")
                  /\ W[6 * k - 1] = Dec(c[KeyId(c, k)])
                  /\ W[6 * k] = Sign("close")
                  /\ W[6 * k + 1] = Sign(IF k < n THEN "comma" ELSE "close")
      <3>1. /\ W[6 * k - 4 + 0] = WritePair(c, k)[1 + 0]
            /\ W[6 * k - 4 + 1] = WritePair(c, k)[1 + 1]
            /\ W[6 * k - 4 + 2] = WritePair(c, k)[1 + 2]
            /\ W[6 * k - 4 + 3] = WritePair(c, k)[1 + 3]
            /\ W[6 * k - 4 + 4] = WritePair(c, k)[1 + 4]
            /\ W[6 * k - 4 + 5] = WritePair(c, k)[1 + 5]
        <4>1. 0 \in 0..5 /\ 1 \in 0..5 /\ 2 \in 0..5 /\ 3 \in 0..5 /\ 4 \in 0..5 /\ 5 \in 0..5
          OBVIOUS
        <4> QED
          BY <2>9, <4>1
      <3>2. /\ 6 * k - 4 + 0 = 6 * k - 4 /\ 6 * k - 4 + 1 = 6 * k - 3 /\ 6 * k - 4 + 2 = 6 * k - 2
            /\ 6 * k - 4 + 3 = 6 * k - 1 /\ 6 * k - 4 + 4 = 6 * k /\ 6 * k - 4 + 5 = 6 * k + 1
        BY <1>1
      <3> DEFINE P == WritePair(c, k)
      <3>3. /\ P[1 + 0] = Sign("open") /\ P[1 + 1] = Hex(KeyId(c, k)) /\ P[1 + 2] = Sign("comma")
            /\ P[1 + 3] = Dec(c[KeyId(c, k)]) /\ P[1 + 4] = Sign("close")
            /\ P[1 + 5] = Sign(IF k < n THEN "comma" ELSE "close")
        BY DEF WritePair
      <3> QED
        BY <3>1, <3>2, <3>3
    <2>11. Len(W) = 6 * n + 1 /\ n # 0
      BY <2>7, <1>1, <1>3
    <2> HIDE DEF n
    <2>12. ClockTokens(c, n, W)
      BY <2>8, <2>10, <2>11 DEF ClockTokens
    <2> QED
      BY <2>12 DEF W, n
  <1> QED
    BY <1>2, <1>3

-----------------------------------------------------------------------------
(***************************************************************************)
(* Reading a clock.                                                        *)
(***************************************************************************)

\* The text shows the first k tokens of W from the position at.
Shows(text, at, W, k) ==
  /\ Len(text) \in Nat /\ at \in Nat \ {0} /\ k \in Nat
  /\ at - 1 + k <= Len(text)
  /\ \A j \in 1..k : text[at - 1 + j] = W[j]

LEMMA ReadOne ==
  ASSUME NEW text, NEW at \in Nat, NEW a
  PROVE  ReadChars(text, at, <<a>>) = IF at <= Len(text) /\ text[at][1] = a THEN {at + 1} ELSE {}
  <1>1. Len(<<a>>) = 1 /\ <<a>>[1] = a /\ at + 1 - 1 = at
    OBVIOUS
  <1>2. (\A k \in 1..Len(<<a>>) : at + k - 1 <= Len(text) /\ text[at + k - 1][1] = <<a>>[k])
          <=> at <= Len(text) /\ text[at][1] = a
    BY <1>1
  <1> QED
    BY <1>1, <1>2 DEF ReadChars

LEMMA ReadFive ==
  ASSUME NEW text, Len(text) \in Nat, NEW at \in Nat, NEW a, NEW b, NEW c, NEW d, NEW e
  PROVE  ReadChars(text, at, <<a, b, c, d, e>>) =
           IF /\ at + 4 <= Len(text)
              /\ text[at][1] = a /\ text[at + 1][1] = b /\ text[at + 2][1] = c
              /\ text[at + 3][1] = d /\ text[at + 4][1] = e
             THEN {at + 5}
             ELSE {}
  <1> DEFINE s == <<a, b, c, d, e>>
  <1>1. Len(s) = 5 /\ s[1] = a /\ s[2] = b /\ s[3] = c /\ s[4] = d /\ s[5] = e
    OBVIOUS
  <1>2. at + 1 - 1 = at /\ at + 2 - 1 = at + 1 /\ at + 3 - 1 = at + 2 /\ at + 4 - 1 = at + 3 /\ at + 5 - 1 = at + 4
    OBVIOUS
  <1>3. 1..5 = {1, 2, 3, 4, 5}
    OBVIOUS
  <1> HIDE DEF s
  <1>4. (\A k \in 1..Len(s) : at + k - 1 <= Len(text) /\ text[at + k - 1][1] = s[k])
          <=> /\ at + 4 <= Len(text)
              /\ text[at][1] = a /\ text[at + 1][1] = b /\ text[at + 2][1] = c
              /\ text[at + 3][1] = d /\ text[at + 4][1] = e
    BY <1>1, <1>2, <1>3
  <1>5. at + Len(s) = at + 5
    BY <1>1
  <1> QED
    BY <1>4, <1>5 DEF ReadChars, s

\* What the text has of the k-th pair.
PairAt(text, at, c, k) ==
  /\ at + 6 * k - 1 <= Len(text)
  /\ text[at + 6 * k - 5] = Sign("open")
  /\ text[at + 6 * k - 4] = Hex(KeyId(c, k))
  /\ text[at + 6 * k - 3] = Sign("comma")
  /\ text[at + 6 * k - 2] = Dec(c[KeyId(c, k)])
  /\ text[at + 6 * k - 1] = Sign("close")

LEMMA PairShown ==
  ASSUME NEW text, NEW at, NEW c, NEW n \in Nat, NEW W, ClockTokens(c, n, W),
         NEW m, Shows(text, at, W, m), NEW k \in 1..n, 6 * k <= m
  PROVE  PairAt(text, at, c, k)
  <1>1. Len(text) \in Nat /\ at \in Nat \ {0} /\ m \in Nat /\ at - 1 + m <= Len(text)
    BY DEF Shows
  <1>2. \A j \in 1..m : text[at - 1 + j] = W[j]
    BY DEF Shows
  <1>3. at + 6 * k - 1 <= Len(text)
    BY <1>1
  <1>4. /\ 6 * k - 4 \in 1..m /\ at - 1 + (6 * k - 4) = at + 6 * k - 5
        /\ 6 * k - 3 \in 1..m /\ at - 1 + (6 * k - 3) = at + 6 * k - 4
        /\ 6 * k - 2 \in 1..m /\ at - 1 + (6 * k - 2) = at + 6 * k - 3
        /\ 6 * k - 1 \in 1..m /\ at - 1 + (6 * k - 1) = at + 6 * k - 2
        /\ 6 * k \in 1..m /\ at - 1 + 6 * k = at + 6 * k - 1
    BY <1>1
  <1>5. /\ text[at - 1 + (6 * k - 4)] = W[6 * k - 4]
        /\ text[at - 1 + (6 * k - 3)] = W[6 * k - 3]
        /\ text[at - 1 + (6 * k - 2)] = W[6 * k - 2]
        /\ text[at - 1 + (6 * k - 1)] = W[6 * k - 1]
        /\ text[at - 1 + 6 * k] = W[6 * k]
    BY <1>2, <1>4
  <1> QED
    BY <1>3, <1>4, <1>5 DEF ClockTokens, PairAt

\* The token behind the k-th pair: a comma, or the brace behind the last pair.
LEMMA BehindPair ==
  ASSUME NEW text, NEW at, NEW c, NEW n \in Nat, NEW W, ClockTokens(c, n, W),
         NEW m, Shows(text, at, W, m), NEW k \in 1..n, 6 * k + 1 <= m
  PROVE  /\ at + 6 * k <= Len(text)
         /\ text[at + 6 * k] = Sign(IF k < n THEN "comma" ELSE "close")
  <1>1. Len(text) \in Nat /\ at \in Nat \ {0} /\ m \in Nat /\ at - 1 + m <= Len(text)
    BY DEF Shows
  <1>2. 6 * k + 1 \in 1..m /\ at - 1 + (6 * k + 1) = at + 6 * k
    BY <1>1
  <1>3. text[at - 1 + (6 * k + 1)] = W[6 * k + 1]
    BY <1>2 DEF Shows
  <1>4. at + 6 * k <= Len(text)
    BY <1>1
  <1> QED
    BY <1>2, <1>3, <1>4 DEF ClockTokens

\* The parts of a token.
LEMMA TokenParts ==
  /\ \A kind : Sign(kind)[1] = kind
  /\ \A x : Hex(x)[1] = "hex" /\ Hex(x)[2] = x
  /\ \A x : Dec(x)[1] = "dec" /\ Dec(x)[2] = x
  BY DEF Sign, Hex, Dec

\* A pair that is shown is read,
LEMMA PairIsRead ==
  ASSUME NEW text, NEW at, NEW c, NEW n \in Nat, NEW W, ClockTokens(c, n, W),
         NEW m, Shows(text, at, W, m), NEW k \in 1..n, 6 * k <= m
  PROVE  ReadPair(text, at + 1 + 6 * k - 6) # {}
  <1>1. Len(text) \in Nat /\ at \in Nat \ {0} /\ k \in Nat \ {0}
    BY DEF Shows
  <1> DEFINE p == at + 6 * k - 5
  <1>2. p \in Nat /\ p = at + 1 + 6 * k - 6 /\ p + 4 = at + 6 * k - 1
        /\ p + 1 = at + 6 * k - 4 /\ p + 2 = at + 6 * k - 3 /\ p + 3 = at + 6 * k - 2
    BY <1>1
  <1>3. PairAt(text, at, c, k)
    BY PairShown
  <1>4. p + 4 <= Len(text) /\ text[p] = Sign("open") /\ text[p + 1] = Hex(KeyId(c, k)) /\ text[p + 2] = Sign("comma")
        /\ text[p + 3] = Dec(c[KeyId(c, k)]) /\ text[p + 4] = Sign("close")
    BY <1>2, <1>3 DEF PairAt
  <1> HIDE DEF p
  <1>5. text[p][1] = "open" /\ text[p + 1][1] = "hex" /\ text[p + 2][1] = "comma"
        /\ text[p + 3][1] = "dec" /\ text[p + 4][1] = "close"
    BY <1>4, TokenParts
  <1>6. ReadChars(text, p, <<"open", "hex", "comma", "dec", "close">>) = {p + 5}
    BY <1>1, <1>2, <1>4, <1>5, ReadFive
  <1> QED
    BY <1>2, <1>6 DEF ReadPair

\* and the comma behind it, if it is not the last.
LEMMA CommaIsRead ==
  ASSUME NEW text, NEW at, NEW c, NEW n \in Nat, NEW W, ClockTokens(c, n, W),
         NEW m, Shows(text, at, W, m), NEW k \in 1..n, 6 * k + 1 <= m
  PROVE  ReadChars(text, at + 1 + 6 * k - 1, <<"comma">>) # {} <=> k < n
  <1>1. at \in Nat \ {0} /\ k \in Nat \ {0}
    BY DEF Shows
  <1>2. at + 6 * k \in Nat /\ at + 6 * k = at + 1 + 6 * k - 1
    BY <1>1
  <1>3. at + 6 * k <= Len(text) /\ text[at + 6 * k] = Sign(IF k < n THEN "comma" ELSE "close")
    BY BehindPair
  <1>4. at + 6 * k <= Len(text) /\ text[at + 6 * k][1] = IF k < n THEN "comma" ELSE "close"
    BY <1>3, TokenParts
  <1>5. ReadChars(text, at + 6 * k, <<"comma">>) = IF k < n THEN {at + 6 * k + 1} ELSE {}
    BY <1>2, <1>4, ReadOne
  <1> QED
    BY <1>2, <1>5

\* The loop takes one turn for each pair of a whole clock.
LEMMA TurnsOfClock ==
  ASSUME NEW text, NEW at, NEW c, NEW n \in Nat \ {0}, NEW W, ClockTokens(c, n, W),
         Shows(text, at, W, 6 * n + 1)
  PROVE  Turns(text, at + 1) = {n}
  <1>1. Len(text) \in Nat /\ at \in Nat \ {0} /\ at - 1 + (6 * n + 1) <= Len(text)
    BY DEF Shows
  <1>2. n \in 1..Len(text) \div 5
    <2>1. 5 * n <= Len(text)
      BY <1>1
    <2> QED
      BY <2>1, <1>1
  <1>3. \A k \in 1..n : k \in Nat /\ 6 * k <= 6 * n + 1 /\ 6 * k + 1 <= 6 * n + 1
    OBVIOUS
  <1> DEFINE Pair(k) == ReadPair(text, at + 1 + 6 * k - 6) # {}
             Comma(k) == ReadChars(text, at + 1 + 6 * k - 1, <<"comma">>) # {}
  <1>4. ASSUME NEW k \in 1..n PROVE Pair(k)
    BY <1>3, PairIsRead
  <1>5. ASSUME NEW k \in 1..n PROVE Comma(k) <=> k < n
    BY <1>3, CommaIsRead
  <1>6. Turns(text, at + 1) =
          {m \in 1..Len(text) \div 5 : Pair(m) /\ ~Comma(m) /\ \A k \in 1..m - 1 : Pair(k) /\ Comma(k)}
    BY DEF Turns
  <1> HIDE DEF Pair, Comma
  <1>7. n \in Turns(text, at + 1)
    <2>1. n \in 1..n /\ ~(n < n) /\ \A k \in 1..n - 1 : k \in 1..n /\ k < n
      OBVIOUS
    <2> QED
      BY <1>2, <1>4, <1>5, <1>6, <2>1
  <1>8. ASSUME NEW m \in Turns(text, at + 1) PROVE m = n
    <2>1. m \in Nat /\ m >= 1 /\ ~Comma(m) /\ \A k \in 1..m - 1 : Comma(k)
      BY <1>1, <1>6
    <2>2. ~(m < n)
      <3>1. m < n => m \in 1..n
        BY <2>1
      <3> QED
        BY <1>5, <2>1, <3>1
    <2>3. ~(n < m)
      <3>1. n < m => n \in 1..m - 1 /\ n \in 1..n /\ ~(n < n)
        BY <2>1
      <3> QED
        BY <1>5, <2>1, <3>1
    <2> QED
      BY <2>1, <2>2, <2>3
  <1> QED
    BY <1>7, <1>8

\* The pairs of a whole clock are the clock.
LEMMA PairsOfClock ==
  ASSUME NEW text, NEW at, NEW c, IsClock(c), NEW n \in Nat, n = Cardinality(DOMAIN c),
         NEW W, ClockTokens(c, n, W), NEW m, m = 6 * n + 1, Shows(text, at, W, m)
  PROVE  PairsRead(text, at + 1, n) = c
  <1> DEFINE id(k) == text[at + 1 + 6 * k - 5][2]
             time(k) == text[at + 1 + 6 * k - 3][2]
             last(i) == CHOOSE k \in 1..n : id(k) = i /\ \A j \in k + 1..n : id(j) # i
  <1>1. /\ n \in Nat
        /\ \A k \in 1..n : KeyId(c, k) \in DOMAIN c
        /\ \A i \in DOMAIN c : \E k \in 1..n : KeyId(c, k) = i
        /\ \A j, k \in 1..n : KeyId(c, j) = KeyId(c, k) => j = k
    BY KeyIds
  <1>2. ASSUME NEW k \in 1..n PROVE id(k) = KeyId(c, k) /\ time(k) = c[KeyId(c, k)]
    <2>1. at \in Nat \ {0} /\ k \in Nat /\ 6 * k <= 6 * n + 1
      BY <1>1 DEF Shows
    <2>2. at + 1 + 6 * k - 5 = at + 6 * k - 4 /\ at + 1 + 6 * k - 3 = at + 6 * k - 2
      BY <2>1
    <2>3. 6 * k <= m
      BY <2>1
    <2>4. PairAt(text, at, c, k)
      BY <2>3, PairShown
    <2>5. text[at + 6 * k - 4] = Hex(KeyId(c, k)) /\ text[at + 6 * k - 2] = Dec(c[KeyId(c, k)])
      BY <2>4 DEF PairAt
    <2> QED
      BY <2>2, <2>5, TokenParts
  <1> HIDE DEF id, time
  <1>3. {id(k) : k \in 1..n} = DOMAIN c
    <2>1. \A k \in 1..n : id(k) \in DOMAIN c
      BY <1>1, <1>2
    <2>2. \A i \in DOMAIN c : \E k \in 1..n : id(k) = i
      BY <1>1, <1>2
    <2> QED
      BY <2>1, <2>2
  <1>4. ASSUME NEW i \in DOMAIN c PROVE time(last(i)) = c[i]
    <2>1. PICK k \in 1..n : KeyId(c, k) = i
      BY <1>1
    <2>2. id(k) = i /\ \A j \in k + 1..n : id(j) # i
      BY <1>1, <1>2, <2>1
    <2>3. last(i) \in 1..n /\ id(last(i)) = i
      BY <2>2
    <2>4. last(i) = k
      BY <1>1, <1>2, <2>1, <2>3
    <2> QED
      BY <2>1, <2>4, <1>2
  <1>5. PairsRead(text, at + 1, n) = [i \in {id(k) : k \in 1..n} |-> time(last(i))]
    BY DEF PairsRead, id, time
  <1> HIDE DEF last
  <1>6. [i \in DOMAIN c |-> time(last(i))] = [i \in DOMAIN c |-> c[i]]
    BY <1>4
  <1> QED
    BY <1>3, <1>5, <1>6 DEF IsClock

\* Clock::Read behind the first brace.
ClockBody(text, at) ==
  IF ReadChars(text, at, <<"open">>) = {} THEN {[at |-> at, clock |-> EmptyClock]} ELSE ReadPairs(text, at)

LEMMA ReadClockBody ==
  ASSUME NEW text, NEW at \in Nat \ {0}, at <= Len(text), text[at] = Sign("open")
  PROVE  ReadClock(text, at) =
           {[at |-> read.at + 1, clock |-> read.clock] :
              read \in {r \in ClockBody(text, at + 1) : ReadChars(text, r.at, <<"close">>) # {}}}
  <1> DEFINE Rest(p) == {[at |-> read.at + 1, clock |-> read.clock] :
                           read \in {r \in ClockBody(text, p) : ReadChars(text, r.at, <<"close">>) # {}}}
  <1>1. text[at][1] = "open"
    BY TokenParts
  <1>2. ReadChars(text, at, <<"open">>) = {at + 1}
    BY <1>1, ReadOne
  <1>3. ReadClock(text, at) = UNION {Rest(p) : p \in ReadChars(text, at, <<"open">>)}
    BY DEF ReadClock, ClockBody
  <1> HIDE DEF Rest
  <1>4. ReadClock(text, at) = Rest(at + 1)
    BY <1>2, <1>3
  <1> QED
    BY <1>4 DEF Rest

\* A body of one reading, with a brace behind it.
LEMMA ReadClockOne ==
  ASSUME NEW text, NEW at \in Nat \ {0}, at <= Len(text), text[at] = Sign("open"),
         NEW p \in Nat, NEW c, ClockBody(text, at + 1) = {[at |-> p, clock |-> c]}
  PROVE  ReadClock(text, at) =
           IF p <= Len(text) /\ text[p][1] = "close" THEN {[at |-> p + 1, clock |-> c]} ELSE {}
  <1>1. ReadClock(text, at) =
           {[at |-> read.at + 1, clock |-> read.clock] :
              read \in {r \in ClockBody(text, at + 1) : ReadChars(text, r.at, <<"close">>) # {}}}
    BY ReadClockBody
  <1>2. ReadChars(text, p, <<"close">>) = IF p <= Len(text) /\ text[p][1] = "close" THEN {p + 1} ELSE {}
    BY ReadOne
  <1> DEFINE r0 == [at |-> p, clock |-> c]
  <1>3. r0.at = p /\ r0.clock = c
    OBVIOUS
  <1>4. CASE p <= Len(text) /\ text[p][1] = "close"
    <2>1. {r \in {r0} : ReadChars(text, r.at, <<"close">>) # {}} = {r0}
      BY <1>2, <1>3, <1>4
    <2> QED
      BY <1>1, <1>3, <1>4, <2>1
  <1>5. CASE ~(p <= Len(text) /\ text[p][1] = "close")
    <2>1. {r \in {r0} : ReadChars(text, r.at, <<"close">>) # {}} = {}
      BY <1>2, <1>3, <1>5
    <2> QED
      BY <1>1, <1>5, <2>1
  <1> QED
    BY <1>4, <1>5

\* Clock::Read undoes operator<<(Clock).
THEOREM ClockReadBack ==
  ASSUME NEW text, NEW at, NEW c, IsClock(c),
         Shows(text, at, WriteClock(c), Len(WriteClock(c)))
  PROVE  ReadClock(text, at) = {[at |-> at + Len(WriteClock(c)), clock |-> c]}
  <1> DEFINE n == Cardinality(DOMAIN c)
             W == WriteClock(c)
  <1>1. n \in Nat
    BY KeyIds
  <1>2. ClockTokens(c, n, W)
    BY ClockText
  <1>3. Shows(text, at, W, Len(W))
    OBVIOUS
  <1> HIDE DEF n, W
  <1>4. Len(text) \in Nat /\ at \in Nat \ {0} /\ Len(W) \in Nat /\ at - 1 + Len(W) <= Len(text)
        /\ \A j \in 1..Len(W) : text[at - 1 + j] = W[j]
    BY <1>3 DEF Shows
  <1>5. Len(W) >= 2
    BY <1>1, <1>2 DEF ClockTokens
  <1>6. at <= Len(text) /\ text[at] = Sign("open")
    <2>1. 1 \in 1..Len(W) /\ at - 1 + 1 = at
      BY <1>4, <1>5
    <2>2. text[at] = W[1]
      BY <1>4, <2>1
    <2> QED
      BY <1>4, <1>5, <2>2, <1>2 DEF ClockTokens
  <1>7. CASE n = 0
    <2>1. Len(W) = 2 /\ W[2] = Sign("close")
      BY <1>2, <1>7 DEF ClockTokens
    <2>2. at + 1 <= Len(text) /\ text[at + 1] = Sign("close") /\ at + 1 \in Nat
      <3>1. 2 \in 1..Len(W) /\ at - 1 + 2 = at + 1
        BY <1>4, <2>1
      <3>2. text[at + 1] = W[2]
        BY <1>4, <3>1
      <3> QED
        BY <1>4, <2>1, <3>2
    <2>3. text[at + 1][1] = "close"
      BY <2>2, TokenParts
    <2>4. ReadChars(text, at + 1, <<"open">>) = {}
      BY <2>2, <2>3, ReadOne
    <2>5. c = EmptyClock
      <3>1. DOMAIN c = {}
        BY <1>7, FS_EmptySet DEF IsClock, n
      <3> QED
        BY <3>1 DEF IsClock, EmptyClock
    <2>6. ClockBody(text, at + 1) = {[at |-> at + 1, clock |-> c]}
      BY <2>4, <2>5 DEF ClockBody
    <2>7. ReadClock(text, at) = {[at |-> at + 1 + 1, clock |-> c]}
      BY <1>4, <1>6, <2>2, <2>3, <2>6, ReadClockOne
    <2>8. at + 1 + 1 = at + Len(W)
      BY <1>4, <2>1
    <2> QED
      BY <2>7, <2>8 DEF W
  <1>8. CASE n # 0
    <2>1. Len(W) = 6 * n + 1 /\ n \in Nat \ {0} /\ n \in 1..n
      BY <1>1, <1>2, <1>8 DEF ClockTokens
    <2>2. Shows(text, at, W, 6 * n + 1)
      BY <1>3, <2>1
    <2>3. Turns(text, at + 1) = {n}
      BY <1>2, <2>1, <2>2, TurnsOfClock
    <2>4. PairsRead(text, at + 1, n) = c
      BY <1>1, <1>2, <2>1, <1>3, PairsOfClock DEF n
    <2>5. ReadPairs(text, at + 1) = {[at |-> at + 1 + 6 * n - 1, clock |-> c]}
      BY <2>3, <2>4 DEF ReadPairs
    <2> DEFINE p == at + 6 * n
    <2>6. p \in Nat /\ p = at + 1 + 6 * n - 1 /\ p + 1 = at + Len(W) /\ p <= Len(text)
      BY <1>4, <2>1
    <2>7. ReadPairs(text, at + 1) = {[at |-> p, clock |-> c]}
      BY <2>5, <2>6
    <2>8. text[p][1] = "close"
      <3>1. 6 * n + 1 \in 1..Len(W) /\ at - 1 + (6 * n + 1) = p
        BY <1>4, <2>1
      <3>2. text[p] = W[6 * n + 1]
        BY <1>4, <3>1
      <3>3. W[6 * n + 1] = Sign("close")
        <4>1. W[6 * n + 1] = Sign(IF n < n THEN "comma" ELSE "close")
          BY <1>2, <2>1 DEF ClockTokens
        <4>2. ~(n < n)
          BY <2>1
        <4> QED
          BY <4>1, <4>2
      <3> HIDE DEF p
      <3> QED
        BY <3>2, <3>3, TokenParts
    <2>9. ReadChars(text, at + 1, <<"open">>) # {}
      <3>1. 2 \in 1..Len(W) /\ at - 1 + 2 = at + 1 /\ at + 1 \in Nat /\ at + 1 <= Len(text)
        BY <1>4, <2>1
      <3>2. W[2] = Sign("open")
        <4>1. 1 \in 1..n /\ 6 * 1 - 4 = 2
          BY <2>1
        <4> QED
          BY <4>1, <1>2 DEF ClockTokens
      <3>3. text[at + 1] = Sign("open")
        BY <1>4, <3>1, <3>2
      <3>4. text[at + 1][1] = "open"
        BY <3>3, TokenParts
      <3> QED
        BY <3>1, <3>4, ReadOne
    <2>10. ClockBody(text, at + 1) = {[at |-> p, clock |-> c]}
      BY <2>7, <2>9 DEF ClockBody
    <2> HIDE DEF p
    <2>11. ReadClock(text, at) = {[at |-> p + 1, clock |-> c]}
      <3>1. at \in Nat \ {0} /\ p \in Nat /\ p <= Len(text)
        BY <1>4, <2>6
      <3>2. ReadClock(text, at) =
              IF p <= Len(text) /\ text[p][1] = "close" THEN {[at |-> p + 1, clock |-> c]} ELSE {}
        BY <1>6, <2>10, <3>1, ReadClockOne
      <3> QED
        BY <2>8, <3>1, <3>2
    <2> QED
      BY <2>6, <2>11 DEF W
  <1> QED
    BY <1>7, <1>8

\* A clock that is cut off anywhere is not read at all.
THEOREM CutClockFails ==
  ASSUME NEW text, NEW at, NEW c, IsClock(c), NEW k \in 1..Len(WriteClock(c)) - 1,
         Shows(text, at, WriteClock(c), k), Len(text) = at - 1 + k
  PROVE  ReadClock(text, at) = {}
  <1> DEFINE n == Cardinality(DOMAIN c)
             W == WriteClock(c)
  <1>1. n \in Nat
    BY KeyIds
  <1>2. ClockTokens(c, n, W)
    BY ClockText
  <1>3. Shows(text, at, W, k) /\ k \in 1..Len(W) - 1
    OBVIOUS
  <1> HIDE DEF n, W
  <1>4. Len(text) \in Nat /\ at \in Nat \ {0} /\ k \in Nat \ {0}
        /\ \A j \in 1..k : text[at - 1 + j] = W[j]
    BY <1>3 DEF Shows
  <1>5. /\ n = 0 => k = 1
        /\ n # 0 => k <= 6 * n /\ W[2] = Sign("open")
    <2>1. CASE n = 0
      <3>1. Len(W) = 2
        BY <1>2, <2>1 DEF ClockTokens
      <3> QED
        BY <1>3, <2>1, <3>1
    <2>2. CASE n # 0
      <3>1. Len(W) = 6 * n + 1
        BY <1>1, <1>2, <2>2 DEF ClockTokens
      <3>2. 1 \in 1..n /\ 6 * 1 - 4 = 2
        BY <1>1, <2>2
      <3>3. W[2] = Sign("open")
        BY <1>2, <3>2 DEF ClockTokens
      <3> QED
        BY <1>1, <1>3, <1>4, <2>2, <3>1, <3>3
    <2> QED
      BY <2>1, <2>2
  <1>6. at <= Len(text) /\ text[at] = Sign("open")
    <2>1. 1 \in 1..k /\ at - 1 + 1 = at
      BY <1>4
    <2>2. text[at] = W[1]
      BY <1>4, <2>1
    <2> QED
      BY <1>4, <2>2, <1>2 DEF ClockTokens
  <1>7. ASSUME NEW r \in ClockBody(text, at + 1), ReadChars(text, r.at, <<"close">>) # {}
        PROVE  FALSE
    <2>1. CASE ReadChars(text, at + 1, <<"open">>) = {}
      <3>1. r.at = at + 1
        BY <1>7, <2>1 DEF ClockBody
      <3>2. at + 1 \in Nat
        BY <1>4
      <3>3. at + 1 <= Len(text) /\ text[at + 1][1] = "close"
        BY <1>7, <3>1, <3>2, ReadOne
      <3>4. 2 \in 1..k /\ at - 1 + 2 = at + 1
        BY <1>4, <3>3
      <3>5. text[at + 1] = W[2] /\ n # 0
        BY <1>4, <1>5, <3>4
      <3>6. text[at + 1][1] = "open"
        BY <1>5, <3>5, TokenParts
      <3> QED
        BY <3>3, <3>6
    <2>2. CASE ReadChars(text, at + 1, <<"open">>) # {}
      <3>1. PICK m \in Turns(text, at + 1) : r = [at |-> at + 1 + 6 * m - 1, clock |-> PairsRead(text, at + 1, m)]
        BY <1>7, <2>2 DEF ClockBody, ReadPairs
      <3>2. m \in 1..Len(text) \div 5 /\ ReadPair(text, at + 1 + 6 * m - 6) # {}
        BY DEF Turns
      <3>3. m \in Nat \ {0}
        BY <1>4, <3>2
      <3> DEFINE p == at + 1 + 6 * m - 6
                 q == at + 6 * m
      <3>4. p \in Nat /\ q \in Nat /\ at + 1 + 6 * m - 1 = q
        BY <1>4, <3>3
      <3>5. p + 4 <= Len(text)
        <4> HIDE DEF p
        <4>1. ReadChars(text, p, <<"open", "hex", "comma", "dec", "close">>) # {}
          BY <3>2 DEF ReadPair, p
        <4> QED
          BY <1>4, <3>4, <4>1, ReadFive
      <3>6. 6 * m <= k
        BY <1>4, <3>3, <3>5
      <3>7. r.at = q
        BY <3>1, <3>4
      <3>8. q <= Len(text) /\ text[q][1] = "close"
        <4> HIDE DEF q
        <4> QED
          BY <1>7, <3>4, <3>7, ReadOne
      <3>9. 6 * m + 1 <= k
        BY <1>4, <3>3, <3>8
      <3>10. n # 0 /\ m \in 1..n /\ m < n
        BY <1>1, <1>5, <3>3, <3>9
      <3>11. text[q] = Sign(IF m < n THEN "comma" ELSE "close")
        BY <1>1, <1>2, <1>3, <3>9, <3>10, BehindPair
      <3> HIDE DEF q
      <3>12. text[q][1] = "comma"
        BY <3>10, <3>11, TokenParts
      <3> QED
        BY <3>8, <3>12
    <2> QED
      BY <2>1, <2>2
  <1>8. ReadClock(text, at) =
          {[at |-> read.at + 1, clock |-> read.clock] :
             read \in {r \in ClockBody(text, at + 1) : ReadChars(text, r.at, <<"close">>) # {}}}
    BY <1>4, <1>6, ReadClockBody
  <1> QED
    BY <1>7, <1>8

-----------------------------------------------------------------------------
(***************************************************************************)
(* Reading an entry.                                                       *)
(***************************************************************************)

\* The tokens of an entry: no line feed is among them.
Ink == {"open", "close", "comma", "hex", "dec"} \X (Nat \cup Amount)

LEMMA InkTokens ==
  /\ Sign("open") \in Ink /\ Sign("close") \in Ink /\ Sign("comma") \in Ink
  /\ \A x \in Nat : Hex(x) \in Ink /\ Dec(x) \in Ink
  /\ \A x \in Amount : Dec(x) \in Ink
  /\ \A x \in Ink : x # Sign("LF")
  BY DEF Ink, Sign, Hex, Dec

\* The whole text W stands in text from the position at.
Has(text, at, W) == Shows(text, at, W, Len(W))

\* A part of what stands somewhere stands there.
LEMMA HasParts ==
  ASSUME NEW text, NEW at, NEW S, NEW s \in Seq(S), NEW t \in Seq(S), Has(text, at, s \o t)
  PROVE  Has(text, at, s) /\ Has(text, at + Len(s), t)
  <1> DEFINE W == s \o t
  <1>1. Len(W) = Len(s) + Len(t) /\ (\A i \in 1..Len(s) : W[i] = s[i])
        /\ \A i \in 1..Len(t) : W[Len(s) + i] = t[i]
    BY Behind
  <1>2. Len(s) \in Nat /\ Len(t) \in Nat
    BY LenProperties
  <1> HIDE DEF W
  <1>3. Len(text) \in Nat /\ at \in Nat \ {0} /\ at - 1 + Len(W) <= Len(text)
        /\ \A j \in 1..Len(W) : text[at - 1 + j] = W[j]
    BY DEF Has, Shows, W
  <1>4. Has(text, at, s)
    <2>1. ASSUME NEW j \in 1..Len(s) PROVE text[at - 1 + j] = s[j]
      <3>1. j \in 1..Len(W)
        BY <1>1, <1>2
      <3> QED
        BY <1>1, <1>3, <3>1
    <2>2. at - 1 + Len(s) <= Len(text)
      BY <1>1, <1>2, <1>3
    <2> QED
      BY <1>2, <1>3, <2>1, <2>2 DEF Has, Shows
  <1>5. Has(text, at + Len(s), t)
    <2>1. ASSUME NEW j \in 1..Len(t) PROVE text[at + Len(s) - 1 + j] = t[j]
      <3>1. Len(s) + j \in 1..Len(W) /\ at - 1 + (Len(s) + j) = at + Len(s) - 1 + j
        BY <1>1, <1>2, <1>3
      <3>2. text[at - 1 + (Len(s) + j)] = W[Len(s) + j]
        BY <1>3, <3>1
      <3> QED
        BY <1>1, <3>1, <3>2
    <2>2. at + Len(s) \in Nat \ {0} /\ at + Len(s) - 1 + Len(t) <= Len(text)
      BY <1>1, <1>2, <1>3
    <2> QED
      BY <1>2, <1>3, <2>1, <2>2 DEF Has, Shows
  <1> QED
    BY <1>4, <1>5

\* A token that stands somewhere is read there.
LEMMA HasOne ==
  ASSUME NEW text, NEW at, NEW x, Has(text, at, <<x>>)
  PROVE  at \in Nat \ {0} /\ at <= Len(text) /\ text[at] = x /\ ReadChars(text, at, <<x[1]>>) = {at + 1}
  <1>1. Len(<<x>>) = 1 /\ <<x>>[1] = x
    OBVIOUS
  <1>2. at \in Nat \ {0} /\ at - 1 + 1 <= Len(text) /\ Len(text) \in Nat
        /\ \A j \in 1..1 : text[at - 1 + j] = <<x>>[j]
    BY <1>1 DEF Has, Shows
  <1>3. at - 1 + 1 = at
    BY <1>2
  <1>4. text[at] = x /\ at <= Len(text)
    BY <1>1, <1>2, <1>3
  <1> QED
    BY <1>2, <1>4, ReadOne

\* The text of a clock is ink.
LEMMA ClockInk ==
  ASSUME NEW c, IsClock(c)
  PROVE  WriteClock(c) \in Seq(Ink)
  <1> DEFINE n == Cardinality(DOMAIN c)
             F == [t \in 1..6 * n |-> WritePair(c, (t + 5) \div 6)[1 + ((t + 5) % 6)]]
  <1>1. n \in Nat /\ \A k \in 1..n : KeyId(c, k) \in DOMAIN c
    BY KeyIds
  <1>2. CASE c = EmptyClock
    <2>1. WriteClock(c) = <<Sign("open")>> \o <<Sign("close")>>
      BY <1>2 DEF WriteClock
    <2>2. <<Sign("close")>> \in Seq(Ink)
      BY InkTokens
    <2> QED
      BY <2>1, <2>2, InkTokens, BehindOne
  <1>3. CASE c # EmptyClock
    <2>1. WriteClock(c) = <<Sign("open")>> \o F
      BY <1>3 DEF WriteClock
    <2>2. ASSUME NEW t \in 1..6 * n
          PROVE  WritePair(c, (t + 5) \div 6)[1 + ((t + 5) % 6)] \in Ink
      <3> DEFINE k == (t + 5) \div 6
                 j == (t + 5) % 6
      <3>1. k \in 1..n /\ j \in 0..5
        BY <1>1
      <3> HIDE DEF k, j, n
      <3>2. KeyId(c, k) \in Nat /\ c[KeyId(c, k)] \in Nat
        BY <1>1, <3>1 DEF IsClock
      <3> DEFINE P == WritePair(c, k)
      <3>3. P[1] = Sign("open") /\ P[2] = Hex(KeyId(c, k)) /\ P[3] = Sign("comma")
            /\ P[4] = Dec(c[KeyId(c, k)]) /\ P[5] = Sign("close")
            /\ P[6] = Sign(IF k < Cardinality(DOMAIN c) THEN "comma" ELSE "close")
        BY DEF WritePair
      <3>4. P[1] \in Ink /\ P[2] \in Ink /\ P[3] \in Ink /\ P[4] \in Ink /\ P[5] \in Ink /\ P[6] \in Ink
        BY <3>2, <3>3, InkTokens
      <3> HIDE DEF P
      <3>5. j = 0 \/ j = 1 \/ j = 2 \/ j = 3 \/ j = 4 \/ j = 5
        BY <3>1
      <3>6. P[1 + j] \in Ink
        BY <3>4, <3>5
      <3> QED
        BY <3>6 DEF P, k, j
    <2>3. F \in [1..6 * n -> Ink]
      BY <2>2
    <2> HIDE DEF F
    <2>4. 6 * n \in Nat
      BY <1>1
    <2>5. F \in Seq(Ink)
      BY <2>3, <2>4
    <2> QED
      BY <2>1, <2>5, InkTokens, BehindOne
  <1> QED
    BY <1>2, <1>3

\* An entry that can be written.
IsEntry(e) ==
  /\ e = [clock |-> e.clock, id |-> e.id, value |-> e.value, alters |-> e.alters]
  /\ IsClock(e.clock) /\ IsClock(e.alters)
  /\ e.id \in Nat /\ e.value \in Amount

\* The text of the data is ink too.
LEMMA DataInk ==
  ASSUME NEW e, IsEntry(e)
  PROVE  WriteData(e) \in Seq(Ink)
  <1> DEFINE P == <<Sign("open"), Hex(e.id), Sign("comma"), Dec(e.value), Sign("comma")>>
             C == WriteClock(e.alters)
             Z == <<Sign("close")>>
  <1>1. WriteData(e) = (P \o C) \o Z
    BY DEF WriteData
  <1>2. P \in Seq(Ink) /\ Z \in Seq(Ink)
    BY InkTokens DEF IsEntry
  <1>3. C \in Seq(Ink)
    BY ClockInk DEF IsEntry
  <1> HIDE DEF P, C, Z
  <1>4. P \o C \in Seq(Ink)
    BY <1>2, <1>3, Behind
  <1> QED
    BY <1>1, <1>2, <1>4, Behind

\* Data::Read undoes operator<<(Data).
LEMMA DataReadBack ==
  ASSUME NEW text, NEW at, NEW e, IsEntry(e), Has(text, at, WriteData(e))
  PROVE  /\ at + Len(WriteData(e)) \in Nat
         /\ ReadData(text, at) = {[at |-> at + Len(WriteData(e)), id |-> e.id, value |-> e.value,
                                   alters |-> e.alters]}
  <1> DEFINE P == <<Sign("open"), Hex(e.id), Sign("comma"), Dec(e.value), Sign("comma")>>
             C == WriteClock(e.alters)
             Z == <<Sign("close")>>
             D == WriteData(e)
  <1>1. D = (P \o C) \o Z
    BY DEF WriteData
  <1>2. P \in Seq(Ink) /\ Len(P) = 5 /\ Z \in Seq(Ink) /\ Len(Z) = 1
    BY InkTokens DEF IsEntry
  <1>3. P[1] = Sign("open") /\ P[2] = Hex(e.id) /\ P[3] = Sign("comma")
        /\ P[4] = Dec(e.value) /\ P[5] = Sign("comma")
    OBVIOUS
  <1>4. C \in Seq(Ink)
    BY ClockInk DEF IsEntry
  <1>5. Has(text, at, D)
    OBVIOUS
  <1> HIDE DEF P, C, D
  <1>6. P \o C \in Seq(Ink) /\ D \in Seq(Ink) /\ Len(C) \in Nat
        /\ Len(P \o C) = 5 + Len(C) /\ Len(D) = 5 + Len(C) + 1
    <2>1. P \o C \in Seq(Ink) /\ Len(P \o C) = 5 + Len(C)
      <3>1. P \o C \in Seq(Ink) /\ Len(P \o C) = Len(P) + Len(C)
        BY <1>2, <1>4, Behind
      <3> QED
        BY <1>2, <3>1
    <2>2. D \in Seq(Ink) /\ Len(D) = Len(P \o C) + Len(Z)
      BY <1>1, <1>2, <2>1, Behind
    <2> QED
      BY <1>2, <1>4, <2>1, <2>2, LenProperties
  <1>7. Has(text, at, P \o C) /\ Has(text, at + Len(P \o C), Z)
    BY <1>1, <1>2, <1>5, <1>6, HasParts
  <1>8. Has(text, at, P) /\ Has(text, at + Len(P), C)
    BY <1>2, <1>4, <1>7, HasParts
  <1>9. at \in Nat \ {0} /\ Len(text) \in Nat /\ at - 1 + 5 <= Len(text)
        /\ \A j \in 1..5 : text[at - 1 + j] = P[j]
    BY <1>2, <1>8 DEF Has, Shows
  <1>10. text[at] = Sign("open") /\ text[at + 1] = Hex(e.id) /\ text[at + 2] = Sign("comma")
         /\ text[at + 3] = Dec(e.value) /\ text[at + 4] = Sign("comma")
    <2>1. /\ at - 1 + 1 = at /\ at - 1 + 2 = at + 1 /\ at - 1 + 3 = at + 2 /\ at - 1 + 4 = at + 3
          /\ at - 1 + 5 = at + 4 /\ 1 \in 1..5 /\ 2 \in 1..5 /\ 3 \in 1..5 /\ 4 \in 1..5 /\ 5 \in 1..5
      BY <1>9
    <2> QED
      BY <1>3, <1>9, <2>1
  <1>11. ReadChars(text, at, <<"open", "hex", "comma", "dec", "comma">>) = {at + 5}
    <2>1. at \in Nat /\ at + 4 <= Len(text)
      BY <1>9
    <2>2. text[at][1] = "open" /\ text[at + 1][1] = "hex" /\ text[at + 2][1] = "comma"
          /\ text[at + 3][1] = "dec" /\ text[at + 4][1] = "comma"
      BY <1>10, TokenParts
    <2> QED
      BY <1>9, <2>1, <2>2, ReadFive
  <1> DEFINE r == [at |-> at + 5 + Len(C), clock |-> e.alters]
             Rest(p) == {[at |-> alters.at + 1, id |-> text[at + 1][2], value |-> text[at + 3][2],
                          alters |-> alters.clock] :
                            alters \in {s \in ReadClock(text, p) : ReadChars(text, s.at, <<"close">>) # {}}}
  <1>12. ReadClock(text, at + 5) = {r}
    <2>1. IsClock(e.alters) /\ Shows(text, at + 5, C, Len(C))
      BY <1>2, <1>8 DEF IsEntry, Has
    <2> QED
      BY <2>1, ClockReadBack DEF C
  <1>13. ReadChars(text, r.at, <<"close">>) # {}
    <2>1. at + Len(P \o C) = at + 5 + Len(C)
      BY <1>6, <1>9
    <2>2. Has(text, at + 5 + Len(C), Z)
      BY <1>7, <2>1
    <2> DEFINE q == at + 5 + Len(C)
               x == Sign("close")
    <2>3. Has(text, q, <<x>>) /\ x[1] = "close"
      BY <2>2, TokenParts
    <2>4. r.at = q
      OBVIOUS
    <2> HIDE DEF q, x, r, Rest
    <2>5. ReadChars(text, q, <<x[1]>>) = {q + 1}
      BY <2>3, HasOne
    <2> QED
      BY <2>3, <2>4, <2>5
  <1>14. ReadData(text, at) = UNION {Rest(p) : p \in {at + 5}}
    BY <1>11 DEF ReadData
  <1>15. ReadData(text, at) = Rest(at + 5)
    <2> HIDE DEF Rest
    <2> QED
      BY <1>14
  <1>16. {s \in ReadClock(text, at + 5) : ReadChars(text, s.at, <<"close">>) # {}} = {r}
    BY <1>12, <1>13
  <1>17. text[at + 1][2] = e.id /\ text[at + 3][2] = e.value
    BY <1>10, TokenParts
  <1>18. r.at + 1 = at + Len(D) /\ r.clock = e.alters /\ at + Len(D) \in Nat
    BY <1>6, <1>9
  <1> HIDE DEF r
  <1>19. ReadData(text, at) = {[at |-> at + Len(D), id |-> e.id, value |-> e.value, alters |-> e.alters]}
    BY <1>15, <1>16, <1>17, <1>18
  <1> QED
    BY <1>6, <1>18, <1>19 DEF D

\* The parts of the text W of an entry: the clock C and the data D.
PartsStand(text, at, W, C, D) ==
  /\ at \in Nat \ {0} /\ Len(C) \in Nat /\ Len(D) \in Nat
  /\ Len(W) = 1 + Len(C) + 1 + Len(D) + 1
  /\ Has(text, at, <<Sign("open")>>)
  /\ Has(text, at + 1, C)
  /\ Has(text, at + 1 + Len(C), <<Sign("comma")>>)
  /\ Has(text, at + 1 + Len(C) + 1, D)
  /\ Has(text, at + 1 + Len(C) + 1 + Len(D), <<Sign("close")>>)

LEMMA EntryParts ==
  ASSUME NEW text, NEW at, NEW e, IsEntry(e), Has(text, at, WriteEntry(e))
  PROVE  PartsStand(text, at, WriteEntry(e), WriteClock(e.clock), WriteData(e))
  <1> DEFINE C == WriteClock(e.clock)
             D == WriteData(e)
             o == <<Sign("open")>>
             m == <<Sign("comma")>>
             z == <<Sign("close")>>
             W == WriteEntry(e)
             A == o \o C
             B == A \o m
             F == B \o D
  <1>1. W = F \o z /\ Has(text, at, W)
    BY DEF WriteEntry
  <1>2. o \in Seq(Ink) /\ m \in Seq(Ink) /\ z \in Seq(Ink)
        /\ Len(o) = 1 /\ Len(m) = 1 /\ Len(z) = 1
    BY InkTokens
  <1>3. C \in Seq(Ink) /\ D \in Seq(Ink) /\ Len(C) \in Nat /\ Len(D) \in Nat
    <2>1. C \in Seq(Ink)
      BY ClockInk DEF IsEntry
    <2>2. D \in Seq(Ink)
      BY DataInk
    <2> QED
      BY <2>1, <2>2, LenProperties
  <1> HIDE DEF o, m, z, W, C, D
  <1>4. A \in Seq(Ink) /\ Len(A) = Len(o) + Len(C)
    BY <1>2, <1>3, Behind
  <1> HIDE DEF A
  <1>5. B \in Seq(Ink) /\ Len(B) = Len(A) + Len(m)
    BY <1>2, <1>4, Behind
  <1> HIDE DEF B
  <1>6. F \in Seq(Ink) /\ Len(F) = Len(B) + Len(D)
    BY <1>3, <1>5, Behind
  <1> HIDE DEF F
  <1>7. W \in Seq(Ink) /\ Len(W) = Len(F) + Len(z)
    BY <1>1, <1>2, <1>6, Behind
  <1>8. Has(text, at, F) /\ Has(text, at + Len(F), z)
    BY <1>1, <1>2, <1>6, HasParts
  <1>9. Has(text, at, B) /\ Has(text, at + Len(B), D)
    BY <1>8, <1>3, <1>5, HasParts DEF F
  <1>10. Has(text, at, A) /\ Has(text, at + Len(A), m)
    BY <1>9, <1>2, <1>4, HasParts DEF B
  <1>11. Has(text, at, o) /\ Has(text, at + Len(o), C)
    BY <1>10, <1>2, <1>3, HasParts DEF A
  <1>12. at \in Nat \ {0}
    BY <1>1 DEF Has, Shows
  <1>13. /\ at + Len(o) = at + 1
         /\ at + Len(A) = at + 1 + Len(C)
         /\ at + Len(B) = at + 1 + Len(C) + 1
         /\ at + Len(F) = at + 1 + Len(C) + 1 + Len(D)
         /\ Len(W) = 1 + Len(C) + 1 + Len(D) + 1
    BY <1>2, <1>3, <1>4, <1>5, <1>6, <1>7, <1>12
  <1>14. /\ Has(text, at + 1, C)
         /\ Has(text, at + 1 + Len(C), m)
         /\ Has(text, at + 1 + Len(C) + 1, D)
         /\ Has(text, at + 1 + Len(C) + 1 + Len(D), z)
    BY <1>8, <1>9, <1>10, <1>11, <1>13
  <1> QED
    BY <1>3, <1>11, <1>12, <1>13, <1>14 DEF o, m, z, W, C, D, PartsStand

\* Entry::Read undoes operator<<(Entry), wherever the entry stands.
THEOREM EntryReadBack ==
  ASSUME NEW text, NEW at, NEW e, IsEntry(e), Has(text, at, WriteEntry(e))
  PROVE  ReadEntry(text, at) = {[at |-> at + Len(WriteEntry(e)), entry |-> e]}
  <1> DEFINE C == WriteClock(e.clock)
             D == WriteData(e)
             p == at + 1
             q == p + Len(C)
             s == q + 1
             t == s + Len(D)
             rc == [at |-> q, clock |-> e.clock]
             rd == [at |-> t, id |-> e.id, value |-> e.value, alters |-> e.alters]
             Result(clock_, data) == [at |-> data.at + 1,
                                      entry |-> [clock |-> clock_.clock, id |-> data.id,
                                                 value |-> data.value, alters |-> data.alters]]
             Datas(c) == {r \in ReadData(text, c.at + 1) : ReadChars(text, r.at, <<"close">>) # {}}
             Clocks_(a) == {r \in ReadClock(text, a) : ReadChars(text, r.at, <<"comma">>) # {}}
  <1>1. /\ at \in Nat \ {0} /\ Len(C) \in Nat /\ Len(D) \in Nat
        /\ Len(WriteEntry(e)) = 1 + Len(C) + 1 + Len(D) + 1
        /\ Has(text, at, <<Sign("open")>>) /\ Has(text, p, C) /\ Has(text, q, <<Sign("comma")>>)
        /\ Has(text, s, D) /\ Has(text, t, <<Sign("close")>>)
    <2>1. PartsStand(text, at, WriteEntry(e), C, D)
      BY EntryParts
    <2> HIDE DEF C, D, Result, Datas, Clocks_
    <2> QED
      BY <2>1 DEF PartsStand
  <1> DEFINE w == at + Len(WriteEntry(e))
  <1>2. t + 1 = w
    BY <1>1
  <1> HIDE DEF w
  <1>3. ReadClock(text, p) = {rc}
    <2>1. Shows(text, p, WriteClock(e.clock), Len(WriteClock(e.clock))) /\ IsClock(e.clock)
      BY <1>1 DEF Has, IsEntry
    <2> HIDE DEF p
    <2> QED
      BY <2>1, ClockReadBack
  <1>4. ReadData(text, s) = {rd}
    <2> HIDE DEF s
    <2> QED
      BY <1>1, DataReadBack
  <1>5. ReadChars(text, at, <<"open">>) = {p} /\ ReadChars(text, q, <<"comma">>) # {}
        /\ ReadChars(text, t, <<"close">>) # {}
    <2>1. Sign("open")[1] = "open" /\ Sign("comma")[1] = "comma" /\ Sign("close")[1] = "close"
      BY TokenParts
    <2> DEFINE a == Sign("open")
               b == Sign("comma")
               c == Sign("close")
    <2> HIDE DEF q, t, a, b, c
    <2>2. ReadChars(text, at, <<a[1]>>) = {at + 1}
      BY <1>1, HasOne DEF a
    <2>3. ReadChars(text, q, <<b[1]>>) = {q + 1}
      BY <1>1, HasOne DEF b
    <2>4. ReadChars(text, t, <<c[1]>>) = {t + 1}
      BY <1>1, HasOne DEF c
    <2> QED
      BY <2>1, <2>2, <2>3, <2>4 DEF a, b, c
  <1>6. ReadEntry(text, at) =
          UNION {UNION {{Result(c, d) : d \in Datas(c)} : c \in Clocks_(a)} :
                   a \in ReadChars(text, at, <<"open">>)}
    BY DEF ReadEntry
  <1>7. rc.at = q /\ rc.clock = e.clock /\ rd.at = t /\ rd.id = e.id /\ rd.value = e.value
        /\ rd.alters = e.alters /\ rc.at + 1 = s
    OBVIOUS
  <1> HIDE DEF p, q, s, t, rc, rd
  <1>8. Clocks_(p) = {rc}
    BY <1>3, <1>5, <1>7
  <1>9. Datas(rc) = {rd}
    BY <1>4, <1>5, <1>7
  <1>10. Result(rc, rd) = [at |-> w, entry |-> e]
    BY <1>2, <1>7 DEF IsEntry
  <1> HIDE DEF Result, Datas, Clocks_
  <1>11. ReadEntry(text, at) = UNION {UNION {{Result(c, d) : d \in Datas(c)} : c \in Clocks_(a)} : a \in {p}}
    BY <1>5, <1>6
  <1>12. ReadEntry(text, at) = {Result(rc, rd)}
    BY <1>8, <1>9, <1>11
  <1> QED
    BY <1>10, <1>12 DEF w

LEMMA EntryInk ==
  ASSUME NEW e, IsEntry(e)
  PROVE  WriteEntry(e) \in Seq(Ink)
  <1> DEFINE o == <<Sign("open")>>
             m == <<Sign("comma")>>
             z == <<Sign("close")>>
             C == WriteClock(e.clock)
             D == WriteData(e)
  <1>1. WriteEntry(e) = (((o \o C) \o m) \o D) \o z
    BY DEF WriteEntry
  <1>2. o \in Seq(Ink) /\ m \in Seq(Ink) /\ z \in Seq(Ink)
    BY InkTokens
  <1>3. C \in Seq(Ink) /\ D \in Seq(Ink)
    BY ClockInk, DataInk DEF IsEntry
  <1> HIDE DEF o, m, z, C, D
  <1>4. o \o C \in Seq(Ink)
    BY <1>2, <1>3, Behind
  <1>5. (o \o C) \o m \in Seq(Ink)
    BY <1>2, <1>4, Behind
  <1>6. ((o \o C) \o m) \o D \in Seq(Ink)
    BY <1>3, <1>5, Behind
  <1> QED
    BY <1>1, <1>2, <1>6, Behind

-----------------------------------------------------------------------------
(***************************************************************************)
(* The lines of a file.                                                    *)
(***************************************************************************)

\* What stands in a file.
Letter == Ink \cup {Sign("LF")}

\* The text has count lines, one for each entry of es, and line k ends at ends[k].
FileOf(text, count, es, ends) ==
  /\ text \in Seq(Letter) /\ count \in Nat
  /\ \A k \in 1..count : IsEntry(es[k])
  /\ \A k \in 0..count : ends[k] \in Nat
  /\ ends[0] = 0 /\ ends[count] = Len(text)
  /\ \A k \in 1..count :
       /\ ends[k] = ends[k - 1] + Len(WriteEntry(es[k])) + 1
       /\ Has(text, ends[k - 1] + 1, WriteEntry(es[k]))
       /\ text[ends[k]] = Sign("LF")

\* Lines follow each other.
LEMMA EndsGrow ==
  ASSUME NEW text, NEW count, NEW es, NEW ends, FileOf(text, count, es, ends),
         NEW j \in 0..count, NEW k \in 0..count, j < k
  PROVE  ends[j] < ends[k]
  <1>1. \A i \in 1..count : ends[i - 1] < ends[i]
    <2> SUFFICES ASSUME NEW i \in 1..count PROVE ends[i - 1] < ends[i]
      OBVIOUS
    <2>1. ends[i] = ends[i - 1] + Len(WriteEntry(es[i])) + 1 /\ i - 1 \in 0..count
      BY DEF FileOf
    <2>2. Len(WriteEntry(es[i])) \in Nat
      BY EntryInk, LenProperties DEF FileOf
    <2>3. ends[i - 1] \in Nat
      BY <2>1 DEF FileOf
    <2> QED
      BY <2>1, <2>2, <2>3
  <1> DEFINE Bad == {i \in 0..count : j < i /\ ~(ends[j] < ends[i])}
  <1>2. SUFFICES ASSUME Bad # {} PROVE FALSE
    OBVIOUS
  <1>3. count \in Nat /\ \A i \in 0..count : ends[i] \in Nat
    BY DEF FileOf
  <1>4. PICK i \in Bad : \A l \in Nat : l < i => l \notin Bad
    <2>1. Bad \in SUBSET Nat
      BY <1>3
    <2> HIDE DEF Bad
    <2> QED
      BY <1>2, <2>1, LeastBad
  <1>5. i \in 1..count /\ j <= i - 1 /\ i - 1 \in 0..count /\ i - 1 \in Nat /\ i - 1 < i
    BY <1>3
  <1>6. ends[i - 1] < ends[i] /\ ~(ends[j] < ends[i])
    BY <1>1, <1>5
  <1>7. CASE i - 1 = j
    BY <1>6, <1>7
  <1>8. CASE i - 1 # j
    <2>1. ends[j] < ends[i - 1]
      BY <1>4, <1>5, <1>8
    <2> QED
      BY <1>3, <1>5, <1>6, <2>1
  <1> QED
    BY <1>7, <1>8

\* The line feeds are the ends of the lines.
LEMMA FeedsAreEnds ==
  ASSUME NEW text, NEW count, NEW es, NEW ends, FileOf(text, count, es, ends)
  PROVE  LineFeeds(text) = {ends[k] : k \in 1..count}
  <1>1. count \in Nat /\ Len(text) \in Nat /\ ends[0] = 0 /\ ends[count] = Len(text)
        /\ \A k \in 0..count : ends[k] \in Nat
    BY LenProperties DEF FileOf
  <1>2. ASSUME NEW k \in 1..count PROVE ends[k] \in LineFeeds(text)
    <2>1. 0 \in 0..count /\ k \in 0..count /\ 0 < k /\ count \in 0..count
      BY <1>1
    <2>2. ends[0] < ends[k]
      BY <2>1, EndsGrow
    <2>3. ends[k] <= ends[count]
      <3>1. CASE k = count
        BY <1>1, <2>1, <3>1
      <3>2. CASE k # count
        <4>1. k < count
          BY <1>1, <3>2
        <4>2. ends[k] < ends[count]
          BY <2>1, <4>1, EndsGrow
        <4> QED
          BY <1>1, <2>1, <4>2
      <3> QED
        BY <3>1, <3>2
    <2>4. ends[k] \in 1..Len(text)
      BY <1>1, <2>1, <2>2, <2>3
    <2>5. text[ends[k]] = Sign("LF")
      BY DEF FileOf
    <2> QED
      BY <2>4, <2>5 DEF LineFeeds
  <1>3. ASSUME NEW p \in LineFeeds(text) PROVE \E k \in 1..count : p = ends[k]
    <2>1. p \in 1..Len(text) /\ text[p] = Sign("LF")
      BY DEF LineFeeds
    <2> DEFINE Far == {k \in 0..count : p <= ends[k]}
    <2>2. PICK k \in Far : \A l \in Nat : l < k => l \notin Far
      <3>1. Far \in SUBSET Nat /\ count \in Far
        BY <1>1, <2>1
      <3> HIDE DEF Far
      <3> QED
        BY <3>1, LeastBad
    <2>3. k \in 0..count /\ p <= ends[k] /\ k # 0
      BY <1>1, <2>1
    <2>4. k \in 1..count /\ k - 1 \in 0..count /\ k - 1 \in Nat /\ k - 1 < k
      BY <1>1, <2>3
    <2>5. ends[k - 1] < p
      BY <1>1, <2>1, <2>2, <2>4
    <2> DEFINE W == WriteEntry(es[k])
               b == ends[k - 1]
    <2>6. W \in Seq(Ink) /\ ends[k] = b + Len(W) + 1 /\ Has(text, b + 1, W)
      BY <2>4, EntryInk DEF FileOf
    <2>7. b \in Nat /\ Len(W) \in Nat /\ b < p /\ p \in Nat
      BY <1>1, <2>1, <2>4, <2>5, <2>6, LenProperties
    <2> HIDE DEF W, b, Far
    <2>8. CASE p # ends[k]
      <3>1. p - b \in 1..Len(W) /\ (b + 1) - 1 + (p - b) = p
        BY <2>3, <2>6, <2>7, <2>8
      <3>2. text[p] = W[p - b]
        BY <2>6, <3>1 DEF Has, Shows
      <3>3. W[p - b] \in Ink
        BY <2>6, <3>1, ElementOfSeq
      <3> QED
        BY <2>1, <3>2, <3>3, InkTokens
    <2> QED
      BY <2>4, <2>8
  <1> QED
    BY <1>2, <1>3

\* The first k lines have k ends.
LEMMA CountEnds ==
  ASSUME NEW text, NEW count, NEW es, NEW ends, FileOf(text, count, es, ends), NEW k \in 0..count
  PROVE  Cardinality({ends[j] : j \in 1..k}) = k /\ IsFiniteSet({ends[j] : j \in 1..k})
  <1> DEFINE S == 1..k
             T == {ends[j] : j \in S}
             f == [j \in S |-> ends[j]]
  <1>1. count \in Nat /\ k \in Nat /\ \A j \in S : j \in 0..count
    BY DEF FileOf
  <1>2. \A i, j \in S : ends[i] = ends[j] => i = j
    <2> SUFFICES ASSUME NEW i \in S, NEW j \in S, ends[i] = ends[j], i # j PROVE FALSE
      OBVIOUS
    <2>1. i \in 0..count /\ j \in 0..count /\ ends[i] \in Nat /\ (i < j \/ j < i)
      BY <1>1 DEF FileOf
    <2>2. ends[i] < ends[j] \/ ends[j] < ends[i]
      BY <2>1, EndsGrow
    <2> QED
      BY <2>1, <2>2
  <1>3. f \in Injection(S, T) /\ f \in Surjection(S, T)
    BY <1>2 DEF Injection, Surjection, IsInjective
  <1>4. IsFiniteSet(S) /\ Cardinality(S) = k
    BY <1>1, FS_Interval
  <1> HIDE DEF S, T, f
  <1>5. IsFiniteSet(T) /\ Cardinality(T) = Cardinality(S)
    BY <1>3, <1>4, FS_Surjection
  <1> QED
    BY <1>4, <1>5 DEF T, S

\* SeekToLine finds every line of the file where it begins.
LEMMA LinesStart ==
  ASSUME NEW text, NEW count, NEW es, NEW ends, FileOf(text, count, es, ends)
  PROVE  /\ LineCount(text) = count
         /\ \A k \in 1..count : LineStart(text, k) = ends[k - 1] + 1
  <1>1. count \in Nat /\ count \in 0..count /\ ends[0] = 0 /\ \A k \in 0..count : ends[k] \in Nat
    BY DEF FileOf
  <1>2. LineFeeds(text) = {ends[k] : k \in 1..count}
    BY FeedsAreEnds
  <1>3. LineCount(text) = count
    BY <1>1, <1>2, CountEnds DEF LineCount
  <1>4. ASSUME NEW k \in 1..count
        PROVE  Cardinality({j \in LineFeeds(text) : j <= ends[k]}) = k
    <2>1. ASSUME NEW i \in 1..count PROVE ends[i] <= ends[k] <=> i \in 1..k
      <3>1. i \in 0..count /\ k \in 0..count /\ i \in Nat /\ k \in Nat /\ ends[i] \in Nat /\ ends[k] \in Nat
        BY <1>1
      <3>2. i < k => ends[i] < ends[k]
        BY <3>1, EndsGrow
      <3>3. k < i => ends[k] < ends[i]
        BY <3>1, EndsGrow
      <3> QED
        BY <3>1, <3>2, <3>3
    <2>2. 1..k \subseteq 1..count
      BY <1>1
    <2>3. {j \in LineFeeds(text) : j <= ends[k]} = {ends[i] : i \in 1..k}
      BY <1>2, <2>1, <2>2
    <2>4. k \in 0..count
      BY <1>1
    <2> QED
      BY <2>3, <2>4, CountEnds
  <1>5. ASSUME NEW k \in 1..count PROVE LineStart(text, k) = ends[k - 1] + 1
    <2>1. CASE k = 1
      <3>1. LineStart(text, k) = 1 /\ k - 1 = 0
        BY <2>1 DEF LineStart
      <3> QED
        BY <1>1, <3>1
    <2>2. CASE k # 1
      <3>1. k - 1 \in 1..count /\ k - 1 \in 0..count
        BY <1>1, <2>2
      <3> DEFINE Upto(p) == Cardinality({j \in LineFeeds(text) : j <= p})
                 q == CHOOSE p \in LineFeeds(text) : Upto(p) = k - 1
      <3>2. \A i \in 1..count : Upto(ends[i]) = i
        BY <1>4
      <3>3. LineStart(text, k) = 1 + q
        BY <2>2 DEF LineStart
      <3> HIDE DEF Upto
      <3>4. q = ends[k - 1]
        BY <1>2, <3>1, <3>2
      <3>5. ends[k - 1] \in Nat
        BY <1>1, <3>1
      <3> HIDE DEF q
      <3> QED
        BY <3>3, <3>4, <3>5
    <2> QED
      BY <2>1, <2>2
  <1> QED
    BY <1>3, <1>5

\* What stands on a line is read from its start.
LEMMA LineIsRead ==
  ASSUME NEW text, NEW count, NEW es, NEW ends, FileOf(text, count, es, ends), NEW k \in 1..count
  PROVE  /\ ReadEntry(text, ends[k - 1] + 1) = {[at |-> ends[k], entry |-> es[k]]}
         /\ ReadChars(text, ends[k], <<"LF">>) = {ends[k] + 1}
  <1> DEFINE W == WriteEntry(es[k])
             b == ends[k - 1]
  <1>1. /\ IsEntry(es[k]) /\ ends[k] = b + Len(W) + 1 /\ Has(text, b + 1, W)
        /\ text[ends[k]] = Sign("LF")
    BY DEF FileOf
  <1>2. count \in Nat /\ b \in Nat /\ ends[k] \in Nat
    BY DEF FileOf
  <1>3. ends[k] \in LineFeeds(text)
    BY FeedsAreEnds
  <1>4. ends[k] <= Len(text)
    BY <1>3 DEF LineFeeds
  <1>5. Len(W) \in Nat
    BY <1>1, EntryInk, LenProperties
  <1> HIDE DEF b
  <1>6. ReadEntry(text, b + 1) = {[at |-> (b + 1) + Len(W), entry |-> es[k]]}
    BY <1>1, EntryReadBack
  <1>7. (b + 1) + Len(W) = ends[k]
    BY <1>1, <1>2, <1>5
  <1>8. ReadChars(text, ends[k], <<"LF">>) = {ends[k] + 1}
    <2>1. text[ends[k]][1] = "LF"
      BY <1>1, TokenParts
    <2> QED
      BY <1>2, <1>4, <2>1, ReadOne
  <1> QED
    BY <1>6, <1>7, <1>8 DEF b

\* One turn of the loop of JournalFile::entries.
LEMMA TurnOfEntries ==
  ASSUME NEW text, NEW count, NEW es, NEW ends, FileOf(text, count, es, ends), NEW k \in 1..count,
         NEW E
  PROVE  ReadLine(text, [at |-> ends[k - 1] + 1, entries |-> E]) =
           {[at |-> ends[k] + 1, entries |-> E \cup {es[k]}]}
  <1> DEFINE list == [at |-> ends[k - 1] + 1, entries |-> E]
             r == [at |-> ends[k], entry |-> es[k]]
             Then(read) == [at |-> IF ReadChars(text, read.at, <<"LF">>) = {} THEN read.at ELSE read.at + 1,
                            entries |-> list.entries \cup {read.entry}]
  <1>1. ReadEntry(text, list.at) = {r} /\ ReadChars(text, ends[k], <<"LF">>) = {ends[k] + 1}
    BY LineIsRead
  <1>2. ReadLine(text, list) = {Then(read) : read \in {r}}
    BY <1>1 DEF ReadLine
  <1>3. Then(r) = [at |-> ends[k] + 1, entries |-> E \cup {es[k]}]
    BY <1>1
  <1> HIDE DEF Then, r
  <1> QED
    BY <1>2, <1>3

\* The lists that the loop of JournalFile::entries goes through.
ListsOf(text, f, m) ==
  f = [k \in 0..m |-> IF k = 0 THEN {[at |-> 1, entries |-> {}]}
                               ELSE UNION {ReadLine(text, list) : list \in f[k - 1]}]

\* Of two numbers the smaller one.
Lesser(k, count) == IF k <= count THEN k ELSE count

\* Behind the last line nothing is read.
LEMMA NothingBehind ==
  ASSUME NEW text, Len(text) \in Nat
  PROVE  ReadEntry(text, Len(text) + 1) = {}
  <1> DEFINE at == Len(text) + 1
  <1>1. ~(at <= Len(text)) /\ at \in Nat
    OBVIOUS
  <1> SUFFICES ReadEntry(text, at) = {}
    OBVIOUS
  <1> HIDE DEF at
  <1>2. ReadChars(text, at, <<"open">>) = {}
    <2>1. ReadChars(text, at, <<"open">>) = IF at <= Len(text) /\ text[at][1] = "open" THEN {at + 1} ELSE {}
      BY <1>1, ReadOne
    <2> QED
      BY <1>1, <2>1
  <1> QED
    BY <1>2 DEF ReadEntry

\* JournalFile::entries gives the entries of as many lines as it reads, and after
\* the last line it stays where it is.
LEMMA LinesRead ==
  ASSUME NEW text, NEW count, NEW es, NEW ends, FileOf(text, count, es, ends), NEW m \in Nat
  PROVE  ReadLines(text, m) = {es[k] : k \in 1..Lesser(m, count)}
  <1> DEFINE list(k) == [at |-> ends[Lesser(k, count)] + 1, entries |-> {es[j] : j \in 1..Lesser(k, count)}]
             g == [k \in 0..m |-> {list(k)}]
             after == CHOOSE f : ListsOf(text, f, m)
  <1>1. count \in Nat /\ m \in Nat /\ ends[0] = 0
    BY DEF FileOf
  <1>2. list(0) = [at |-> 1, entries |-> {}]
    <2>1. {es[j] : j \in 1..0} = {} /\ Lesser(0, count) = 0
      BY <1>1 DEF Lesser
    <2> QED
      BY <1>1, <2>1
  <1>3. ASSUME NEW k \in 0..m, k # 0
        PROVE  UNION {ReadLine(text, l) : l \in {list(k - 1)}} = {list(k)}
    <2>1. CASE k <= count
      <3> DEFINE E == {es[j] : j \in 1..k - 1}
      <3>1. k \in 1..count /\ Lesser(k, count) = k /\ Lesser(k - 1, count) = k - 1
        BY <1>1, <1>3, <2>1 DEF Lesser
      <3>2. E \cup {es[k]} = {es[j] : j \in 1..k}
        <4>1. 1..k = (1..k - 1) \cup {k}
          BY <1>1, <1>3
        <4> QED
          BY <4>1
      <3> HIDE DEF E
      <3>3. ReadLine(text, [at |-> ends[k - 1] + 1, entries |-> E]) =
              {[at |-> ends[k] + 1, entries |-> E \cup {es[k]}]}
        BY <3>1, TurnOfEntries
      <3>4. ReadLine(text, list(k - 1)) = {list(k)}
        BY <3>1, <3>2, <3>3 DEF E
      <3> HIDE DEF list
      <3> QED
        BY <3>4
    <2>2. CASE ~(k <= count)
      <3>1. Lesser(k, count) = count /\ Lesser(k - 1, count) = count
        BY <1>1, <1>3, <2>2 DEF Lesser
      <3>2. list(k - 1) = list(k) /\ list(k).at = ends[count] + 1
        BY <3>1
      <3>3. ends[count] = Len(text) /\ Len(text) \in Nat
        BY <1>1 DEF FileOf
      <3> HIDE DEF list
      <3>4. ReadEntry(text, list(k - 1).at) = {}
        BY <3>2, <3>3, NothingBehind
      <3>5. ReadLine(text, list(k - 1)) = {list(k)}
        BY <3>2, <3>4 DEF ReadLine
      <3> QED
        BY <3>5
    <2> QED
      BY <2>1, <2>2
  <1> HIDE DEF list
  <1>4. ListsOf(text, g, m)
    <2>1. ASSUME NEW k \in 0..m
          PROVE  g[k] = IF k = 0 THEN {[at |-> 1, entries |-> {}]}
                                 ELSE UNION {ReadLine(text, l) : l \in g[k - 1]}
      <3>1. CASE k = 0
        BY <1>2, <3>1
      <3>2. CASE k # 0
        <4>1. k - 1 \in 0..m
          BY <1>1, <3>2
        <4> QED
          BY <1>3, <3>2, <4>1
      <3> QED
        BY <3>1, <3>2
    <2> HIDE DEF g
    <2>2. g = [k \in 0..m |-> g[k]]
      BY DEF g
    <2> QED
      BY <2>1, <2>2 DEF ListsOf
  <1>5. ListsOf(text, after, m)
    BY <1>4
  <1>6. ReadLines(text, m) = UNION {l.entries : l \in after[m]}
    BY DEF ReadLines, ListsOf
  <1> HIDE DEF after
  <1>7. after[m] = {list(m)}
    <2> DEFINE Bad == {k \in 0..m : after[k] # {list(k)}}
    <2>1. \A k \in 0..m : after[k] = IF k = 0 THEN {[at |-> 1, entries |-> {}]}
                                     ELSE UNION {ReadLine(text, l) : l \in after[k - 1]}
      BY <1>5 DEF ListsOf
    <2>2. SUFFICES ASSUME Bad # {} PROVE FALSE
      BY <1>1
    <2>3. PICK k \in Bad : \A l \in Nat : l < k => l \notin Bad
      <3>1. Bad \in SUBSET Nat
        BY <1>1
      <3> HIDE DEF Bad
      <3> QED
        BY <2>2, <3>1, LeastBad
    <2>4. k \in 0..m /\ after[k] # {list(k)}
      OBVIOUS
    <2>5. k # 0
      BY <1>2, <2>1, <2>4
    <2>6. k - 1 \in 0..m /\ k - 1 \in Nat /\ k - 1 < k
      BY <1>1, <2>4, <2>5
    <2>7. after[k - 1] = {list(k - 1)}
      BY <2>3, <2>6
    <2> HIDE DEF Bad
    <2> QED
      BY <1>3, <2>1, <2>4, <2>5, <2>7
  <1>8. list(m).entries = {es[k] : k \in 1..Lesser(m, count)}
    BY DEF list
  <1> QED
    BY <1>6, <1>7, <1>8

\* A file without lines.
LEMMA EmptyFile ==
  \E es, ends : FileOf(<<>>, 0, es, ends)
  <1> DEFINE ends == [k \in 0..0 |-> 0]
  <1>1. FileOf(<<>>, 0, <<>>, ends)
    <2>1. <<>> \in Seq(Letter) /\ Len(<<>>) = 0 /\ 0 \in Nat
      OBVIOUS
    <2>2. ends[0] = 0 /\ \A k \in 0..0 : ends[k] \in Nat
      OBVIOUS
    <2>3. 1..0 = {}
      OBVIOUS
    <2> HIDE DEF ends
    <2> QED
      BY <2>1, <2>2, <2>3 DEF FileOf
  <1> QED
    BY <1>1

\* One more line than the count lines of es: that of e.
Longer(more, count, es, e, xs, xends) ==
  /\ FileOf(more, count + 1, xs, xends)
  /\ \A k \in 1..count : xs[k] = es[k]
  /\ xs[count + 1] = e

\* JournalFile::save adds a line.
LEMMA SavedLine ==
  ASSUME NEW text, NEW count, NEW es, NEW ends, FileOf(text, count, es, ends), NEW e, IsEntry(e),
         NEW more, more = text \o WriteEntry(e) \o <<Sign("LF")>>
  PROVE  \E xs, xends : Longer(more, count, es, e, xs, xends)
  <1> DEFINE W == WriteEntry(e)
             z == <<Sign("LF")>>
             n == count + 1
             xs == [k \in 1..n |-> IF k <= count THEN es[k] ELSE e]
             xends == [k \in 0..n |-> IF k <= count THEN ends[k] ELSE Len(more)]
             T == text \o W
  <1>1. text \in Seq(Letter) /\ count \in Nat /\ ends[0] = 0 /\ ends[count] = Len(text)
        /\ \A k \in 0..count : ends[k] \in Nat
    BY DEF FileOf
  <1>2. W \in Seq(Letter) /\ z \in Seq(Letter) /\ Len(z) = 1 /\ z[1] = Sign("LF")
    <2>1. Ink \subseteq Letter /\ Sign("LF") \in Letter
      BY DEF Letter
    <2>2. W \in Seq(Ink)
      BY EntryInk
    <2>3. W \in Seq(Letter)
      BY <2>1, <2>2
    <2> HIDE DEF W
    <2> QED
      BY <2>1, <2>3
  <1>3. Len(text) \in Nat /\ Len(W) \in Nat
    BY <1>1, <1>2, LenProperties
  <1>4. more = T \o z
    OBVIOUS
  <1> HIDE DEF W, z
  <1>5. T \in Seq(Letter) /\ Len(T) = Len(text) + Len(W)
        /\ (\A i \in 1..Len(text) : T[i] = text[i]) /\ (\A i \in 1..Len(W) : T[Len(text) + i] = W[i])
    BY <1>1, <1>2, Behind
  <1> HIDE DEF T
  <1>6. more \in Seq(Letter) /\ Len(more) = Len(T) + Len(z)
        /\ (\A i \in 1..Len(T) : more[i] = T[i]) /\ (\A i \in 1..Len(z) : more[Len(T) + i] = z[i])
    <2> HIDE DEF xs, xends, n
    <2>0. T \in Seq(Letter) /\ z \in Seq(Letter)
      BY <1>2, <1>5
    <2>1. T \o z \in Seq(Letter) /\ Len(T \o z) = Len(T) + Len(z)
          /\ (\A i \in 1..Len(T) : (T \o z)[i] = T[i]) /\ (\A i \in 1..Len(z) : (T \o z)[Len(T) + i] = z[i])
      BY <2>0, Behind
    <2> QED
      BY <1>4, <2>1
  <1>7. Len(more) = Len(text) + Len(W) + 1 /\ Len(more) \in Nat
    BY <1>2, <1>3, <1>5, <1>6
  <1>8. \A i \in 1..Len(text) : more[i] = text[i]
    BY <1>3, <1>5, <1>6
  <1>9. \A i \in 1..Len(W) : more[Len(text) + i] = W[i]
    <2> SUFFICES ASSUME NEW i \in 1..Len(W) PROVE more[Len(text) + i] = W[i]
      OBVIOUS
    <2>1. Len(text) + i \in 1..Len(T)
      BY <1>3, <1>5
    <2> QED
      BY <1>5, <1>6, <2>1
  <1>10. more[Len(more)] = Sign("LF")
    <2>1. Len(more) = Len(T) + 1 /\ 1 \in 1..Len(z)
      BY <1>2, <1>3, <1>5, <1>6
    <2> QED
      BY <1>2, <1>6, <2>1
  <1>11. n \in Nat /\ \A k \in 1..n : k \in 1..count \/ k = n
    BY <1>1
  <1>12. /\ \A k \in 1..count : xs[k] = es[k]
         /\ \A k \in 0..count : xends[k] = ends[k]
         /\ xs[n] = e /\ xends[n] = Len(more)
         /\ \A k \in 0..n : k \in 0..count \/ k = n
    BY <1>1
  <1> HIDE DEF xs, xends
  <1>13. ASSUME NEW k \in 1..count
         PROVE  /\ xends[k] = xends[k - 1] + Len(WriteEntry(xs[k])) + 1
                /\ Has(more, xends[k - 1] + 1, WriteEntry(xs[k]))
                /\ more[xends[k]] = Sign("LF")
    <2> DEFINE V == WriteEntry(es[k])
               b == ends[k - 1]
    <2>1. k \in 0..count /\ k - 1 \in 0..count
      BY <1>1
    <2>2. xends[k] = ends[k] /\ xends[k - 1] = b /\ xs[k] = es[k]
      BY <1>12, <2>1
    <2>3. ends[k] = b + Len(V) + 1 /\ Has(text, b + 1, V) /\ text[ends[k]] = Sign("LF")
      BY DEF FileOf
    <2>4. ends[k] \in 1..Len(text)
      BY FeedsAreEnds DEF LineFeeds
    <2> HIDE DEF V, b
    <2>5. Has(more, b + 1, V)
      <3>1. /\ b + 1 \in Nat \ {0} /\ Len(V) \in Nat /\ (b + 1) - 1 + Len(V) <= Len(text)
            /\ \A j \in 1..Len(V) : text[(b + 1) - 1 + j] = V[j]
        BY <2>3 DEF Has, Shows
      <3>2. \A j \in 1..Len(V) : (b + 1) - 1 + j \in 1..Len(text)
        BY <1>3, <3>1
      <3>3. \A j \in 1..Len(V) : more[(b + 1) - 1 + j] = V[j]
        BY <1>8, <3>1, <3>2
      <3>4. (b + 1) - 1 + Len(V) <= Len(more)
        BY <1>3, <1>7, <3>1
      <3> QED
        BY <1>7, <3>1, <3>3, <3>4 DEF Has, Shows
    <2>6. more[ends[k]] = Sign("LF")
      BY <1>8, <2>3, <2>4
    <2> QED
      BY <2>2, <2>3, <2>5, <2>6 DEF V
  <1>14. /\ xends[n] = xends[n - 1] + Len(WriteEntry(xs[n])) + 1
         /\ Has(more, xends[n - 1] + 1, WriteEntry(xs[n]))
         /\ more[xends[n]] = Sign("LF")
    <2>1. xends[n - 1] = Len(text) /\ xends[n] = Len(more) /\ WriteEntry(xs[n]) = W
      <3>1. n - 1 = count /\ count \in 0..count
        BY <1>1
      <3> QED
        BY <1>1, <1>12, <3>1 DEF W
    <2>2. Has(more, Len(text) + 1, W)
      <3>1. \A j \in 1..Len(W) : (Len(text) + 1) - 1 + j = Len(text) + j
        BY <1>3
      <3>2. \A j \in 1..Len(W) : more[(Len(text) + 1) - 1 + j] = W[j]
        BY <1>9, <3>1
      <3>3. Len(text) + 1 \in Nat \ {0} /\ (Len(text) + 1) - 1 + Len(W) <= Len(more)
        BY <1>3, <1>7
      <3> QED
        BY <1>3, <1>7, <3>2, <3>3 DEF Has, Shows
    <2> QED
      BY <1>7, <1>10, <2>1, <2>2
  <1>15. \A k \in 1..n : IsEntry(xs[k])
    BY <1>11, <1>12 DEF FileOf
  <1>16. (\A k \in 0..n : xends[k] \in Nat) /\ xends[0] = 0
    <2>1. \A k \in 0..count : xends[k] \in Nat
      BY <1>1, <1>12
    <2>2. xends[n] \in Nat
      BY <1>7, <1>12
    <2>3. 0 \in 0..count
      BY <1>1
    <2> HIDE DEF n
    <2> QED
      BY <1>1, <1>12, <2>1, <2>2, <2>3
  <1> HIDE DEF n
  <1>17. FileOf(more, n, xs, xends)
    BY <1>6, <1>11, <1>12, <1>13, <1>14, <1>15, <1>16 DEF FileOf
  <1>18. Longer(more, count, es, e, xs, xends)
    BY <1>12, <1>17 DEF n, Longer
  <1> QED
    BY <1>18

-----------------------------------------------------------------------------
(***************************************************************************)
(* The file of an author.                                                  *)
(***************************************************************************)

\* The text has lines of entries of i that the clock c counts, in the order of
\* their times, and perhaps not of all of them: the k-th line may be that of a later
\* entry, but not of one so late that the lines behind it could not follow.
Keeps(text, c, i) ==
  \E m, es, ends :
    /\ FileOf(text, m, es, ends)
    /\ At(c, i) \in Nat /\ m <= At(c, i)
    /\ \A k \in 1..m : /\ es[k].id = i /\ i \in DOMAIN es[k].clock
                       /\ es[k].clock[i] \in k..At(c, i) - m + k

\* All entries of a text.
EntriesIn(text) == ReadLines(text, LineCount(text))

\* The entry that is read from the k-th line.
OnLine(text, k) == {read.entry : read \in ReadEntry(text, LineStart(text, k))}

\* What such a file holds, and where.
LEMMA KeptFacts ==
  ASSUME NEW text, NEW c, NEW i, Keeps(text, c, i)
  PROVE  /\ At(c, i) \in Nat /\ LineCount(text) \in 0..At(c, i)
         /\ EntriesIn(text) = ReadLines(text, At(c, i))
         /\ \A e \in EntriesIn(text) : IsEntry(e) /\ e.id = i /\ i \in DOMAIN e.clock /\ e.clock[i] \in 1..At(c, i)
         /\ \A k \in 1..LineCount(text) : \E e \in EntriesIn(text) : OnLine(text, k) = {e}
         /\ \A e \in EntriesIn(text) : LineCount(text) = At(c, i) => OnLine(text, e.clock[i]) = {e}
  <1> DEFINE M == At(c, i)
  <1>1. PICK N, es, ends : /\ FileOf(text, N, es, ends) /\ M \in Nat /\ N <= M
                           /\ \A k \in 1..N : /\ es[k].id = i /\ i \in DOMAIN es[k].clock
                                              /\ es[k].clock[i] \in k..M - N + k
    BY DEF Keeps
  <1> HIDE DEF M
  <1>2. N \in Nat /\ LineCount(text) = N /\ \A k \in 1..N : IsEntry(es[k]) /\ LineStart(text, k) = ends[k - 1] + 1
    <2>1. N \in Nat /\ \A k \in 1..N : IsEntry(es[k])
      BY <1>1 DEF FileOf
    <2>2. LineCount(text) = N /\ \A k \in 1..N : LineStart(text, k) = ends[k - 1] + 1
      <3>1. FileOf(text, N, es, ends)
        BY <1>1
      <3> QED
        BY <3>1, LinesStart
    <2> QED
      BY <2>1, <2>2
  <1>3. EntriesIn(text) = {es[k] : k \in 1..N}
    BY <1>1, <1>2, LinesRead DEF EntriesIn, Lesser
  <1>7. ReadLines(text, M) = {es[k] : k \in 1..N}
    <2>1. Lesser(M, N) = N
      BY <1>1, <1>2 DEF Lesser
    <2> QED
      BY <1>1, <2>1, LinesRead
  <1>4. ASSUME NEW k \in 1..N PROVE OnLine(text, k) = {es[k]}
    <2> DEFINE r == [at |-> ends[k], entry |-> es[k]]
    <2>1. ReadEntry(text, LineStart(text, k)) = {r}
      BY <1>1, <1>2, LineIsRead
    <2>2. r.entry = es[k]
      OBVIOUS
    <2> HIDE DEF r
    <2> QED
      BY <2>1, <2>2 DEF OnLine
  <1>5. ASSUME NEW e \in EntriesIn(text)
        PROVE  /\ IsEntry(e) /\ e.id = i /\ i \in DOMAIN e.clock /\ e.clock[i] \in 1..M
               /\ N = M => OnLine(text, e.clock[i]) = {e}
    <2>1. PICK k \in 1..N : e = es[k]
      BY <1>3
    <2>2. e.clock[i] \in k..M - N + k
      BY <1>1, <2>1
    <2>3. e.clock[i] \in 1..M /\ (N = M => e.clock[i] = k)
      BY <1>1, <1>2, <2>2
    <2> QED
      BY <1>1, <1>2, <1>4, <2>1, <2>3
  <1>6. ASSUME NEW k \in 1..N
        PROVE  \E e \in EntriesIn(text) : OnLine(text, k) = {e}
    BY <1>3, <1>4
  <1>8. M \in Nat /\ LineCount(text) \in 0..M /\ EntriesIn(text) = ReadLines(text, M)
    BY <1>1, <1>2, <1>3, <1>7
  <1>9. \A k \in 1..LineCount(text) : \E e \in EntriesIn(text) : OnLine(text, k) = {e}
    BY <1>2, <1>6
  <1>10. \A e \in EntriesIn(text) : LineCount(text) = M => OnLine(text, e.clock[i]) = {e}
    BY <1>2, <1>5
  <1>11. \A e \in EntriesIn(text) : IsEntry(e) /\ e.id = i /\ i \in DOMAIN e.clock /\ e.clock[i] \in 1..M
    BY <1>5
  <1> QED
    BY <1>8, <1>9, <1>10, <1>11 DEF M

\* The author's next entry e gets a line, and the clock, now d, counts it.
AddsLine(text, c, i, e, more, d) ==
  /\ Keeps(text, c, i)
  /\ IsEntry(e) /\ e.id = i /\ i \in DOMAIN e.clock
  /\ e.clock[i] = At(c, i) + 1 /\ At(d, i) = At(c, i) + 1
  /\ more = text \o WriteEntry(e) \o <<Sign("LF")>>

LEMMA KeptGrows ==
  ASSUME NEW text, NEW c, NEW i, NEW e, NEW more, NEW d, AddsLine(text, c, i, e, more, d)
  PROVE  Keeps(more, d, i) /\ EntriesIn(more) = EntriesIn(text) \cup {e}
  <1> DEFINE M == At(c, i)
  <1>1. PICK N, es, ends : /\ FileOf(text, N, es, ends) /\ M \in Nat /\ N <= M
                           /\ \A k \in 1..N : /\ es[k].id = i /\ i \in DOMAIN es[k].clock
                                              /\ es[k].clock[i] \in k..M - N + k
    BY DEF AddsLine, Keeps
  <1>2. /\ e.clock[i] = M + 1 /\ At(d, i) = M + 1 /\ e.id = i /\ i \in DOMAIN e.clock
        /\ IsEntry(e) /\ more = text \o WriteEntry(e) \o <<Sign("LF")>>
    BY DEF AddsLine
  <1> HIDE DEF M
  <1>3. PICK xs, xends : Longer(more, N, es, e, xs, xends)
    <2>1. FileOf(text, N, es, ends)
      BY <1>1
    <2> QED
      BY <1>2, <2>1, SavedLine
  <1>33. FileOf(more, N + 1, xs, xends) /\ (\A k \in 1..N : xs[k] = es[k]) /\ xs[N + 1] = e
    BY <1>3 DEF Longer
  <1>4. N \in Nat
    BY <1>1 DEF FileOf
  <1>5. 1..N + 1 = (1..N) \cup {N + 1}
    BY <1>4
  <1>6. \A k \in 1..N + 1 : /\ xs[k].id = i /\ i \in DOMAIN xs[k].clock
                            /\ xs[k].clock[i] \in k..(M + 1) - (N + 1) + k
    <2>1. M + 1 \in N + 1..(M + 1) - (N + 1) + (N + 1)
      BY <1>1, <1>4
    <2>2. (M + 1) - (N + 1) = M - N
      BY <1>1, <1>4
    <2> QED
      BY <1>1, <1>2, <1>33, <1>5, <2>1, <2>2
  <1>7. Keeps(more, d, i)
    <2>1. At(d, i) \in Nat /\ N + 1 <= At(d, i)
      BY <1>1, <1>2, <1>4
    <2> QED
      BY <1>2, <1>33, <1>6, <2>1 DEF Keeps
  <1>8. EntriesIn(text) = {es[k] : k \in 1..N}
    <2>1. LineCount(text) = N /\ Lesser(N, N) = N
      BY <1>1, <1>4, LinesStart DEF Lesser
    <2> QED
      BY <1>1, <1>4, <2>1, LinesRead DEF EntriesIn
  <1>9. EntriesIn(more) = {xs[k] : k \in 1..N + 1}
    <2>1. LineCount(more) = N + 1 /\ Lesser(N + 1, N + 1) = N + 1 /\ N + 1 \in Nat
      BY <1>33, <1>4, LinesStart DEF Lesser
    <2> QED
      BY <1>33, <2>1, LinesRead DEF EntriesIn
  <1>10. {xs[k] : k \in 1..N + 1} = {es[k] : k \in 1..N} \cup {e}
    BY <1>33, <1>5
  <1> QED
    BY <1>7, <1>8, <1>9, <1>10

\* A clock that counts more of the author's entries does the file no harm.
LEMMA KeptUnderMore ==
  ASSUME NEW text, NEW c, NEW i, NEW d, Keeps(text, c, i), At(d, i) \in Nat, At(c, i) <= At(d, i)
  PROVE  Keeps(text, d, i)
  <1> DEFINE M == At(c, i)
             L == At(d, i)
  <1>1. PICK N, es, ends : /\ FileOf(text, N, es, ends) /\ M \in Nat /\ N <= M
                           /\ \A k \in 1..N : /\ es[k].id = i /\ i \in DOMAIN es[k].clock
                                              /\ es[k].clock[i] \in k..M - N + k
    BY DEF Keeps
  <1>2. N \in Nat /\ L \in Nat /\ M <= L
    BY <1>1 DEF FileOf
  <1> HIDE DEF M, L
  <1>3. N <= L /\ \A k \in 1..N : \A t \in k..M - N + k : t \in k..L - N + k
    BY <1>1, <1>2
  <1>4. \A k \in 1..N : es[k].id = i /\ i \in DOMAIN es[k].clock /\ es[k].clock[i] \in k..L - N + k
    BY <1>1, <1>3
  <1> QED
    BY <1>1, <1>2, <1>3, <1>4 DEF Keeps, L

-----------------------------------------------------------------------------
(***************************************************************************)
(* The directories of all journals.                                        *)
(***************************************************************************)

\* The pool of module Journal, and what is proved of it.
PoolProofs == INSTANCE JournalProofs WITH entries <- [n \in Id |-> Stored(n)]

\* Clocks that can be written, and files that keep what they count.
FilesOK ==
  /\ clock \in [Id -> ClocksOver(Id, 1..MaxTime)]
  /\ \A n \in Id : IsClock(clock[n])
  /\ files = [n \in Id |-> [i \in Id |-> files[n][i]]]
  /\ \A n, i \in Id : Keeps(files[n][i], clock[n], i)

\* What Merge and IsNext do to the component of an author.
LEMMA NextTime ==
  ASSUME NEW c \in ClocksOver(Id, 1..MaxTime), NEW d \in ClocksOver(Id, 1..MaxTime), NEW a,
         IsNext(d, c, a)
  PROVE  /\ a \in DOMAIN d /\ d[a] = At(c, a) + 1 /\ At(Merge(c, d), a) = At(c, a) + 1
         /\ \A i \in Id : At(Merge(c, d), i) \in Nat /\ At(c, i) <= At(Merge(c, d), i)
  <1>1. 1..MaxTime \in SUBSET Nat
    BY FileMaxTimeAssumption
  <1>2. \A i : /\ At(c, i) \in Nat
               /\ At(d, i) \in Nat
               /\ (i \in DOMAIN c => At(c, i) = c[i]) /\ (i \notin DOMAIN c => At(c, i) = 0)
               /\ (i \in DOMAIN d => At(d, i) = d[i]) /\ (i \notin DOMAIN d => At(d, i) = 0)
    BY <1>1, AtType
  <1>3. a \in DOMAIN d /\ d[a] = At(c, a) + 1
    BY <1>2 DEF IsNext
  <1>4. \A i : At(Merge(c, d), i) = IF At(c, i) > At(d, i) THEN At(c, i) ELSE At(d, i)
    <2> SUFFICES ASSUME NEW i PROVE At(Merge(c, d), i) = IF At(c, i) > At(d, i) THEN At(c, i) ELSE At(d, i)
      OBVIOUS
    <2>1. CASE i \in DOMAIN c \cup DOMAIN d
      <3>1. Merge(c, d)[i] = IF At(c, i) > At(d, i) THEN At(c, i) ELSE At(d, i)
        BY <2>1 DEF Merge
      <3>2. At(Merge(c, d), i) = Merge(c, d)[i]
        BY <2>1, MergeDomain DEF At
      <3> QED
        BY <3>1, <3>2
    <2>2. CASE i \notin DOMAIN c \cup DOMAIN d
      <3>1. At(Merge(c, d), i) = 0
        BY <2>2, MergeDomain DEF At
      <3> QED
        BY <1>2, <2>2, <3>1
    <2> QED
      BY <2>1, <2>2
  <1>5. At(Merge(c, d), a) = At(c, a) + 1
    BY <1>2, <1>3, <1>4
  <1>6. ASSUME NEW i \in Id PROVE At(Merge(c, d), i) \in Nat /\ At(c, i) <= At(Merge(c, d), i)
    BY <1>2, <1>4
  <1> QED
    BY <1>3, <1>5, <1>6

\* A merge can be written.
LEMMA MergedClock ==
  ASSUME NEW c \in ClocksOver(Id, 1..MaxTime), NEW d \in ClocksOver(Id, 1..MaxTime), IsClock(c), IsClock(d)
  PROVE  Merge(c, d) \in ClocksOver(Id, 1..MaxTime) /\ IsClock(Merge(c, d))
  <1>1. 1..MaxTime \in SUBSET Nat
    BY FileMaxTimeAssumption
  <1>2. Merge(c, d) \in ClocksOver(Id, 1..MaxTime)
    BY <1>1, MergeType
  <1>3. DOMAIN Merge(c, d) = DOMAIN c \cup DOMAIN d
    BY MergeDomain
  <1>4. IsFiniteSet(DOMAIN c \cup DOMAIN d)
    BY FS_Union DEF IsClock
  <1>5. Merge(c, d) \in [DOMAIN Merge(c, d) -> 1..MaxTime]
    BY <1>2, ClockShape
  <1> QED
    BY <1>1, <1>2, <1>3, <1>4, <1>5 DEF IsClock

\* JournalBase::insert of an author's next entry, whether or not the entries it
\* counts are there, keeps the files in order and adds the entry to one of them.
LEMMA InsertKeeps ==
  ASSUME FilesOK, NEW n \in Id, NEW e, IsEntry(e), e.id \in Id, e.clock \in ClocksOver(Id, 1..MaxTime),
         IsNext(e.clock, clock[n], e.id), Save(n, e), clock' = [clock EXCEPT ![n] = Merge(@, e.clock)]
  PROVE  /\ FilesOK'
         /\ \A m, i \in Id : Saved(m, i)' = IF m = n /\ i = e.id THEN Saved(m, i) \cup {e} ELSE Saved(m, i)
  <1> DEFINE a == e.id
             c == clock[n]
             more == files[n][a] \o WriteEntry(e) \o <<Sign("LF")>>
  <1>1. /\ clock \in [Id -> ClocksOver(Id, 1..MaxTime)] /\ c \in ClocksOver(Id, 1..MaxTime) /\ IsClock(c)
        /\ files = [m \in Id |-> [i \in Id |-> files[m][i]]]
    BY DEF FilesOK
  <1>2. /\ a \in DOMAIN e.clock /\ e.clock[a] = At(c, a) + 1 /\ At(Merge(c, e.clock), a) = At(c, a) + 1
        /\ \A i \in Id : At(Merge(c, e.clock), i) \in Nat /\ At(c, i) <= At(Merge(c, e.clock), i)
    BY <1>1, NextTime
  <1>3. Merge(c, e.clock) \in ClocksOver(Id, 1..MaxTime) /\ IsClock(Merge(c, e.clock))
    BY <1>1, MergedClock DEF IsEntry
  <1>4. clock'[n] = Merge(c, e.clock) /\ \A m \in Id : m # n => clock'[m] = clock[m]
    BY <1>1
  <1>5. files' = [files EXCEPT ![n][a] = more]
    BY DEF Save
  <1> HIDE DEF more
  <1>6. /\ files'[n][a] = more /\ \A m, i \in Id : m # n \/ i # a => files'[m][i] = files[m][i]
        /\ files' = [m \in Id |-> [i \in Id |-> files'[m][i]]]
    BY <1>1, <1>5
  <1>7. Keeps(more, clock'[n], a) /\ EntriesIn(more) = EntriesIn(files[n][a]) \cup {e}
    <2>1. Keeps(files[n][a], c, a)
      BY DEF FilesOK
    <2> DEFINE text == files[n][a]
               d == clock'[n]
    <2>2. more = text \o WriteEntry(e) \o <<Sign("LF")>> /\ At(d, a) = At(c, a) + 1
      BY <1>2, <1>4 DEF more
    <2> HIDE DEF text, d, c
    <2>3. Keeps(text, c, a) /\ IsEntry(e) /\ e.id = a /\ a \in DOMAIN e.clock /\ e.clock[a] = At(c, a) + 1
      BY <1>2, <2>1 DEF text
    <2>4. AddsLine(text, c, a, e, more, d)
      BY <2>2, <2>3 DEF AddsLine
    <2>5. Keeps(more, d, a) /\ EntriesIn(more) = EntriesIn(text) \cup {e}
      BY <2>4, KeptGrows
    <2> QED
      BY <2>5 DEF d, text
  <1>8. ASSUME NEW m \in Id, NEW i \in Id PROVE Keeps(files'[m][i], clock'[m], i)
    <2>1. Keeps(files[m][i], clock[m], i)
      BY DEF FilesOK
    <2>2. CASE m = n /\ i = a
      BY <1>6, <1>7, <2>2
    <2>3. CASE ~(m = n /\ i = a)
      <3>1. files'[m][i] = files[m][i]
        BY <1>6, <2>3
      <3>2. CASE m = n
        <4>1. At(clock'[m], i) \in Nat /\ At(clock[m], i) <= At(clock'[m], i)
          BY <1>2, <1>4, <3>2
        <4> QED
          BY <2>1, <3>1, <4>1, KeptUnderMore
      <3>3. CASE m # n
        BY <1>4, <2>1, <3>1, <3>3
      <3> QED
        BY <3>2, <3>3
    <2> QED
      BY <2>2, <2>3
  <1>9. FilesOK'
    <2>1. clock' \in [Id -> ClocksOver(Id, 1..MaxTime)]
      BY <1>1, <1>3
    <2>2. \A m \in Id : IsClock(clock'[m])
      BY <1>3, <1>4 DEF FilesOK
    <2> QED
      BY <1>6, <1>8, <2>1, <2>2 DEF FilesOK
  <1>10. ASSUME NEW m \in Id, NEW i \in Id
         PROVE  EntriesIn(files'[m][i]) =
                  IF m = n /\ i = a THEN EntriesIn(files[m][i]) \cup {e} ELSE EntriesIn(files[m][i])
    BY <1>6, <1>7
  <1> QED
    BY <1>9, <1>10 DEF Saved, EntriesIn

\* The pool in order.
PoolInv == PoolProofs!IInv /\ PoolProofs!ClocksAreKeys

\* What is stored.
LEMMA StoredFacts ==
  ASSUME FilesOK, PoolInv, NEW n \in Id, NEW e \in Stored(n)
  PROVE  /\ IsEntry(e) /\ e.id \in Id /\ e \in Saved(n, e.id)
         /\ e.clock \in ClocksOver(Id, 1..MaxTime)
         /\ Leq(e.clock, clock[n])
         /\ e \in Stored(e.id)
         /\ \A f \in Stored(n) : f.clock = e.clock => f = e
  <1>1. PICK i \in Id : e \in Saved(n, i)
    BY DEF Stored
  <1>2. IsEntry(e) /\ e.id = i
    <2>1. Keeps(files[n][i], clock[n], i) /\ e \in EntriesIn(files[n][i])
      BY <1>1 DEF FilesOK, Saved, EntriesIn
    <2> QED
      BY <2>1, KeptFacts
  <1> DEFINE E == [m \in Id |-> Stored(m)]
  <1>3. e \in E[n] /\ E[n] = Stored(n) /\ E[i] = Stored(i)
    OBVIOUS
  <1>4. e.clock \in ClocksOver(Id, 1..MaxTime)
    <2>1. E \in [Id -> SUBSET PoolProofs!Entry]
      BY DEF PoolInv, PoolProofs!IInv, PoolProofs!TypeOK
    <2> HIDE DEF E
    <2>2. e \in PoolProofs!Entry
      BY <1>3, <2>1
    <2> QED
      BY <2>2 DEF PoolProofs!Entry, PoolProofs!Clock, PoolProofs!ClocksOver, ClocksOver
  <1>5. Leq(e.clock, clock[n])
    BY DEF PoolInv, PoolProofs!IInv, PoolProofs!ClockCoversEntries, PoolProofs!Leq, Leq
  <1>6. e \in E[e.id]
    BY <1>3 DEF PoolInv, PoolProofs!IInv, PoolProofs!AuthorHasHistory
  <1>7. \A f \in Stored(n) : f.clock = e.clock => f = e
    <2>1. \A f \in E[n] : f.clock = e.clock => f = e
      BY <1>3 DEF PoolInv, PoolProofs!ClocksAreKeys
    <2> QED
      BY <1>3, <2>1
  <1> QED
    BY <1>1, <1>2, <1>3, <1>4, <1>5, <1>6, <1>7

\* Both modules use the clocks of module Clocks.
LEMMA SameClocks ==
  /\ \A c, d : PoolProofs!Merge(c, d) = Merge(c, d)
  /\ \A c, i : PoolProofs!At(c, i) = At(c, i)
  /\ \A c, i : PoolProofs!Tick(c, i) = Tick(c, i)
  /\ \A c, d, i : PoolProofs!IsNext(c, d, i) <=> IsNext(c, d, i)
  /\ PoolProofs!EmptyClock = EmptyClock
  BY DEF PoolProofs!Merge, Merge, PoolProofs!At, At, PoolProofs!Tick, Tick, PoolProofs!IsNext, IsNext,
         PoolProofs!EmptyClock, EmptyClock

\* A journal is past what it stores, so that isNext alone keeps JournalFile::save
\* from writing an entry twice.
LEMMA NextIsNew ==
  ASSUME FilesOK, PoolInv, NEW n \in Id, NEW e, IsNext(e.clock, clock[n], e.id), NEW f \in Stored(n)
  PROVE  f.clock # e.clock
  <1> DEFINE c == clock[n]
             i == e.id
  <1>1. c \in [DOMAIN c -> 1..MaxTime] /\ Leq(f.clock, c)
    BY StoredFacts, ClockShape DEF FilesOK
  <1> SUFFICES ASSUME f.clock = e.clock PROVE FALSE
    OBVIOUS
  <1>2. i \in DOMAIN e.clock /\ (IF i \notin DOMAIN c THEN e.clock[i] = 1 ELSE e.clock[i] = c[i] + 1)
    BY DEF IsNext
  <1> HIDE DEF c, i
  <1>3. i \in DOMAIN c /\ e.clock[i] <= c[i]
    BY <1>1, <1>2 DEF Leq
  <1>4. c[i] \in Nat
    BY <1>1, <1>3, FileMaxTimeAssumption
  <1> QED
    BY <1>2, <1>3, <1>4

\* The step that inserts e at n.
Inserts(n, e) ==
  /\ IsEntry(e) /\ e.id \in Id /\ e.clock \in ClocksOver(Id, 1..MaxTime)
  /\ IsNext(e.clock, clock[n], e.id)
  /\ Save(n, e) /\ clock' = [clock EXCEPT ![n] = Merge(@, e.clock)]

\* JournalBase::insert on files is the insert of the pool.
LEMMA InsertsInPool ==
  ASSUME FilesOK, PoolInv, NEW n \in Id, NEW e, Inserts(n, e)
  PROVE  /\ FilesOK'
         /\ \A m, i \in Id : Saved(m, i)' = IF m = n /\ i = e.id THEN Saved(m, i) \cup {e} ELSE Saved(m, i)
         /\ PoolProofs!Insert(n, e)
  <1> DEFINE E == [m \in Id |-> Stored(m)]
             F == [m \in Id |-> Stored(m)']
  <1>1. /\ FilesOK'
        /\ \A m, i \in Id : Saved(m, i)' = IF m = n /\ i = e.id THEN Saved(m, i) \cup {e} ELSE Saved(m, i)
    BY InsertKeeps DEF Inserts
  <1>2. \A m \in Id : Stored(m)' = IF m = n THEN Stored(m) \cup {e} ELSE Stored(m)
    BY <1>1 DEF Stored, Inserts
  <1>3. F = [E EXCEPT ![n] = @ \cup {e}]
    BY <1>2
  <1>4. \A f \in E[n] : f.clock # e.clock
    BY NextIsNew DEF Inserts
  <1>5. PoolProofs!IsNext(e.clock, clock[n], e.id) /\ PoolProofs!Saves(n, e)
    BY <1>4, SameClocks DEF Inserts, PoolProofs!Saves
  <1>6. clock' = [clock EXCEPT ![n] = PoolProofs!Merge(@, e.clock)]
    BY SameClocks DEF Inserts
  <1>7. PoolProofs!Insert(n, e)
    BY <1>3, <1>5, <1>6 DEF PoolProofs!Insert
  <1> QED
    BY <1>1, <1>7

\* What a user alters: nothing, or an entry that there is.
Alterable == {EmptyClock} \cup {e.clock : e \in Recorded}

LEMMA AlterableClocks ==
  ASSUME FilesOK, PoolInv, NEW c \in Alterable
  PROVE  IsClock(c) /\ c \in PoolProofs!Clock
  <1>1. IsClock(EmptyClock) /\ EmptyClock \in ClocksOver(Id, 1..MaxTime)
    <2>1. /\ DOMAIN EmptyClock = {} /\ EmptyClock = [i \in {} |-> EmptyClock[i]]
          /\ EmptyClock \in [{} -> 1..MaxTime]
      BY DEF EmptyClock
    <2> QED
      BY <2>1, FS_EmptySet, ClockShape DEF IsClock
  <1>2. \A e \in Recorded : IsClock(e.clock) /\ e.clock \in ClocksOver(Id, 1..MaxTime)
    BY StoredFacts DEF IsEntry, Recorded
  <1>3. PoolProofs!Clock = ClocksOver(Id, 1..MaxTime)
    BY DEF PoolProofs!Clock, PoolProofs!ClocksOver, ClocksOver
  <1> QED
    BY <1>1, <1>2, <1>3 DEF Alterable

\* An entry that is made here is the author's next.
LEMMA MadeEntry ==
  ASSUME FilesOK, PoolInv, NEW n \in Id, At(clock[n], n) < MaxTime, NEW value \in Amount,
         NEW alters \in Alterable, NEW e, e = NewEntry(n, clock[n], value, alters)
  PROVE  /\ IsEntry(e) /\ e.id = n /\ e.clock \in ClocksOver(Id, 1..MaxTime) /\ e.alters = alters
         /\ IsNext(e.clock, clock[n], e.id)
  <1> DEFINE c == clock[n]
             t == Tick(c, n)
  <1>1. c \in ClocksOver(Id, 1..MaxTime) /\ IsClock(c)
    BY DEF FilesOK
  <1>2. 1..MaxTime \in SUBSET Nat /\ n \in Nat /\ MaxTime \in Nat
    BY FileMaxTimeAssumption, FileIdAssumption
  <1>3. /\ At(c, n) \in Nat /\ DOMAIN c \subseteq Id /\ c \in [DOMAIN c -> 1..MaxTime]
        /\ (n \in DOMAIN c => At(c, n) = c[n]) /\ (n \notin DOMAIN c => At(c, n) = 0)
    BY <1>1, <1>2, AtType, ClockShape
  <1>4. At(c, n) < MaxTime
    OBVIOUS
  <1>5. e.clock = t /\ e.id = n /\ e.value = value /\ e.alters = alters
        /\ e = [clock |-> e.clock, id |-> e.id, value |-> e.value, alters |-> e.alters]
    BY DEF NewEntry
  <1> HIDE DEF c
  <1>6. /\ DOMAIN t = DOMAIN c \cup {n} /\ t[n] = At(c, n) + 1
        /\ \A i \in DOMAIN c : i # n => t[i] = c[i]
    BY TickParts
  <1>7. t = [i \in DOMAIN t |-> t[i]]
    BY DEF Tick
  <1> HIDE DEF t
  <1>8. \A i \in DOMAIN t : t[i] \in 1..MaxTime
    BY <1>2, <1>3, <1>4, <1>6
  <1>9. t \in ClocksOver(Id, 1..MaxTime)
    <2>1. DOMAIN t \subseteq Id /\ t \in [DOMAIN t -> 1..MaxTime]
      BY <1>3, <1>6, <1>7, <1>8
    <2> QED
      BY <2>1, ClockShape
  <1>10. IsClock(t)
    <2>1. IsFiniteSet(DOMAIN t)
      BY <1>1, <1>6, FS_AddElement DEF IsClock
    <2>2. DOMAIN t \subseteq Nat
      BY <1>1, <1>2, <1>6 DEF IsClock
    <2> QED
      BY <1>2, <1>7, <1>8, <2>1, <2>2 DEF IsClock
  <1>11. IsNext(t, c, n)
    BY <1>3, <1>6 DEF IsNext
  <1>13. IsEntry(e)
    BY <1>2, <1>5, <1>10, AlterableClocks DEF IsEntry
  <1> QED
    BY <1>5, <1>9, <1>11, <1>13 DEF c

\* BrokerBase::append, replace and erase on files are those of the pool.
LEMMA AppendStep ==
  ASSUME FilesOK, PoolInv, AltersAnEntry, NEW n \in Id, At(clock[n], n) < MaxTime, NEW value \in Amount,
         NEW alters \in Alterable, NEW e, e = NewEntry(n, clock[n], value, alters),
         Save(n, e), clock' = [clock EXCEPT ![n] = Merge(@, e.clock)]
  PROVE  FilesOK' /\ PoolProofs!Next /\ AltersAnEntry'
  <1>1. /\ IsEntry(e) /\ e.id = n /\ e.clock \in ClocksOver(Id, 1..MaxTime) /\ e.alters = alters
        /\ IsNext(e.clock, clock[n], e.id)
    BY MadeEntry
  <1>2. Inserts(n, e)
    BY <1>1 DEF Inserts
  <1>3. /\ FilesOK'
        /\ \A m, i \in Id : Saved(m, i)' = IF m = n /\ i = e.id THEN Saved(m, i) \cup {e} ELSE Saved(m, i)
        /\ PoolProofs!Insert(n, e)
    BY <1>2, InsertsInPool
  <1>4. PoolProofs!AppendData(n, value, alters)
    <2>1. e = [clock |-> PoolProofs!Tick(clock[n], n), id |-> n, value |-> value, alters |-> alters]
      BY SameClocks DEF NewEntry
    <2>2. PoolProofs!At(clock[n], n) < MaxTime
      BY SameClocks
    <2> QED
      BY <1>3, <2>1, <2>2 DEF PoolProofs!AppendData
  <1>5. PoolProofs!Next
    <2>1. alters \in PoolProofs!Clock
      BY AlterableClocks
    <2> QED
      BY <1>4, <2>1 DEF PoolProofs!Next
  <1>6. Recorded' = Recorded \cup {e}
    <2>1. \A m \in Id : Stored(m)' = IF m = n THEN Stored(m) \cup {e} ELSE Stored(m)
      BY <1>1, <1>3 DEF Stored
    <2> QED
      BY <2>1 DEF Recorded
  <1>7. AltersAnEntry'
    <2> SUFFICES ASSUME NEW g \in Recorded'
                 PROVE  g.alters = EmptyClock \/ \E f \in Recorded' : f.clock = g.alters
      BY DEF AltersAnEntry
    <2>1. CASE g \in Recorded
      BY <1>6, <2>1 DEF AltersAnEntry
    <2>2. CASE g = e
      BY <1>1, <1>6, <2>2 DEF Alterable
    <2> QED
      BY <1>6, <2>1, <2>2
  <1> QED
    BY <1>3, <1>5, <1>7

\* An entry that arrives arrives in the pool.
LEMMA ReceiveStep ==
  ASSUME FilesOK, PoolInv, AltersAnEntry, NEW n \in Id, NEW m \in Id, NEW e \in Stored(m), Insert(n, e)
  PROVE  FilesOK' /\ PoolProofs!Next /\ AltersAnEntry'
  <1>1. /\ IsEntry(e) /\ e.id \in Id /\ e.clock \in ClocksOver(Id, 1..MaxTime)
    BY StoredFacts
  <1>2. Inserts(n, e)
    BY <1>1 DEF Insert, Inserts
  <1>3. /\ FilesOK'
        /\ \A k, i \in Id : Saved(k, i)' = IF k = n /\ i = e.id THEN Saved(k, i) \cup {e} ELSE Saved(k, i)
        /\ PoolProofs!Insert(n, e)
    BY <1>2, InsertsInPool
  <1>4. PoolProofs!Next
    <2>1. PoolProofs!Receive(n, e)
      BY <1>3 DEF PoolProofs!Receive
    <2>2. e \in [k \in Id |-> Stored(k)][m]
      OBVIOUS
    <2> QED
      BY <2>1, <2>2 DEF PoolProofs!Next
  <1>5. Recorded' = Recorded
    <2>1. \A k \in Id : Stored(k)' = IF k = n THEN Stored(k) \cup {e} ELSE Stored(k)
      BY <1>1, <1>3 DEF Stored
    <2>2. e \in Recorded
      BY DEF Recorded
    <2> QED
      BY <2>1, <2>2 DEF Recorded
  <1>6. AltersAnEntry'
    BY <1>5 DEF AltersAnEntry
  <1> QED
    BY <1>3, <1>4, <1>6

\* Nothing happens to the files.
LEMMA SameFiles ==
  ASSUME FilesOK, AltersAnEntry, clock' = clock, files' = files
  PROVE  FilesOK' /\ UNCHANGED PoolProofs!vars /\ AltersAnEntry'
  <1>1. \A n, i \in Id : Saved(n, i)' = Saved(n, i)
    BY DEF Saved
  <1>2. \A n \in Id : Stored(n)' = Stored(n)
    BY <1>1 DEF Stored
  <1>3. FilesOK'
    BY DEF FilesOK
  <1>4. UNCHANGED PoolProofs!vars
    BY <1>2 DEF PoolProofs!vars
  <1>5. AltersAnEntry'
    BY <1>2 DEF AltersAnEntry, Recorded
  <1> QED
    BY <1>3, <1>4, <1>5

-----------------------------------------------------------------------------
(***************************************************************************)
(* What the users type.                                                    *)
(***************************************************************************)

\* Command::Read of a name that takes data.
LEMMA NamesTypes ==
  /\ {"add", "relay", "sources", "quit", "disconnect"} \subseteq DOMAIN kNameTypeMap
  /\ kNameTypeMap["add"] = "Append" /\ kNameTypeMap["relay"] = "Relay"
  /\ kNameTypeMap["sources"] = "Sources" /\ kNameTypeMap["quit"] = "Quit"
  /\ kNameTypeMap["disconnect"] = "Disconnect"
  BY DEF kNameTypeMap

\* The data that a command which stores an entry comes with.
DataOf(text) ==
  IF text[1][1] = "add" THEN ReadValueAndOptionalClock(text, 2) ELSE ReadRelayData(text, 2)

\* Only add and relay store an entry, and only if all of their data can be read.
LEMMA CommandStores ==
  ASSUME NEW text, NEW command, command = CommandRead(text), command.type \in {"Append", "Relay"}
  PROVE  text # <<>> /\ text[1][1] \in {"add", "relay"} /\ command.data \in DataOf(text)
  <1>0. NoCommand.type = "Invalid" /\ [NoCommand EXCEPT !.type = "Exception"].type = "Exception"
    BY DEF NoCommand
  <1>1. text # <<>> /\ text[1][1] \in DOMAIN kNameTypeMap
    BY <1>0 DEF CommandRead
  <1> DEFINE type == kNameTypeMap[text[1][1]]
             data == CASE type = "Append" -> ReadValueAndOptionalClock(text, 2)
                       [] type = "Relay" -> ReadRelayData(text, 2)
                       [] OTHER -> {NoData}
             result == CASE data = {} -> NoCommand
                         [] type = "Disconnect" /\ ReadChars(text, 2, <<"dec">>) = {} ->
                              [NoCommand EXCEPT !.type = "Exception"]
                         [] OTHER -> [type |-> type, data |-> CHOOSE d \in data : TRUE]
  <1>2. command = result
    BY <1>1 DEF CommandRead
  <1> HIDE DEF data
  <1>3. data # {}
    BY <1>0, <1>2
  <1>4. CASE type = "Disconnect"
    <2> HIDE DEF type
    <2> DEFINE some == CHOOSE d \in data : TRUE
               thrown == [NoCommand EXCEPT !.type = "Exception"]
               read == [type |-> type, data |-> some]
    <2>1. command = thrown \/ command = read
      BY <1>2, <1>3, <1>4
    <2>2. thrown.type = "Exception"
      BY <1>0
    <2> HIDE DEF result, some, thrown
    <2>3. read.type = type
      OBVIOUS
    <2> HIDE DEF read
    <2> QED
      BY <1>4, <2>1, <2>2, <2>3
  <1>5. CASE type # "Disconnect"
    <2>1. command = [type |-> type, data |-> CHOOSE d \in data : TRUE]
      <3> HIDE DEF type
      <3> QED
        BY <1>2, <1>3, <1>5
    <2>2. type \in {"Append", "Relay"} /\ command.data \in data
      <3> HIDE DEF type
      <3> QED
        BY <1>3, <2>1
    <2>3. text[1][1] \in {"add", "relay"} /\ (text[1][1] = "add" <=> type = "Append")
      BY <1>1, <2>2 DEF kNameTypeMap
    <2>4. data = DataOf(text)
      <3> HIDE DEF type
      <3> QED
        BY <2>2, <2>3 DEF data, DataOf
    <2> QED
      BY <1>1, <2>2, <2>3, <2>4
  <1> QED
    BY <1>4, <1>5

\* A value at the end of the line,
LEMMA ValueAlone ==
  ASSUME NEW text, NEW at \in Nat, Len(text) \in Nat, NEW d \in ReadValueAndOptionalClock(text, at), at >= Len(text)
  PROVE  at = Len(text) /\ d = [id |-> 0, value |-> text[at][2], alters |-> EmptyClock]
  <1> DEFINE Then(end) == IF end > Len(text)
                            THEN {[NoData EXCEPT !.value = text[at][2]]}
                            ELSE {[NoData EXCEPT !.value = text[at][2], !.alters = read.clock] :
                                    read \in ReadClock(text, end)}
  <1>1. ReadValueAndOptionalClock(text, at) = UNION {Then(end) : end \in ReadChars(text, at, <<"dec">>)}
    BY DEF ReadValueAndOptionalClock
  <1>2. ReadChars(text, at, <<"dec">>) \subseteq {at + 1} /\ (at > Len(text) => ReadChars(text, at, <<"dec">>) = {})
    <2> HIDE DEF Then
    <2>1. ReadChars(text, at, <<"dec">>) = IF at <= Len(text) /\ text[at][1] = "dec" THEN {at + 1} ELSE {}
      BY ReadOne
    <2> QED
      BY <2>1
  <1>3. at + 1 > Len(text)
    OBVIOUS
  <1>4. Then(at + 1) = {[NoData EXCEPT !.value = text[at][2]]}
    BY <1>3
  <1> HIDE DEF Then
  <1>5. d = [NoData EXCEPT !.value = text[at][2]]
    BY <1>1, <1>2, <1>4
  <1>6. ~(at > Len(text))
    BY <1>1, <1>2
  <1> QED
    BY <1>5, <1>6 DEF NoData

\* and a value with a version behind it.
LEMMA ValueAndClock ==
  ASSUME NEW text, NEW at \in Nat, Len(text) \in Nat, NEW d \in ReadValueAndOptionalClock(text, at), at < Len(text)
  PROVE  d.value = text[at][2] /\ \E read \in ReadClock(text, at + 1) : d.alters = read.clock
  <1> DEFINE Then(end) == IF end > Len(text)
                            THEN {[NoData EXCEPT !.value = text[at][2]]}
                            ELSE {[NoData EXCEPT !.value = text[at][2], !.alters = read.clock] :
                                    read \in ReadClock(text, end)}
  <1>1. ReadValueAndOptionalClock(text, at) = UNION {Then(end) : end \in ReadChars(text, at, <<"dec">>)}
    BY DEF ReadValueAndOptionalClock
  <1>2. ReadChars(text, at, <<"dec">>) \subseteq {at + 1}
    BY ReadOne
  <1>3. ~(at + 1 > Len(text))
    OBVIOUS
  <1>4. Then(at + 1) = {[NoData EXCEPT !.value = text[at][2], !.alters = read.clock] :
                          read \in ReadClock(text, at + 1)}
    BY <1>3
  <1> HIDE DEF Then
  <1>5. PICK read \in ReadClock(text, at + 1) : d = [NoData EXCEPT !.value = text[at][2], !.alters = read.clock]
    BY <1>1, <1>2, <1>4
  <1> QED
    BY <1>5 DEF NoData

\* The data of a relay: an id before the value.
LEMMA RelayedValue ==
  ASSUME NEW text, Len(text) \in Nat, Len(text) <= 3, NEW d \in ReadRelayData(text, 2)
  PROVE  Len(text) = 3 /\ d.value = text[3][2] /\ d.alters = EmptyClock /\ text[2][1] = "hex"
  <1> DEFINE Then(end) == {[data EXCEPT !.id = text[2][2]] : data \in ReadValueAndOptionalClock(text, end)}
  <1>1. ReadRelayData(text, 2) = UNION {Then(end) : end \in ReadChars(text, 2, <<"hex">>)}
    BY DEF ReadRelayData
  <1>2. ReadChars(text, 2, <<"hex">>) = IF 2 <= Len(text) /\ text[2][1] = "hex" THEN {2 + 1} ELSE {}
    BY ReadOne
  <1> HIDE DEF Then
  <1>3. text[2][1] = "hex" /\ d \in Then(3)
    BY <1>1, <1>2
  <1>4. PICK data \in ReadValueAndOptionalClock(text, 3) : d = [data EXCEPT !.id = text[2][2]]
    BY <1>3 DEF Then
  <1>5. 3 = Len(text) /\ data = [id |-> 0, value |-> text[3][2], alters |-> EmptyClock]
    BY ValueAlone
  <1> QED
    BY <1>3, <1>4, <1>5

\* Apart from the id a relay has the data of an add.
LEMMA RelayedData ==
  ASSUME NEW text, NEW d \in ReadRelayData(text, 2)
  PROVE  \E r \in ReadValueAndOptionalClock(text, 3) : d.value = r.value /\ d.alters = r.alters
  <1> DEFINE Then(end) == {[data EXCEPT !.id = text[2][2]] : data \in ReadValueAndOptionalClock(text, end)}
  <1>1. ReadRelayData(text, 2) = UNION {Then(end) : end \in ReadChars(text, 2, <<"hex">>)}
    BY DEF ReadRelayData
  <1>2. ReadChars(text, 2, <<"hex">>) \subseteq {2 + 1}
    BY ReadOne
  <1> HIDE DEF Then
  <1>3. d \in Then(3)
    BY <1>1, <1>2
  <1>4. PICK r \in ReadValueAndOptionalClock(text, 3) : d = [r EXCEPT !.id = text[2][2]]
    BY <1>3 DEF Then
  <1>5. r = [id |-> r.id, value |-> r.value, alters |-> r.alters]
    <2> DEFINE Next3(end) == IF end > Len(text)
                               THEN {[NoData EXCEPT !.value = text[3][2]]}
                               ELSE {[NoData EXCEPT !.value = text[3][2], !.alters = read.clock] :
                                       read \in ReadClock(text, end)}
    <2>1. ReadValueAndOptionalClock(text, 3) = UNION {Next3(end) : end \in ReadChars(text, 3, <<"dec">>)}
      BY DEF ReadValueAndOptionalClock
    <2>2. PICK end : r \in Next3(end)
      BY <2>1
    <2>3. \/ r = [NoData EXCEPT !.value = text[3][2]]
          \/ \E c : r = [NoData EXCEPT !.value = text[3][2], !.alters = c]
      BY <2>2
    <2> HIDE DEF Next3
    <2> QED
      BY <2>3 DEF NoData
  <1> QED
    BY <1>4, <1>5

\* The value at position at of a line, and behind it the first k tokens of a version.
LEMMA ValueLine ==
  ASSUME FilesOK, PoolInv, NEW text, NEW at \in Nat, NEW value \in Amount, NEW e \in Recorded,
         NEW k \in 0..Len(WriteClock(e.clock)),
         Len(text) = at + k, text[at] = Dec(value), Shows(text, at + 1, WriteClock(e.clock), k),
         NEW d \in ReadValueAndOptionalClock(text, at)
  PROVE  d.value = value /\ d.alters \in Alterable
  <1> DEFINE W == WriteClock(e.clock)
  <1>1. IsClock(e.clock)
    BY StoredFacts DEF IsEntry, Recorded
  <1>2. W \in Seq(Ink)
    BY <1>1, ClockInk
  <1>3. Len(W) \in Nat
    BY <1>2, LenProperties
  <1>4. k \in 0..Len(W) /\ Shows(text, at + 1, W, k) /\ k \in Nat /\ Len(text) \in Nat /\ at + 1 \in Nat
    BY <1>3
  <1>5. text[at][2] = value
    BY TokenParts
  <1>6. CASE k = 0
    <2>1. at >= Len(text)
      BY <1>6
    <2>2. d = [id |-> 0, value |-> text[at][2], alters |-> EmptyClock]
      BY <1>4, <2>1, ValueAlone
    <2> QED
      BY <1>5, <2>2 DEF Alterable
  <1>7. CASE k # 0
    <2>1. at < Len(text)
      BY <1>4, <1>7
    <2>2. d.value = text[at][2] /\ \E read \in ReadClock(text, at + 1) : d.alters = read.clock
      BY <1>4, <2>1, ValueAndClock
    <2>3. PICK read \in ReadClock(text, at + 1) : d.alters = read.clock
      BY <2>2
    <2>4. CASE k = Len(W)
      <3>1. ReadClock(text, at + 1) = {[at |-> at + 1 + Len(W), clock |-> e.clock]}
        BY <1>1, <1>4, <2>4, ClockReadBack
      <3> HIDE DEF W
      <3>2. read = [at |-> at + 1 + Len(W), clock |-> e.clock]
        BY <3>1
      <3>3. d.alters = e.clock
        BY <2>3, <3>2
      <3> QED
        BY <1>5, <2>2, <3>3 DEF Alterable
    <2>5. CASE k # Len(W)
      <3>1. k \in 1..Len(W) - 1 /\ Len(text) = (at + 1) - 1 + k
        BY <1>3, <1>4, <1>7, <2>5
      <3>2. ReadClock(text, at + 1) = {}
        BY <1>1, <1>4, <3>1, CutClockFails
      <3> QED
        BY <2>3, <3>2
    <2> QED
      BY <2>4, <2>5
  <1> QED
    BY <1>6, <1>7

\* The lines of an add and of a relay are such lines.
LEMMA VersionShows ==
  ASSUME FilesOK, PoolInv, NEW S, Ink \subseteq S, NEW P \in Seq(S), P # <<>>, NEW version \in Versions,
         NEW text, text = P \o version
  PROVE  /\ text # <<>> /\ Len(P) \in Nat /\ \A j \in 1..Len(P) : text[j] = P[j]
         /\ \/ Len(text) = Len(P)
            \/ \E e \in Recorded : \E k \in 0..Len(WriteClock(e.clock)) :
                 Len(text) = Len(P) + k /\ Shows(text, Len(P) + 1, WriteClock(e.clock), k)
  <1>1. Len(P) \in Nat /\ Len(P) # 0
    BY LenProperties
  <1>3. ASSUME version \in Seq(S)
        PROVE  /\ text # <<>> /\ \A j \in 1..Len(P) : text[j] = P[j]
               /\ Len(version) \in Nat /\ Len(text) = Len(P) + Len(version)
               /\ \A j \in 1..Len(version) : text[Len(P) + j] = version[j]
    <2>1. Len(P \o version) = Len(P) + Len(version)
          /\ (\A i \in 1..Len(P) : (P \o version)[i] = P[i])
          /\ (\A i \in 1..Len(version) : (P \o version)[Len(P) + i] = version[i])
      BY <1>3, Behind
    <2>2. Len(version) \in Nat
      BY <1>3, LenProperties
    <2>3. Len(text) # 0
      BY <1>1, <2>1, <2>2
    <2>4. text # <<>>
      BY <2>3
    <2> QED
      BY <2>1, <2>2, <2>4
  <1>4. CASE version = <<>>
    <2>1. version \in Seq(S) /\ Len(version) = 0
      BY <1>4
    <2>2. text # <<>> /\ (\A j \in 1..Len(P) : text[j] = P[j]) /\ Len(text) = Len(P) + Len(version)
      BY <1>3, <2>1
    <2>3. Len(text) = Len(P)
      BY <1>1, <2>1, <2>2
    <2> QED
      BY <1>1, <2>2, <2>3
  <1>5. CASE version # <<>>
    <2>0. PICK e \in Recorded : \E k \in 0..Len(WriteClock(e.clock)) : version = SubSeq(WriteClock(e.clock), 1, k)
      BY <1>5 DEF Versions
    <2>1. PICK k \in 0..Len(WriteClock(e.clock)) : version = SubSeq(WriteClock(e.clock), 1, k)
      BY <2>0
    <2> DEFINE W == WriteClock(e.clock)
    <2>2. W \in Seq(Ink) /\ k \in 0..Len(W) /\ version = SubSeq(W, 1, k)
      BY <2>1, StoredFacts, ClockInk DEF IsEntry, Recorded
    <2>3. W \in Seq(S) /\ Len(W) \in Nat
      BY <2>2, LenProperties
    <2> HIDE DEF W
    <2>4. Len(version) = k /\ (\A j \in 1..k : version[j] = W[j]) /\ version \in Seq(S) /\ k \in Nat
      <3>1. \A j \in 1..k : W[j] \in S
        BY <2>2, <2>3, ElementOfSeq
      <3>2. version = [j \in 1..k |-> W[j]]
        BY <2>2, <2>3
      <3>3. k \in Nat
        BY <2>2, <2>3
      <3> QED
        BY <3>1, <3>2, <3>3
    <2>5. /\ text # <<>> /\ \A j \in 1..Len(P) : text[j] = P[j]
          /\ Len(text) = Len(P) + k /\ \A j \in 1..k : text[Len(P) + j] = W[j]
      BY <1>3, <2>4
    <2>6. Shows(text, Len(P) + 1, W, k)
      <3>1. \A j \in 1..k : (Len(P) + 1) - 1 + j = Len(P) + j
        BY <1>1
      <3>2. Len(text) \in Nat /\ (Len(P) + 1) - 1 + k <= Len(text)
        BY <1>1, <2>4, <2>5
      <3> QED
        BY <2>4, <2>5, <3>1, <3>2 DEF Shows
    <2> QED
      BY <1>1, <2>2, <2>5, <2>6 DEF W
  <1> QED
    BY <1>4, <1>5

\* What is read of a value that the text of a version follows, or the start of one.
LEMMA ValueWithVersion ==
  ASSUME FilesOK, PoolInv, NEW text, NEW at \in Nat, NEW value \in Amount, text[at] = Dec(value),
         \E e \in Recorded : \E k \in 0..Len(WriteClock(e.clock)) :
           Len(text) = at + k /\ Shows(text, at + 1, WriteClock(e.clock), k),
         NEW d \in ReadValueAndOptionalClock(text, at)
  PROVE  d.value \in Amount /\ d.alters \in Alterable
  <1>0. PICK e \in Recorded : \E k \in 0..Len(WriteClock(e.clock)) :
          Len(text) = at + k /\ Shows(text, at + 1, WriteClock(e.clock), k)
    OBVIOUS
  <1>1. PICK k \in 0..Len(WriteClock(e.clock)) :
          Len(text) = at + k /\ Shows(text, at + 1, WriteClock(e.clock), k)
    BY <1>0
  <1>2. d.value = value /\ d.alters \in Alterable
    BY <1>1, ValueLine
  <1> QED
    BY <1>2

\* What is read of such a line.
LEMMA TypedData ==
  ASSUME FilesOK, PoolInv, NEW S, Ink \subseteq S, NEW P \in Seq(S), P # <<>>, NEW version \in Versions,
         NEW text, text = P \o version, NEW value \in Amount, P[Len(P)] = Dec(value),
         NEW d \in ReadValueAndOptionalClock(text, Len(P))
  PROVE  d.value \in Amount /\ d.alters \in Alterable
  <1>1. Len(P) \in Nat /\ Len(P) # 0
    BY LenProperties
  <1>2. /\ \A j \in 1..Len(P) : text[j] = P[j]
        /\ \/ Len(text) = Len(P)
           \/ \E e \in Recorded : \E k \in 0..Len(WriteClock(e.clock)) :
                Len(text) = Len(P) + k /\ Shows(text, Len(P) + 1, WriteClock(e.clock), k)
    BY VersionShows
  <1>3. text[Len(P)] = Dec(value)
    BY <1>1, <1>2
  <1> DEFINE at == Len(P)
  <1>4. d \in ReadValueAndOptionalClock(text, at) /\ at \in Nat
    BY <1>1
  <1>5. CASE Len(text) = at
    <2>1. Len(text) \in Nat /\ at >= Len(text)
      BY <1>1, <1>5
    <2> HIDE DEF at
    <2>2. d = [id |-> 0, value |-> text[at][2], alters |-> EmptyClock]
      BY <1>4, <2>1, ValueAlone
    <2> QED
      BY <1>3, <2>2, TokenParts DEF Alterable, at
  <1>6. CASE Len(text) # at
    <2>0. \E e \in Recorded : \E k \in 0..Len(WriteClock(e.clock)) :
            Len(text) = at + k /\ Shows(text, at + 1, WriteClock(e.clock), k)
      BY <1>2, <1>6
    <2>2. text[at] = Dec(value)
      BY <1>3
    <2> HIDE DEF at
    <2> QED
      BY <1>4, <2>0, <2>2, ValueWithVersion
  <1> QED
    BY <1>5, <1>6

\* The lines that record an entry, with an optional version.
AddLine(value, version) == <<Sign("add"), Dec(value)>> \o version

RelayLine(n, value, version) == <<Sign("relay"), Hex(n), Dec(value)>> \o version

\* Whatever line is typed, an entry that it makes has a value of the program and
\* alters nothing, or an entry that there is.
THEOREM LinesMean ==
  ASSUME FilesOK, PoolInv, NEW n \in Id, NEW line \in Lines(n), NEW command, command = CommandRead(line),
         command.type \in {"Append", "Relay"}
  PROVE  command.data.value \in Amount /\ command.data.alters \in Alterable
  <1>1. line # <<>> /\ line[1][1] \in {"add", "relay"} /\ command.data \in DataOf(line)
    BY CommandStores
  <1> DEFINE d == command.data
  <1>2. ASSUME NEW value \in Amount, NEW version \in Versions, line = AddLine(value, version)
        PROVE  d.value \in Amount /\ d.alters \in Alterable
    <2> DEFINE S == Ink \cup {Sign("add")}
               P == <<Sign("add"), Dec(value)>>
    <2>1. Ink \subseteq S /\ P \in Seq(S) /\ P # <<>> /\ Len(P) = 2 /\ P[1] = Sign("add") /\ P[2] = Dec(value)
      <3>1. Dec(value) \in S /\ Sign("add") \in S
        BY InkTokens
      <3> HIDE DEF S
      <3>2. P \in Seq(S) /\ P # <<>> /\ Len(P) = 2 /\ P[1] = Sign("add") /\ P[2] = Dec(value)
        BY <3>1
      <3> QED
        BY <3>2 DEF S
    <2>2. line = P \o version
      BY <1>2 DEF AddLine
    <2> HIDE DEF P, S
    <2>3. line[1] = Sign("add")
      BY <1>1, <2>1, <2>2, VersionShows
    <2>4. d \in ReadValueAndOptionalClock(line, 2)
      BY <1>1, <2>3, TokenParts DEF DataOf
    <2> HIDE DEF d
    <2> QED
      BY <2>1, <2>2, <2>4, TypedData
  <1>3. ASSUME NEW value \in Amount, NEW version \in Versions, line = RelayLine(n, value, version)
        PROVE  d.value \in Amount /\ d.alters \in Alterable
    <2> DEFINE S == Ink \cup {Sign("relay")}
               P == <<Sign("relay"), Hex(n), Dec(value)>>
    <2>1. Ink \subseteq S /\ P \in Seq(S) /\ P # <<>> /\ Len(P) = 3 /\ P[1] = Sign("relay") /\ P[3] = Dec(value)
      <3>1. Dec(value) \in S /\ Sign("relay") \in S /\ Hex(n) \in S
        BY InkTokens, FileIdAssumption
      <3> HIDE DEF S
      <3>2. P \in Seq(S) /\ P # <<>> /\ Len(P) = 3 /\ P[1] = Sign("relay") /\ P[3] = Dec(value)
        BY <3>1
      <3> QED
        BY <3>2 DEF S
    <2>2. line = P \o version
      BY <1>3 DEF RelayLine
    <2> HIDE DEF P, S
    <2>3. line[1] = Sign("relay")
      BY <1>1, <2>1, <2>2, VersionShows
    <2>4. d \in ReadRelayData(line, 2)
      BY <1>1, <2>3, TokenParts DEF DataOf
    <2> HIDE DEF d
    <2>5. PICK r \in ReadValueAndOptionalClock(line, 3) : d.value = r.value /\ d.alters = r.alters
      BY <2>4, RelayedData
    <2>6. r.value \in Amount /\ r.alters \in Alterable
      BY <2>1, <2>2, TypedData
    <2> QED
      BY <2>5, <2>6
  <1>4. CASE line = <<Sign("add")>>
    <2>1. Len(line) = 1 /\ line[1] = Sign("add")
      BY <1>4
    <2>2. d \in ReadValueAndOptionalClock(line, 2)
      BY <1>1, <2>1, TokenParts DEF DataOf
    <2> HIDE DEF d
    <2>3. Len(line) \in Nat /\ 2 >= Len(line) /\ 2 \in Nat
      BY <2>1
    <2>4. 2 = Len(line)
      BY <2>2, <2>3, ValueAlone
    <2> QED
      BY <2>1, <2>4
  <1>5. CASE line = <<Sign("relay"), Dec(5)>>
    <2>1. Len(line) = 2 /\ line[1] = Sign("relay")
      BY <1>5
    <2>2. d \in ReadRelayData(line, 2)
      BY <1>1, <2>1, TokenParts DEF DataOf
    <2> HIDE DEF d
    <2>3. Len(line) \in Nat /\ Len(line) <= 3
      BY <2>1
    <2>4. Len(line) = 3
      BY <2>2, <2>3, RelayedValue
    <2> QED
      BY <2>1, <2>4
  <1>6. CASE line \in {<<Sign("sources")>>, <<Sign("quit")>>, <<Sign("disconnect")>>}
    <2>1. line[1][1] \in {"sources", "quit", "disconnect"}
      BY <1>6, TokenParts
    <2> QED
      BY <1>1, <2>1
  <1>7. \/ \E value \in Amount, version \in Versions : line = AddLine(value, version)
        \/ \E value \in Amount, version \in Versions : line = RelayLine(n, value, version)
        \/ line \in {<<>>, <<Sign("add")>>, <<Sign("relay"), Dec(5)>>, <<Sign("sources")>>, <<Sign("quit")>>,
                     <<Sign("disconnect")>>}
    <2> DEFINE A == {AddLine(value, version) : value \in Amount, version \in Versions}
               B == {RelayLine(n, value, version) : value \in Amount, version \in Versions}
               C == {<<>>, <<Sign("add")>>, <<Sign("relay"), Dec(5)>>, <<Sign("sources")>>, <<Sign("quit")>>,
                     <<Sign("disconnect")>>}
    <2>1. Lines(n) = A \cup B \cup C
      BY DEF Lines, AddLine, RelayLine
    <2>2. line \in A => \E value \in Amount, version \in Versions : line = AddLine(value, version)
      OBVIOUS
    <2>3. line \in B => \E value \in Amount, version \in Versions : line = RelayLine(n, value, version)
      OBVIOUS
    <2> HIDE DEF A, B
    <2> QED
      BY <2>1, <2>2, <2>3, Zenon
  <1>8. CASE line \in {<<>>, <<Sign("add")>>, <<Sign("relay"), Dec(5)>>, <<Sign("sources")>>,
                       <<Sign("quit")>>, <<Sign("disconnect")>>}
    BY <1>1, <1>4, <1>5, <1>6, <1>8, Zenon
  <1> QED
    BY <1>2, <1>3, <1>7, <1>8, Zenon

\* The flags among the arguments, and those of them that take an argument.
Flags(args) == {k \in 1..Len(args) : args[k][1] \in {"d", "i", "h", "p", "s"}}

Takers(args) == {k \in Flags(args) : args[k][1] # "s"}

\* What Options makes of the arguments, as far as Start looks at it.
LEMMA OptionsParts ==
  ASSUME NEW args
  PROVE  /\ OptionsRead(args).command =
              CommandRead(SubSeq(args, 1 + Cardinality(Flags(args)) + Cardinality(Takers(args)), Len(args)))
         /\ OptionsRead(args).service => \E k \in 1..Len(args) : args[k][1] = "s"
         /\ OptionsRead(args).status = "Ok" =>
              \A k \in 1..Len(args) : args[k][1] = "i" => args[k + 1][1] = "hex"
  <1> DEFINE argument == [d |-> {"path"}, i |-> {"hex"}, h |-> {"host"}, p |-> {"dec"}]
             flags == {k \in 1..Len(args) : args[k][1] \in DOMAIN argument \cup {"s"}}
             wrong == {k \in flags : args[k][1] \in DOMAIN argument /\ args[k + 1][1] \notin argument[args[k][1]]}
             seen(flag) == {k \in flags : args[k][1] = flag /\ \A w \in wrong : k < w}
             given(flag, default) ==
               IF seen(flag) = {} THEN default ELSE args[1 + CHOOSE k \in seen(flag) : \A j \in seen(flag) : j <= k][2]
             optind == 1 + Cardinality(flags) + Cardinality({k \in flags : args[k][1] # "s"})
             service == seen("s") # {}
             status == CASE wrong # {} -> "InvalidOptionArgument"
                         [] wrong = {} /\ optind > Len(args) /\ ~service -> "MissingCommand"
                         [] OTHER -> "Ok"
             id == given("i", 0)
             path == given("d", NoPath)
             command == CommandRead(SubSeq(args, optind, Len(args)))
  <1>1. OptionsRead(args) = [status |-> status, service |-> service, id |-> id, dbPath |-> path, command |-> command]
    BY DEF OptionsRead
  <1>2. DOMAIN argument = {"d", "i", "h", "p"} /\ argument["i"] = {"hex"}
    OBVIOUS
  <1> HIDE DEF argument
  <1>3. flags = Flags(args)
    BY <1>2 DEF Flags
  <1> HIDE DEF flags
  <1>4. {k \in flags : args[k][1] # "s"} = Takers(args)
    BY <1>3 DEF Takers
  <1>5. service => \E k \in 1..Len(args) : args[k][1] = "s"
    BY <1>3 DEF Flags
  <1>6. ASSUME NEW k \in 1..Len(args), args[k][1] = "i", args[k + 1][1] # "hex" PROVE status # "Ok"
    <2>1. k \in wrong
      BY <1>2, <1>3, <1>6 DEF Flags
    <2>2. wrong # {}
      BY <2>1
    <2> HIDE DEF wrong, optind, service
    <2> QED
      BY <2>2
  <1>7. command = CommandRead(SubSeq(args, 1 + Cardinality(Flags(args)) + Cardinality(Takers(args)), Len(args)))
    BY <1>3, <1>4
  <1> HIDE DEF status, service, id, path, command
  <1>8. OptionsRead(args).command = command /\ OptionsRead(args).service = service
        /\ OptionsRead(args).status = status
    BY <1>1
  <1> QED
    BY <1>5, <1>6, <1>7, <1>8

\* The arguments of a service: the command stands behind five tokens.
LEMMA ServiceArguments ==
  ASSUME NEW n, NEW args, Len(args) \in {5, 7}, args[1] = Sign("s"), args[2] = Sign("i"), args[3] = Hex(n),
         args[4] = Sign("d"), args[5] = <<"path", n>>,
         Len(args) = 7 => args[6] = Sign("add") /\ args[7][1] = "dec"
  PROVE  Cardinality(Flags(args)) = 3 /\ Cardinality(Takers(args)) = 2
  <1>1. args[1][1] = "s" /\ args[2][1] = "i" /\ args[3][1] = "hex" /\ args[4][1] = "d" /\ args[5][1] = "path"
        /\ (Len(args) = 7 => args[6][1] = "add" /\ args[7][1] = "dec")
    BY TokenParts
  <1>2. Flags(args) = {1, 2, 4}
    <2>1. CASE Len(args) = 5
      <3>1. 1..Len(args) = {1, 2, 3, 4, 5}
        BY <2>1
      <3> QED
        BY <1>1, <3>1 DEF Flags
    <2>2. CASE Len(args) = 7
      <3>1. 1..Len(args) = {1, 2, 3, 4, 5, 6, 7}
        BY <2>2
      <3> QED
        BY <1>1, <2>2, <3>1 DEF Flags
    <2> QED
      BY <2>1, <2>2
  <1>3. Takers(args) = {2, 4}
    BY <1>1, <1>2 DEF Takers
  <1>4. IsFiniteSet({2}) /\ Cardinality({2}) = 1
    BY FS_Singleton
  <1>5. IsFiniteSet({2} \cup {4}) /\ Cardinality({2} \cup {4}) = 2
    BY <1>4, FS_AddElement
  <1>6. Cardinality(({2} \cup {4}) \cup {1}) = 3
    BY <1>5, FS_AddElement
  <1>7. {2, 4} = {2} \cup {4} /\ {1, 2, 4} = ({2} \cup {4}) \cup {1}
    OBVIOUS
  <1> QED
    BY <1>2, <1>3, <1>5, <1>6, <1>7

\* The only command among the arguments that stores an entry is an add of a value.
LEMMA ArgumentsMean ==
  ASSUME NEW n \in Id, NEW args \in Arguments(n), OptionsRead(args).status = "Ok", OptionsRead(args).service,
         NEW command, command = OptionsRead(args).command, command.type \in {"Append", "Relay"}
  PROVE  command.data.value \in Amount /\ command.data.alters = EmptyClock
  <1> DEFINE P == <<Sign("s"), Sign("i"), Hex(n), Sign("d"), <<"path", n>>>>
             rest == SubSeq(args, 1 + Cardinality(Flags(args)) + Cardinality(Takers(args)), Len(args))
  <1>1. /\ command = CommandRead(rest)
        /\ \E k \in 1..Len(args) : args[k][1] = "s"
        /\ \A k \in 1..Len(args) : args[k][1] = "i" => args[k + 1][1] = "hex"
    BY OptionsParts
  <1>2. \/ \E value \in Amount : args = P \o <<Sign("add"), Dec(value)>>
        \/ args = P
        \/ args = <<Sign("i"), Sign("quit"), Sign("s")>>
        \/ args = <<Sign("i"), Hex(n), Sign("quit")>>
    BY DEF Arguments
  <1>3. Len(P) = 5 /\ P[1] = Sign("s") /\ P[2] = Sign("i") /\ P[3] = Hex(n) /\ P[4] = Sign("d") /\ P[5] = <<"path", n>>
    OBVIOUS
  <1> HIDE DEF rest
  <1>4. CASE args = <<Sign("i"), Sign("quit"), Sign("s")>>
    <2>1. Len(args) = 3 /\ args[1] = Sign("i") /\ args[2] = Sign("quit")
      BY <1>4
    <2>2. 1 \in 1..Len(args) /\ args[1][1] = "i" /\ args[1 + 1][1] = "quit"
      BY <2>1, TokenParts
    <2> QED
      BY <1>1, <2>2
  <1>5. CASE args = <<Sign("i"), Hex(n), Sign("quit")>>
    <2>1. Len(args) = 3 /\ args[1] = Sign("i") /\ args[2] = Hex(n) /\ args[3] = Sign("quit")
      BY <1>5
    <2>2. args[1][1] = "i" /\ args[2][1] = "hex" /\ args[3][1] = "quit"
      BY <2>1, TokenParts
    <2>3. 1..Len(args) = {1, 2, 3}
      BY <2>1
    <2> QED
      BY <1>1, <2>2, <2>3
  <1>6. rest # <<>> /\ rest[1][1] \in {"add", "relay"} /\ command.data \in DataOf(rest)
    BY <1>1, CommandStores
  <1>7. CASE args = P
    <2>1. Cardinality(Flags(args)) = 3 /\ Cardinality(Takers(args)) = 2
      BY <1>3, <1>7, ServiceArguments
    <2>2. rest = SubSeq(args, 6, 5)
      BY <1>3, <1>7, <2>1 DEF rest
    <2>3. rest = <<>>
      <3> HIDE DEF P
      <3> QED
        BY <2>2
    <2> QED
      BY <1>6, <2>3
  <1>8. ASSUME NEW value \in Amount, args = P \o <<Sign("add"), Dec(value)>>
        PROVE  command.data.value \in Amount /\ command.data.alters = EmptyClock
    <2> DEFINE Q == <<Sign("add"), Dec(value)>>
               S == {P[j] : j \in 1..5} \cup {Q[j] : j \in 1..2}
    <2>1. Len(Q) = 2 /\ Q[1] = Sign("add") /\ Q[2] = Dec(value)
      OBVIOUS
    <2>2. P \in Seq(S) /\ Q \in Seq(S)
      OBVIOUS
    <2>3. args = P \o Q
      BY <1>8
    <2> HIDE DEF P, Q, S
    <2>4. Len(P \o Q) = Len(P) + Len(Q) /\ (\A i \in 1..Len(P) : (P \o Q)[i] = P[i])
          /\ (\A i \in 1..Len(Q) : (P \o Q)[Len(P) + i] = Q[i])
      BY <2>2, Behind
    <2>5. Len(args) = 7 /\ (\A i \in 1..5 : args[i] = P[i]) /\ args[5 + 1] = Q[1] /\ args[5 + 2] = Q[2]
      BY <1>3, <2>1, <2>3, <2>4
    <2>6. /\ args[1] = Sign("s") /\ args[2] = Sign("i") /\ args[3] = Hex(n) /\ args[4] = Sign("d")
          /\ args[5] = <<"path", n>> /\ args[6] = Sign("add") /\ args[7] = Dec(value)
      BY <1>3, <2>1, <2>5
    <2>7. Cardinality(Flags(args)) = 3 /\ Cardinality(Takers(args)) = 2
      <3>1. Len(args) \in {5, 7} /\ args[7][1] = "dec"
        BY <2>5, <2>6, TokenParts
      <3> QED
        BY <2>6, <3>1, ServiceArguments
    <2>8. rest = SubSeq(args, 6, 7)
      BY <2>5, <2>7 DEF rest
    <2>9. Len(rest) = 2 /\ rest[1] = args[6] /\ rest[2] = args[7]
      <3>1. SubSeq(args, 6, 7) = [i \in 1..2 |-> args[6 + i - 1]]
        OBVIOUS
      <3> QED
        BY <2>8, <3>1
    <2>10. command.data \in ReadValueAndOptionalClock(rest, 2)
      BY <1>6, <2>6, <2>9, TokenParts DEF DataOf
    <2>11. command.data = [id |-> 0, value |-> rest[2][2], alters |-> EmptyClock]
      <3>1. Len(rest) \in Nat /\ 2 >= Len(rest) /\ 2 \in Nat
        BY <2>9
      <3> QED
        BY <2>10, <3>1, ValueAlone
    <2>12. rest[2][2] = value
      BY <2>6, <2>9, TokenParts
    <2> QED
      BY <2>11, <2>12
  <1> QED
    BY <1>2, <1>4, <1>5, <1>7, <1>8

-----------------------------------------------------------------------------
(***************************************************************************)
(* The steps of the services.                                              *)
(***************************************************************************)

\* What every step keeps.
ServicesOK == FilesOK /\ PoolInv /\ AltersAnEntry

\* A pool without entries has clocks that count nothing.
LEMMA FreshClocks ==
  ASSUME FilesOK, PoolInv, Fresh, NEW n \in Id
  PROVE  clock[n] = EmptyClock
  <1>1. ASSUME NEW i \in Id PROVE At(clock[n], i) = 0
    <2>1. At(clock[n], i) \in Nat /\ At(clock[i], i) \in Nat
      BY KeptFacts DEF FilesOK
    <2>2. At(clock[n], i) <= At(clock[i], i)
      <3>1. CASE i \in DOMAIN clock[n]
        BY <3>1, SameClocks DEF PoolInv, PoolProofs!IInv, PoolProofs!AuthorAhead, At
      <3>2. CASE i \notin DOMAIN clock[n]
        <4>1. At(clock[n], i) = 0
          BY <3>2 DEF At
        <4> QED
          BY <2>1, <4>1
      <3> QED
        BY <3>1, <3>2
    <2>3. \A t \in 1..At(clock[i], i) : \E e \in Stored(i) : TRUE
      BY SameClocks DEF PoolInv, PoolProofs!IInv, PoolProofs!AuthorHasHistory
    <2> QED
      BY <2>1, <2>2, <2>3 DEF Fresh
  <1> DEFINE c == clock[n]
  <1>2. DOMAIN c \subseteq Id /\ c \in [DOMAIN c -> 1..MaxTime]
    BY ClockShape DEF FilesOK
  <1>3. \A i \in Id : At(c, i) = 0
    BY <1>1
  <1> HIDE DEF c
  <1>4. DOMAIN c = {}
    <2> SUFFICES ASSUME NEW i \in DOMAIN c PROVE FALSE
      OBVIOUS
    <2>1. c[i] \in 1..MaxTime /\ c[i] = 0
      BY <1>2, <1>3 DEF At
    <2> QED
      BY <2>1, FileMaxTimeAssumption
  <1>5. c = EmptyClock
    BY <1>2, <1>4 DEF EmptyClock
  <1> QED
    BY <1>5 DEF c

\* A first service, or the next one, is started before there are entries.
LEMMA StartStep ==
  ASSUME ServicesOK, Fresh, NEW n \in Id, NEW args \in Arguments(n), Start(args)
  PROVE  FilesOK' /\ [PoolProofs!Next]_(PoolProofs!vars) /\ AltersAnEntry'
  <1> DEFINE options == OptionsRead(args)
             command == options.command
             data == command.data
  <1>1. options.status = "Ok" /\ options.service
    BY DEF Start
  <1>2. PICK id \in Id : \/ Open(id)
                         \/ /\ Appends(id, command)
                            /\ OpenAndInsert(id, NewEntry(id, EmptyClock, data.value, data.alters))
    BY DEF Start
  <1>3. FilesOK /\ PoolInv /\ AltersAnEntry /\ clock[id] = EmptyClock /\ clock = [m \in Id |-> clock[m]]
    BY FreshClocks DEF ServicesOK, FilesOK
  <1>4. CASE Open(id)
    <2>1. clock' = clock /\ files' = files
      BY <1>3, <1>4 DEF Open
    <2> QED
      BY <1>3, <2>1, SameFiles
  <1>5. CASE /\ Appends(id, command)
             /\ OpenAndInsert(id, NewEntry(id, EmptyClock, data.value, data.alters))
    <2>1. command.type \in {"Append", "Relay"}
      BY <1>5 DEF Appends
    <2>2. data.value \in Amount /\ data.alters = EmptyClock
      BY <1>1, <2>1, ArgumentsMean
    <2> DEFINE value == data.value
               e == NewEntry(id, clock[id], value, EmptyClock)
    <2>3. Save(id, e) /\ clock' = [clock EXCEPT ![id] = e.clock]
      BY <1>3, <1>5, <2>2 DEF OpenAndInsert
    <2>4. value \in Amount /\ EmptyClock \in Alterable
      BY <2>2 DEF Alterable
    <2>5. At(clock[id], id) < MaxTime
      <3>1. At(clock[id], id) = 0
        BY <1>3 DEF At, EmptyClock
      <3> QED
        BY <3>1, FileMaxTimeAssumption
    <2> HIDE DEF value, data, command, options
    <2>6. Merge(clock[id], e.clock) = e.clock
      <3>1. e.clock \in ClocksOver(Id, 1..MaxTime) /\ clock[id] \in ClocksOver(Id, 1..MaxTime)
        BY <1>3, <2>4, <2>5, MadeEntry DEF FilesOK
      <3>2. Leq(clock[id], e.clock)
        BY <1>3 DEF Leq, EmptyClock
      <3>3. 1..MaxTime \in SUBSET Nat
        BY FileMaxTimeAssumption
      <3> HIDE DEF e
      <3> QED
        BY <3>1, <3>2, <3>3, MergeAbsorbs
    <2>7. clock' = [clock EXCEPT ![id] = Merge(@, e.clock)]
      BY <2>3, <2>6
    <2>8. e = NewEntry(id, clock[id], value, EmptyClock)
      OBVIOUS
    <2> HIDE DEF e
    <2>9. FilesOK' /\ PoolProofs!Next /\ AltersAnEntry'
      BY <1>3, <2>3, <2>4, <2>5, <2>7, <2>8, AppendStep
    <2> QED
      BY <2>9
  <1> QED
    BY <1>2, <1>4, <1>5

\* A line of RunService.
LEMMA EnterStep ==
  ASSUME ServicesOK, NEW n \in Id, NEW line \in Lines(n), Enter(n, line)
  PROVE  FilesOK' /\ [PoolProofs!Next]_(PoolProofs!vars) /\ AltersAnEntry'
  <1> DEFINE command == CommandRead(line)
             data == command.data
  <1>1. FilesOK /\ PoolInv /\ AltersAnEntry
    BY DEF ServicesOK
  <1>2. \/ Appends(n, command) /\ AppendData(n, data.value, data.alters)
        \/ clock' = clock /\ files' = files
    BY DEF Enter
  <1>3. CASE Appends(n, command) /\ AppendData(n, data.value, data.alters)
    <2>1. command.type \in {"Append", "Relay"}
      BY <1>3 DEF Appends
    <2>2. data.value \in Amount /\ data.alters \in Alterable
      BY <1>1, <2>1, LinesMean
    <2> DEFINE value == data.value
               alters == data.alters
               e == NewEntry(n, clock[n], value, alters)
    <2>3. value \in Amount /\ alters \in Alterable /\ e = NewEntry(n, clock[n], value, alters)
      BY <2>2
    <2>4. At(clock[n], n) < MaxTime /\ Save(n, e) /\ clock' = [clock EXCEPT ![n] = Merge(@, e.clock)]
      BY <1>3 DEF AppendData, Insert
    <2> HIDE DEF value, alters, e, data, command
    <2>5. FilesOK' /\ PoolProofs!Next /\ AltersAnEntry'
      BY <1>1, <2>3, <2>4, AppendStep
    <2> QED
      BY <2>5
  <1>4. CASE clock' = clock /\ files' = files
    BY <1>1, <1>4, SameFiles
  <1> QED
    BY <1>2, <1>3, <1>4

\* Every step is one of the pool, or none.
LEMMA ServicesStep ==
  ASSUME ServicesOK, [StayNext]_svars
  PROVE  FilesOK' /\ [PoolProofs!Next]_(PoolProofs!vars) /\ AltersAnEntry'
  <1>1. FilesOK /\ PoolInv /\ AltersAnEntry
    BY DEF ServicesOK
  <1>2. CASE UNCHANGED svars
    <2>1. clock' = clock /\ files' = files
      BY <1>2 DEF svars
    <2> QED
      BY <1>1, <2>1, SameFiles
  <1>3. CASE Fresh /\ StartAny
    BY <1>3, StartStep DEF StartAny
  <1>4. CASE Work
    <2>1. ASSUME NEW n \in Id, NEW line \in Lines(n), Enter(n, line)
          PROVE  FilesOK' /\ [PoolProofs!Next]_(PoolProofs!vars) /\ AltersAnEntry'
      BY <2>1, EnterStep
    <2>2. ASSUME NEW n \in Id, NEW m \in Id, Deliver(n, m)
          PROVE  FilesOK' /\ [PoolProofs!Next]_(PoolProofs!vars) /\ AltersAnEntry'
      <3>1. PICK e \in Stored(m) : Insert(n, e)
        BY <2>2 DEF Deliver
      <3> QED
        BY <1>1, <3>1, ReceiveStep
    <2> QED
      BY <1>4, <2>1, <2>2 DEF Work
  <1> QED
    BY <1>2, <1>3, <1>4 DEF StayNext

\* So the pool stays in order,
LEMMA PoolKept ==
  ASSUME PoolInv, [PoolProofs!Next]_(PoolProofs!vars)
  PROVE  PoolInv'
  <1>1. Id \subseteq Nat \ {0} /\ MaxTime \in Nat
    BY FileIdAssumption, FileMaxTimeAssumption
  <1>2. [PoolProofs!Next]_(PoolProofs!vars)
    OBVIOUS
  <1>3. PoolProofs!IInv'
    BY <1>1, <1>2, PoolProofs!InvariantKept DEF PoolInv
  <1>4. PoolProofs!ClocksAreKeys'
    BY <1>1, <1>2, PoolProofs!KeysKept DEF PoolInv
  <1> QED
    BY <1>3, <1>4 DEF PoolInv

\* and everything begins in order.
LEMMA ServicesBegin ==
  ASSUME ServiceInit
  PROVE  ServicesOK /\ PoolProofs!Init
  <1>1. clock = [n \in Id |-> EmptyClock] /\ files = [n \in Id |-> [i \in Id |-> <<>>]]
    BY DEF ServiceInit, Init
  <1>2. DOMAIN EmptyClock = {} /\ EmptyClock = [i \in {} |-> EmptyClock[i]] /\ EmptyClock \in [{} -> 1..MaxTime]
    BY DEF EmptyClock
  <1>3. EmptyClock \in ClocksOver(Id, 1..MaxTime) /\ IsClock(EmptyClock)
    BY <1>2, ClockShape, FS_EmptySet DEF IsClock
  <1>4. ASSUME NEW n \in Id, NEW i \in Id PROVE Keeps(files[n][i], clock[n], i)
    <2>1. files[n][i] = <<>> /\ At(clock[n], i) = 0
      BY <1>1, <1>2 DEF At
    <2>2. PICK es, ends : FileOf(<<>>, 0, es, ends)
      BY EmptyFile
    <2> QED
      BY <2>1, <2>2 DEF Keeps
  <1>5. FilesOK
    <2>1. clock \in [Id -> ClocksOver(Id, 1..MaxTime)] /\ \A n \in Id : IsClock(clock[n])
      BY <1>1, <1>3
    <2>2. files = [n \in Id |-> [i \in Id |-> files[n][i]]]
      BY <1>1
    <2> QED
      BY <1>4, <2>1, <2>2 DEF FilesOK
  <1>6. \A n, i \in Id : Saved(n, i) = {}
    <2> SUFFICES ASSUME NEW n \in Id, NEW i \in Id, NEW e \in EntriesIn(files[n][i]) PROVE FALSE
      BY DEF Saved, EntriesIn
    <2>1. e.clock[i] \in 1..At(clock[n], i)
      BY <1>4, KeptFacts
    <2>2. At(clock[n], i) = 0
      BY <1>1, <1>2 DEF At
    <2> QED
      BY <2>1, <2>2
  <1>7. \A n \in Id : Stored(n) = {}
    BY <1>6 DEF Stored
  <1>8. PoolProofs!Init
    BY <1>1, <1>7, SameClocks DEF PoolProofs!Init
  <1>9. PoolProofs!IInv
    <2>1. Id \subseteq Nat \ {0} /\ MaxTime \in Nat
      BY FileIdAssumption, FileMaxTimeAssumption
    <2> QED
      BY <1>8, <2>1, PoolProofs!InitIsSafe
  <1>10. PoolProofs!ClocksAreKeys
    BY <1>7 DEF PoolProofs!ClocksAreKeys
  <1>11. AltersAnEntry
    BY <1>7 DEF AltersAnEntry, Recorded
  <1> QED
    BY <1>5, <1>8, <1>9, <1>10, <1>11 DEF ServicesOK, PoolInv

-----------------------------------------------------------------------------
(***************************************************************************)
(* What holds of the services while none of them is started again.         *)
(***************************************************************************)

\* However lines are typed and entries arrive, the file of each author has some of
\* the entries that the clock counts, line by line in the order of their times.
THEOREM ServicesInOrder == StaySpec => []ServicesOK
  <1>1. ServiceInit => ServicesOK
    BY ServicesBegin
  <1>2. ServicesOK /\ [StayNext]_svars => ServicesOK'
    <2> SUFFICES ASSUME ServicesOK, [StayNext]_svars PROVE ServicesOK'
      OBVIOUS
    <2>1. FilesOK' /\ [PoolProofs!Next]_(PoolProofs!vars) /\ AltersAnEntry'
      BY ServicesStep
    <2>2. PoolInv
      BY DEF ServicesOK
    <2>3. PoolInv'
      BY <2>1, <2>2, PoolKept
    <2> QED
      BY <2>1, <2>3 DEF ServicesOK
  <1> QED
    BY <1>1, <1>2, PTL DEF StaySpec

\* JournalFile::entries, which tries to read as many lines as the clock counts, lists
\* all, however many of them there are.
THEOREM EntriesListed == StaySpec => []AllListed
  <1>1. ServicesOK => AllListed
    <2> SUFFICES ASSUME ServicesOK, NEW n \in Id, NEW i \in Id PROVE Saved(n, i) = Shown(n, i)
      BY DEF AllListed
    <2>1. Keeps(files[n][i], clock[n], i)
      BY DEF ServicesOK, FilesOK
    <2> QED
      BY <2>1, KeptFacts DEF Saved, Shown, EntriesIn
  <1> QED
    BY <1>1, ServicesInOrder, PTL

\* SeekToLine succeeds on every line that the file has, and finds its beginning.
LEMMA SeekFindsLine ==
  ASSUME NEW text, NEW line, text # <<>>, LineCount(text) \in Nat,
         line \in 1..LineCount(text)
  PROVE  SeekToLine(text, line).ok /\ SeekToLine(text, line).at = LineStart(text, line)
<1>1. SeekToLine(text, line).ok = (line \in 1..LineCount(text) + 2)
  BY Zenon DEF SeekToLine
<1>2. SeekToLine(text, line).at = LineStart(text, line)
  BY Zenon DEF SeekToLine
<1>3. line \in 1..LineCount(text) + 2
  OBVIOUS
<1> QED
  BY <1>1, <1>2, <1>3, Zenon

\* Behind the last line SeekToLine leaves nothing to read.
LEMMA SeekMissesLine ==
  ASSUME NEW text, NEW line, LineCount(text) \in Nat, line \notin 1..LineCount(text)
  PROVE  SeekToLine(text, line).at = Len(text) + 1
  BY Zenon DEF SeekToLine

\* The files that JournalFile::entry looks into, and what it finds there.
Sought(n, c, i) == SeekToLine(files[n][i], c[i])

FoundIn(n, c, i) == {f \in {read.entry : read \in ReadEntry(files[n][i], Sought(n, c, i).at)} : f.clock = c}

\* What is found in the file of i is an entry of i with this clock: there is only
\* one with it.
LEMMA FoundIsSaved ==
  ASSUME ServicesOK, NEW n \in Id, NEW e \in Stored(n), NEW i \in DOMAIN e.clock, FoundIn(n, e.clock, i) # {}
  PROVE  i = e.id /\ FoundIn(n, e.clock, i) = {e}
  <1> DEFINE c == e.clock
             text == files[n][i]
  <1>1. FilesOK /\ PoolInv
    BY DEF ServicesOK
  <1>2. c \in ClocksOver(Id, 1..MaxTime) /\ \A f \in Stored(n) : f.clock = c => f = e
    BY <1>1, StoredFacts
  <1>3. i \in Id /\ Keeps(text, clock[n], i)
    <2>1. DOMAIN c \subseteq Id
      BY <1>2, ClockShape
    <2> QED
      BY <1>1, <2>1 DEF FilesOK
  <1>4. text \in Seq(Letter)
    BY <1>3 DEF Keeps, FileOf
  <1>5. LineCount(text) \in Nat /\ Len(text) \in Nat
    BY <1>3, <1>4, KeptFacts, LenProperties
  <1>6. c[i] \in 1..LineCount(text)
    <2> SUFFICES ASSUME c[i] \notin 1..LineCount(text) PROVE FALSE
      OBVIOUS
    <2>1. Sought(n, c, i).at = Len(text) + 1
      BY <1>5, SeekMissesLine DEF Sought
    <2>2. ReadEntry(text, Sought(n, c, i).at) = {}
      BY <1>5, <2>1, NothingBehind
    <2> QED
      BY <2>2 DEF FoundIn
  <1>7. text # <<>>
    <2> SUFFICES ASSUME text = <<>> PROVE FALSE
      OBVIOUS
    <2>1. LineFeeds(text) = {}
      BY DEF LineFeeds
    <2>2. LineCount(text) = 0
      BY <2>1, FS_EmptySet DEF LineCount
    <2> HIDE DEF text, c
    <2> QED
      BY <1>6, <2>2
  <1>8. FoundIn(n, c, i) = {f \in OnLine(text, c[i]) : f.clock = c}
    BY <1>5, <1>6, <1>7, SeekFindsLine DEF FoundIn, Sought, OnLine
  <1>9. PICK f \in EntriesIn(text) : OnLine(text, c[i]) = {f}
    BY <1>3, <1>6, KeptFacts
  <1>10. f.id = i
    BY <1>3, KeptFacts
  <1>11. f \in Stored(n)
    BY <1>3 DEF Stored, Saved, EntriesIn
  <1>12. f.clock = c
    BY <1>8, <1>9
  <1>13. f = e
    BY <1>2, <1>11, <1>12
  <1> QED
    BY <1>8, <1>9, <1>10, <1>12, <1>13

\* Each entry of a file that has all lines is on the line of its time.
LEMMA LineOfTime ==
  ASSUME NEW text, NEW c, NEW i, Keeps(text, c, i), LineCount(text) = At(c, i), NEW e \in EntriesIn(text)
  PROVE  OnLine(text, e.clock[i]) = {e}
  BY KeptFacts, SMTT(90)

\* The file of the author that has all lines has that of the entry where it is
\* looked for, and every file that has all lines is long enough.
LEMMA SavedIsFound ==
  ASSUME ServicesOK, NEW n \in Id, NEW e \in Stored(n), NEW i \in DOMAIN e.clock, Gapless(n, i)
  PROVE  Sought(n, e.clock, i).ok /\ (i = e.id => FoundIn(n, e.clock, i) = {e})
  <1> DEFINE c == e.clock
             text == files[n][i]
  <1>1. FilesOK /\ PoolInv
    BY DEF ServicesOK
  <1>2. /\ IsEntry(e) /\ e.id \in Id /\ e \in Saved(n, e.id) /\ c \in ClocksOver(Id, 1..MaxTime)
        /\ Leq(c, clock[n])
    BY <1>1, StoredFacts
  <1>3. DOMAIN c \subseteq Id /\ c[i] \in 1..MaxTime
    <2>1. c \in ClocksOver(Id, 1..MaxTime)
      BY <1>2
    <2>2. DOMAIN c \subseteq Id /\ c \in [DOMAIN c -> 1..MaxTime]
      BY <2>1, ClockShape
    <2> QED
      BY <2>2
  <1>4. i \in Id /\ Keeps(text, clock[n], i)
    BY <1>1, <1>3 DEF FilesOK
  <1>5. LineCount(text) = At(clock[n], i) /\ LineCount(text) \in Nat
    BY <1>4, KeptFacts DEF Gapless
  <1>6. c[i] \in 1..LineCount(text)
    <2>1. i \in DOMAIN clock[n] /\ c[i] <= clock[n][i]
      BY <1>2 DEF Leq
    <2>2. At(clock[n], i) = clock[n][i]
      BY <2>1 DEF At
    <2> QED
      BY <1>3, <1>5, <2>1, <2>2, FileMaxTimeAssumption
  <1>7. text # <<>>
    <2> SUFFICES ASSUME text = <<>> PROVE FALSE
      OBVIOUS
    <2>1. LineFeeds(text) = {}
      BY DEF LineFeeds
    <2>2. LineCount(text) = 0
      BY <2>1, FS_EmptySet DEF LineCount
    <2> HIDE DEF text, c
    <2> QED
      BY <1>6, <2>2
  <1>8. Sought(n, c, i).ok /\ Sought(n, c, i).at = LineStart(text, c[i])
    BY <1>5, <1>6, <1>7, SeekFindsLine DEF Sought
  <1>9. ASSUME i = e.id PROVE FoundIn(n, c, i) = {e}
    <2>1. e \in EntriesIn(text)
      BY <1>2, <1>9 DEF Saved, EntriesIn
    <2>2. OnLine(text, c[i]) = {e}
      BY <1>4, <1>5, <2>1, LineOfTime
    <2>3. FoundIn(n, c, i) = {f \in OnLine(text, c[i]) : f.clock = c}
      BY <1>8 DEF FoundIn, OnLine
    <2> QED
      BY <2>2, <2>3
  <1> QED
    BY <1>8, <1>9

\* JournalFile::entry never gives another entry than the one that was asked for, and
\* gives that one where the files of the ids of its clock have no gaps.
LEMMA StoredIsFound ==
  ASSUME ServicesOK, NEW n \in Id, NEW e \in Stored(n)
  PROVE  /\ Lookup(n, e.clock) \subseteq {e}
         /\ (\A i \in DOMAIN e.clock : Gapless(n, i)) => Lookup(n, e.clock) = {e}
  <1> DEFINE c == e.clock
             tried == {i \in DOMAIN c : \A j \in DOMAIN c : j <= i => Sought(n, c, j).ok}
             hits == {i \in tried : FoundIn(n, c, i) # {}}
  <1>1. Lookup(n, c) = IF hits = {} THEN {} ELSE FoundIn(n, c, CHOOSE i \in hits : \A j \in hits : i <= j)
    BY DEF Lookup, FoundIn, Sought
  <1>2. \A i \in hits : i = e.id /\ FoundIn(n, c, i) = {e}
    BY FoundIsSaved
  <1>3. e.id \in Nat /\ e.id \in DOMAIN c
    <2>1. FilesOK /\ PoolInv
      BY DEF ServicesOK
    <2>2. IsEntry(e) /\ e.id \in Id /\ e \in Saved(n, e.id)
      BY <2>1, StoredFacts
    <2>3. Keeps(files[n][e.id], clock[n], e.id) /\ e \in EntriesIn(files[n][e.id])
      BY <2>1, <2>2 DEF FilesOK, Saved, EntriesIn
    <2> QED
      BY <2>2, <2>3, KeptFacts DEF IsEntry
  <1>4. ASSUME \A i \in DOMAIN c : Gapless(n, i) PROVE hits = {e.id}
    <2>1. \A i \in DOMAIN c : Sought(n, c, i).ok
      BY <1>4, SavedIsFound
    <2>2. FoundIn(n, c, e.id) = {e}
      BY <1>3, <1>4, SavedIsFound
    <2>3. e.id \in hits
      BY <1>3, <2>1, <2>2
    <2> QED
      BY <1>2, <2>3
  <1> HIDE DEF hits
  <1>5. CASE hits = {}
    BY <1>1, <1>4, <1>5
  <1>6. CASE hits # {}
    <2>1. hits = {e.id}
      BY <1>2, <1>6
    <2>2. (CHOOSE i \in hits : \A j \in hits : i <= j) = e.id
      BY <1>3, <2>1
    <2> QED
      BY <1>1, <1>2, <1>6, <2>1, <2>2
  <1> QED
    BY <1>5, <1>6

\* JournalFile::entry finds no saved entry under another's clock and, where no entry
\* arrived before those it counts, every saved entry by the number of its line.
THEOREM EntriesFound == StaySpec => []FoundWithoutGaps
  <1>1. ServicesOK => FoundWithoutGaps
    BY StoredIsFound DEF FoundWithoutGaps
  <1> QED
    BY <1>1, ServicesInOrder, PTL

\* A version that ReadValueAndOptionalClock takes of those that are typed is that of an
\* entry, never of a part of it: no line makes an entry that alters what nobody recorded.
THEOREM AltersEntries == StaySpec => []AltersAnEntry
  <1>1. ServicesOK => AltersAnEntry
    BY DEF ServicesOK
  <1> QED
    BY <1>1, ServicesInOrder, PTL

\* Both definitions of the pool are the same one.
LEMMA SamePool ==
  /\ Pool!Init <=> PoolProofs!Init
  /\ Pool!Next <=> PoolProofs!Next
  /\ UNCHANGED Pool!vars <=> UNCHANGED PoolProofs!vars
  BY DEF Pool!Init, PoolProofs!Init, Pool!vars, PoolProofs!vars, Pool!EmptyClock, PoolProofs!EmptyClock,
         Pool!Next, PoolProofs!Next, Pool!AppendData, PoolProofs!AppendData,
         Pool!Receive, PoolProofs!Receive, Pool!Insert, PoolProofs!Insert, Pool!Saves, PoolProofs!Saves,
         Pool!Clock, PoolProofs!Clock, Pool!ClocksOver, PoolProofs!ClocksOver,
         Pool!IsNext, PoolProofs!IsNext, Pool!Tick, PoolProofs!Tick, Pool!Merge, PoolProofs!Merge,
         Pool!At, PoolProofs!At

\* The journals on files are journals of the pool: JournalFile::save, which never
\* looks whether it has the clock of an entry, stores what Journal::save would.
THEOREM FilesImplementPool == StaySpec => ImplementsPool
  <1>1. ServiceInit => Pool!Init
    BY ServicesBegin, SamePool
  <1>2. ServicesOK /\ [StayNext]_svars => [Pool!Next]_(Pool!vars)
    <2> SUFFICES ASSUME ServicesOK, [StayNext]_svars PROVE [Pool!Next]_(Pool!vars)
      OBVIOUS
    <2>1. [PoolProofs!Next]_(PoolProofs!vars)
      BY ServicesStep
    <2> QED
      BY <2>1, SamePool
  <1> QED
    BY <1>1, <1>2, ServicesInOrder, PTL DEF StaySpec, ImplementsPool, Pool!Spec
=============================================================================
