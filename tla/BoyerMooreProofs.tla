-------------------------- MODULE BoyerMooreProofs --------------------------
(***************************************************************************)
(* That the keyword search of module BoyerMoore finds every occurrence of  *)
(* a keyword of ASCII characters, in every line and however often it is    *)
(* used, and that it never loses or mixes up a record of its two rings.    *)
(* (A keyword with bytes above 127 is looked up under another key than it  *)
(* was stored under, and may be missed.)                                   *)
(***************************************************************************)
EXTENDS BoyerMoore, SequenceTheorems, Induction

-----------------------------------------------------------------------------
(* The tables: the shifts are positive and at most the keyword's length.    *)

\* A nonempty set of numbers has the extremes the operators choose.
LEMMA LeastIs ==
  ASSUME NEW S \in SUBSET Nat, S # {}
  PROVE  Least(S) \in S /\ \A y \in S : Least(S) <= y
<1>1. \E x \in S : \A y \in S : x <= y
  BY LeastNumber
<1> QED  BY <1>1, Zenon DEF Least

\* So has a nonempty set of integers with an upper bound.
LEMMA GreatestIs ==
  ASSUME NEW S \in SUBSET Int, S # {}, NEW b \in Int, \A k \in S : k <= b
  PROVE  Greatest(S) \in S /\ \A y \in S : y <= Greatest(S)
<1>1. \E x \in S : \A y \in S : x >= y
  <2>1. PICK x \in S : \A y \in S : y <= x
    BY GreatestNumber
  <2> QED  BY <2>1
<1>2. Greatest(S) \in S /\ \A y \in S : Greatest(S) >= y
  BY <1>1, Zenon DEF Greatest
<1> QED  BY <1>2

\* A keyword has 1 to 127 bytes.
LEMMA PatternIs ==
  ASSUME NEW p \in Patterns
  PROVE  /\ p \in Seq(Byte) /\ Len(p) \in Nat /\ Len(p) >= 1 /\ Len(p) <= 127
         /\ \A i \in 1..Len(p) : p[i] \in Byte
<1>1. p \in Seq(Byte) /\ Len(p) \in 1..127
  BY PatternAssumption
<1>2. \A i \in 1..Len(p) : p[i] \in Byte
  BY <1>1, ElementOfSeq
<1>3. Len(p) \in Nat /\ Len(p) >= 1 /\ Len(p) <= 127
  <2> DEFINE n == Len(p)
  <2>1. n \in 1..127
    BY <1>1
  <2> HIDE DEF n
  <2>2. n \in Nat /\ n >= 1 /\ n <= 127
    BY <2>1
  <2> QED  BY <2>2 DEF n
<1> QED  BY <1>1, <1>2, <1>3

\* The parts of compute_good_suffix: the reoccurrences of the suffix behind k, and the
\* borders shorter than it.
Again(p, k) == {i \in 0..(Len(p) - 2) : Len(p) - 1 - Suffix(p)[i] = k}
Borders(p, k) ==
  {Len(p) - 1 - i : i \in {b \in 0..(Len(p) - 1) : Suffix(p)[b] = b + 1 /\ k < Len(p) - 1 - b}}

\* compute_good_suffix: an entry is the distance of a reoccurrence, the last one, or no
\* more than that of any border.
LEMMA GoodSuffixIs ==
  ASSUME NEW p \in Patterns
  PROVE  /\ GoodSuffix(p) \in [0..(Len(p) - 1) -> 1..Len(p)]
         /\ \A k \in 0..(Len(p) - 1) :
              /\ \A i \in Again(p, k) : GoodSuffix(p)[k] <= Len(p) - 1 - i
              /\ Again(p, k) # {} => \E i \in Again(p, k) : GoodSuffix(p)[k] = Len(p) - 1 - i
              /\ Again(p, k) = {} => \A d \in Borders(p, k) : GoodSuffix(p)[k] <= d
<1> DEFINE m == Len(p)
           Entry(k) == IF Again(p, k) # {} THEN m - 1 - Greatest(Again(p, k))
                       ELSE IF Borders(p, k) # {} THEN Least(Borders(p, k)) ELSE m
<1>1. m \in Nat /\ m >= 1
  BY PatternIs
<1>2. GoodSuffix(p) = [k \in 0..(m - 1) |-> Entry(k)]
  BY DEF GoodSuffix, Again, Borders
<1>3. ASSUME NEW k \in 0..(m - 1)
      PROVE  /\ Entry(k) \in 1..m
             /\ \A i \in Again(p, k) : Entry(k) <= m - 1 - i
             /\ Again(p, k) # {} => \E i \in Again(p, k) : Entry(k) = m - 1 - i
             /\ Again(p, k) = {} => \A d \in Borders(p, k) : Entry(k) <= d
  <2> DEFINE A == Again(p, k)
             D == Borders(p, k)
             e == Entry(k)
  <2>1. A \in SUBSET Int /\ m - 2 \in Int /\ \A i \in A : i \in 0..(m - 2) /\ i <= m - 2
    BY <1>1 DEF Again
  <2>2. \A d \in D : d \in Nat /\ d >= 1 /\ d <= m
    BY <1>1 DEF Borders
  <2>3. e = IF A # {} THEN m - 1 - Greatest(A) ELSE IF D # {} THEN Least(D) ELSE m
    OBVIOUS
  <2> HIDE DEF A, D, e, Entry, m
  <2>4. CASE A # {}
    <3>1. Greatest(A) \in A /\ \A y \in A : y <= Greatest(A)
      BY <2>1, <2>4, GreatestIs
    <3>2. e = m - 1 - Greatest(A) /\ Greatest(A) \in 0..(m - 2)
      BY <2>1, <2>3, <2>4, <3>1
    <3>3. e \in 1..m
      BY <1>1, <3>2
    <3>4. \A i \in A : e <= m - 1 - i
      BY <1>1, <2>1, <3>1, <3>2
    <3> QED  BY <2>4, <3>1, <3>2, <3>3, <3>4 DEF A, D, e
  <2>5. CASE A = {} /\ D # {}
    <3>1. Least(D) \in D /\ \A d \in D : Least(D) <= d
      BY <2>2, <2>5, LeastIs
    <3>2. e = Least(D)
      BY <2>3, <2>5
    <3>3. e \in 1..m
      BY <1>1, <2>2, <3>1, <3>2
    <3> QED  BY <2>5, <3>1, <3>2, <3>3 DEF A, D, e
  <2>6. CASE A = {} /\ D = {}
    <3>1. e = m /\ m \in 1..m
      BY <1>1, <2>3, <2>6
    <3> QED  BY <2>6, <3>1 DEF A, D, e
  <2> QED  BY <2>4, <2>5, <2>6
<1> HIDE DEF Entry, m
<1>4. GoodSuffix(p) \in [0..(m - 1) -> 1..m]
  BY <1>2, <1>3
<1> QED  BY <1>2, <1>3, <1>4 DEF m

\* compute_bad_char: every byte but the last one is entered, with a distance that reaches
\* no further than any of its places.
LEMMA BadCharIs ==
  ASSUME NEW p \in Patterns
  PROVE  /\ \A c \in DOMAIN BadChar(p) : BadChar(p)[c] \in 1..(Len(p) - 1)
         /\ \A i \in 1..(Len(p) - 1) : /\ SignedChar(p[i]) \in DOMAIN BadChar(p)
                                       /\ BadChar(p)[SignedChar(p[i])] <= Len(p) - i
<1> DEFINE m == Len(p)
           At(c) == {i \in 1..(m - 1) : SignedChar(p[i]) = c}
           D == {SignedChar(p[i]) : i \in 1..(m - 1)}
           T == [c \in D |-> m - Greatest(At(c))]
<1>1. m \in Nat /\ m >= 1
  BY PatternIs
<1>2. BadChar(p) = T
  BY DEF BadChar
<1>3. ASSUME NEW c \in D
      PROVE  /\ Greatest(At(c)) \in 1..(m - 1) /\ \A i \in At(c) : i <= Greatest(At(c))
  <2> DEFINE A == At(c)
  <2>1. PICK i \in 1..(m - 1) : SignedChar(p[i]) = c
    OBVIOUS
  <2>2. i \in A
    BY <2>1
  <2>3. A \in SUBSET Int /\ m - 1 \in Int /\ \A k \in A : k \in 1..(m - 1) /\ k <= m - 1
    BY <1>1
  <2> HIDE DEF A, D
  <2>4. Greatest(A) \in A /\ \A k \in A : k <= Greatest(A)
    BY <2>2, <2>3, GreatestIs
  <2> QED  BY <2>3, <2>4 DEF A
<1>4. \A i \in 1..(m - 1) : SignedChar(p[i]) \in D /\ i \in At(SignedChar(p[i]))
  OBVIOUS
<1>5. DOMAIN T = D /\ \A c \in D : T[c] = m - Greatest(At(c))
  OBVIOUS
<1> HIDE DEF At, D, T, m
<1>6. ASSUME NEW c \in D PROVE T[c] \in 1..(m - 1)
  BY <1>1, <1>3, <1>5
<1>7. ASSUME NEW i \in 1..(m - 1) PROVE SignedChar(p[i]) \in D /\ T[SignedChar(p[i])] <= m - i
  <2>1. SignedChar(p[i]) \in D /\ i <= Greatest(At(SignedChar(p[i])))
    BY <1>3, <1>4
  <2> QED  BY <1>1, <1>3, <1>5, <2>1
<1> QED  BY <1>2, <1>5, <1>6, <1>7 DEF m

-----------------------------------------------------------------------------
(* The rings of records.                                                    *)

\* The record that follows the i-th one of a ring.
After(s, i) == IF i = Len(s) THEN s[1] ELSE s[i + 1]

\* The records of s, each once, are a ring that begins at h, closed by the fields n
\* (next) and p (prev) of the records.
IsRing(s, h, n, p) ==
  /\ s \in Seq(Record)
  /\ \A i, k \in 1..Len(s) : s[i] = s[k] => i = k
  /\ h = IF s = <<>> THEN NULL ELSE s[1]
  /\ \A i \in 1..Len(s) : n[s[i]] = After(s, i) /\ p[After(s, i)] = s[i]

\* What a ring tells of its elements.
LEMMA RingFacts ==
  ASSUME NEW s, NEW h, NEW n, NEW p, IsRing(s, h, n, p)
  PROVE  /\ Len(s) \in Nat /\ \A i \in 1..Len(s) : s[i] \in Record /\ s[i] # NULL
         /\ h = NULL <=> s = <<>>
         /\ s # <<>> <=> Len(s) >= 1
         /\ s # <<>> => h = s[1] /\ p[h] = s[Len(s)] /\ n[s[Len(s)]] = h
         /\ \A i \in 1..(Len(s) - 1) : n[s[i]] = s[i + 1] /\ p[s[i + 1]] = s[i]
         /\ \A i \in 1..Len(s) : \E k \in 1..Len(s) : After(s, i) = s[k]
<1>1. s \in Seq(Record) /\ Len(s) \in Nat
  BY DEF IsRing
<1>2. \A i \in 1..Len(s) : s[i] \in Record /\ s[i] # NULL
  <2>1. \A i \in 1..Len(s) : s[i] \in Record
    BY <1>1, ElementOfSeq
  <2>2. \A r \in Record : r # NULL
    BY RecordAssumption DEF Record, NULL
  <2> QED  BY <2>1, <2>2
<1>3. s # <<>> <=> Len(s) >= 1
  BY <1>1, EmptySeq
<1>4. h = NULL <=> s = <<>>
  <2>1. s # <<>> => 1 \in 1..Len(s)
    BY <1>1, <1>3
  <2> QED  BY <1>2, <2>1 DEF IsRing
<1>5. \A i \in 1..(Len(s) - 1) : n[s[i]] = s[i + 1] /\ p[s[i + 1]] = s[i]
  <2>1. \A i \in 1..(Len(s) - 1) : i \in 1..Len(s) /\ i # Len(s)
    BY <1>1
  <2> QED  BY <2>1 DEF IsRing, After
<1>6. ASSUME s # <<>> PROVE h = s[1] /\ p[h] = s[Len(s)] /\ n[s[Len(s)]] = h
  <2>1. Len(s) \in 1..Len(s)
    BY <1>1, <1>3, <1>6
  <2>2. After(s, Len(s)) = s[1] /\ h = s[1]
    BY <1>6 DEF After, IsRing
  <2> QED  BY <2>1, <2>2 DEF IsRing
<1>7. ASSUME NEW i \in 1..Len(s) PROVE \E k \in 1..Len(s) : After(s, i) = s[k]
  <2>1. 1 \in 1..Len(s)
    BY <1>1
  <2>2. i # Len(s) => i + 1 \in 1..Len(s)
    BY <1>1
  <2> QED  BY <2>1, <2>2 DEF After
<1> QED  BY <1>1, <1>2, <1>3, <1>4, <1>5, <1>6, <1>7

\* The same, one at a time.
LEMMA RingEnds ==
  ASSUME NEW s, NEW h, NEW n, NEW p, IsRing(s, h, n, p), s # <<>>
  PROVE  h = s[1] /\ p[h] = s[Len(s)] /\ n[s[Len(s)]] = h
BY RingFacts

Linked(s, n, p) == \A i \in 1..(Len(s) - 1) : n[s[i]] = s[i + 1] /\ p[s[i + 1]] = s[i]

\* The neighbours of a ring point at each other.
LEMMA RingLinks ==
  ASSUME NEW s, NEW h, NEW n, NEW p, IsRing(s, h, n, p)
  PROVE  Linked(s, n, p)
BY RingFacts DEF Linked

\* A ring is a sequence of different records.
LEMMA RingSize ==
  ASSUME NEW s, NEW h, NEW n, NEW p, IsRing(s, h, n, p)
  PROVE  /\ s \in Seq(Record) /\ Len(s) \in Nat /\ (s # <<>> <=> Len(s) >= 1)
         /\ \A i \in 1..Len(s) : s[i] \in Record
         /\ \A i, k \in 1..Len(s) : s[i] = s[k] => i = k
BY RingFacts DEF IsRing

\* And the other way round.
LEMMA RingBy ==
  ASSUME NEW s \in Seq(Record), NEW h, NEW n, NEW p,
         \A i, k \in 1..Len(s) : s[i] = s[k] => i = k,
         h = IF s = <<>> THEN NULL ELSE s[1],
         \A i \in 1..(Len(s) - 1) : n[s[i]] = s[i + 1] /\ p[s[i + 1]] = s[i],
         s # <<>> => n[s[Len(s)]] = s[1] /\ p[s[1]] = s[Len(s)]
  PROVE  IsRing(s, h, n, p)
<1>1. Len(s) \in Nat /\ (Len(s) >= 1 => s # <<>>)
  BY EmptySeq
<1>2. ASSUME NEW i \in 1..Len(s) PROVE n[s[i]] = After(s, i) /\ p[After(s, i)] = s[i]
  <2>1. CASE i = Len(s)
    BY <1>1, <2>1 DEF After
  <2>2. CASE i # Len(s)
    <3>1. i \in 1..(Len(s) - 1)
      BY <1>1, <2>2
    <3> QED  BY <2>2, <3>1 DEF After
  <2> QED  BY <2>1, <2>2
<1> QED  BY <1>2 DEF IsRing

\* A ring stays one when the fields of its records do.
LEMMA RingStays ==
  ASSUME NEW s, NEW h, NEW n, NEW p, IsRing(s, h, n, p), NEW n2, NEW p2,
         \A i \in 1..Len(s) : n2[s[i]] = n[s[i]] /\ p2[s[i]] = p[s[i]]
  PROVE  IsRing(s, h, n2, p2)
<1>1. \A i \in 1..Len(s) : \E k \in 1..Len(s) : After(s, i) = s[k]
  BY RingFacts
<1>2. ASSUME NEW i \in 1..Len(s) PROVE n2[s[i]] = After(s, i) /\ p2[After(s, i)] = s[i]
  <2>1. n[s[i]] = After(s, i) /\ p[After(s, i)] = s[i]
    BY DEF IsRing
  <2>2. PICK k \in 1..Len(s) : After(s, i) = s[k]
    BY <1>1
  <2>3. p2[s[k]] = p[s[k]] /\ n2[s[i]] = n[s[i]]
    OBVIOUS
  <2> QED  BY <2>1, <2>2, <2>3, Zenon
<1> QED  BY <1>2 DEF IsRing

\* The fields of the records; x is not among the records of s; only the fields of r and
\* of the records of s have changed.
Fields(n, p) == n \in [Record -> Nat] /\ p \in [Record -> Nat]
Outside(s, x) == \A i \in 1..Len(s) : s[i] # x
Keeps(n, p, n2, p2, s, r) == \A x \in Record : x # r /\ Outside(s, x) => n2[x] = n[x] /\ p2[x] = p[x]

JoinNext(n, p, h, r) == IF h = NULL THEN [n EXCEPT ![r] = r] ELSE [n EXCEPT ![r] = h, ![p[h]] = r]
JoinPrev(p, h, r) == IF h = NULL THEN [p EXCEPT ![r] = r] ELSE [p EXCEPT ![r] = p[h], ![h] = r]

JoinHead(h, r) == IF h = NULL THEN r ELSE h

\* A record joins the end of a ring.
LEMMA RingJoin ==
  ASSUME NEW n, NEW p, Fields(n, p), NEW s, NEW h, IsRing(s, h, n, p), NEW r \in Record, Outside(s, r),
         NEW n2, n2 = JoinNext(n, p, h, r), NEW p2, p2 = JoinPrev(p, h, r)
  PROVE  IsRing(Append(s, r), JoinHead(h, r), n2, p2) /\ Fields(n2, p2) /\ Keeps(n, p, n2, p2, s, r)
<1> USE DEF Fields
<1> DEFINE t == Append(s, r)
           l == Len(s)
           h2 == IF h = NULL THEN r ELSE h
<1>1. /\ s \in Seq(Record) /\ l \in Nat /\ \A i \in 1..l : s[i] \in Record
      /\ \A i, k \in 1..l : s[i] = s[k] => i = k
      /\ (h = NULL <=> s = <<>>) /\ (s # <<>> <=> l >= 1)
  <2>1. s \in Seq(Record) /\ \A i, k \in 1..l : s[i] = s[k] => i = k
    BY Zenon DEF IsRing
  <2>2. /\ l \in Nat /\ (\A i \in 1..l : s[i] \in Record /\ s[i] # NULL)
        /\ (h = NULL <=> s = <<>>) /\ (s # <<>> <=> l >= 1)
    BY RingFacts, Zenon
  <2> QED  BY <2>1, <2>2, Zenon
<1>2. s # <<>> => h = s[1] /\ p[h] = s[l] /\ n[s[l]] = h
  BY RingFacts, ZenonT(30)
<1>3. \A i \in 1..(l - 1) : n[s[i]] = s[i + 1] /\ p[s[i + 1]] = s[i]
  <2>1. Linked(s, n, p)
    BY RingLinks, Zenon
  <2> QED  BY <2>1 DEF Linked
<1>4. t \in Seq(Record) /\ Len(t) = l + 1 /\ t[l + 1] = r /\ \A i \in 1..l : t[i] = s[i]
  BY <1>1, AppendProperties
<1>5. t # <<>>
  BY <1>1, AppendProperties
<1> HIDE DEF t, l
<1>6. \A i \in 1..(l + 1) : i \in 1..l \/ i = l + 1
  BY <1>1
<1>7. \A i \in 1..l : s[i] # r
  BY DEF l, Outside
<1>8. ASSUME NEW i \in 1..(l + 1), NEW k \in 1..(l + 1), t[i] = t[k] PROVE i = k
  BY <1>1, <1>4, <1>6, <1>7, <1>8
<1>9. h2 = t[1]
  <2>1. CASE s = <<>>
    BY <1>1, <1>4, <2>1
  <2>2. CASE s # <<>>
    <3>1. 1 \in 1..l
      BY <1>1, <2>2
    <3> QED  BY <1>1, <1>2, <1>4, <2>2, <3>1
  <2> QED  BY <2>1, <2>2
<1>10. CASE s = <<>>
  <2>1. n2 = [n EXCEPT ![r] = r] /\ p2 = [p EXCEPT ![r] = r] /\ l = 0
    BY <1>1, <1>10 DEF JoinNext, JoinPrev
  <2>2. n2[r] = r /\ p2[r] = r /\ r \in Nat
    BY <2>1, RecordAssumption DEF Record
  <2>3. n2 \in [Record -> Nat] /\ p2 \in [Record -> Nat]
    BY <2>1, <2>2
  <2>4. \A x \in Record : x # r => n2[x] = n[x] /\ p2[x] = p[x]
    BY <2>1
  <2>5. IsRing(t, h2, n2, p2)
    <3>1. \A i \in 1..(Len(t) - 1) : FALSE
      BY <1>4, <2>1
    <3>2. n2[t[Len(t)]] = t[1] /\ p2[t[1]] = t[Len(t)]
      BY <1>4, <2>1, <2>2
    <3>3. \A i, k \in 1..Len(t) : t[i] = t[k] => i = k
      BY <1>4, <1>8
    <3> HIDE DEF h2
    <3> QED  BY <1>4, <1>5, <1>9, <3>1, <3>2, <3>3, RingBy
  <2>6. Keeps(n, p, n2, p2, s, r)
    BY <2>4 DEF Keeps
  <2> QED  BY <2>3, <2>5, <2>6 DEF t, JoinHead
<1>11. CASE s # <<>>
  <2>1. /\ n2 = [n EXCEPT ![r] = h, ![s[l]] = r] /\ p2 = [p EXCEPT ![r] = s[l], ![h] = r]
        /\ l >= 1 /\ h = s[1] /\ 1 \in 1..l /\ l \in 1..l
    <3>1. h # NULL /\ h = s[1] /\ p[h] = s[l] /\ l >= 1
      BY <1>1, <1>2, <1>11
    <3>2. 1 \in 1..l /\ l \in 1..l
      BY <1>1, <3>1
    <3> QED  BY <3>1, <3>2 DEF JoinNext, JoinPrev
  <2>2. s[1] \in Record /\ s[l] \in Record /\ s[1] # r /\ s[l] # r /\ \A x \in Record : x \in Nat
    BY <1>1, <1>7, <2>1, RecordAssumption DEF Record
  <2>3. n2 \in [Record -> Nat] /\ p2 \in [Record -> Nat]
    BY <2>1, <2>2
  <2>4. \A x \in Record : /\ n2[x] = IF x = s[l] THEN r ELSE IF x = r THEN h ELSE n[x]
                         /\ p2[x] = IF x = h THEN r ELSE IF x = r THEN s[l] ELSE p[x]
    BY <2>1, <2>2
  <2>5. \A x \in Record : x # r /\ (\A i \in 1..l : s[i] # x) => n2[x] = n[x] /\ p2[x] = p[x]
    BY <2>1, <2>4
  <2>6. ASSUME NEW i \in 1..l PROVE n2[t[i]] = t[i + 1] /\ p2[t[i + 1]] = t[i]
    <3>1. CASE i = l
      <4>1. t[i] = s[l] /\ t[i + 1] = r
        BY <1>4, <2>1, <3>1
      <4> QED  BY <2>1, <2>2, <2>4, <4>1
    <3>2. CASE i # l
      <4>1. i \in 1..(l - 1) /\ i + 1 \in 1..l /\ i + 1 # 1
        BY <1>1, <3>2
      <4>2. t[i] = s[i] /\ t[i + 1] = s[i + 1] /\ s[i] # s[l] /\ s[i + 1] # s[1]
        BY <1>1, <1>4, <2>1, <3>2, <4>1
      <4>3. s[i] # r /\ s[i + 1] # r /\ s[i] \in Record /\ s[i + 1] \in Record
        BY <1>1, <1>7, <4>1
      <4> QED  BY <1>3, <2>1, <2>4, <4>1, <4>2, <4>3
    <3> QED  BY <3>1, <3>2
  <2>7. t[1] = s[1] /\ n2[r] = s[1] /\ p2[s[1]] = r
    BY <1>4, <2>1, <2>2, <2>4
  <2>8. IsRing(t, h2, n2, p2)
    <3>1. \A i \in 1..(Len(t) - 1) : i \in 1..l
      BY <1>1, <1>4
    <3>2. n2[t[Len(t)]] = t[1] /\ p2[t[1]] = t[Len(t)]
      BY <1>4, <2>7
    <3>3. \A i, k \in 1..Len(t) : t[i] = t[k] => i = k
      BY <1>4, <1>8
    <3> HIDE DEF h2
    <3> QED  BY <1>4, <1>5, <1>9, <2>6, <3>1, <3>2, <3>3, RingBy
  <2>9. Keeps(n, p, n2, p2, s, r)
    BY <2>5 DEF Keeps, Outside, l
  <2> QED  BY <2>3, <2>8, <2>9 DEF t, l, JoinHead
<1> QED  BY <1>10, <1>11

Disjoint(s, t) == \A i \in 1..Len(s), k \in 1..Len(t) : s[i] # t[k]

SpliceNext(n, p, h, q) == [n EXCEPT ![p[h]] = q, ![p[q]] = h]
SplicePrev(p, h, q) == [p EXCEPT ![h] = p[q], ![q] = p[h]]

\* Two rings without a common record are tied to one.
LEMMA RingSplice ==
  ASSUME NEW n, NEW p, Fields(n, p), NEW s, NEW h, IsRing(s, h, n, p), s # <<>>,
         NEW t, NEW q, IsRing(t, q, n, p), t # <<>>, Disjoint(s, t),
         NEW n2, n2 = SpliceNext(n, p, h, q), NEW p2, p2 = SplicePrev(p, h, q)
  PROVE  IsRing(t \o s, q, n2, p2) /\ Fields(n2, p2)
<1> USE DEF Fields
<1> DEFINE u == t \o s
           l == Len(s)
           k == Len(t)
<1>1. /\ s \in Seq(Record) /\ t \in Seq(Record)
      /\ \A i, e \in 1..l : s[i] = s[e] => i = e
      /\ \A i, e \in 1..k : t[i] = t[e] => i = e
  BY Zenon DEF IsRing
<1>2. /\ l \in Nat /\ l >= 1 /\ (\A i \in 1..l : s[i] \in Record)
      /\ k \in Nat /\ k >= 1 /\ (\A i \in 1..k : t[i] \in Record)
  BY RingFacts, Zenon
<1>3. h = s[1] /\ p[h] = s[l] /\ q = t[1] /\ p[q] = t[k]
  BY RingEnds, Zenon
<1>4. /\ \A i \in 1..(l - 1) : n[s[i]] = s[i + 1] /\ p[s[i + 1]] = s[i]
      /\ \A i \in 1..(k - 1) : n[t[i]] = t[i + 1] /\ p[t[i + 1]] = t[i]
  <2>1. Linked(s, n, p) /\ Linked(t, n, p)
    BY RingLinks, Zenon
  <2> QED  BY <2>1 DEF Linked
<1>5. \A i \in 1..l, e \in 1..k : s[i] # t[e]
  BY DEF Disjoint
<1>6. /\ u \in Seq(Record) /\ Len(u) = k + l
      /\ \A i \in 1..(k + l) : u[i] = IF i <= k THEN t[i] ELSE s[i - k]
  BY <1>1, ConcatProperties
<1> HIDE DEF l, k
<1>7. /\ \A i \in 1..k : u[i] = t[i]
      /\ \A i \in 1..l : u[k + i] = s[i]
      /\ \A i \in 1..(k + l) : i \in 1..k \/ (i - k \in 1..l /\ i = k + (i - k))
  <2>1. \A i \in 1..k : i \in 1..(k + l) /\ i <= k
    BY <1>2
  <2>2. \A i \in 1..l : k + i \in 1..(k + l) /\ ~(k + i <= k) /\ (k + i) - k = i
    BY <1>2
  <2>3. \A i \in 1..(k + l) : i \in 1..k \/ (i - k \in 1..l /\ i = k + (i - k))
    BY <1>2
  <2> HIDE DEF u
  <2> QED  BY <1>6, <2>1, <2>2, <2>3
<1> HIDE DEF u
<1>8. n2 = [n EXCEPT ![s[l]] = t[1], ![t[k]] = s[1]] /\ p2 = [p EXCEPT ![s[1]] = t[k], ![t[1]] = s[l]]
  BY <1>3 DEF SpliceNext, SplicePrev
<1>9. 1 \in 1..l /\ l \in 1..l /\ 1 \in 1..k /\ k \in 1..k
  BY <1>2
<1>10. /\ s[1] \in Record /\ s[l] \in Record /\ t[1] \in Record /\ t[k] \in Record
       /\ s[1] # t[1] /\ s[l] # t[k] /\ \A x \in Record : x \in Nat
  BY <1>2, <1>5, <1>9, RecordAssumption DEF Record
<1>11. n2 \in [Record -> Nat] /\ p2 \in [Record -> Nat]
  BY <1>8, <1>10
<1>12. \A x \in Record : /\ n2[x] = IF x = t[k] THEN s[1] ELSE IF x = s[l] THEN t[1] ELSE n[x]
                         /\ p2[x] = IF x = t[1] THEN s[l] ELSE IF x = s[1] THEN t[k] ELSE p[x]
  BY <1>8, <1>10
<1>13. ASSUME NEW i \in 1..(k + l), NEW e \in 1..(k + l), u[i] = u[e] PROVE i = e
  <2>1. CASE i \in 1..k /\ e \in 1..k
    BY <1>1, <1>7, <1>13, <2>1 DEF k
  <2>2. CASE i - k \in 1..l /\ i = k + (i - k) /\ e - k \in 1..l /\ e = k + (e - k)
    <3>1. s[i - k] = s[e - k]
      BY <1>7, <1>13, <2>2
    <3>2. i - k = e - k
      BY <1>1, <2>2, <3>1 DEF l
    <3> QED  BY <2>2, <3>2
  <2>3. CASE i \in 1..k /\ e - k \in 1..l /\ e = k + (e - k)
    BY <1>5, <1>7, <1>13, <2>3
  <2>4. CASE i - k \in 1..l /\ i = k + (i - k) /\ e \in 1..k
    BY <1>5, <1>7, <1>13, <2>4
  <2> QED  BY <1>7, <2>1, <2>2, <2>3, <2>4
<1>14. ASSUME NEW i \in 1..(k + l - 1) PROVE n2[u[i]] = u[i + 1] /\ p2[u[i + 1]] = u[i]
  <2>1. CASE i < k
    <3>1. i \in 1..(k - 1) /\ i \in 1..k /\ i + 1 \in 1..k /\ i # k /\ i + 1 # 1
      BY <1>2, <2>1
    <3>2. u[i] = t[i] /\ u[i + 1] = t[i + 1] /\ n[t[i]] = t[i + 1] /\ p[t[i + 1]] = t[i]
      BY <1>4, <1>7, <3>1
    <3>3. t[i] # t[k] /\ t[i + 1] # t[1]
      BY <1>1, <1>9, <3>1 DEF k
    <3>4. t[i] # s[l] /\ t[i + 1] # s[1] /\ t[i] \in Record /\ t[i + 1] \in Record
      BY <1>2, <1>5, <1>9, <3>1
    <3> QED  BY <1>12, <3>2, <3>3, <3>4
  <2>2. CASE i = k
    <3>1. u[i] = t[k] /\ u[i + 1] = s[1]
      BY <1>7, <1>9, <2>2
    <3> QED  BY <1>10, <1>12, <3>1
  <2>3. CASE i > k
    <3> DEFINE e == i - k
    <3>1. e \in 1..(l - 1) /\ e \in 1..l /\ e + 1 \in 1..l /\ e # l /\ e + 1 # 1
          /\ i = k + e /\ i + 1 = k + (e + 1)
      BY <1>2, <2>3
    <3> HIDE DEF e
    <3>2. u[i] = s[e] /\ u[i + 1] = s[e + 1] /\ n[s[e]] = s[e + 1] /\ p[s[e + 1]] = s[e]
      BY <1>4, <1>7, <3>1
    <3>3. s[e] # s[l] /\ s[e + 1] # s[1]
      BY <1>1, <1>9, <3>1 DEF l
    <3>4. s[e] # t[k] /\ s[e + 1] # t[1] /\ s[e] \in Record /\ s[e + 1] \in Record
      BY <1>2, <1>5, <1>9, <3>1
    <3> QED  BY <1>12, <3>2, <3>3, <3>4
  <2> QED  BY <1>2, <2>1, <2>2, <2>3
<1>15. n2[u[k + l]] = u[1] /\ p2[u[1]] = u[k + l]
  <2>1. u[k + l] = s[l] /\ u[1] = t[1]
    BY <1>7, <1>9
  <2> QED  BY <1>10, <1>12, <2>1
<1>16. u # <<>> /\ q = u[1]
  <2>1. Len(u) # 0
    BY <1>2, <1>6
  <2> QED  BY <1>3, <1>6, <1>7, <1>9, <2>1, EmptySeq
<1>17. IsRing(u, q, n2, p2)
  <2>1. \A i, e \in 1..Len(u) : u[i] = u[e] => i = e
    BY <1>6, <1>13
  <2>2. \A i \in 1..(Len(u) - 1) : n2[u[i]] = u[i + 1] /\ p2[u[i + 1]] = u[i]
    <3>1. Len(u) - 1 = k + l - 1
      BY <1>2, <1>6
    <3> QED  BY <1>14, <3>1
  <2>3. n2[u[Len(u)]] = u[1] /\ p2[u[1]] = u[Len(u)]
    BY <1>6, <1>15
  <2>4. u \in Seq(Record) /\ q = IF u = <<>> THEN NULL ELSE u[1]
    BY <1>6, <1>16
  <2> QED  BY <2>1, <2>2, <2>3, <2>4, RingBy, Zenon
<1> QED  BY <1>11, <1>17 DEF u

\* The walk along next, and the first place where it is back.
Walked(w, h) == \A k \in Nat : w[k] = IF k = 0 THEN h ELSE next[w[k - 1]]
Turn(w, h, k) == (k = allocated + 1 \/ w[k] = h) /\ \A i \in 1..(k - 1) : w[i] # h

\* Along a ring the walk is defined: every record leads to another one of the ring.
LEMMA WalkIs ==
  ASSUME NEW s, NEW h, IsRing(s, h, next, prev), s # <<>>
  PROVE  Walked(Walk(h), h)
<1> DEFINE S == {s[i] : i \in 1..Len(s)}
           F(g) == [k \in Nat |-> IF k = 0 THEN h ELSE next[g[k - 1]]]
           U == CHOOSE g : g = F(g)
           mu == [k \in Nat |-> k]
           H == [a \in Nat \X [Nat -> S] |-> IF a[1] = 0 THEN h ELSE next[a[2][a[1] - 1]]]
<1>1. Walk(h) = U
  BY DEF Walk
<1>2. Len(s) \in Nat /\ Len(s) >= 1 /\ h = s[1]
  BY RingSize, RingEnds
<1>3. h \in S
  <2>1. 1 \in 1..Len(s)
    BY <1>2
  <2> QED  BY <1>2, <2>1
<1>4. \A x \in S : next[x] \in S
  <2> SUFFICES ASSUME NEW i \in 1..Len(s) PROVE next[s[i]] \in S
    OBVIOUS
  <2>1. next[s[i]] = After(s, i)
    BY DEF IsRing
  <2>2. \E k \in 1..Len(s) : After(s, i) = s[k]
    BY RingFacts
  <2> QED  BY <2>1, <2>2
<1>5. mu \in [Nat -> Nat] /\ \A k \in Nat : mu[k] = k
  OBVIOUS
<1>6. \A k \in Nat : k # 0 => k - 1 \in Nat /\ k - 1 < k
  OBVIOUS
<1>7. \A k \in Nat, g \in [Nat -> S] : H[<<k, g>>] = IF k = 0 THEN h ELSE next[g[k - 1]]
  OBVIOUS
<1>8. H \in [Nat \X [Nat -> S] -> S]
  <2> HIDE DEF S
  <2> QED  BY <1>3, <1>4, <1>6
<1> HIDE DEF S, H, mu, U
<1>9. ASSUME NEW k \in Nat, NEW g \in [Nat -> S], NEW f \in [Nat -> S],
             \A e \in Nat : mu[e] < mu[k] => g[e] = f[e]
      PROVE  H[<<k, g>>] = H[<<k, f>>]
  <2>1. k # 0 => g[k - 1] = f[k - 1]
    BY <1>5, <1>6, <1>9
  <2> QED  BY <1>7, <2>1
<1>10. Recursive(Nat, S, mu, H)
  BY <1>3, <1>5, <1>8, <1>9 DEF Recursive
<1>11. PICK u \in [Nat -> S] : Follows(u, Nat, H)
  BY <1>10, Recursion
<1>12. \A k \in Nat : u[k] = IF k = 0 THEN h ELSE next[u[k - 1]]
  BY <1>7, <1>11 DEF Follows
<1>13. u = F(u)
  BY <1>12
<1> HIDE DEF F
<1>14. U = F(U)
  BY <1>13, Zenon DEF U
<1>15. \A k \in Nat : U[k] = IF k = 0 THEN h ELSE next[U[k - 1]]
  BY <1>14 DEF F
<1> QED  BY <1>1, <1>15 DEF Walked

\* Ring, the reader of a ring, finds the records in their order.
LEMMA RingIs ==
  ASSUME NEW s, NEW h, IsRing(s, h, next, prev), allocated \in Nat, Len(s) <= allocated
  PROVE  Ring(h) = s
<1>1. CASE s = <<>>
  BY <1>1 DEF IsRing, Ring
<1>2. CASE s # <<>>
  <2> DEFINE w == Walk(h)
             n == Len(s)
             T == 1..(allocated + 1)
             x == CHOOSE k \in T : Turn(w, h, k)
  <2>1. Walked(w, h)
    BY <1>2, WalkIs
  <2>2. /\ s \in Seq(Record) /\ n \in Nat /\ n >= 1 /\ h = s[1]
        /\ \A i, k \in 1..n : s[i] = s[k] => i = k
    BY <1>2, RingSize, RingEnds
  <2>3. h # NULL
    BY <1>2, RingFacts
  <2>4. Ring(h) = [i \in 1..x |-> w[i - 1]]
    BY <2>3 DEF Ring, Turn
  <2>5. \A i \in 1..(n - 1) : next[s[i]] = s[i + 1]
    BY RingLinks DEF Linked
  <2>6. next[s[n]] = s[1]
    BY <1>2, <2>2, RingEnds
  <2> HIDE DEF w, n, x, T
  <2> DEFINE P == {k \in Nat : k < n => w[k] = s[k + 1]}
  <2>7. 0 \in P
    <3>1. w[0] = h /\ 0 + 1 = 1
      BY <2>1 DEF Walked
    <3> QED  BY <2>2, <3>1
  <2>8. ASSUME NEW k \in P PROVE k + 1 \in P
    <3>1. k \in Nat /\ k + 1 \in Nat /\ k + 1 # 0 /\ (k + 1) - 1 = k
      OBVIOUS
    <3>2. w[k + 1] = next[w[k]]
      BY <2>1, <3>1 DEF Walked
    <3>3. ASSUME k + 1 < n PROVE w[k + 1] = s[(k + 1) + 1]
      <4>1. k < n /\ k + 1 \in 1..(n - 1)
        BY <2>2, <3>1, <3>3
      <4> QED  BY <2>5, <3>2, <4>1
    <3> QED  BY <3>1, <3>3
  <2> HIDE DEF P
  <2>9. \A k \in Nat : k \in P
    <3>1. P \in SUBSET Nat
      BY DEF P
    <3> QED  BY <2>7, <2>8, <3>1, SetInduction
  <2>10. \A k \in Nat : k < n => w[k] = s[k + 1]
    BY <2>9 DEF P
  <2>11. \A i \in 1..(n - 1) : w[i] # h
    <3> SUFFICES ASSUME NEW i \in 1..(n - 1) PROVE w[i] # h
      OBVIOUS
    <3>1. i \in Nat /\ i < n /\ i + 1 \in 1..n /\ 1 \in 1..n /\ i + 1 # 1
      BY <2>2
    <3> QED  BY <2>2, <2>10, <3>1
  <2>12. w[n] = h
    <3>1. n \in Nat /\ n # 0 /\ n - 1 \in Nat /\ n - 1 < n /\ (n - 1) + 1 = n
      BY <2>2
    <3>2. w[n] = next[w[n - 1]] /\ w[n - 1] = s[n]
      BY <2>1, <2>10, <3>1 DEF Walked
    <3> QED  BY <2>2, <2>6, <3>2
  <2>13. n \in T /\ n <= allocated
    BY <2>2 DEF T, n
  <2>14. Turn(w, h, n)
    BY <2>11, <2>12 DEF Turn
  <2>15. x \in T /\ Turn(w, h, x)
    BY <2>13, <2>14, Zenon DEF x
  <2>16. x = n
    <3>1. x \in Nat /\ x >= 1
      BY <2>15 DEF T
    <3>2. CASE x < n
      <4>1. x \in 1..(n - 1) /\ x # allocated + 1
        BY <2>2, <2>13, <3>1, <3>2
      <4> QED  BY <2>11, <2>15, <4>1 DEF Turn
    <3>3. CASE x > n
      <4>1. n \in 1..(x - 1)
        BY <2>2, <3>1, <3>3
      <4> QED  BY <2>12, <2>15, <4>1 DEF Turn
    <3> QED  BY <2>2, <3>1, <3>2, <3>3
  <2>17. \A i \in 1..n : w[i - 1] = s[i]
    <3> SUFFICES ASSUME NEW i \in 1..n PROVE w[i - 1] = s[i]
      OBVIOUS
    <3>1. i - 1 \in Nat /\ i - 1 < n /\ (i - 1) + 1 = i
      BY <2>2
    <3> QED  BY <2>10, <3>1
  <2>18. Ring(h) = [i \in 1..n |-> s[i]]
    BY <2>4, <2>16, <2>17
  <2>19. s = [i \in 1..n |-> s[i]]
    BY <2>2 DEF n
  <2> QED  BY <2>18, <2>19
<1> QED  BY <1>1, <1>2

\* The list hs and the pool ps hold every allocated record, each once.
Both(hs, ps, h, q, n, p, a) ==
  /\ a \in 0..MaxRecords /\ Fields(n, p)
  /\ IsRing(hs, h, n, p) /\ IsRing(ps, q, n, p) /\ Disjoint(hs, ps)
  /\ \A i \in 1..Len(hs) : hs[i] <= a
  /\ \A k \in 1..Len(ps) : ps[k] <= a
  /\ \A r \in 1..a : (\E i \in 1..Len(hs) : hs[i] = r) \/ (\E k \in 1..Len(ps) : ps[k] = r)
  /\ Len(hs) + Len(ps) = a

\* The first record of the pool is taken.
TakenNext(n, p, q) == IF n[q] = q THEN n ELSE [n EXCEPT ![p[q]] = n[q]]
TakenPrev(n, p, q) == IF n[q] = q THEN p ELSE [p EXCEPT ![n[q]] = p[q]]

TakenHead(n, q) == IF n[q] = q THEN NULL ELSE n[q]

\* Without its first record the pool is a ring again, and no other record has changed.
LEMMA RingTake ==
  ASSUME NEW n, NEW p, Fields(n, p), NEW s, NEW q, IsRing(s, q, n, p), s # <<>>,
         NEW n2, n2 = TakenNext(n, p, q), NEW p2, p2 = TakenPrev(n, p, q)
  PROVE  IsRing(Tail(s), TakenHead(n, q), n2, p2) /\ Fields(n2, p2) /\ Keeps(n, p, n2, p2, s, q)
<1> USE DEF Fields
<1> DEFINE t == Tail(s)
           l == Len(s)
           q2 == TakenHead(n, q)
<1>1. /\ s \in Seq(Record) /\ l \in Nat /\ (\A i \in 1..l : s[i] \in Record)
      /\ \A i, k \in 1..l : s[i] = s[k] => i = k
  BY RingSize, Zenon
<1>2. l >= 1
  BY RingSize, Zenon
<1>3. q = s[1] /\ p[q] = s[l] /\ n[s[l]] = q
  BY RingEnds, Zenon
<1>4. Linked(s, n, p)
  BY RingLinks, Zenon
<1>5. \A i \in 1..(l - 1) : n[s[i]] = s[i + 1] /\ p[s[i + 1]] = s[i]
  BY <1>4 DEF Linked
<1>6. t \in Seq(Record) /\ Len(t) = l - 1 /\ \A i \in 1..(l - 1) : t[i] = s[i + 1]
  BY <1>1, HeadTailProperties
<1> HIDE DEF t, l
<1>7. CASE l = 1
  <2>1. n[q] = q
    BY <1>3, <1>7
  <2>2. n2 = n /\ p2 = p /\ q2 = NULL
    BY <2>1 DEF TakenNext, TakenPrev, TakenHead
  <2>3. t = <<>>
    BY <1>6, <1>7, EmptySeq
  <2>4. IsRing(t, q2, n2, p2)
    BY <2>2, <2>3 DEF IsRing
  <2>5. Keeps(n, p, n2, p2, s, q)
    BY <2>2 DEF Keeps
  <2> QED  BY <2>2, <2>4, <2>5 DEF t
<1>8. CASE l # 1
  <2>1. /\ 1 \in 1..(l - 1) /\ 1 \in 1..l /\ 2 \in 1..l /\ l \in 1..l /\ l - 1 \in 1..(l - 1)
        /\ (l - 1) + 1 = l /\ 1 + 1 = 2
    BY <1>1, <1>2, <1>8
  <2>2. n[q] = s[2] /\ s[2] # s[1]
    BY <1>1, <1>3, <1>5, <2>1
  <2>3. n2 = [n EXCEPT ![s[l]] = s[2]] /\ p2 = [p EXCEPT ![s[2]] = s[l]] /\ q2 = s[2]
    BY <1>3, <2>2 DEF TakenNext, TakenPrev, TakenHead
  <2>4. s[2] \in Record /\ s[l] \in Record /\ \A x \in Record : x \in Nat
    BY <1>1, <2>1, RecordAssumption, SMTT(30) DEF Record
  <2>5. n2 \in [Record -> Nat] /\ p2 \in [Record -> Nat]
    BY <2>3, <2>4
  <2>6. \A x \in Record : /\ n2[x] = IF x = s[l] THEN s[2] ELSE n[x]
                         /\ p2[x] = IF x = s[2] THEN s[l] ELSE p[x]
    BY <2>3, <2>4
  <2>7. \A x \in Record : (\A i \in 1..l : s[i] # x) => n2[x] = n[x] /\ p2[x] = p[x]
    BY <2>1, <2>6
  <2>8. t[1] = s[2] /\ t[l - 1] = s[l]
    BY <1>6, <2>1
  <2>9. t # <<>>
    BY <1>6, <2>1, EmptySeq
  <2>10. ASSUME NEW i \in 1..(l - 1), NEW k \in 1..(l - 1), t[i] = t[k] PROVE i = k
    <3>1. i + 1 \in 1..l /\ k + 1 \in 1..l /\ s[i + 1] = s[k + 1]
      BY <1>1, <1>6, <2>10
    <3>2. i + 1 = k + 1
      BY <1>1, <3>1
    <3> QED  BY <3>2
  <2>11. ASSUME NEW i \in 1..((l - 1) - 1) PROVE n2[t[i]] = t[i + 1] /\ p2[t[i + 1]] = t[i]
    <3>1. /\ i \in 1..(l - 1) /\ i + 1 \in 1..(l - 1) /\ i + 1 \in 1..l /\ (i + 1) + 1 \in 1..l
          /\ i + 1 # l /\ (i + 1) + 1 # 2
      BY <1>1
    <3>2. /\ t[i] = s[i + 1] /\ t[i + 1] = s[(i + 1) + 1]
          /\ n[s[i + 1]] = s[(i + 1) + 1] /\ p[s[(i + 1) + 1]] = s[i + 1]
      BY <1>5, <1>6, <3>1
    <3>3. s[i + 1] # s[l] /\ s[(i + 1) + 1] # s[2] /\ s[i + 1] \in Record /\ s[(i + 1) + 1] \in Record
      BY <1>1, <2>1, <3>1
    <3> QED  BY <2>6, <3>2, <3>3
  <2>12. n2[t[l - 1]] = t[1] /\ p2[t[1]] = t[l - 1]
    BY <2>4, <2>6, <2>8
  <2>13. IsRing(t, q2, n2, p2)
    <3>1. Len(t) - 1 = (l - 1) - 1
      BY <1>1, <1>6
    <3>2. \A i, k \in 1..Len(t) : t[i] = t[k] => i = k
      BY <1>6, <2>10
    <3>3. \A i \in 1..(Len(t) - 1) : n2[t[i]] = t[i + 1] /\ p2[t[i + 1]] = t[i]
      BY <2>11, <3>1
    <3>4. n2[t[Len(t)]] = t[1] /\ p2[t[1]] = t[Len(t)]
      BY <1>6, <2>12
    <3>5. q2 = IF t = <<>> THEN NULL ELSE t[1]
      BY <2>3, <2>8, <2>9
    <3> QED  BY <1>6, <3>2, <3>3, <3>4, <3>5, RingBy, Zenon
  <2>14. Keeps(n, p, n2, p2, s, q)
    BY <2>7 DEF Keeps, Outside, l
  <2> QED  BY <2>5, <2>13, <2>14 DEF t
<1> QED  BY <1>7, <1>8

\* The record r and the records of hs and of ts are all the allocated ones.
Spread(hs, ts, r, a) ==
  /\ r <= a
  /\ \A i \in 1..Len(hs) : hs[i] # r /\ hs[i] <= a
  /\ \A k \in 1..Len(ts) : ts[k] # r /\ ts[k] <= a
  /\ \A i \in 1..Len(hs), k \in 1..Len(ts) : hs[i] # ts[k]
  /\ \A x \in 1..a : x = r \/ (\E i \in 1..Len(hs) : hs[i] = x) \/ (\E k \in 1..Len(ts) : ts[k] = x)
  /\ Len(hs) + Len(ts) + 1 = a

\* A record that is on neither ring joins the list.
LEMMA BothJoin ==
  ASSUME NEW hs, NEW ts, NEW h, NEW q, NEW n, NEW p, Fields(n, p), NEW a \in 0..MaxRecords, NEW r \in Record,
         IsRing(hs, h, n, p), IsRing(ts, q, n, p), Spread(hs, ts, r, a),
         NEW n2, n2 = JoinNext(n, p, h, r), NEW p2, p2 = JoinPrev(p, h, r)
  PROVE  Both(Append(hs, r), ts, JoinHead(h, r), q, n2, p2, a)
<1> DEFINE s == Append(hs, r)
           l == Len(hs)
<1>1. Outside(hs, r) /\ \A k \in 1..Len(ts) : Outside(hs, ts[k]) /\ ts[k] # r
  BY DEF Spread, Outside
<1>2. IsRing(s, JoinHead(h, r), n2, p2) /\ Fields(n2, p2) /\ Keeps(n, p, n2, p2, hs, r)
  BY <1>1, RingJoin, Zenon
<1>3. hs \in Seq(Record) /\ l \in Nat /\ (\A k \in 1..Len(ts) : ts[k] \in Record) /\ Len(ts) \in Nat
  BY RingSize, Zenon
<1>4. IsRing(ts, q, n2, p2)
  <2>1. \A k \in 1..Len(ts) : n2[ts[k]] = n[ts[k]] /\ p2[ts[k]] = p[ts[k]]
    BY <1>1, <1>2, <1>3, Zenon DEF Keeps
  <2> QED  BY <2>1, RingStays, Zenon
<1>5. Len(s) = l + 1 /\ s[l + 1] = r /\ \A i \in 1..l : s[i] = hs[i]
  BY <1>3, AppendProperties
<1> HIDE DEF s
<1>6. \A i \in 1..Len(s) : i \in 1..l \/ i = l + 1
  BY <1>3, <1>5
<1>7. \A i \in 1..l : i \in 1..Len(s)
  BY <1>3, <1>5
<1>8. l + 1 \in 1..Len(s)
  BY <1>3, <1>5
<1>9. Disjoint(s, ts)
  <2> SUFFICES ASSUME NEW i \in 1..Len(s), NEW k \in 1..Len(ts) PROVE s[i] # ts[k]
    BY DEF Disjoint
  <2>1. \A e \in 1..l : hs[e] # ts[k]
    BY DEF Spread
  <2>2. ts[k] # r
    BY DEF Spread
  <2> QED  BY <1>5, <1>6, <2>1, <2>2, Zenon
<1>10. \A i \in 1..Len(s) : s[i] <= a
  BY <1>5, <1>6, Zenon DEF Spread
<1>11. \A x \in 1..a : (\E i \in 1..Len(s) : s[i] = x) \/ (\E k \in 1..Len(ts) : ts[k] = x)
  <2>1. \A x \in 1..a : x = r \/ (\E i \in 1..l : hs[i] = x) \/ (\E k \in 1..Len(ts) : ts[k] = x)
    BY DEF Spread
  <2> QED  BY <1>5, <1>7, <1>8, <2>1, Zenon
<1>12. Len(s) + Len(ts) = a
  BY <1>3, <1>5 DEF Spread
<1>13. \A k \in 1..Len(ts) : ts[k] <= a
  BY DEF Spread
<1> QED  BY <1>2, <1>4, <1>9, <1>10, <1>11, <1>12, <1>13, Zenon DEF Both, s

\* new_match_record takes a record from the pool.
LEMMA BothTaken ==
  ASSUME NEW hs, NEW ps, NEW h, NEW q, NEW n, NEW p, NEW a, Both(hs, ps, h, q, n, p, a), q # NULL,
         NEW n1, n1 = TakenNext(n, p, q), NEW p1, p1 = TakenPrev(n, p, q),
         NEW n2, n2 = JoinNext(n1, p1, h, q), NEW p2, p2 = JoinPrev(p1, h, q)
  PROVE  /\ Both(Append(hs, q), Tail(ps), JoinHead(h, q), TakenHead(n, q), n2, p2, a)
         /\ q \in Record /\ Outside(hs, q)
<1> DEFINE ts == Tail(ps)
           k == Len(ps)
           q2 == TakenHead(n, q)
<1>1. /\ Fields(n, p) /\ IsRing(hs, h, n, p) /\ IsRing(ps, q, n, p)
      /\ a \in 0..MaxRecords /\ Disjoint(hs, ps)
  BY Zenon DEF Both
<1>2. /\ \A i \in 1..Len(hs), e \in 1..k : hs[i] # ps[e]
      /\ \A i \in 1..Len(hs) : hs[i] <= a
      /\ \A e \in 1..k : ps[e] <= a
      /\ \A r \in 1..a : (\E i \in 1..Len(hs) : hs[i] = r) \/ (\E e \in 1..k : ps[e] = r)
      /\ Len(hs) + k = a
  BY Zenon DEF Both, Disjoint
<1>3. ps # <<>>
  BY <1>1, RingFacts, Zenon
<1>4. /\ IsRing(ts, q2, n1, p1) /\ Fields(n1, p1) /\ Keeps(n, p, n1, p1, ps, q)
      /\ q = ps[1] /\ Len(ts) = k - 1 /\ \A i \in 1..(k - 1) : ts[i] = ps[i + 1]
  <2>1. IsRing(ts, q2, n1, p1) /\ Fields(n1, p1) /\ Keeps(n, p, n1, p1, ps, q)
    BY <1>1, <1>3, RingTake, Zenon
  <2>2. q = ps[1] /\ ps \in Seq(Record)
    BY <1>1, <1>3, RingEnds, RingSize, Zenon
  <2>3. Len(ts) = k - 1 /\ \A i \in 1..(k - 1) : ts[i] = ps[i + 1]
    BY <1>3, <2>2, HeadTailProperties
  <2> QED  BY <2>1, <2>2, <2>3, Zenon
<1>5. /\ ps \in Seq(Record) /\ k \in Nat /\ k >= 1 /\ (\A i \in 1..k : ps[i] \in Record)
      /\ \A i, e \in 1..k : ps[i] = ps[e] => i = e
  BY <1>1, <1>3, RingSize, Zenon
<1>6. (\A i \in 1..Len(hs) : hs[i] \in Record) /\ Len(hs) \in Nat
  BY <1>1, RingSize, Zenon
<1> HIDE DEF ts, q2
<1>8. /\ 1 \in 1..k
      /\ \A i \in 1..(k - 1) : i + 1 \in 1..k /\ i + 1 # 1
      /\ \A i \in 1..k : i = 1 \/ (i - 1 \in 1..(k - 1) /\ (i - 1) + 1 = i)
  BY <1>5
<1>9. q \in Record /\ q <= a /\ \A i \in 1..Len(hs) : hs[i] # q
  BY <1>2, <1>4, <1>5, <1>8, Zenon
<1>7. IsRing(hs, h, n1, p1)
  <2>1. \A i \in 1..Len(hs) : n1[hs[i]] = n[hs[i]] /\ p1[hs[i]] = p[hs[i]]
    <3>1. \A i \in 1..Len(hs) : hs[i] \in Record /\ hs[i] # q /\ Outside(ps, hs[i])
      BY <1>2, <1>6, <1>9, Zenon DEF Outside
    <3> QED  BY <1>4, <3>1, Zenon DEF Keeps
  <2> QED  BY <1>1, <2>1, RingStays, Zenon
<1>10. \A e \in 1..Len(ts) : ts[e] # q /\ ts[e] <= a
  <2> SUFFICES ASSUME NEW e \in 1..(k - 1) PROVE ts[e] # q /\ ts[e] <= a
    BY <1>4, Zenon
  <2>1. ts[e] = ps[e + 1] /\ e + 1 \in 1..k /\ e + 1 # 1
    BY <1>4, <1>8
  <2> QED  BY <1>2, <1>4, <1>5, <1>8, <2>1, Zenon
<1>11. \A i \in 1..Len(hs), e \in 1..Len(ts) : hs[i] # ts[e]
  <2> SUFFICES ASSUME NEW i \in 1..Len(hs), NEW e \in 1..(k - 1) PROVE hs[i] # ts[e]
    BY <1>4, Zenon
  <2>1. ts[e] = ps[e + 1] /\ e + 1 \in 1..k
    BY <1>4, <1>8
  <2> QED  BY <1>2, <2>1, Zenon
<1>12. \A x \in 1..a : x = q \/ (\E i \in 1..Len(hs) : hs[i] = x) \/ (\E e \in 1..Len(ts) : ts[e] = x)
  <2> SUFFICES ASSUME NEW x \in 1..a, ~ \E i \in 1..Len(hs) : hs[i] = x, x # q
               PROVE  \E e \in 1..(k - 1) : ts[e] = x
    BY <1>4, Zenon
  <2>1. PICK i \in 1..k : ps[i] = x
    BY <1>2, Zenon
  <2>2. i # 1
    BY <1>4, <2>1
  <2>3. i - 1 \in 1..(k - 1) /\ (i - 1) + 1 = i
    BY <1>8, <2>2
  <2>4. ts[i - 1] = x
    BY <1>4, <2>1, <2>3
  <2> QED  BY <2>3, <2>4
<1>13. Len(hs) + Len(ts) + 1 = a
  BY <1>2, <1>4, <1>5, <1>6
<1>14. \A i \in 1..Len(hs) : hs[i] # q /\ hs[i] <= a
  BY <1>2, <1>9, Zenon
<1>15. Spread(hs, ts, q, a) /\ Outside(hs, q)
  BY <1>9, <1>10, <1>11, <1>12, <1>13, <1>14, Zenon DEF Spread, Outside
<1>16. Both(Append(hs, q), ts, JoinHead(h, q), q2, n2, p2, a)
  BY <1>1, <1>4, <1>7, <1>9, <1>15, BothJoin, Zenon
<1> QED  BY <1>9, <1>15, <1>16 DEF ts, q2

\* new_match_record allocates a record.
LEMMA BothNew ==
  ASSUME NEW hs, NEW ps, NEW h, NEW n, NEW p, NEW a, Both(hs, ps, h, NULL, n, p, a), a + 1 \in Record,
         NEW n2, n2 = JoinNext(n, p, h, a + 1), NEW p2, p2 = JoinPrev(p, h, a + 1)
  PROVE  /\ Both(Append(hs, a + 1), <<>>, JoinHead(h, a + 1), NULL, n2, p2, a + 1)
         /\ Outside(hs, a + 1) /\ ps = <<>>
<1>1. Fields(n, p) /\ IsRing(hs, h, n, p) /\ IsRing(ps, NULL, n, p) /\ a \in 0..MaxRecords
  BY Zenon DEF Both
<1>2. /\ \A i \in 1..Len(hs) : hs[i] <= a
      /\ \A r \in 1..a : (\E i \in 1..Len(hs) : hs[i] = r) \/ (\E e \in 1..Len(ps) : ps[e] = r)
      /\ Len(hs) + Len(ps) = a
  BY Zenon DEF Both
<1>3. ps = <<>>
  BY <1>1, RingFacts, Zenon
<1>4. Len(ps) = 0
  BY <1>3
<1>5. Len(hs) \in Nat /\ (\A i \in 1..Len(hs) : hs[i] \in Record) /\ a + 1 \in 0..MaxRecords /\ a \in Nat
  <2>1. Len(hs) \in Nat /\ \A i \in 1..Len(hs) : hs[i] \in Record
    BY <1>1, RingSize, Zenon
  <2> QED  BY <1>1, <2>1, RecordAssumption DEF Record
<1>6. Spread(hs, ps, a + 1, a + 1)
  <2>1. \A i \in 1..Len(hs) : hs[i] # a + 1 /\ hs[i] <= a + 1
    <3> SUFFICES ASSUME NEW i \in 1..Len(hs) PROVE hs[i] # a + 1 /\ hs[i] <= a + 1
      OBVIOUS
    <3>1. hs[i] <= a /\ hs[i] \in Int
      BY <1>2, <1>5 DEF Record
    <3> QED  BY <1>5, <3>1
  <2>2. \A k \in 1..Len(ps) : FALSE
    BY <1>4
  <2>3. \A x \in 1..(a + 1) : x = a + 1 \/ x \in 1..a
    BY <1>5
  <2>4. Len(hs) + Len(ps) + 1 = a + 1 /\ a + 1 <= a + 1
    BY <1>2, <1>4, <1>5
  <2>5. \A x \in 1..(a + 1) : \/ x = a + 1 \/ (\E i \in 1..Len(hs) : hs[i] = x)
                              \/ (\E k \in 1..Len(ps) : ps[k] = x)
    BY <1>2, <2>3, Zenon
  <2> QED  BY <2>1, <2>2, <2>4, <2>5, Zenon DEF Spread
<1>7. Both(Append(hs, a + 1), ps, JoinHead(h, a + 1), NULL, n2, p2, a + 1)
  <2> DEFINE r == a + 1
  <2>1. r \in Record /\ r \in 0..MaxRecords /\ Spread(hs, ps, r, r)
    BY <1>5, <1>6
  <2> HIDE DEF r
  <2>2. n2 = JoinNext(n, p, h, r) /\ p2 = JoinPrev(p, h, r)
    BY DEF r
  <2>3. Both(Append(hs, r), ps, JoinHead(h, r), NULL, n2, p2, r)
    BY <1>1, <2>1, <2>2, BothJoin, Zenon
  <2> QED  BY <2>3 DEF r
<1>8. Outside(hs, a + 1)
  BY <1>6, Zenon DEF Spread, Outside
<1> QED  BY <1>3, <1>7, <1>8

\* bm_clear_matches ties the list to the pool.
LEMMA BothSpliced ==
  ASSUME NEW hs, NEW ps, NEW h, NEW q, NEW n, NEW p, NEW a, Both(hs, ps, h, q, n, p, a), h # NULL, q # NULL,
         NEW n2, n2 = SpliceNext(n, p, h, q), NEW p2, p2 = SplicePrev(p, h, q)
  PROVE  Both(<<>>, ps \o hs, NULL, q, n2, p2, a)
<1> DEFINE u == ps \o hs
           l == Len(hs)
           k == Len(ps)
<1>1. /\ Fields(n, p) /\ IsRing(hs, h, n, p) /\ IsRing(ps, q, n, p) /\ a \in 0..MaxRecords
      /\ Disjoint(hs, ps)
  BY Zenon DEF Both
<1>2. /\ \A i \in 1..l : hs[i] <= a
      /\ \A e \in 1..k : ps[e] <= a
      /\ \A r \in 1..a : (\E i \in 1..l : hs[i] = r) \/ (\E e \in 1..k : ps[e] = r)
      /\ l + k = a
  BY Zenon DEF Both
<1>3. hs # <<>> /\ ps # <<>>
  BY <1>1, RingFacts, Zenon
<1>4. hs \in Seq(Record) /\ l \in Nat /\ ps \in Seq(Record) /\ k \in Nat
  BY <1>1, RingSize, Zenon
<1>5. IsRing(u, q, n2, p2) /\ Fields(n2, p2)
  BY <1>1, <1>3, RingSplice, Zenon
<1>6. Len(u) = k + l /\ \A i \in 1..(k + l) : u[i] = IF i <= k THEN ps[i] ELSE hs[i - k]
  BY <1>4, ConcatProperties
<1> HIDE DEF u
<1>7. /\ \A i \in 1..k : i \in 1..(k + l) /\ u[i] = ps[i]
      /\ \A i \in 1..l : k + i \in 1..(k + l) /\ u[k + i] = hs[i]
      /\ \A i \in 1..(k + l) : i \in 1..k \/ (i - k \in 1..l /\ i = k + (i - k))
  <2> HIDE DEF l, k
  <2>1. \A i \in 1..k : i \in 1..(k + l) /\ i <= k
    BY <1>4
  <2>2. \A i \in 1..l : k + i \in 1..(k + l) /\ ~(k + i <= k) /\ (k + i) - k = i
    BY <1>4
  <2>3. \A i \in 1..(k + l) : i \in 1..k \/ (i - k \in 1..l /\ i = k + (i - k))
    BY <1>4
  <2> QED  BY <1>6, <2>1, <2>2, <2>3
<1>8. \A i \in 1..(k + l) : u[i] <= a
  <2> SUFFICES ASSUME NEW i \in 1..(k + l) PROVE u[i] <= a
    OBVIOUS
  <2> DEFINE e == i - k
  <2>1. i \in 1..k \/ (e \in 1..l /\ i = k + e)
    BY <1>7
  <2> HIDE DEF e, l, k
  <2>2. CASE i \in 1..k
    BY <1>2, <1>7, <2>2, Zenon
  <2>3. CASE e \in 1..l /\ i = k + e
    BY <1>2, <1>7, <2>3, Zenon
  <2> QED  BY <2>1, <2>2, <2>3
<1>9. \A r \in 1..a : \E i \in 1..(k + l) : u[i] = r
  <2> SUFFICES ASSUME NEW r \in 1..a PROVE \E i \in 1..(k + l) : u[i] = r
    OBVIOUS
  <2>1. (\E i \in 1..l : hs[i] = r) \/ (\E e \in 1..k : ps[e] = r)
    BY <1>2
  <2> HIDE DEF l, k
  <2> QED  BY <1>7, <2>1, Zenon
<1>10. IsRing(<<>>, NULL, n2, p2)
  BY EmptySeq DEF IsRing
<1>11. Len(<<>>) = 0 /\ Disjoint(<<>>, u) /\ \A i \in 1..Len(<<>>) : FALSE
  BY DEF Disjoint
<1>12. Len(<<>>) + Len(u) = a
  <2>1. k + l = a
    BY <1>2, <1>4
  <2> QED  BY <1>6, <1>11, <1>1, <2>1
<1> QED
  <2>1. \A i \in 1..Len(<<>>) : <<>>[i] <= a
    BY <1>11
  <2>2. \A i \in 1..Len(u) : u[i] <= a
    BY <1>6, <1>8
  <2>3. \A r \in 1..a : (\E i \in 1..Len(<<>>) : <<>>[i] = r) \/ (\E i \in 1..Len(u) : u[i] = r)
    BY <1>6, <1>9
  <2> QED  BY <1>1, <1>5, <1>10, <1>11, <1>12, <2>1, <2>2, <2>3, Zenon DEF Both, u

\* hs is the list of the records in use and ps the pool.
RingsAre(hs, ps) ==
  /\ Both(hs, ps, head, pool, next, prev, allocated)
  /\ Len(hs) = match_count
  /\ beg \in [Record -> Nat]

\* What the invariants need to know of the two rings.
Told ==
  \A hs, ps : RingsAre(hs, ps) =>
    /\ Ring(head) = hs /\ Ring(pool) = ps
    /\ Len(hs) \in Nat /\ Len(ps) \in Nat /\ Len(hs) + Len(ps) = allocated /\ allocated \in 0..MaxRecords
    /\ match_count = Len(hs) /\ head \in 0..allocated /\ pool \in 0..allocated

\* The reader of a ring, Ring, sees the list and the pool.
LEMMA RingsTold == Told
<1> SUFFICES ASSUME NEW hs, NEW ps, RingsAre(hs, ps)
             PROVE  /\ Ring(head) = hs /\ Ring(pool) = ps
                    /\ Len(hs) \in Nat /\ Len(ps) \in Nat
                    /\ Len(hs) + Len(ps) = allocated /\ allocated \in 0..MaxRecords
                    /\ match_count = Len(hs) /\ head \in 0..allocated /\ pool \in 0..allocated
  BY DEF Told
<1>1. /\ IsRing(hs, head, next, prev) /\ IsRing(ps, pool, next, prev) /\ allocated \in 0..MaxRecords
      /\ Len(hs) + Len(ps) = allocated /\ match_count = Len(hs)
      /\ \A i \in 1..Len(hs) : hs[i] <= allocated
      /\ \A k \in 1..Len(ps) : ps[k] <= allocated
  BY Zenon DEF RingsAre, Both
<1>2. /\ Len(hs) \in Nat /\ Len(ps) \in Nat
      /\ \A i \in 1..Len(hs) : hs[i] \in Record
      /\ \A i \in 1..Len(ps) : ps[i] \in Record
  BY <1>1, RingSize, Zenon
<1>3. allocated \in Nat /\ Len(hs) <= allocated /\ Len(ps) <= allocated
  BY <1>1, <1>2
<1>4. Ring(head) = hs /\ Ring(pool) = ps
  BY <1>1, <1>3, RingIs, Zenon
<1>5. head \in 0..allocated
  <2>1. CASE hs = <<>>
    <3>1. head = 0
      BY <1>1, <2>1, RingFacts, Zenon DEF NULL
    <3> QED  BY <1>3, <3>1
  <2>2. CASE hs # <<>>
    <3>1. head = hs[1] /\ Len(hs) >= 1
      BY <1>1, <2>2, RingEnds, RingSize, Zenon
    <3>2. 1 \in 1..Len(hs)
      BY <1>2, <3>1
    <3>3. head \in Record /\ head <= allocated
      BY <1>1, <1>2, <3>1, <3>2, Zenon
    <3> QED  BY <1>3, <3>3, RecordAssumption DEF Record
  <2> QED  BY <2>1, <2>2
<1>6. pool \in 0..allocated
  <2>1. CASE ps = <<>>
    <3>1. pool = 0
      BY <1>1, <2>1, RingFacts, Zenon DEF NULL
    <3> QED  BY <1>3, <3>1
  <2>2. CASE ps # <<>>
    <3>1. pool = ps[1] /\ Len(ps) >= 1
      BY <1>1, <2>2, RingEnds, RingSize, Zenon
    <3>2. 1 \in 1..Len(ps)
      BY <1>2, <3>1
    <3>3. pool \in Record /\ pool <= allocated
      BY <1>1, <1>2, <3>1, <3>2, Zenon
    <3> QED  BY <1>3, <3>3, RecordAssumption DEF Record
  <2> QED  BY <2>1, <2>2
<1> QED  BY <1>1, <1>2, <1>4, <1>5, <1>6

\* It is so in every state.
LEMMA RingsTell ==
  ASSUME NEW hs, NEW ps, RingsAre(hs, ps)
  PROVE  /\ Ring(head) = hs /\ Ring(pool) = ps
         /\ Len(hs) \in Nat /\ Len(ps) \in Nat /\ Len(hs) + Len(ps) = allocated /\ allocated \in 0..MaxRecords
         /\ match_count = Len(hs) /\ head \in 0..allocated /\ pool \in 0..allocated
BY RingsTold DEF Told

\* Also after a step.
LEMMA RingsToldNext == Told'
BY RingsTold, PTL

\* At first both rings are empty.
LEMMA RingsInit ==
  RecordInit => RingsAre(<<>>, <<>>)
<1> SUFFICES ASSUME RecordInit PROVE RingsAre(<<>>, <<>>)
  OBVIOUS
<1>1. Fields(next, prev) /\ beg \in [Record -> Nat]
  BY DEF RecordInit, Fields, NULL
<1>2. IsRing(<<>>, NULL, next, prev)
  BY EmptySeq DEF IsRing
<1>3. Len(<<>>) = 0 /\ allocated = 0 /\ match_count = 0 /\ head = NULL /\ pool = NULL /\ allocated \in 0..MaxRecords
  BY RecordAssumption DEF RecordInit
<1>4. Disjoint(<<>>, <<>>)
  BY <1>3 DEF Disjoint
<1>5. Both(<<>>, <<>>, head, pool, next, prev, allocated)
  BY <1>1, <1>2, <1>3, <1>4 DEF Both
<1> QED  BY <1>1, <1>3, <1>5 DEF RingsAre

\* new_match_record appends one record to the list and loses none.
LEMMA RingsNew ==
  ASSUME NEW hs, NEW ps, RingsAre(hs, ps), NEW b \in Nat, NewMatchRecord(b)
  PROVE  \E r, ts : /\ r \in Record /\ RingsAre(Append(hs, r), ts)' /\ Outside(hs, r)
                    /\ beg' = [beg EXCEPT ![r] = b]
<1>1. /\ Both(hs, ps, head, pool, next, prev, allocated) /\ Len(hs) = match_count /\ beg \in [Record -> Nat]
      /\ hs \in Seq(Record)
  BY RingSize, Zenon DEF RingsAre, Both
<1>0. PICK r : r = IF pool = NULL THEN allocated + 1 ELSE pool
  OBVIOUS
<1>2. /\ r \in Record
      /\ allocated' = IF pool = NULL THEN allocated + 1 ELSE allocated
      /\ pool' = IF pool = NULL \/ next[pool] = pool THEN NULL ELSE next[pool]
      /\ beg' = [beg EXCEPT ![r] = b] /\ match_count' = match_count + 1
  BY <1>0 DEF NewMatchRecord
<1>3. /\ next' = JoinNext(PoolNext, PoolPrev, head, r)
      /\ prev' = JoinPrev(PoolPrev, head, r)
      /\ head' = JoinHead(head, r)
  BY <1>0 DEF NewMatchRecord, JoinNext, JoinPrev, JoinHead
<1>4. beg' \in [Record -> Nat]
  BY <1>1, <1>2
<1>5. Len(Append(hs, r)) = match_count'
  BY <1>1, <1>2, AppendProperties
<1>6. CASE pool = NULL
  <2>1. r = allocated + 1 /\ allocated' = allocated + 1 /\ pool' = NULL /\ PoolNext = next /\ PoolPrev = prev
    BY <1>0, <1>2, <1>6 DEF PoolNext, PoolPrev
  <2>2. /\ Both(Append(hs, allocated + 1), <<>>, JoinHead(head, allocated + 1), NULL, next', prev', allocated + 1)
        /\ Outside(hs, allocated + 1)
    <3>1. Both(hs, ps, head, NULL, next, prev, allocated) /\ allocated + 1 \in Record
      BY <1>0, <1>1, <1>2, <1>6
    <3>2. next' = JoinNext(next, prev, head, allocated + 1) /\ prev' = JoinPrev(prev, head, allocated + 1)
      BY <1>3, <2>1
    <3> QED  BY <3>1, <3>2, BothNew, Zenon
  <2>3. Both(Append(hs, r), <<>>, head', pool', next', prev', allocated') /\ Outside(hs, r)
    BY <1>3, <2>1, <2>2
  <2>4. RingsAre(Append(hs, r), <<>>)'
    BY <1>4, <1>5, <2>3 DEF RingsAre
  <2> QED  BY <1>2, <2>3, <2>4
<1>7. CASE pool # NULL
  <2>1. r = pool /\ allocated' = allocated /\ pool' = TakenHead(next, pool)
    BY <1>0, <1>2, <1>7 DEF TakenHead
  <2>2. PoolNext = TakenNext(next, prev, pool) /\ PoolPrev = TakenPrev(next, prev, pool)
    BY <1>7 DEF PoolNext, PoolPrev, TakenNext, TakenPrev
  <2>3. next' = JoinNext(PoolNext, PoolPrev, head, pool) /\ prev' = JoinPrev(PoolPrev, head, pool)
    BY <1>3, <2>1
  <2>4. /\ Both(Append(hs, pool), Tail(ps), JoinHead(head, pool), TakenHead(next, pool), next', prev', allocated)
        /\ Outside(hs, pool)
    BY <1>1, <1>7, <2>2, <2>3, BothTaken, Zenon
  <2>5. Both(Append(hs, r), Tail(ps), head', pool', next', prev', allocated') /\ Outside(hs, r)
    BY <1>3, <2>1, <2>4
  <2>6. RingsAre(Append(hs, r), Tail(ps))'
    BY <1>4, <1>5, <2>5 DEF RingsAre
  <2> QED  BY <1>2, <2>5, <2>6
<1> QED  BY <1>6, <1>7

\* bm_clear_matches leaves no record in use and loses none.
LEMMA RingsClear ==
  ASSUME NEW hs, NEW ps, RingsAre(hs, ps), Clear
  PROVE  \E ts : RingsAre(<<>>, ts)'
<1>1. /\ Both(hs, ps, head, pool, next, prev, allocated) /\ beg \in [Record -> Nat]
      /\ IsRing(hs, head, next, prev) /\ IsRing(ps, pool, next, prev)
  BY Zenon DEF RingsAre, Both
<1>2. head' = NULL /\ match_count' = 0 /\ beg' = beg /\ allocated' = allocated
  BY DEF Clear
<1>3. Len(<<>>) = match_count' /\ beg' \in [Record -> Nat]
  BY <1>1, <1>2
<1>4. CASE head = NULL
  <2>1. next' = next /\ prev' = prev /\ pool' = pool
    BY <1>4 DEF Clear
  <2>2. hs = <<>>
    BY <1>1, <1>4, RingFacts, Zenon
  <2>3. Both(<<>>, ps, head', pool', next', prev', allocated')
    BY <1>1, <1>2, <1>4, <2>1, <2>2
  <2>4. RingsAre(<<>>, ps)'
    BY <1>3, <2>3 DEF RingsAre
  <2> QED  BY <2>4
<1>5. CASE head # NULL /\ pool = NULL
  <2>1. next' = next /\ prev' = prev /\ pool' = head
    BY <1>5 DEF Clear
  <2>2. ps = <<>>
    BY <1>1, <1>5, RingFacts, Zenon
  <2>3. Both(<<>>, hs, NULL, head, next, prev, allocated)
    <3>1. Both(hs, <<>>, head, NULL, next, prev, allocated)
      BY <1>1, <1>5, <2>2
    <3>2. Len(hs) \in Nat
      BY <1>1, RingSize, Zenon
    <3>3. Len(<<>>) = 0 /\ \A i \in 1..Len(<<>>) : FALSE
      OBVIOUS
    <3>4. Disjoint(<<>>, hs)
      BY <3>3 DEF Disjoint
    <3>5. Len(<<>>) + Len(hs) = Len(hs) + Len(<<>>)
      BY <3>2, <3>3
    <3> QED  BY <3>1, <3>3, <3>4, <3>5, Zenon DEF Both
  <2>4. Both(<<>>, hs, head', pool', next', prev', allocated')
    BY <1>2, <2>1, <2>3
  <2>5. RingsAre(<<>>, hs)'
    BY <1>3, <2>4 DEF RingsAre
  <2> QED  BY <2>5
<1>6. CASE head # NULL /\ pool # NULL
  <2>1. next' = SpliceNext(next, prev, head, pool) /\ prev' = SplicePrev(prev, head, pool) /\ pool' = pool
    BY <1>6 DEF Clear, Splice, SpliceNext, SplicePrev
  <2>2. Both(<<>>, ps \o hs, NULL, pool, next', prev', allocated)
    BY <1>1, <1>6, <2>1, BothSpliced, Zenon
  <2>3. Both(<<>>, ps \o hs, head', pool', next', prev', allocated')
    BY <1>2, <2>1, <2>2
  <2>4. RingsAre(<<>>, ps \o hs)'
    BY <1>3, <2>3 DEF RingsAre
  <2> QED  BY <2>4
<1> QED  BY <1>4, <1>5, <1>6

\* Reading the records does not disturb them.
LEMMA RingsRest ==
  ASSUME NEW hs, NEW ps, RingsAre(hs, ps), UNCHANGED records
  PROVE  RingsAre(hs, ps)'
BY DEF RingsAre, records

\* The same in the next state.
LEMMA RingsTellNext ==
  ASSUME NEW hs, NEW ps, RingsAre(hs, ps)'
  PROVE  /\ (Ring(head))' = hs /\ (Ring(pool))' = ps
         /\ Len(hs) \in Nat /\ Len(ps) \in Nat /\ Len(hs) + Len(ps) = allocated' /\ allocated' \in 0..MaxRecords
         /\ match_count' = Len(hs) /\ head' \in 0..allocated' /\ pool' \in 0..allocated'
BY RingsToldNext DEF Told

-----------------------------------------------------------------------------
(* The part of the invariant that holds for every keyword.                  *)

\* The tables belong to the keyword.
Setting == pattern \in Patterns /\ good_suffix = GoodSuffix(pattern) /\ bad_char = BadChar(pattern)

\* The search does not leave the line by more than the keyword's length.
Window ==
  /\ input \in Seq(Byte) /\ j \in 0..(Len(input) + Len(pattern))
  /\ pc \in {"clear", "search", "found", "spent"}

\* The iterator is at a record of the list.
Iterates(hs) == iter = NULL \/ \E i \in 1..Len(hs) : iter = hs[i]

Base == Setting /\ Window /\ RingsAre(Ring(head), Ring(pool)) /\ Iterates(Ring(head))

\* What the backward comparison finds.
LEMMA MismatchIs ==
  ASSUME Setting, Window
  PROVE  /\ Mismatch \in -1..(Len(pattern) - 1)
         /\ Mismatch >= 0 => pattern[Mismatch + 1] # input[Mismatch + j + 1]
         /\ \A k \in 0..(Len(pattern) - 1) : k > Mismatch => pattern[k + 1] = input[k + j + 1]
<1> DEFINE m == Len(pattern)
           S == {-1} \cup {i \in 0..(m - 1) : pattern[i + 1] # input[i + j + 1]}
<1>1. m \in Nat /\ m >= 1
  BY PatternIs DEF Setting
<1> HIDE DEF m
<1>2. S \in SUBSET Int /\ S # {} /\ m - 1 \in Int /\ \A k \in S : k <= m - 1
  BY <1>1
<1>3. \A k \in S : k = -1 \/ (k \in 0..(m - 1) /\ pattern[k + 1] # input[k + j + 1])
  OBVIOUS
<1>4. \A k \in 0..(m - 1) : k \notin S => pattern[k + 1] = input[k + j + 1]
  OBVIOUS
<1>5. Mismatch = Greatest(S)
  BY DEF Mismatch, m
<1> HIDE DEF S
<1>6. Greatest(S) \in S /\ \A y \in S : y <= Greatest(S)
  BY <1>2, GreatestIs
<1>7. Greatest(S) \in -1..(m - 1)
  BY <1>1, <1>3, <1>6
<1>8. Greatest(S) >= 0 => pattern[Greatest(S) + 1] # input[Greatest(S) + j + 1]
  BY <1>1, <1>3, <1>6
<1>9. ASSUME NEW k \in 0..(m - 1), k > Greatest(S) PROVE pattern[k + 1] = input[k + j + 1]
  <2>1. k \notin S
    BY <1>6, <1>7, <1>9
  <2> QED  BY <1>4, <2>1
<1> QED  BY <1>5, <1>7, <1>8, <1>9 DEF m

\* Both shifts of a mismatch are at most the keyword's length, and the larger one is positive.
LEMMA ShiftIs ==
  ASSUME Setting, Window, Shift
  PROVE  /\ j' \in (j + 1)..(j + Len(pattern)) /\ j <= Len(input) - Len(pattern)
         /\ \/ j' = j + good_suffix[Mismatch]
            \/ j' = j + CharShift(input[Mismatch + j + 1]) - Len(pattern) + Mismatch + 1
<1> DEFINE m == Len(pattern)
           i == Mismatch
           s == CharShift(input[i + j + 1])
           g == good_suffix[i]
<1>1. m \in Nat /\ m >= 1
  BY PatternIs DEF Setting
<1>2. i \in -1..(m - 1)
  BY MismatchIs
<1>3. i >= 0 /\ j <= Len(input) - m /\ j' = j + (IF s - m + i + 1 = m \/ s - m + i + 1 > g THEN s - m + i + 1 ELSE g)
  BY DEF Shift, InText
<1>4. s \in 1..m
  <2>1. \A c \in DOMAIN bad_char : bad_char[c] \in 1..(m - 1)
    BY BadCharIs DEF Setting
  <2> QED  BY <1>1, <2>1 DEF CharShift
<1>5. g \in 1..m
  <2>1. good_suffix \in [0..(m - 1) -> 1..m]
    BY GoodSuffixIs DEF Setting
  <2>2. i \in 0..(m - 1)
    BY <1>1, <1>2, <1>3
  <2> QED  BY <2>1, <2>2
<1>6. j \in Nat
  BY DEF Window
<1> HIDE DEF m, i, s, g
<1>7. j' \in (j + 1)..(j + m) /\ (j' = j + g \/ j' = j + s - m + i + 1)
  BY <1>1, <1>2, <1>3, <1>4, <1>5, <1>6
<1> QED  BY <1>3, <1>7 DEF m, i, s, g

\* RingsAre and Iterates of some records are those of the rings.
LEMMA BaseBy ==
  ASSUME Setting', Window', NEW hs, NEW ps, RingsAre(hs, ps)', Iterates(hs)'
  PROVE  Base'
<1>1. (Ring(head))' = hs /\ (Ring(pool))' = ps
  BY RingsTellNext
<1> QED  BY <1>1 DEF Base

\* bm_init_obj establishes it.
LEMMA InitBase ==
  ASSUME Init
  PROVE  Base
<1>1. Setting
  BY DEF Init, Setting
<1>2. Window
  <2>1. Len(pattern) \in Nat /\ input = <<>> /\ Len(<<>>) = 0 /\ j = 0 /\ pc = "clear"
    BY <1>1, PatternIs DEF Init, Setting
  <2>2. input \in Seq(Byte)
    BY <2>1, EmptySeq
  <2> QED  BY <2>1, <2>2 DEF Window
<1>3. RingsAre(<<>>, <<>>)
  BY RingsInit DEF Init
<1>4. Ring(head) = <<>> /\ Ring(pool) = <<>>
  BY <1>3, RingsTell
<1>5. Iterates(Ring(head))
  BY DEF Init, RecordInit, Iterates
<1> QED  BY <1>1, <1>2, <1>3, <1>4, <1>5 DEF Base

\* The next line changes neither the tables nor the rings.
LEMMA BeginBase ==
  ASSUME Base, NEW t \in Texts, BeginSearch(t)
  PROVE  Base'
<1>1. UNCHANGED tables /\ input' = Append(t, EOL) /\ j' = 0 /\ pc' = "search" /\ UNCHANGED recordVars
  BY DEF BeginSearch
<1>2. Setting'
  BY <1>1 DEF Base, Setting, tables
<1>3. Window'
  <2>1. t \in Seq(Byte) /\ EOL \in Byte
    BY ByteAssumption
  <2>2. input' \in Seq(Byte) /\ Len(input') \in Nat
    BY <1>1, <2>1, AppendProperties
  <2>3. Len(pattern') \in Nat
    BY <1>2, PatternIs DEF Setting
  <2> QED  BY <1>1, <2>2, <2>3 DEF Window
<1>4. RingsAre(Ring(head), Ring(pool)) /\ Iterates(Ring(head))
  BY DEF Base
<1>5. PICK hs, ps : hs = Ring(head) /\ ps = Ring(pool)
  OBVIOUS
<1>6. RingsAre(hs, ps)' /\ Iterates(hs)'
  BY <1>1, <1>4, <1>5, RingsRest DEF Iterates, recordVars
<1> QED  BY <1>2, <1>3, <1>6, BaseBy

\* A match takes one record from the pool or from malloc and moves the keyword on.
LEMMA RecordBase ==
  ASSUME Base, RecordOccurrence
  PROVE  Base'
<1>1. /\ pc = "search" /\ j <= Len(input) - Len(pattern) /\ NewMatchRecord(j + 1) /\ j' = j + good_suffix[0]
      /\ UNCHANGED <<tables, input, pc, searches>>
  BY DEF RecordOccurrence, InText
<1>2. Setting'
  BY <1>1 DEF Base, Setting, tables
<1>3. Window'
  <2> DEFINE m == Len(pattern)
             n == Len(input)
  <2>1. m \in Nat /\ m >= 1 /\ n \in Nat /\ j \in Nat /\ input \in Seq(Byte)
    BY PatternIs DEF Base, Setting, Window
  <2>2. good_suffix[0] \in 1..m
    <3>1. good_suffix \in [0..(m - 1) -> 1..m] /\ 0 \in 0..(m - 1)
      BY <2>1, GoodSuffixIs DEF Base, Setting
    <3> QED  BY <3>1
  <2> HIDE DEF m, n
  <2>3. j' \in 0..(n + m)
    BY <1>1, <2>1, <2>2 DEF m, n
  <2> QED  BY <1>1, <2>1, <2>3 DEF Window, tables, m, n
<1>4. RingsAre(Ring(head), Ring(pool)) /\ Iterates(Ring(head)) /\ j + 1 \in Nat
  BY DEF Base, Window
<1>5. PICK hs, ps : hs = Ring(head) /\ ps = Ring(pool)
  OBVIOUS
<1>6. PICK b : b = j + 1
  OBVIOUS
<1>7. PICK r, ts : r \in Record /\ RingsAre(Append(hs, r), ts)'
  <2>1. RingsAre(hs, ps) /\ b \in Nat /\ NewMatchRecord(b)
    BY <1>1, <1>4, <1>5, <1>6
  <2> QED  BY <2>1, RingsNew
<1>8. Iterates(Append(hs, r))'
  <2>1. iter' = iter /\ Iterates(hs)
    BY <1>1, <1>4, <1>5 DEF NewMatchRecord
  <2>2. hs \in Seq(Record)
    BY <1>4, <1>5, RingSize DEF RingsAre, Both
  <2>3. /\ \A i \in 1..Len(hs) : Append(hs, r)[i] = hs[i] /\ i \in 1..Len(Append(hs, r))
    BY <2>2, AppendProperties
  <2> QED  BY <2>1, <2>3 DEF Iterates
<1> QED  BY <1>2, <1>3, <1>7, <1>8, BaseBy

\* A mismatch only moves the keyword.
LEMMA ShiftBase ==
  ASSUME Base, Shift
  PROVE  Base'
<1>1. UNCHANGED <<tables, input, pc, searches, recordVars>> /\ j <= Len(input) - Len(pattern)
  BY DEF Shift, InText
<1>2. Setting'
  BY <1>1 DEF Base, Setting, tables
<1>3. Window'
  <2> DEFINE m == Len(pattern)
             n == Len(input)
  <2>1. m \in Nat /\ n \in Nat /\ j \in Nat /\ j' \in (j + 1)..(j + m)
    BY PatternIs, ShiftIs DEF Base, Setting, Window
  <2> HIDE DEF m, n
  <2>2. j' \in 0..(n + m)
    BY <1>1, <2>1 DEF m, n
  <2> QED  BY <1>1, <2>2 DEF Base, Window, tables, m, n
<1>4. RingsAre(Ring(head), Ring(pool)) /\ Iterates(Ring(head))
  BY DEF Base
<1>5. PICK hs, ps : hs = Ring(head) /\ ps = Ring(pool)
  OBVIOUS
<1>6. RingsAre(hs, ps)' /\ Iterates(hs)'
  BY <1>1, <1>4, <1>5, RingsRest DEF Iterates, recordVars
<1> QED  BY <1>2, <1>3, <1>6, BaseBy

\* bm_next_match takes the iterator from one record of the list to the next.
LEMMA TakeNextBase ==
  ASSUME Base, TakeNext
  PROVE  Base'
<1>1. /\ UNCHANGED <<tables, input, j, searches>> /\ UNCHANGED records /\ NextMatch
      /\ pc' \in {"spent", "found"}
  BY DEF TakeNext, NextMatch
<1>2. Setting' /\ Window'
  BY <1>1 DEF Base, Setting, Window, tables
<1>3. RingsAre(Ring(head), Ring(pool)) /\ Iterates(Ring(head))
  BY DEF Base
<1>4. PICK hs, ps : hs = Ring(head) /\ ps = Ring(pool)
  OBVIOUS
<1>5. RingsAre(hs, ps)'
  BY <1>1, <1>3, <1>4, RingsRest
<1>6. IsRing(hs, head, next, prev)
  BY <1>3, <1>4 DEF RingsAre, Both
<1>7. Iterates(hs)'
  <2>1. CASE iter' = iter
    BY <1>3, <1>4, <2>1 DEF Iterates
  <2>2. CASE iter' = NULL
    BY <2>2 DEF Iterates
  <2>3. CASE iter' = head /\ head # NULL
    <3>1. hs # <<>>
      BY <1>6, <2>3, RingFacts
    <3>2. head = hs[1] /\ Len(hs) \in Nat /\ Len(hs) >= 1
      BY <1>6, <3>1, RingEnds, RingSize
    <3>3. 1 \in 1..Len(hs)
      BY <3>2
    <3> QED  BY <2>3, <3>2, <3>3 DEF Iterates
  <2>4. CASE iter # NULL /\ iter' = next[iter]
    <3>1. PICK i \in 1..Len(hs) : iter = hs[i]
      BY <1>3, <1>4, <2>4 DEF Iterates
    <3>2. next[hs[i]] = After(hs, i)
      BY <1>6 DEF IsRing
    <3>3. PICK k \in 1..Len(hs) : After(hs, i) = hs[k]
      BY <1>6, RingFacts
    <3> QED  BY <2>4, <3>1, <3>2, <3>3 DEF Iterates
  <2> QED  BY <1>1, <2>1, <2>2, <2>3, <2>4 DEF NextMatch
<1> QED  BY <1>2, <1>5, <1>7, BaseBy

\* bm_clear_matches ties the rings together and resets the iterator.
LEMMA ClearBase ==
  ASSUME Base, ClearMatches
  PROVE  Base'
<1>1. UNCHANGED <<tables, input, j, searches>> /\ Clear /\ pc' = "clear" /\ iter' = NULL
  BY DEF ClearMatches, Clear
<1>2. Setting' /\ Window'
  BY <1>1 DEF Base, Setting, Window, tables
<1>3. PICK ts : RingsAre(<<>>, ts)'
  BY <1>1, RingsClear DEF Base
<1>4. Iterates(<<>>)'
  BY <1>1 DEF Iterates
<1> QED  BY <1>2, <1>3, <1>4, BaseBy

\* The end of a search leaves everything in place.
LEMMA RestBase ==
  ASSUME Base, FinishSearch \/ Exit \/ UNCHANGED vars
  PROVE  Base'
<1>1. UNCHANGED <<tables, input, j, recordVars>> /\ (pc' = pc \/ pc' = "found")
  BY DEF FinishSearch, Exit, vars
<1>2. Setting' /\ Window'
  BY <1>1 DEF Base, Setting, Window, tables
<1>3. PICK hs, ps : hs = Ring(head) /\ ps = Ring(pool)
  OBVIOUS
<1>4. RingsAre(hs, ps)' /\ Iterates(hs)'
  BY <1>1, <1>3, RingsRest DEF Base, Iterates, recordVars
<1> QED  BY <1>2, <1>4, BaseBy

\* So every step does.
LEMMA NextBase ==
  ASSUME Base, [Next]_vars
  PROVE  Base'
BY BeginBase, RecordBase, ShiftBase, TakeNextBase, ClearBase, RestBase DEF Next, Searching

\* The tables, the line and the rings keep their shape through every search.
THEOREM SpecBase ==
  Spec => []Base
<1>1. Init => Base
  BY InitBase
<1>2. Base /\ [Next]_vars => Base'
  BY NextBase
<1> QED  BY <1>1, <1>2, PTL DEF Spec

\* Every shift of bm_search goes forward by at most the keyword's length, and every
\* number it keeps stays in range.
THEOREM TypesHold ==
  Spec => []TypeOK
<1>1. Base => TypeOK
  <2> SUFFICES ASSUME Base PROVE TypeOK
    OBVIOUS
  <2>1. /\ good_suffix \in [0..(Len(pattern) - 1) -> 1..Len(pattern)]
        /\ \A c \in DOMAIN bad_char : bad_char[c] \in 1..(Len(pattern) - 1)
    BY GoodSuffixIs, BadCharIs DEF Base, Setting
  <2>2. PICK hs, ps : hs = Ring(head) /\ ps = Ring(pool)
    OBVIOUS
  <2>3. /\ head \in 0..allocated /\ pool \in 0..allocated /\ allocated \in 0..MaxRecords
        /\ match_count \in 0..allocated
    BY <2>2, RingsTell DEF Base
  <2>4. iter \in 0..allocated
    <3>1. CASE iter = NULL
      BY <2>3, <3>1 DEF NULL
    <3>2. CASE iter # NULL
      <4>1. PICK i \in 1..Len(hs) : iter = hs[i]
        BY <2>2, <3>2 DEF Base, Iterates
      <4>2. hs[i] \in Record /\ hs[i] <= allocated
        BY <2>2, RingSize DEF Base, RingsAre, Both
      <4> QED  BY <2>3, <4>1, <4>2, RecordAssumption DEF Record
    <3> QED  BY <3>1, <3>2
  <2> QED  BY <2>1, <2>3, <2>4 DEF Base, Setting, Window, TypeOK
<1> QED  BY <1>1, SpecBase, PTL

\* However often the records are taken, appended and tied back to the pool, every one is
\* on exactly one of the two rings, and both rings close in both directions.
THEOREM RingsStayWhole ==
  Spec => []RingsWhole
<1>1. Base => RingsWhole
  <2> SUFFICES ASSUME Base PROVE RingsWhole
    OBVIOUS
  <2>1. PICK hs, ps : hs = Ring(head) /\ ps = Ring(pool)
    OBVIOUS
  <2>2. RingsAre(hs, ps)
    BY <2>1 DEF Base
  <2>3. Len(hs) = match_count /\ Len(hs) + Len(ps) = allocated /\ allocated \in 0..MaxRecords
    BY <2>2, RingsTell
  <2>4. /\ IsRing(hs, head, next, prev) /\ IsRing(ps, pool, next, prev)
        /\ \A i \in 1..Len(hs), k \in 1..Len(ps) : hs[i] # ps[k]
        /\ \A i \in 1..Len(hs) : hs[i] <= allocated
        /\ \A k \in 1..Len(ps) : ps[k] <= allocated
        /\ \A r \in 1..allocated : (\E i \in 1..Len(hs) : hs[i] = r) \/ (\E k \in 1..Len(ps) : ps[k] = r)
    BY <2>2, Zenon DEF RingsAre, Both, Disjoint
  <2>5. /\ \A i \in 1..Len(hs) : hs[i] \in Record
        /\ \A i \in 1..Len(ps) : ps[i] \in Record
    BY <2>4, RingSize, Zenon
  <2>6. \A r \in Record : r <= allocated => r \in 1..allocated
    BY <2>3, RecordAssumption DEF Record
  <2>7. Members(hs) \cap Members(ps) = {}
    BY <2>4 DEF Members
  <2>8. Members(hs) \cup Members(ps) = 1..allocated
    BY <2>4, <2>5, <2>6 DEF Members
  <2>9. ASSUME NEW r \in 1..allocated PROVE next[r] # NULL /\ prev[next[r]] = r
    <3>1. ASSUME NEW s, NEW h, IsRing(s, h, next, prev), NEW i \in 1..Len(s)
          PROVE  next[s[i]] # NULL /\ prev[next[s[i]]] = s[i]
      <4>1. next[s[i]] = After(s, i) /\ prev[After(s, i)] = s[i]
        BY <3>1 DEF IsRing
      <4>2. PICK k \in 1..Len(s) : After(s, i) = s[k]
        BY <3>1, RingFacts
      <4>3. s[k] # NULL
        BY <3>1, RingFacts
      <4> QED  BY <4>1, <4>2, <4>3
    <3>2. CASE \E i \in 1..Len(hs) : hs[i] = r
      BY <2>4, <3>1, <3>2
    <3>3. CASE \E i \in 1..Len(ps) : ps[i] = r
      BY <2>4, <3>1, <3>3
    <3> QED  BY <2>4, <3>2, <3>3
  <2> QED  BY <2>1, <2>3, <2>7, <2>8, <2>9 DEF RingsWhole
<1> QED  BY <1>1, SpecBase, PTL

-----------------------------------------------------------------------------
(* compute_suffix: suff[e] is the length of the longest common suffix of    *)
(* the keyword and of its first e + 1 bytes.                                *)

\* The last l bytes up to e are the last l bytes of p, and no more of them.
IsSuffix(p, e, l) ==
  /\ l \in 0..(e + 1)
  /\ \A k \in 0..(l - 1) : p[e + 1 - k] = p[Len(p) - k]
  /\ l = e + 1 \/ p[e + 1 - l] # p[Len(p) - l]

\* There is only one such length.
LEMMA SuffixUnique ==
  ASSUME NEW p, NEW e \in Nat, NEW l, IsSuffix(p, e, l), NEW c, IsSuffix(p, e, c)
  PROVE  l = c
<1>1. l \in Nat /\ c \in Nat /\ l <= e + 1 /\ c <= e + 1
  BY DEF IsSuffix
<1>2. ASSUME l < c PROVE FALSE
  <2>1. l \in 0..(c - 1) /\ l # e + 1
    BY <1>1, <1>2
  <2> QED  BY <2>1 DEF IsSuffix
<1>3. ASSUME c < l PROVE FALSE
  <2>1. c \in 0..(l - 1) /\ c # e + 1
    BY <1>1, <1>3
  <2> QED  BY <2>1 DEF IsSuffix
<1> QED  BY <1>1, <1>2, <1>3

\* The loop of compute_suffix: where its inner loop stops, its state before the first and
\* after one more round.
Stop(p, f, g) == CHOOSE s \in -1..g :
                   /\ s = -1 \/ p[s + 1] # p[s + Len(p) - f]
                   /\ \A k \in (s + 1)..g : p[k + 1] = p[k + Len(p) - f]
Start(p) == [g |-> Len(p) - 1, f |-> Len(p) - 2, suff |-> [k \in 0..(Len(p) - 1) |-> Len(p)]]
Round(p, i, a) ==
  IF i > a.g /\ a.suff[i + Len(p) - 1 - a.f] < i - a.g
  THEN [a EXCEPT !.suff[i] = a.suff[i + Len(p) - 1 - a.f]]
  ELSE [g |-> Stop(p, i, IF i < a.g THEN i ELSE a.g), f |-> i,
        suff |-> [a.suff EXCEPT ![i] = i - Stop(p, i, IF i < a.g THEN i ELSE a.g)]]

\* The inner loop stops.
LEMMA StopIs ==
  ASSUME NEW p, NEW f \in Int, NEW g \in Int, g >= -1, NEW s, s = Stop(p, f, g)
  PROVE  /\ s \in -1..g
         /\ s = -1 \/ p[s + 1] # p[s + Len(p) - f]
         /\ \A k \in (s + 1)..g : p[k + 1] = p[k + Len(p) - f]
<1> DEFINE Good(x) == /\ x = -1 \/ p[x + 1] # p[x + Len(p) - f]
                      /\ \A k \in (x + 1)..g : p[k + 1] = p[k + Len(p) - f]
           S == {x \in -1..g : x = -1 \/ p[x + 1] # p[x + Len(p) - f]}
<1>1. S \in SUBSET Int /\ -1 \in S /\ \A k \in S : k <= g
  OBVIOUS
<1>2. PICK x \in S : \A k \in S : k <= x
  <2> HIDE DEF S
  <2>1. S # {}
    BY <1>1
  <2> QED  BY <1>1, <2>1, GreatestNumber
<1>3. x \in -1..g /\ (x = -1 \/ p[x + 1] # p[x + Len(p) - f])
  OBVIOUS
<1>4. ASSUME NEW k \in (x + 1)..g PROVE p[k + 1] = p[k + Len(p) - f]
  <2>1. k \in -1..g /\ k > x /\ ~(k <= x)
    BY <1>3
  <2>2. k \notin S
    BY <1>2, <2>1
  <2> QED  BY <2>1, <2>2
<1>5. \E y \in -1..g : Good(y)
  BY <1>3, <1>4
<1>6. s = CHOOSE y \in -1..g : Good(y)
  BY DEF Stop
<1> HIDE DEF Good
<1>7. s \in -1..g /\ Good(s)
  BY <1>5, <1>6, Zenon
<1> QED  BY <1>7 DEF Good

\* The state when the loop has come down to i: the bytes from g + 1 to f are the last ones
\* of the keyword, and the lengths from i on are computed.
State(p) == [g : Int, f : Int, suff : [0..(Len(p) - 1) -> 0..Len(p)]]
Computed(p, i, a) ==
  /\ a \in State(p) /\ a.g >= -1
  /\ a.g < i => a.f >= i /\ a.f <= Len(p) - 2
  /\ \A k \in (a.g + 1)..a.f : p[k + 1] = p[k + Len(p) - a.f]
  /\ \A e \in i..(Len(p) - 1) : IsSuffix(p, e, a.suff[e])

\* It is so before the loop,
LEMMA StartComputed ==
  ASSUME NEW p, Len(p) \in Nat, Len(p) >= 1
  PROVE  Computed(p, Len(p) - 1, Start(p))
<1> DEFINE m == Len(p)
           a == Start(p)
<1>1. a.g = m - 1 /\ a.f = m - 2 /\ a.suff = [k \in 0..(m - 1) |-> m] /\ a \in State(p)
  BY DEF Start, State
<1>2. m \in Nat /\ m >= 1 /\ m - 1 \in 0..(m - 1)
  OBVIOUS
<1>3. \A k \in (a.g + 1)..a.f : FALSE
  BY <1>1, <1>2
<1>4. IsSuffix(p, m - 1, m)
  <2>1. \A k \in 0..(m - 1) : (m - 1) + 1 - k = Len(p) - k
    BY <1>2
  <2>2. m \in 0..((m - 1) + 1) /\ m = (m - 1) + 1
    BY <1>2
  <2> HIDE DEF m
  <2> QED  BY <2>1, <2>2 DEF IsSuffix
<1>5. \A e \in (m - 1)..(m - 1) : IsSuffix(p, e, a.suff[e])
  <2>1. \A e \in (m - 1)..(m - 1) : e = m - 1
    BY <1>2
  <2> QED  BY <1>1, <1>2, <1>4, <2>1
<1>6. a.g >= -1 /\ ~(a.g < m - 1)
  BY <1>1, <1>2
<1> QED  BY <1>1, <1>3, <1>5, <1>6 DEF Computed

\* and after every round.
LEMMA RoundComputed ==
  ASSUME NEW p, Len(p) \in Nat, NEW i \in 0..(Len(p) - 2), NEW a, Computed(p, i + 1, a)
  PROVE  Computed(p, i, Round(p, i, a))
<1> DEFINE m == Len(p)
           g == a.g
           f == a.f
           S == a.suff
           c == i + m - 1 - f
           b == Round(p, i, a)
<1>1. /\ m \in Nat /\ i \in Nat /\ i <= m - 2 /\ i \in 0..(m - 1)
      /\ g \in Int /\ g >= -1 /\ f \in Int /\ S \in [0..(m - 1) -> 0..m] /\ a \in State(p)
  BY DEF Computed, State
<1>2. /\ g < i + 1 => f >= i + 1 /\ f <= m - 2
      /\ \A k \in (g + 1)..f : p[k + 1] = p[k + m - f]
      /\ \A e \in (i + 1)..(m - 1) : IsSuffix(p, e, S[e])
  BY DEF Computed
<1>3. \A k \in 0..m : k \in Int
  BY <1>1
<1>4. a = [g |-> g, f |-> f, suff |-> S]
  BY <1>1 DEF State
<1>5. CASE i > g /\ S[c] < i - g
  <2> DEFINE l == S[c]
  <2>1. b = [a EXCEPT !.suff[i] = l]
    BY <1>5 DEF Round
  <2>2. b = [g |-> g, f |-> f, suff |-> [S EXCEPT ![i] = l]]
    BY <1>4, <2>1
  <2> HIDE DEF g, f, S, b, m
  <2>3. f >= i + 1 /\ f <= m - 2 /\ c \in (i + 1)..(m - 1) /\ c \in 0..(m - 1) /\ c \in Nat
    BY <1>1, <1>2, <1>5
  <2>4. l \in 0..m /\ l \in Int /\ l < i - g
    BY <1>1, <1>5, <2>3
  <2>5. IsSuffix(p, c, l)
    BY <1>2, <2>3
  <2>6. l \in 0..(c + 1) /\ (\A k \in 0..(l - 1) : p[c + 1 - k] = p[m - k]) /\ (l = c + 1 \/ p[c + 1 - l] # p[m - l])
    BY <2>5 DEF IsSuffix, m
  <2> HIDE DEF l
  <2>7. ASSUME NEW k \in 0..l PROVE p[i + 1 - k] = p[c + 1 - k]
    <3>1. i - k \in (g + 1)..f /\ (i - k) + 1 = i + 1 - k /\ (i - k) + m - f = c + 1 - k
      <4>1. k \in Int /\ k >= 0 /\ k <= l
        BY <2>4
      <4> QED  BY <1>1, <2>3, <2>4, <4>1
    <3>2. p[(i - k) + 1] = p[(i - k) + m - f]
      BY <1>2, <3>1
    <3> HIDE DEF c
    <3> QED  BY <3>1, <3>2
  <2>8. IsSuffix(p, i, l)
    <3>1. l \in 0..(i + 1) /\ l # c + 1 /\ l \in 0..l /\ \A k \in 0..(l - 1) : k \in 0..l
      BY <1>1, <2>3, <2>4
    <3>2. p[i + 1 - l] = p[c + 1 - l] /\ \A k \in 0..(l - 1) : p[i + 1 - k] = p[c + 1 - k]
      BY <2>7, <3>1
    <3> HIDE DEF c
    <3> QED  BY <2>6, <3>1, <3>2 DEF IsSuffix, m
  <2> HIDE DEF c
  <2>9. b.g = g /\ b.f = f /\ b.suff = [S EXCEPT ![i] = l]
    BY <2>2
  <2>10. b.suff \in [0..(m - 1) -> 0..m] /\ b.suff[i] = l /\ \A e \in 0..(m - 1) : e # i => b.suff[e] = S[e]
    BY <1>1, <2>4, <2>9
  <2>11. b \in State(p)
    BY <1>1, <2>2, <2>9, <2>10 DEF State, m
  <2>12. \A e \in i..(m - 1) : IsSuffix(p, e, b.suff[e])
    <3>1. \A e \in i..(m - 1) : e = i \/ (e \in (i + 1)..(m - 1) /\ e # i /\ e \in 0..(m - 1))
      BY <1>1
    <3> QED  BY <1>2, <2>8, <2>10, <3>1
  <2>13. b.g < i => b.f >= i /\ b.f <= m - 2
    BY <1>1, <2>3, <2>9
  <2> QED  BY <1>1, <1>2, <2>9, <2>11, <2>12, <2>13 DEF Computed, b, m
<1>6. CASE ~(i > g /\ S[c] < i - g)
  <2> DEFINE h == IF i < g THEN i ELSE g
             s == Stop(p, i, h)
  <2>1. b = [g |-> s, f |-> i, suff |-> [S EXCEPT ![i] = i - s]]
    BY <1>6 DEF Round
  <2>2. h \in Int /\ h >= -1 /\ h <= i
    BY <1>1
  <2> HIDE DEF h
  <2>3. /\ s \in -1..h
        /\ s = -1 \/ p[s + 1] # p[s + m - i]
        /\ \A k \in (s + 1)..h : p[k + 1] = p[k + m - i]
    BY <1>1, <2>2, StopIs
  <2> HIDE DEF s, g, f, S, b, m
  <2>4. ASSUME NEW k \in (h + 1)..i PROVE p[k + 1] = p[k + m - i]
    <3>1. h = g /\ i > g
      BY <1>1, <2>2 DEF h
    <3>2. f >= i + 1 /\ f <= m - 2 /\ c \in (i + 1)..(m - 1) /\ c \in 0..(m - 1) /\ c \in Nat
      BY <1>1, <1>2, <3>1
    <3> DEFINE l == S[c]
    <3>3. l \in Int /\ l >= i - g
      BY <1>1, <1>6, <3>1, <3>2
    <3>4. \A e \in 0..(l - 1) : p[c + 1 - e] = p[m - e]
      BY <1>2, <3>2 DEF IsSuffix, m
    <3> HIDE DEF l
    <3>5. /\ k \in (g + 1)..f /\ i - k \in 0..(l - 1)
          /\ k + m - f = c + 1 - (i - k) /\ m - (i - k) = k + m - i
      BY <1>1, <3>1, <3>2, <3>3
    <3>6. p[k + 1] = p[k + m - f] /\ p[c + 1 - (i - k)] = p[m - (i - k)]
      BY <1>2, <3>4, <3>5
    <3> HIDE DEF c
    <3> QED  BY <3>5, <3>6
  <2>5. s \in Int /\ s >= -1 /\ s <= i /\ \A k \in (s + 1)..i : k \in (s + 1)..h \/ k \in (h + 1)..i
    BY <1>1, <2>2, <2>3
  <2>6. \A k \in (s + 1)..i : p[k + 1] = p[k + m - i]
    BY <2>3, <2>4, <2>5
  <2>7. IsSuffix(p, i, i - s)
    <3>1. i - s \in 0..(i + 1) /\ (i - s = i + 1 <=> s = -1) /\ i + 1 - (i - s) = s + 1 /\ m - (i - s) = s + m - i
      BY <1>1, <2>5
    <3>2. ASSUME NEW k \in 0..(i - s - 1) PROVE p[i + 1 - k] = p[m - k]
      <4>1. i - k \in (s + 1)..i /\ (i - k) + 1 = i + 1 - k /\ (i - k) + m - i = m - k
        BY <1>1, <2>5
      <4>2. p[(i - k) + 1] = p[(i - k) + m - i]
        BY <2>6, <4>1
      <4> QED  BY <4>1, <4>2
    <3>3. i - s - 1 = (i - s) - 1
      BY <1>1, <2>5
    <3>4. i - s = i + 1 \/ p[i + 1 - (i - s)] # p[m - (i - s)]
      BY <2>3, <3>1
    <3> QED  BY <3>1, <3>2, <3>3, <3>4 DEF IsSuffix, m
  <2>8. b.g = s /\ b.f = i /\ b.suff = [S EXCEPT ![i] = i - s]
    BY <2>1
  <2>9. b.suff \in [0..(m - 1) -> 0..m] /\ b.suff[i] = i - s /\ \A e \in 0..(m - 1) : e # i => b.suff[e] = S[e]
    <3>1. i - s \in 0..m
      BY <1>1, <2>5
    <3> QED  BY <1>1, <2>8, <3>1
  <2>10. b \in State(p)
    BY <1>1, <2>1, <2>5, <2>8, <2>9 DEF State, m
  <2>11. \A e \in i..(m - 1) : IsSuffix(p, e, b.suff[e])
    <3>1. \A e \in i..(m - 1) : e = i \/ (e \in (i + 1)..(m - 1) /\ e # i /\ e \in 0..(m - 1))
      BY <1>1
    <3> QED  BY <1>2, <2>7, <2>9, <3>1
  <2> QED  BY <1>1, <2>5, <2>6, <2>8, <2>10, <2>11 DEF Computed, b, m
<1> QED  BY <1>5, <1>6

\* So compute_suffix computes the lengths it should.
THEOREM SuffixIs ==
  ASSUME NEW p, Len(p) \in Nat, Len(p) >= 1
  PROVE  \A e \in 0..(Len(p) - 1) : IsSuffix(p, e, Suffix(p)[e])
<1> DEFINE m == Len(p)
           D == 0..(m - 1)
           S == State(p)
           Body(h, i) == IF i = m - 1 THEN Start(p) ELSE Round(p, i, h[i + 1])
           F(h) == [i \in D |-> Body(h, i)]
           U == CHOOSE h : h = F(h)
           mu == [i \in D |-> m - 1 - i]
           H == [x \in D \X [D -> S] |-> IF Body(x[2], x[1]) \in S THEN Body(x[2], x[1]) ELSE Start(p)]
           Done(h) == \A i \in D : Computed(p, i, h[i])
<1>1. Suffix(p) = U[0].suff
  BY DEF Suffix, Start, Round, Stop
<1>2. m \in Nat /\ m >= 1 /\ \A i \in D : i \in Nat /\ i <= m - 1
  OBVIOUS
<1>3. Start(p) \in S /\ Computed(p, m - 1, Start(p))
  BY StartComputed DEF Computed
<1>4. ASSUME NEW i \in D, i # m - 1, NEW a, Computed(p, i + 1, a)
      PROVE  Computed(p, i, Round(p, i, a)) /\ Round(p, i, a) \in S
  <2>1. i \in 0..(m - 2)
    BY <1>2, <1>4
  <2>2. Computed(p, i, Round(p, i, a))
    BY <1>4, <2>1, RoundComputed
  <2> QED  BY <2>2 DEF Computed
<1>5. \A i \in D : i # m - 1 => i + 1 \in D /\ m - 1 - (i + 1) < m - 1 - i
  BY <1>2
<1>6. ASSUME NEW h, \A i \in D : (i # m - 1 => Computed(p, i + 1, h[i + 1])) => h[i] = Body(h, i)
      PROVE  Done(h)
  <2> DEFINE P == {n \in Nat : n <= m - 1 => Computed(p, m - 1 - n, h[m - 1 - n])}
  <2>1. 0 \in P
    <3>1. m - 1 \in D /\ m - 1 - 0 = m - 1
      BY <1>2
    <3>2. h[m - 1] = Start(p)
      BY <1>6, <3>1
    <3> HIDE DEF m, D, S
    <3>3. Computed(p, m - 1 - 0, h[m - 1 - 0])
      BY <1>3, <3>1, <3>2
    <3> QED  BY <3>3
  <2>2. ASSUME NEW n \in P PROVE n + 1 \in P
    <3>1. n \in Nat
      OBVIOUS
    <3>2. ASSUME n + 1 <= m - 1 PROVE Computed(p, m - 1 - (n + 1), h[m - 1 - (n + 1)])
      <4> DEFINE i == m - 1 - (n + 1)
      <4>1. i \in D /\ i # m - 1 /\ i + 1 = m - 1 - n /\ n <= m - 1
        BY <1>2, <3>1, <3>2
      <4>2. Computed(p, m - 1 - n, h[m - 1 - n])
        BY <4>1
      <4>3. Computed(p, i + 1, h[i + 1])
        BY <4>1, <4>2
      <4> HIDE DEF i, m, D, S, P
      <4>4. h[i] = Body(h, i)
        BY <1>6, <4>1, <4>3
      <4>5. h[i] = Round(p, i, h[i + 1])
        BY <4>1, <4>4
      <4>6. Computed(p, i, h[i])
        BY <1>4, <4>1, <4>3, <4>5
      <4> QED  BY <4>6 DEF i
    <3> QED  BY <3>1, <3>2
  <2>3. \A n \in Nat : n \in P
    <3>1. P \in SUBSET Nat
      OBVIOUS
    <3> HIDE DEF P
    <3> QED  BY <2>1, <2>2, <3>1, SetInduction
  <2>4. ASSUME NEW i \in D PROVE Computed(p, i, h[i])
    <3> DEFINE n == m - 1 - i
    <3>1. n \in Nat /\ n <= m - 1 /\ m - 1 - n = i
      BY <1>2
    <3> HIDE DEF n
    <3>2. Computed(p, m - 1 - n, h[m - 1 - n])
      BY <2>3, <3>1
    <3> QED  BY <3>1, <3>2
  <2> QED  BY <2>4
<1>7. mu \in [D -> Nat] /\ \A i \in D : mu[i] = m - 1 - i
  BY <1>2
<1>8. \A i \in D, h \in [D -> S] : H[<<i, h>>] = IF Body(h, i) \in S THEN Body(h, i) ELSE Start(p)
  OBVIOUS
<1>9. H \in [D \X [D -> S] -> S]
  <2> HIDE DEF S, D, Body
  <2> QED  BY <1>3
<1> HIDE DEF H, mu, S, D, U, m
<1>10. ASSUME NEW i \in D, NEW h \in [D -> S], NEW k \in [D -> S], \A e \in D : mu[e] < mu[i] => h[e] = k[e]
       PROVE  H[<<i, h>>] = H[<<i, k>>]
  <2>1. i # m - 1 => h[i + 1] = k[i + 1]
    BY <1>5, <1>7, <1>10
  <2>2. Body(h, i) = Body(k, i)
    BY <2>1
  <2> HIDE DEF Body
  <2> QED  BY <1>8, <2>2
<1>11. Recursive(D, S, mu, H)
  <2>1. S # {}
    BY <1>3
  <2> QED  BY <1>7, <1>9, <1>10, <2>1, Zenon DEF Recursive
<1>12. PICK u \in [D -> S] : Follows(u, D, H)
  BY <1>11, Recursion
<1>13. \A i \in D : u[i] = IF Body(u, i) \in S THEN Body(u, i) ELSE Start(p)
  BY <1>8, <1>12 DEF Follows
<1>14. ASSUME NEW i \in D, i # m - 1 => Computed(p, i + 1, u[i + 1]) PROVE u[i] = Body(u, i)
  <2>1. Body(u, i) \in S
    BY <1>3, <1>4, <1>14
  <2> QED  BY <1>13, <2>1
<1>15. Done(u)
  BY <1>6, <1>14
<1>16. \A i \in D : u[i] = Body(u, i)
  BY <1>5, <1>14, <1>15
<1>17. u = F(u)
  <2> HIDE DEF Body
  <2> QED  BY <1>16
<1> HIDE DEF F
<1>18. U = F(U)
  BY <1>17, Zenon DEF U
<1>19. \A i \in D : U[i] = Body(U, i)
  BY <1>18 DEF F
<1>20. Done(U)
  BY <1>6, <1>19
<1>21. 0 \in D
  BY <1>2 DEF D
<1>22. Computed(p, 0, U[0])
  BY <1>20, <1>21
<1> QED  BY <1>1, <1>22 DEF Computed, m

-----------------------------------------------------------------------------
(* No shift jumps over an occurrence.                                       *)

\* Char and unsigned char agree on the bytes of the keywords.
AsciiKeywords == \A p \in Patterns : p \in Seq(0..127)

\* When the keyword, moved by d, agrees with its own bytes behind i and not with the one at
\* i, the shift of the good suffix behind i is at most d.
LEMMA GoodSuffixSafe ==
  ASSUME NEW p \in Patterns, NEW i \in -1..(Len(p) - 1), NEW d \in Nat, d >= 1,
         \A k \in (i + 1)..(Len(p) - 1) : k >= d => p[k - d + 1] = p[k + 1],
         i >= 0 /\ d <= i => p[i - d + 1] # p[i + 1],
         NEW c, c = IF i = -1 THEN 0 ELSE i
  PROVE  GoodSuffix(p)[c] <= d
<1> DEFINE m == Len(p)
           g == GoodSuffix(p)[c]
           e == m - 1 - d
           s(w) == Suffix(p)[w]
<1>1. m \in Nat /\ m >= 1
  BY PatternIs
<1> HIDE DEF m
<1>2. /\ i \in Int /\ i >= -1 /\ i <= m - 1 /\ d \in Int
      /\ c \in 0..(m - 1) /\ c \in Int /\ c >= i /\ c >= 0 /\ (i >= 0 => c = i) /\ (c = i \/ c = 0)
  BY <1>1 DEF m
<1>3. /\ g \in 1..m
      /\ \A w \in Again(p, c) : g <= m - 1 - w
      /\ Again(p, c) # {} => \E w \in Again(p, c) : g = m - 1 - w
      /\ Again(p, c) = {} => \A b \in Borders(p, c) : g <= b
  BY <1>2, GoodSuffixIs DEF m
<1>4. \A w \in 0..(m - 1) : IsSuffix(p, w, s(w))
  BY <1>1, SuffixIs DEF m
<1>5. CASE d >= m
  BY <1>1, <1>2, <1>3, <1>5
<1>6. CASE d < m /\ d <= i
  <2> DEFINE l == m - 1 - i
  <2>1. e \in 0..(m - 2) /\ e \in 0..(m - 1) /\ e \in Nat /\ l \in 0..(e + 1) /\ c = i
    BY <1>1, <1>2, <1>6
  <2>2. ASSUME NEW k \in 0..(l - 1) PROVE p[e + 1 - k] = p[m - k]
    <3>1. m - 1 - k \in (i + 1)..(m - 1) /\ m - 1 - k >= d /\ (m - 1 - k) - d + 1 = e + 1 - k /\ (m - 1 - k) + 1 = m - k
      BY <1>1, <1>2, <1>6
    <3>2. p[(m - 1 - k) - d + 1] = p[(m - 1 - k) + 1]
      BY <3>1 DEF m
    <3> QED  BY <3>1, <3>2
  <2>3. p[e + 1 - l] # p[m - l]
    <3>1. e + 1 - l = i - d + 1 /\ m - l = i + 1 /\ i >= 0
      BY <1>1, <1>2, <1>6
    <3> QED  BY <1>6, <3>1
  <2> HIDE DEF e, l
  <2>4. IsSuffix(p, e, l)
    BY <2>1, <2>2, <2>3 DEF IsSuffix, m
  <2>5. s(e) = l
    BY <1>4, <2>1, <2>4, SuffixUnique
  <2>6. m - 1 - s(e) = c
    BY <1>1, <1>2, <2>1, <2>5 DEF l
  <2>7. e \in Again(p, c)
    BY <2>1, <2>6 DEF Again, m
  <2>8. g <= m - 1 - e
    BY <1>3, <2>7
  <2> HIDE DEF g
  <2> QED  BY <1>1, <1>2, <1>3, <2>8 DEF e, g
<1>7. CASE d < m /\ d > i
  <2>1. e \in 0..(m - 1) /\ e \in Nat /\ m - 1 - e = d /\ e + 1 \in 0..(e + 1) /\ c < d /\ c + 1 <= d
    BY <1>1, <1>2, <1>7
  <2>2. ASSUME NEW k \in 0..((e + 1) - 1) PROVE p[e + 1 - k] = p[m - k]
    <3>1. m - 1 - k \in (i + 1)..(m - 1) /\ m - 1 - k >= d /\ (m - 1 - k) - d + 1 = e + 1 - k /\ (m - 1 - k) + 1 = m - k
      BY <1>1, <1>2, <1>7
    <3>2. p[(m - 1 - k) - d + 1] = p[(m - 1 - k) + 1]
      BY <3>1 DEF m
    <3> QED  BY <3>1, <3>2
  <2> HIDE DEF e
  <2>3. IsSuffix(p, e, e + 1)
    BY <2>1, <2>2 DEF IsSuffix, m
  <2>4. s(e) = e + 1
    BY <1>4, <2>1, <2>3, SuffixUnique
  <2>5. d \in Borders(p, c)
    BY <2>1, <2>4 DEF Borders, m
  <2>6. CASE Again(p, c) = {}
    BY <1>3, <2>5, <2>6
  <2>7. CASE Again(p, c) # {}
    <3>1. PICK w \in Again(p, c) : g = m - 1 - w
      BY <1>3, <2>7
    <3>2. w \in 0..(m - 2) /\ w \in 0..(m - 1) /\ m - 1 - s(w) = c
      BY <1>1 DEF Again, m
    <3>3. s(w) \in Int /\ s(w) <= w + 1
      BY <1>4, <3>2 DEF IsSuffix
    <3> HIDE DEF s, g
    <3> QED  BY <1>1, <1>2, <1>3, <2>1, <3>1, <3>2, <3>3 DEF g
  <2> QED  BY <2>6, <2>7
<1> QED  BY <1>1, <1>2, <1>5, <1>6, <1>7

\* The bytes at which the keyword occurs.
Occurrences == Abstract!Occurrences(pattern, input)

\* The part of an alignment at which the keyword occurs, moved by d, that the comparison
\* has seen.
LEMMA Overlap ==
  ASSUME Setting, Window, j <= Len(input) - Len(pattern), NEW a \in Occurrences, a > j + 1,
         NEW d, d = a - 1 - j, NEW i, i = Mismatch
  PROVE  /\ d \in Nat /\ d >= 1 /\ i \in -1..(Len(pattern) - 1)
         /\ \A k \in (i + 1)..(Len(pattern) - 1) : k >= d => pattern[k - d + 1] = pattern[k + 1]
         /\ i >= 0 /\ d <= i => /\ pattern[i - d + 1] # pattern[i + 1]
                                /\ pattern[i - d + 1] = input[i + j + 1]
<1> DEFINE m == Len(pattern)
           n == Len(input)
<1>1. m \in Nat /\ m >= 1 /\ n \in Nat /\ j \in Nat
  BY PatternIs DEF Setting, Window
<1>2. a \in 1..n /\ \A k \in 1..m : a + k - 1 <= n /\ input[a + k - 1] = pattern[k]
  BY DEF Occurrences, Abstract!Occurrences
<1>3. /\ i \in -1..(m - 1)
      /\ i >= 0 => pattern[i + 1] # input[i + j + 1]
      /\ \A k \in 0..(m - 1) : k > i => pattern[k + 1] = input[k + j + 1]
  BY MismatchIs
<1> HIDE DEF m, n
<1>4. a \in Int /\ d \in Nat /\ d >= 1 /\ i \in Int /\ a = j + d + 1
  BY <1>1, <1>2, <1>3
<1>5. ASSUME NEW k \in 0..(m - 1), k >= d PROVE input[k + j + 1] = pattern[k - d + 1]
  <2>1. k - d + 1 \in 1..m /\ a + (k - d + 1) - 1 = k + j + 1
    BY <1>1, <1>4, <1>5
  <2>2. input[a + (k - d + 1) - 1] = pattern[k - d + 1]
    BY <1>2, <2>1
  <2> QED  BY <2>1, <2>2
<1>6. \A k \in (i + 1)..(m - 1) : k \in 0..(m - 1) /\ k > i
  BY <1>1, <1>3
<1>7. \A k \in (i + 1)..(m - 1) : k >= d => pattern[k - d + 1] = pattern[k + 1]
  BY <1>3, <1>5, <1>6
<1>8. ASSUME i >= 0, d <= i PROVE pattern[i - d + 1] # pattern[i + 1] /\ pattern[i - d + 1] = input[i + j + 1]
  <2>1. i \in 0..(m - 1) /\ i >= d
    BY <1>1, <1>3, <1>4, <1>8
  <2> QED  BY <1>3, <1>5, <1>8, <2>1
<1> QED  BY <1>3, <1>4, <1>7, <1>8 DEF m

\* bm_search moves the keyword past no alignment at which it occurs.
LEMMA NoSkip ==
  ASSUME AsciiKeywords, Base, RecordOccurrence \/ Shift, NEW a \in Occurrences, a > j + 1
  PROVE  a - 1 >= j'
<1> DEFINE m == Len(pattern)
           n == Len(input)
           d == a - 1 - j
           i == Mismatch
           g == good_suffix[IF i = -1 THEN 0 ELSE i]
<1>1. m \in Nat /\ m >= 1 /\ n \in Nat /\ j \in Nat /\ Setting /\ Window /\ pattern \in Patterns
  BY PatternIs DEF Base, Setting, Window
<1>2. j <= n - m
  BY DEF RecordOccurrence, Shift, InText
<1>3. a \in 1..n
  BY DEF Occurrences, Abstract!Occurrences
<1>4. /\ d \in Nat /\ d >= 1 /\ i \in -1..(m - 1)
      /\ \A k \in (i + 1)..(m - 1) : k >= d => pattern[k - d + 1] = pattern[k + 1]
      /\ i >= 0 /\ d <= i => /\ pattern[i - d + 1] # pattern[i + 1]
                             /\ pattern[i - d + 1] = input[i + j + 1]
  BY <1>1, <1>2, Overlap
<1>5. g <= d
  <2>1. good_suffix = GoodSuffix(pattern)
    BY <1>1 DEF Setting
  <2> HIDE DEF d, i
  <2>2. GoodSuffix(pattern)[IF i = -1 THEN 0 ELSE i] <= d
    BY <1>1, <1>4, GoodSuffixSafe
  <2> QED  BY <2>1, <2>2
<1>6. g \in 1..m
  <2>1. good_suffix \in [0..(m - 1) -> 1..m]
    BY <1>1, GoodSuffixIs DEF Setting
  <2>2. (IF i = -1 THEN 0 ELSE i) \in 0..(m - 1)
    BY <1>1, <1>4
  <2> QED  BY <2>1, <2>2
<1>7. CASE j' = j + g
  <2> HIDE DEF g, i
  <2> QED  BY <1>1, <1>3, <1>5, <1>6, <1>7
<1>8. CASE Shift /\ j' = j + CharShift(input[i + j + 1]) - m + i + 1
  <2> DEFINE x == input[i + j + 1]
             s == CharShift(x)
  <2>1. i >= 0
    BY <1>8 DEF Shift
  <2>2. s \in 1..m
    <3>1. \A b \in DOMAIN bad_char : bad_char[b] \in 1..(m - 1)
      BY <1>1, BadCharIs DEF Setting
    <3> QED  BY <1>1, <3>1 DEF CharShift
  <2>3. CASE d > i
    <3> HIDE DEF i, s, m
    <3> QED  BY <1>1, <1>3, <1>4, <1>8, <2>1, <2>2, <2>3, SMTT(30) DEF s
  <2>4. CASE d <= i
    <3> DEFINE k == i - d + 1
    <3>1. k \in 1..(m - 1) /\ k \in 1..m
      BY <1>1, <1>4, <2>1, <2>4
    <3>2. x = pattern[k]
      BY <1>4, <2>1, <2>4
    <3>3. pattern[k] \in 0..127
      <4> HIDE DEF k
      <4>1. pattern \in Seq(0..127)
        BY <1>1 DEF AsciiKeywords
      <4> QED  BY <3>1, <4>1, ElementOfSeq
    <3>4. SignedChar(pattern[k]) = pattern[k]
      BY <3>3 DEF SignedChar
    <3>5. SignedChar(pattern[k]) \in DOMAIN BadChar(pattern) /\ BadChar(pattern)[SignedChar(pattern[k])] <= m - k
      <4> HIDE DEF k
      <4> QED  BY <1>1, <3>1, BadCharIs
    <3>6. s <= m - k
      BY <1>1, <3>2, <3>4, <3>5 DEF CharShift, Setting
    <3> HIDE DEF i, s, m, x
    <3> QED  BY <1>1, <1>3, <1>4, <1>8, <2>1, <2>2, <3>1, <3>6 DEF s, x
  <2> QED  BY <1>1, <1>4, <2>1, <2>3, <2>4
<1>9. CASE RecordOccurrence
  <2>1. i = -1 /\ j' = j + good_suffix[0]
    BY <1>9 DEF RecordOccurrence
  <2> QED  BY <1>7, <2>1
<1>10. CASE Shift
  <2>1. i # -1
    <3>1. i >= 0
      BY <1>10 DEF Shift
    <3> QED  BY <1>4, <3>1
  <2>2. j' = j + good_suffix[i] \/ j' = j + CharShift(input[i + j + 1]) - m + i + 1
    BY <1>1, <1>10, ShiftIs
  <2> QED  BY <1>7, <1>8, <1>10, <2>1, <2>2
<1> QED  BY <1>9, <1>10

-----------------------------------------------------------------------------
(* The records are the occurrences.                                         *)

\* The occurrences bm_search has moved past.
Found ==
  IF pc = "clear" THEN {} ELSE IF pc = "search" THEN {a \in Occurrences : a - 1 < j} ELSE Occurrences

\* The records of the list hold them in ascending order, and bm_next_match returned the
\* one the iterator is at.
Recorded(hs) ==
  /\ {beg[hs[i]] : i \in 1..Len(hs)} = Found
  /\ \A i, k \in 1..Len(hs) : i < k => beg[hs[i]] < beg[hs[k]]
  /\ pc # "found" => iter = NULL
  /\ ret = IF iter = NULL THEN 0 ELSE beg[iter]

\* The inductive invariant.
IInv == Base /\ Recorded(Ring(head))

\* When the fields of the records do not change, the rings do not.
LEMMA RingsSame ==
  ASSUME Base, UNCHANGED records
  PROVE  (Ring(head))' = Ring(head)
<1>1. PICK hs, ps : hs = Ring(head) /\ ps = Ring(pool)
  OBVIOUS
<1>2. RingsAre(hs, ps)'
  BY <1>1, RingsRest DEF Base
<1> QED  BY <1>1, <1>2, RingsTellNext

\* An occurrence at the alignment is found, an alignment with a mismatch is none.
LEMMA Hit ==
  ASSUME Base, j <= Len(input) - Len(pattern)
  PROVE  j + 1 \in Occurrences <=> Mismatch = -1
<1> DEFINE m == Len(pattern)
           n == Len(input)
           i == Mismatch
<1>1. m \in Nat /\ m >= 1 /\ n \in Nat /\ j \in Nat /\ Setting /\ Window
  BY PatternIs DEF Base, Setting, Window
<1>2. /\ i \in -1..(m - 1)
      /\ i >= 0 => pattern[i + 1] # input[i + j + 1]
      /\ \A k \in 0..(m - 1) : k > i => pattern[k + 1] = input[k + j + 1]
  BY <1>1, MismatchIs
<1> HIDE DEF m, n, i
<1>3. ASSUME i = -1 PROVE j + 1 \in Occurrences
  <2>1. j + 1 \in 1..n
    BY <1>1 DEF m, n
  <2>2. ASSUME NEW k \in 1..m PROVE j + 1 + k - 1 <= n /\ input[j + 1 + k - 1] = pattern[k]
    <3>1. k - 1 \in 0..(m - 1) /\ k - 1 > i /\ (k - 1) + 1 = k /\ (k - 1) + j + 1 = j + 1 + k - 1
      BY <1>1, <1>3
    <3>2. pattern[(k - 1) + 1] = input[(k - 1) + j + 1]
      BY <1>2, <3>1
    <3>3. j + 1 + k - 1 <= n
      BY <1>1 DEF m, n
    <3> QED  BY <3>1, <3>2, <3>3
  <2> QED  BY <2>1, <2>2 DEF Occurrences, Abstract!Occurrences, m, n
<1>4. ASSUME i # -1, j + 1 \in Occurrences PROVE FALSE
  <2>1. i + 1 \in 1..m /\ i >= 0 /\ j + 1 + (i + 1) - 1 = i + j + 1
    BY <1>1, <1>2, <1>4
  <2>2. input[j + 1 + (i + 1) - 1] = pattern[i + 1]
    BY <1>4, <2>1 DEF Occurrences, Abstract!Occurrences, m
  <2> QED  BY <1>2, <2>1, <2>2
<1> QED  BY <1>3, <1>4 DEF i

\* An occurrence is a place in the line.
LEMMA OccurrenceIs ==
  ASSUME NEW a \in Occurrences
  PROVE  a \in 1..Len(input)
BY DEF Occurrences, Abstract!Occurrences

\* One round of bm_search adds the alignment if the keyword occurs there, and nothing else.
LEMMA FoundMoves ==
  ASSUME AsciiKeywords, Base, RecordOccurrence \/ Shift
  PROVE  Found' = IF RecordOccurrence THEN Found \cup {j + 1} ELSE Found
<1>1. /\ pc = "search" /\ pc' = "search" /\ j <= Len(input) - Len(pattern)
      /\ input' = input /\ pattern' = pattern
  BY DEF RecordOccurrence, Shift, InText, tables
<1>2. Occurrences' = Occurrences
  BY <1>1 DEF Occurrences
<1>3. Found = {a \in Occurrences : a - 1 < j} /\ Found' = {a \in Occurrences : a - 1 < j'}
  BY <1>1, <1>2 DEF Found
<1>4. j \in Nat /\ j' \in Nat /\ j' > j /\ Len(input) \in Nat
  <2>1. j \in Nat /\ Len(pattern) \in Nat /\ Len(pattern) >= 1 /\ Len(input) \in Nat /\ Setting /\ Window
    BY PatternIs DEF Base, Setting, Window
  <2>2. CASE Shift
    BY <2>1, <2>2, ShiftIs
  <2>3. CASE RecordOccurrence
    <3>1. good_suffix \in [0..(Len(pattern) - 1) -> 1..Len(pattern)] /\ 0 \in 0..(Len(pattern) - 1)
      BY <2>1, GoodSuffixIs DEF Setting
    <3>2. good_suffix[0] \in 1..Len(pattern) /\ j' = j + good_suffix[0]
      BY <2>3, <3>1 DEF RecordOccurrence
    <3> QED  BY <2>1, <3>2
  <2> QED  BY <2>1, <2>2, <2>3
<1>5. \A a \in Occurrences : a \in Int /\ (a > j + 1 => a - 1 >= j')
  BY NoSkip, OccurrenceIs
<1>6. j + 1 \in Occurrences <=> RecordOccurrence
  <2>1. j + 1 \in Occurrences <=> Mismatch = -1
    BY <1>1, Hit
  <2>2. Mismatch >= 0 => Mismatch # -1
    OBVIOUS
  <2> QED  BY <2>1, <2>2 DEF RecordOccurrence, Shift
<1>7. ASSUME NEW a \in Occurrences PROVE a - 1 < j' <=> (a - 1 < j \/ a = j + 1)
  BY <1>4, <1>5
<1>8. CASE RecordOccurrence
  <2>1. {a \in Occurrences : a - 1 < j'} = {a \in Occurrences : a - 1 < j} \cup {j + 1}
    BY <1>6, <1>7, <1>8
  <2> QED  BY <1>3, <1>8, <2>1
<1>9. CASE ~RecordOccurrence
  <2>1. \A a \in Occurrences : a - 1 < j' <=> a - 1 < j
    BY <1>6, <1>7, <1>9
  <2> QED  BY <1>3, <1>9, <2>1
<1> QED  BY <1>8, <1>9

\* The records hold positions of the line.
LEMMA RecordedIs ==
  ASSUME Base, NEW hs, hs = Ring(head), Recorded(hs)
  PROVE  /\ hs \in Seq(Record) /\ Len(hs) \in Nat /\ match_count = Len(hs)
         /\ IsRing(hs, head, next, prev)
         /\ \A i \in 1..Len(hs) : beg[hs[i]] \in Found /\ beg[hs[i]] \in Nat /\ beg[hs[i]] >= 1
<1>1. PICK ps : RingsAre(hs, ps)
  BY DEF Base
<1>2. IsRing(hs, head, next, prev) /\ match_count = Len(hs)
  BY <1>1 DEF RingsAre, Both
<1>3. \A i \in 1..Len(hs) : beg[hs[i]] \in Found
  BY DEF Recorded
<1>4. \A a \in Found : a \in Nat /\ a >= 1
  <2>1. Len(input) \in Nat /\ \A a \in Found : a \in Occurrences
    BY DEF Base, Window, Found
  <2> QED  BY <2>1, OccurrenceIs
<1> QED  BY <1>2, <1>3, <1>4, RingSize

\* A match is recorded behind the earlier ones.
LEMMA RecordKeeps ==
  ASSUME AsciiKeywords, IInv, RecordOccurrence
  PROVE  Recorded(Ring(head))'
<1>1. /\ pc = "search" /\ pc' = "search" /\ NewMatchRecord(j + 1) /\ iter' = iter /\ ret' = ret
  BY DEF RecordOccurrence, NewMatchRecord
<1>2. PICK hs, ps : hs = Ring(head) /\ ps = Ring(pool)
  OBVIOUS
<1>3. RingsAre(hs, ps) /\ Recorded(hs) /\ Base /\ j \in Nat /\ beg \in [Record -> Nat]
  BY <1>2 DEF IInv, Base, Window, RingsAre
<1>4. /\ hs \in Seq(Record) /\ Len(hs) \in Nat
      /\ \A i \in 1..Len(hs) : beg[hs[i]] \in Found /\ beg[hs[i]] \in Nat
  BY <1>2, <1>3, RecordedIs
<1>5. PICK b : b = j + 1
  OBVIOUS
<1>6. PICK r, ts : /\ r \in Record /\ RingsAre(Append(hs, r), ts)' /\ Outside(hs, r)
                   /\ beg' = [beg EXCEPT ![r] = b]
  <2>1. b \in Nat /\ NewMatchRecord(b)
    BY <1>1, <1>3, <1>5
  <2> QED  BY <1>3, <2>1, RingsNew
<1> DEFINE l == Len(hs)
           t == Append(hs, r)
<1>7. Len(t) = l + 1 /\ t[l + 1] = r /\ \A i \in 1..l : t[i] = hs[i] /\ hs[i] # r /\ hs[i] \in Record
  <2>1. \A i \in 1..l : hs[i] \in Record
    BY <1>4, ElementOfSeq
  <2> QED  BY <1>4, <1>6, <2>1, AppendProperties DEF Outside
<1>8. beg'[t[l + 1]] = b /\ \A i \in 1..l : beg'[t[i]] = beg[hs[i]]
  <2>1. \A x \in Record : beg'[x] = IF x = r THEN b ELSE beg[x]
    BY <1>3, <1>6
  <2> HIDE DEF t
  <2> QED  BY <1>6, <1>7, <2>1
<1>9. (Ring(head))' = t
  BY <1>6, RingsTellNext
<1> HIDE DEF t
<1>10. \A i \in 1..(l + 1) : i \in 1..l \/ i = l + 1
  BY <1>4
<1>11. \A i \in 1..l : i \in 1..(l + 1)
  BY <1>4
<1>12. l + 1 \in 1..(l + 1)
  BY <1>4
<1>13. {beg'[t[i]] : i \in 1..(l + 1)} = {beg[hs[i]] : i \in 1..l} \cup {b}
  <2> DEFINE A == {beg'[t[i]] : i \in 1..(l + 1)}
             B == {beg[hs[i]] : i \in 1..l}
  <2>1. ASSUME NEW x \in A PROVE x \in B \cup {b}
    <3>1. PICK i \in 1..(l + 1) : x = beg'[t[i]]
      BY <2>1
    <3> QED  BY <1>8, <1>10, <3>1
  <2>2. ASSUME NEW x \in B PROVE x \in A
    <3>1. PICK i \in 1..l : x = beg[hs[i]]
      BY <2>2
    <3> QED  BY <1>8, <1>11, <3>1
  <2>3. b \in A
    BY <1>8, <1>12
  <2> HIDE DEF A, B
  <2>4. A = B \cup {b}
    BY <2>1, <2>2, <2>3
  <2> QED  BY <2>4 DEF A, B
<1>14. Found' = Found \cup {b} /\ \A a \in Found : a < b
  <2>1. Found' = Found \cup {b}
    BY <1>3, <1>5, FoundMoves
  <2>2. Found = {a \in Occurrences : a - 1 < j}
    BY <1>1 DEF Found
  <2>3. \A a \in Occurrences : a \in Int
    BY OccurrenceIs
  <2> QED  BY <1>3, <1>5, <2>1, <2>2, <2>3
<1>15. {beg[hs[i]] : i \in 1..l} = Found
  BY <1>3 DEF Recorded
<1>16. ASSUME NEW i \in 1..(l + 1), NEW k \in 1..(l + 1), i < k PROVE beg'[t[i]] < beg'[t[k]]
  <2>1. i \in 1..l /\ (k \in 1..l \/ k = l + 1)
    BY <1>4, <1>10, <1>16
  <2>2. CASE k \in 1..l
    <3>1. beg[hs[i]] < beg[hs[k]]
      BY <1>3, <1>16, <2>1, <2>2 DEF Recorded
    <3> QED  BY <1>8, <2>1, <2>2, <3>1
  <2>3. CASE k = l + 1
    BY <1>4, <1>8, <1>14, <2>1, <2>3
  <2> QED  BY <2>1, <2>2, <2>3
<1>17. iter = NULL /\ ret = 0
  BY <1>1, <1>3 DEF Recorded
<1>18. Recorded(t)'
  BY <1>1, <1>7, <1>13, <1>14, <1>15, <1>16, <1>17 DEF Recorded
<1> QED  BY <1>9, <1>18 DEF Recorded

\* The other steps of bm_search add no record.
LEMMA SearchKeeps ==
  ASSUME AsciiKeywords, IInv, Shift \/ FinishSearch
  PROVE  Recorded(Ring(head))' /\ UNCHANGED <<Ring(head), beg, iter, ret>>
<1>1. PICK hs : hs = Ring(head)
  OBVIOUS
<1>2. UNCHANGED records /\ iter' = iter /\ ret' = ret /\ beg' = beg /\ pc = "search"
  BY DEF Shift, FinishSearch, recordVars, records
<1>3. (Ring(head))' = hs /\ Recorded(hs) /\ Base
  BY <1>1, <1>2, RingsSame DEF IInv
<1>4. Found' = Found
  <2>1. CASE Shift
    <3>1. ~RecordOccurrence
      BY <1>3, <2>1, MismatchIs DEF Base, Shift, RecordOccurrence
    <3> QED  BY <1>3, <2>1, <3>1, FoundMoves
  <2>2. CASE FinishSearch
    <3>1. /\ pc' = "found" /\ input' = input /\ pattern' = pattern /\ ~(j <= Len(input) - Len(pattern))
      BY <2>2 DEF FinishSearch, InText, tables
    <3>2. /\ Len(pattern) \in Nat /\ Len(pattern) >= 1 /\ Len(input) \in Nat /\ j \in Nat
      BY <1>3, PatternIs DEF Base, Setting, Window
    <3>3. ASSUME NEW a \in Occurrences PROVE a - 1 < j
      <4>1. a \in Nat /\ Len(pattern) \in 1..Len(pattern)
        BY <3>2, OccurrenceIs
      <4>2. a + Len(pattern) - 1 <= Len(input)
        BY <4>1 DEF Occurrences, Abstract!Occurrences
      <4> QED  BY <3>1, <3>2, <4>1, <4>2
    <3>4. Occurrences' = Occurrences
      BY <3>1 DEF Occurrences
    <3> QED  BY <1>2, <3>1, <3>3, <3>4 DEF Found
  <2> QED  BY <2>1, <2>2
<1>5. iter = NULL
  BY <1>2, <1>3 DEF Recorded
<1>6. Recorded(hs)'
  BY <1>2, <1>3, <1>4, <1>5 DEF Recorded
<1> QED  BY <1>1, <1>2, <1>3, <1>6 DEF Recorded

\* A search begins without records.
LEMMA BeginKeeps ==
  ASSUME IInv, NEW t \in Texts, BeginSearch(t)
  PROVE  Recorded(Ring(head))'
<1>1. PICK hs : hs = Ring(head)
  OBVIOUS
<1>2. /\ UNCHANGED records /\ iter' = iter /\ ret' = ret /\ beg' = beg /\ pc = "clear" /\ pc' = "search" /\ j' = 0
  BY DEF BeginSearch, recordVars, records
<1>3. (Ring(head))' = hs /\ Recorded(hs) /\ Base
  BY <1>1, <1>2, RingsSame DEF IInv
<1>4. Found = {}
  BY <1>2 DEF Found
<1>5. Found' = {}
  <2>1. Found' = {a \in Occurrences' : a - 1 < 0}
    BY <1>2 DEF Found
  <2>2. ASSUME NEW a \in Occurrences' PROVE a \in Nat /\ ~(a - 1 < 0)
    <3>1. a \in 1..Len(input')
      BY <2>2 DEF Occurrences, Abstract!Occurrences
    <3> QED  BY <3>1
  <2> QED  BY <2>1, <2>2
<1>6. Recorded(hs)'
  BY <1>2, <1>3, <1>4, <1>5 DEF Recorded
<1> QED  BY <1>3, <1>6 DEF Recorded

\* What bm_next_match does when i records were taken before.
Taken(hs, i) == i \in 0..Len(hs) /\ (iter = NULL <=> i = 0) /\ (i # 0 => iter = hs[i])

\* bm_next_match returns the next record, and NULL behind the last one.
LEMMA TakeIs ==
  ASSUME IInv, TakeNext, NEW hs, hs = Ring(head)
  PROVE  \E i \in 0..Len(hs) :
           /\ Taken(hs, i)
           /\ i < Len(hs) => /\ Taken(hs, i + 1)' /\ ret' = beg[hs[i + 1]] /\ pc' = "found"
           /\ i = Len(hs) => Taken(hs, 0)' /\ ret' = 0 /\ pc' = "spent"
<1>1. /\ Base /\ Recorded(hs) /\ match_count > 0 /\ NextMatch /\ pc' = IF ret' = NULL THEN "spent" ELSE "found"
  BY DEF IInv, TakeNext
<1>2. /\ hs \in Seq(Record) /\ Len(hs) \in Nat /\ match_count = Len(hs) /\ IsRing(hs, head, next, prev)
      /\ \A i \in 1..Len(hs) : beg[hs[i]] \in Nat /\ beg[hs[i]] >= 1
  BY <1>1, RecordedIs
<1>3. Len(hs) >= 1 /\ hs # <<>>
  BY <1>1, <1>2
<1>4. head = hs[1] /\ head # NULL /\ next[hs[Len(hs)]] = head
  BY <1>2, <1>3, RingEnds, RingFacts, SMTT(30)
<1>5. \A i \in 1..Len(hs) : hs[i] # NULL
  BY <1>2, RingFacts
<1>6. \A i, k \in 1..Len(hs) : hs[i] = hs[k] => i = k
  BY <1>2, RingSize
<1>7. \A i \in 1..(Len(hs) - 1) : next[hs[i]] = hs[i + 1]
  BY <1>2, RingLinks DEF Linked
<1> DEFINE l == Len(hs)
<1> HIDE DEF l
<1>8. l \in Nat /\ l >= 1 /\ 1 \in 1..l
  BY <1>2, <1>3 DEF l
<1>9. CASE iter = NULL
  <2>1. ret' = beg[hs[1]] /\ iter' = hs[1]
    BY <1>1, <1>4, <1>9 DEF NextMatch
  <2>2. beg[hs[1]] # 0 /\ hs[1] # NULL
    BY <1>2, <1>5, <1>8 DEF l
  <2>3. Taken(hs, 0) /\ 0 \in 0..l /\ 0 < l
    BY <1>2, <1>8, <1>9 DEF Taken, l
  <2>4. Taken(hs, 0 + 1)' /\ ret' = beg[hs[0 + 1]] /\ pc' = "found"
    BY <1>1, <1>2, <1>8, <2>1, <2>2 DEF Taken, l, NULL
  <2> QED  BY <2>3, <2>4 DEF l
<1>10. CASE iter # NULL
  <2>1. PICK i \in 1..l : iter = hs[i]
    BY <1>1, <1>10 DEF Base, Iterates, l
  <2>2. Taken(hs, i) /\ i \in 0..l /\ i \in Nat
    BY <1>8, <1>10, <2>1 DEF Taken, l
  <2>3. CASE i = l
    <3>1. next[iter] = head
      BY <1>4, <2>1, <2>3 DEF l
    <3>2. ret' = NULL /\ iter' = NULL
      BY <1>1, <1>4, <1>10, <3>1 DEF NextMatch
    <3>3. Taken(hs, 0)' /\ ret' = 0 /\ pc' = "spent"
      BY <1>1, <1>2, <3>2 DEF Taken, NULL
    <3> QED  BY <2>2, <2>3, <3>3 DEF l
  <2>4. CASE i # l
    <3>1. i \in 1..(l - 1) /\ i + 1 \in 1..l /\ i + 1 # 1 /\ i < l /\ i + 1 # 0
      BY <1>8, <2>1, <2>4
    <3>2. next[iter] = hs[i + 1] /\ hs[i + 1] # hs[1] /\ hs[i + 1] # NULL /\ beg[hs[i + 1]] # 0
      <4>1. beg[hs[i + 1]] \in Nat /\ beg[hs[i + 1]] >= 1
        BY <1>2, <3>1 DEF l
      <4> QED  BY <1>5, <1>6, <1>7, <1>8, <2>1, <3>1, <4>1 DEF l
    <3>3. ret' = beg[hs[i + 1]] /\ iter' = hs[i + 1]
      BY <1>1, <1>4, <1>10, <3>2 DEF NextMatch
    <3>4. Taken(hs, i + 1)' /\ pc' = "found"
      BY <1>1, <3>1, <3>2, <3>3 DEF Taken, NULL, l
    <3> QED  BY <2>2, <2>4, <3>3, <3>4 DEF l
  <2> QED  BY <2>3, <2>4
<1> QED  BY <1>9, <1>10

\* It leaves the records as they are.
LEMMA TakeKeeps ==
  ASSUME IInv, TakeNext
  PROVE  Recorded(Ring(head))'
<1>1. PICK hs : hs = Ring(head)
  OBVIOUS
<1>2. UNCHANGED records /\ UNCHANGED <<pattern, input>> /\ pc = "found" /\ beg' = beg
  BY DEF TakeNext, NextMatch, tables, records
<1>3. (Ring(head))' = hs /\ Recorded(hs) /\ Base
  BY <1>1, <1>2, RingsSame DEF IInv
<1>4. PICK i \in 0..Len(hs) :
        /\ Taken(hs, i)
        /\ i < Len(hs) => /\ Taken(hs, i + 1)' /\ ret' = beg[hs[i + 1]] /\ pc' = "found"
        /\ i = Len(hs) => Taken(hs, 0)' /\ ret' = 0 /\ pc' = "spent"
  BY <1>1, TakeIs
<1>5. Len(hs) \in Nat
  BY <1>1, <1>3, RecordedIs
<1>6. pc' \in {"found", "spent"} /\ (pc' # "found" => iter' = NULL) /\ ret' = IF iter' = NULL THEN 0 ELSE beg[iter']
  <2>1. CASE i < Len(hs)
    <3>1. i + 1 # 0
      BY <1>5
    <3> QED  BY <1>4, <2>1, <3>1 DEF Taken
  <2>2. CASE i = Len(hs)
    BY <1>4, <2>2 DEF Taken
  <2> QED  BY <1>5, <2>1, <2>2
<1>7. Found' = Found
  <2>1. Occurrences' = Occurrences
    BY <1>2 DEF Occurrences
  <2> QED  BY <1>2, <1>6, <2>1 DEF Found
<1>8. Recorded(hs)'
  BY <1>2, <1>3, <1>6, <1>7 DEF Recorded
<1> QED  BY <1>3, <1>8 DEF Recorded

\* bm_clear_matches leaves no record.
LEMMA ClearKeeps ==
  ASSUME IInv, ClearMatches
  PROVE  Recorded(Ring(head))'
<1>1. Clear /\ pc' = "clear" /\ iter' = NULL /\ ret' = NULL
  BY DEF ClearMatches, Clear
<1>2. PICK ts : RingsAre(<<>>, ts)'
  BY <1>1, RingsClear DEF IInv, Base
<1>3. (Ring(head))' = <<>>
  BY <1>2, RingsTellNext
<1>4. Found' = {}
  BY <1>1 DEF Found
<1>5. Recorded(<<>>)'
  BY <1>1, <1>4 DEF Recorded, NULL
<1> QED  BY <1>3, <1>5 DEF Recorded

\* A step of something else changes nothing.
LEMMA RestKeeps ==
  ASSUME IInv, UNCHANGED vars
  PROVE  Recorded(Ring(head))'
<1>1. PICK hs : hs = Ring(head)
  OBVIOUS
<1>2. UNCHANGED records /\ UNCHANGED <<pattern, input, j, pc, beg, iter, ret>>
  BY DEF vars, tables, recordVars, records
<1>3. (Ring(head))' = hs /\ Recorded(hs)
  BY <1>1, <1>2, RingsSame DEF IInv
<1>4. Recorded(hs)'
  BY <1>2, <1>3 DEF Recorded, Found, Occurrences
<1> QED  BY <1>3, <1>4 DEF Recorded

\* At first there is neither an occurrence nor a record.
LEMMA InitKeeps ==
  ASSUME Init
  PROVE  IInv
<1>1. Base
  BY InitBase
<1>2. Ring(head) = <<>> /\ pc = "clear" /\ iter = NULL /\ ret = NULL
  BY DEF Init, RecordInit, Ring
<1>3. Recorded(<<>>)
  BY <1>2 DEF Recorded, Found, NULL
<1> QED  BY <1>1, <1>2, <1>3 DEF IInv

\* The invariant is inductive.
LEMMA NextIInv ==
  ASSUME AsciiKeywords, IInv, [Next]_vars
  PROVE  IInv'
<1>1. Base'
  BY NextBase DEF IInv
<1>2. Recorded(Ring(head))'
  BY RecordKeeps, SearchKeeps, BeginKeeps, TakeKeeps, ClearKeeps, RestKeeps DEF Next, Searching, Exit
<1> QED  BY <1>1, <1>2 DEF IInv

\* The records of the list are the occurrences bm_search has moved past, in their order,
\* in every line, also when they are recycled.
THEOREM SpecIInv ==
  ASSUME AsciiKeywords
  PROVE  Spec => []IInv
<1>1. Init => IInv
  BY InitKeeps
<1>2. IInv /\ [Next]_vars => IInv'
  BY NextIInv
<1> QED  BY <1>1, <1>2, PTL DEF Spec

-----------------------------------------------------------------------------
(* The search implements what run_nfa expects of it.                        *)

\* What is left after i records were taken.
Left(b, hs, i) == {b[hs[k]] : k \in (i + 1)..Len(hs)}

\* Untaken, of given records.
UntakenOf(c, x, b, h) ==
  IF c # "found" THEN {}
  ELSE IF x = NULL THEN {b[h[i]] : i \in 1..Len(h)}
  ELSE {b[h[i]] : i \in {k \in 1..Len(h) : \E l \in 1..(k - 1) : h[l] = x}}

\* The records behind the iterator are those not taken yet.
LEMMA UntakenIs ==
  ASSUME NEW hs, Len(hs) \in Nat, \A i, k \in 1..Len(hs) : hs[i] = hs[k] => i = k,
         NEW i \in 0..Len(hs), NEW x, x = NULL <=> i = 0, i # 0 => x = hs[i], NEW b
  PROVE  UntakenOf("found", x, b, hs) = Left(b, hs, i)
<1> DEFINE l == Len(hs)
<1> HIDE DEF l
<1>1. l \in Nat /\ i \in 0..l /\ i \in Nat
  BY DEF l
<1>2. CASE i = 0
  <2>1. (i + 1)..l = 1..l
    BY <1>2
  <2> QED  BY <1>2, <2>1 DEF UntakenOf, Left, l
<1>3. CASE i # 0
  <2> DEFINE K == {k \in 1..l : \E e \in 1..(k - 1) : hs[e] = x}
  <2>1. i \in 1..l
    BY <1>1, <1>3
  <2>2. \A k \in K : k \in (i + 1)..l
    <3> SUFFICES ASSUME NEW k \in 1..l, NEW e \in 1..(k - 1), hs[e] = x PROVE k \in (i + 1)..l
      OBVIOUS
    <3>1. e \in 1..l
      BY <1>1
    <3>2. e = i
      BY <1>3, <2>1, <3>1 DEF l
    <3> QED  BY <1>1, <3>2
  <2>3. \A k \in (i + 1)..l : k \in K
    <3> SUFFICES ASSUME NEW k \in (i + 1)..l PROVE k \in K
      OBVIOUS
    <3>1. k \in 1..l /\ i \in 1..(k - 1)
      BY <1>1, <2>1
    <3> QED  BY <1>3, <3>1
  <2>4. K = (i + 1)..l
    <3>1. \A k \in K : k \in 1..l
      OBVIOUS
    <3> HIDE DEF K
    <3> QED  BY <2>2, <2>3
  <2>5. UntakenOf("found", x, b, hs) = {b[hs[k]] : k \in K}
    BY <1>3 DEF UntakenOf, l
  <2> HIDE DEF K
  <2> QED  BY <2>4, <2>5 DEF Left, l
<1> QED  BY <1>2, <1>3

\* The initial states are initial states of the abstract search.
LEMMA InitAbstract ==
  ASSUME Init
  PROVE  Abstract!Init
BY DEF Init, RecordInit, Abstract!Init, Untaken, NULL

\* A line is handed to the search.
LEMMA BeginAbstract ==
  ASSUME IInv, NEW t \in Texts, BeginSearch(t)
  PROVE  Abstract!Begin(t)
<1>1. pc = "clear" /\ pc' = "search" /\ input' = Append(t, EOL) /\ UNCHANGED <<pattern, ret>>
  BY DEF BeginSearch, tables, recordVars
<1> QED  BY <1>1 DEF Abstract!Begin, Untaken

\* A round of bm_search is not seen outside.
LEMMA InnerAbstract ==
  ASSUME RecordOccurrence \/ Shift
  PROVE  UNCHANGED Abstract!vars
<1>1. pc = "search" /\ pc' = "search" /\ UNCHANGED <<pattern, input, ret>>
  BY DEF RecordOccurrence, Shift, NewMatchRecord, tables, recordVars
<1> QED  BY <1>1 DEF Abstract!vars, Untaken

\* When bm_search returns, exactly the occurrences are left to be taken.
LEMMA FinishAbstract ==
  ASSUME AsciiKeywords, IInv, FinishSearch
  PROVE  Abstract!Finish
<1>1. pc = "search" /\ pc' = "found" /\ UNCHANGED <<pattern, input>>
  BY DEF FinishSearch, tables
<1>2. PICK hs : hs = Ring(head)
  OBVIOUS
<1>3. (Ring(head))' = hs /\ Recorded(hs)' /\ iter' = iter /\ Recorded(hs)
  BY <1>2, SearchKeeps DEF IInv, Recorded
<1>4. iter' = NULL /\ ret' = 0
  BY <1>1, <1>3 DEF Recorded
<1>5. Untaken' = {beg'[hs[i]] : i \in 1..Len(hs)}
  BY <1>1, <1>3, <1>4 DEF Untaken
<1>6. Untaken' = Abstract!Occurrences(pattern, input)
  BY <1>1, <1>3, <1>5 DEF Recorded, Found, Occurrences
<1> QED  BY <1>1, <1>4, <1>6 DEF Abstract!Finish

\* bm_next_match hands out the least occurrence left, or NULL when none is.
LEMMA TakeNextAbstract ==
  ASSUME IInv, TakeNext
  PROVE  Abstract!TakeNext
<1>1. PICK hs : hs = Ring(head)
  OBVIOUS
<1>2. UNCHANGED records /\ UNCHANGED <<pattern, input>> /\ pc = "found" /\ beg' = beg /\ match_count > 0
  BY DEF TakeNext, NextMatch, tables, records
<1>3. (Ring(head))' = hs /\ Recorded(hs) /\ Base
  BY <1>1, <1>2, RingsSame DEF IInv
<1>4. PICK i \in 0..Len(hs) :
        /\ Taken(hs, i)
        /\ i < Len(hs) => /\ Taken(hs, i + 1)' /\ ret' = beg[hs[i + 1]] /\ pc' = "found"
        /\ i = Len(hs) => Taken(hs, 0)' /\ ret' = 0 /\ pc' = "spent"
  BY <1>1, TakeIs
<1>5. /\ Len(hs) \in Nat /\ match_count = Len(hs) /\ \A k \in 1..Len(hs) : beg[hs[k]] \in Found /\ beg[hs[k]] \in Nat
      /\ IsRing(hs, head, next, prev)
  BY <1>1, <1>3, RecordedIs
<1>6. \A k, e \in 1..Len(hs) : hs[k] = hs[e] => k = e
  BY <1>5, RingSize
<1>7. \A k, e \in 1..Len(hs) : k < e => beg[hs[k]] < beg[hs[e]]
  BY <1>3 DEF Recorded
<1>8. Abstract!Occurrences(pattern, input) # {}
  <2>1. 1 \in 1..Len(hs)
    BY <1>2, <1>5
  <2> QED  BY <1>2, <1>5, <2>1 DEF Found, Occurrences
<1>9. Untaken = UntakenOf(pc, iter, beg, hs) /\ Untaken' = UntakenOf(pc', iter', beg', hs)
  BY <1>1, <1>3 DEF Untaken, UntakenOf
<1>10. Untaken = Left(beg, hs, i)
  BY <1>2, <1>4, <1>5, <1>6, <1>9, UntakenIs DEF Taken
<1>11. CASE i < Len(hs)
  <2>1. i + 1 \in 0..Len(hs) /\ Taken(hs, i + 1)' /\ pc' = "found" /\ ret' = beg[hs[i + 1]]
    BY <1>4, <1>5, <1>11
  <2>2. Untaken' = Left(beg, hs, i + 1)
    BY <1>2, <1>5, <1>6, <1>9, <2>1, UntakenIs DEF Taken
  <2> DEFINE l == Len(hs)
             c == i + 1
  <2>3. /\ c \in c..l /\ c \in 1..l /\ \A k \in c..l : k \in 1..l /\ (k = c \/ c < k) /\ (k = c \/ k \in (c + 1)..l)
        /\ \A k \in (c + 1)..l : k \in c..l /\ k \in 1..l /\ c < k
    BY <1>5, <1>11
  <2> HIDE DEF c, l
  <2>4. Untaken = {beg[hs[k]] : k \in c..l} /\ Untaken' = {beg[hs[k]] : k \in (c + 1)..l} /\ ret' = beg[hs[c]]
    BY <1>10, <2>1, <2>2 DEF Left, c, l
  <2>5. \A k \in c..l : beg[hs[c]] <= beg[hs[k]] /\ (k # c => beg[hs[c]] # beg[hs[k]])
    <3> SUFFICES ASSUME NEW k \in c..l PROVE beg[hs[c]] <= beg[hs[k]] /\ (k # c => beg[hs[c]] # beg[hs[k]])
      OBVIOUS
    <3>1. beg[hs[c]] \in Nat /\ beg[hs[k]] \in Nat
      BY <1>5, <2>3 DEF l
    <3>2. k # c => beg[hs[c]] < beg[hs[k]]
      BY <1>7, <2>3 DEF l
    <3> QED  BY <3>1, <3>2
  <2>6. ret' \in Untaken /\ \A a \in Untaken : ret' <= a
    BY <2>3, <2>4, <2>5
  <2>7. Untaken' = Untaken \ {ret'}
    <3>1. ASSUME NEW a \in Untaken' PROVE a \in Untaken /\ a # ret'
      <4>1. PICK k \in (c + 1)..l : a = beg[hs[k]]
        BY <2>4, <3>1
      <4>2. k \in c..l /\ k # c
        BY <2>3
      <4> QED  BY <2>4, <2>5, <4>1, <4>2
    <3>2. ASSUME NEW a \in Untaken, a # ret' PROVE a \in Untaken'
      <4>1. PICK k \in c..l : a = beg[hs[k]]
        BY <2>4, <3>2
      <4>2. k \in (c + 1)..l
        BY <2>3, <2>4, <3>2, <4>1
      <4> QED  BY <2>4, <4>1, <4>2
    <3> QED  BY <3>1, <3>2
  <2>8. Untaken # {}
    BY <2>6
  <2> QED  BY <1>2, <1>8, <2>1, <2>6, <2>7, <2>8 DEF Abstract!TakeNext
<1>12. CASE i = Len(hs)
  <2>1. Taken(hs, 0)' /\ ret' = 0 /\ pc' = "spent"
    BY <1>4, <1>12
  <2>2. Untaken' = {}
    BY <1>9, <2>1 DEF UntakenOf
  <2>3. Untaken = {}
    <3>1. \A k \in (i + 1)..Len(hs) : FALSE
      BY <1>5, <1>12
    <3> QED  BY <1>10, <3>1 DEF Left
  <2> QED  BY <1>2, <1>8, <2>1, <2>2, <2>3 DEF Abstract!TakeNext
<1> QED  BY <1>5, <1>11, <1>12

\* bm_clear_matches forgets the occurrences.
LEMMA ClearMatchesAbstract ==
  ASSUME IInv, ClearMatches
  PROVE  Abstract!ClearMatches
<1>1. pc \in {"found", "spent"} /\ pc' = "clear" /\ ret' = NULL /\ UNCHANGED <<pattern, input>>
  BY DEF ClearMatches, Clear, tables
<1> QED  BY <1>1 DEF Abstract!ClearMatches, Untaken, NULL

\* A step that changes nothing is not seen.
LEMMA RestAbstract ==
  ASSUME IInv, UNCHANGED vars
  PROVE  UNCHANGED Abstract!vars
<1>1. UNCHANGED records /\ UNCHANGED <<pattern, input, pc, beg, iter, ret>>
  BY DEF vars, tables, recordVars, records
<1>2. (Ring(head))' = Ring(head)
  BY <1>1, RingsSame DEF IInv
<1>3. Untaken' = Untaken
  BY <1>1, <1>2 DEF Untaken
<1> QED  BY <1>1, <1>3 DEF Abstract!vars

\* Every step is one of the abstract search, or is not seen.
LEMMA NextAbstract ==
  ASSUME AsciiKeywords, IInv, [Next]_vars
  PROVE  [Abstract!Next]_(Abstract!vars)
<1>1. CASE \E t \in Texts : BeginSearch(t)
  BY <1>1, BeginAbstract DEF Abstract!Next
<1>2. CASE RecordOccurrence \/ Shift
  BY <1>2, InnerAbstract
<1>3. CASE FinishSearch
  BY <1>3, FinishAbstract DEF Abstract!Next
<1>4. CASE TakeNext
  BY <1>4, TakeNextAbstract DEF Abstract!Next
<1>5. CASE ClearMatches
  BY <1>5, ClearMatchesAbstract DEF Abstract!Next
<1>6. CASE Exit \/ UNCHANGED vars
  BY <1>6, RestAbstract DEF Exit
<1> QED  BY <1>1, <1>2, <1>3, <1>4, <1>5, <1>6 DEF Next, Searching

\* bm_search, bm_next_match and bm_clear_matches are a search that hands out exactly the
\* occurrences of the keyword, overlapping ones included, each once and in ascending order.
THEOREM SearchFindsAllKeywords ==
  ASSUME AsciiKeywords
  PROVE  Spec => FindsAllKeywords
<1>1. Init => Abstract!Init
  BY InitAbstract
<1>2. IInv /\ [Next]_vars => [Abstract!Next]_(Abstract!vars)
  BY NextAbstract
<1> QED  BY <1>1, <1>2, SpecIInv, PTL DEF Spec, FindsAllKeywords, Abstract!Spec

=============================================================================
