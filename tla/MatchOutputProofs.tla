------------------------- MODULE MatchOutputProofs -------------------------
(***************************************************************************)
(* That module MatchOutput loses no byte, for every size of the buffer     *)
(* from three on, every set of file names and every set of input lines.    *)
(*                                                                         *)
(* First what the buffer operators do with a text, then the inductive      *)
(* invariant: what new_match and fill_output_buffer know at each other's   *)
(* entry about indices, the NUL behind the stored text and last_match_end. *)
(***************************************************************************)
EXTENDS MatchOutput, SequenceTheorems, Induction

-----------------------------------------------------------------------------
\* The characters a label or a text is made of.  All of them are strings; the
\* literals are listed because the provers do not see that they are.
Byte == STRING \cup {Newline, Colon} \cup {DigitChar[i] : i \in 1..10}

\* What is named, read and printed are sequences of bytes.
LEMMA BytesAreBytes ==
  /\ \A i \in 1..10 : DigitChar[i] \in Byte
  /\ NUL \in Byte /\ Newline \in Byte /\ Colon \in Byte
  /\ Lines \subseteq Seq(Byte)
  /\ \A f \in Files : f \in Seq(Byte) /\ Len(f) \in Nat \ {0}
<1>1. STRING \subseteq Byte
  BY DEF Byte
<1>2. \A s \in Seq(STRING) : s \in Seq(Byte)
  BY <1>1, SeqMonotonic
<1>3. \A i \in 1..10 : DigitChar[i] \in Byte
  BY DEF Byte
<1>4. NUL \in Byte /\ Newline \in Byte /\ Colon \in Byte
  BY <1>1, TextAssumption DEF Byte
<1>5. \A f \in Files : f \in Seq(Byte) /\ Len(f) \in Nat \ {0}
  BY <1>2, NameAssumption, EmptySeq
<1> QED  BY <1>2, <1>3, <1>4, <1>5, TextAssumption

-----------------------------------------------------------------------------
(* Numbers.                                                                 *)

\* w counts the digits "%d" prints: the room new_match reserves for a line
\* number is the room snprintf needs.
WidthStep == [p \in Nat \X [Nat -> Nat] |-> IF p[1] \div 10 > 0 THEN p[2][p[1] \div 10] + 1 ELSE 1]

\* The recursion of Width, and so of the loop that computes w, ends.
LEMMA WidthRecursion ==
  /\ Width \in [Nat -> Nat]
  /\ \A n \in Nat : Width[n] = IF n \div 10 > 0 THEN Width[n \div 10] + 1 ELSE 1
<1> DEFINE mu == [n \in Nat |-> n]
<1>1. Nat # {} /\ mu \in [Nat -> Nat]
  OBVIOUS
<1>2. WidthStep \in [Nat \X [Nat -> Nat] -> Nat]
  <2> SUFFICES ASSUME NEW n \in Nat, NEW g \in [Nat -> Nat]
               PROVE  (IF n \div 10 > 0 THEN g[n \div 10] + 1 ELSE 1) \in Nat
    BY DEF WidthStep
  <2>1. n \div 10 \in Nat
    OBVIOUS
  <2> QED  BY <2>1
<1>3. ASSUME NEW n \in Nat, NEW g \in [Nat -> Nat], NEW h \in [Nat -> Nat],
             \A e \in Nat : mu[e] < mu[n] => g[e] = h[e]
      PROVE  WidthStep[<<n, g>>] = WidthStep[<<n, h>>]
  <2>1. n \div 10 \in Nat /\ (n \div 10 > 0 => n \div 10 < n)
    OBVIOUS
  <2>2. n \div 10 > 0 => g[n \div 10] = h[n \div 10]
    BY <2>1, <1>3
  <2> QED  BY <2>2 DEF WidthStep
<1> HIDE DEF mu
<1>4. PICK f \in [Nat -> Nat] : \A n \in Nat : f[n] = WidthStep[<<n, f>>]
  <2>1. \A d \in Nat, g, h \in [Nat -> Nat] :
          (\A e \in Nat : mu[e] < mu[d] => g[e] = h[e]) => WidthStep[<<d, g>>] = WidthStep[<<d, h>>]
    BY <1>3
  <2>2. Recursive(Nat, Nat, mu, WidthStep)
    BY <1>1, <1>2, <2>1 DEF Recursive
  <2> QED  BY <2>2, Recursion DEF Follows
<1>5. f = [n \in Nat |-> IF n \div 10 > 0 THEN f[n \div 10] + 1 ELSE 1]
  BY <1>4 DEF WidthStep
<1>6. Width = [n \in Nat |-> IF n \div 10 > 0 THEN Width[n \div 10] + 1 ELSE 1]
  BY <1>5, Zenon DEF Width
<1>7. \A n \in Nat : Width[n] = IF n \div 10 > 0 THEN Width[n \div 10] + 1 ELSE 1
  BY <1>6
<1> DEFINE S == {n \in Nat : Width[n] \in Nat}
<1>8. ASSUME NEW n \in Nat, \A k \in 0..(n - 1) : k \in S PROVE n \in S
  <2>1. n \div 10 \in Nat /\ (n \div 10 > 0 => n \div 10 \in 0..(n - 1))
    OBVIOUS
  <2>2. n \div 10 > 0 => Width[n \div 10] \in Nat
    BY <2>1, <1>8
  <2> QED  BY <2>2, <1>7
<1> HIDE DEF S
<1>9. \A n \in Nat : n \in S
  BY <1>8, StrongInduction
<1>10. \A n \in Nat : Width[n] \in Nat
  BY <1>9 DEF S
<1> QED  BY <1>6, <1>7, <1>10

DecimalStep ==
  [p \in Nat \X [Nat -> Seq(Byte)] |->
     IF p[1] < 10 THEN <<DigitChar[p[1] + 1]>>
     ELSE Append(p[2][p[1] \div 10], DigitChar[(p[1] % 10) + 1])]

\* "%d" prints bytes, and as many as w counts.
LEMMA DecimalRecursion ==
  \A n \in Nat : Decimal[n] \in Seq(Byte) /\ Len(Decimal[n]) = Width[n]
<1> DEFINE mu == [n \in Nat |-> n]
<1>1. \A i \in 1..10 : DigitChar[i] \in Byte
  BY BytesAreBytes
<1>2. \A n \in Nat : (n < 10 => n + 1 \in 1..10) /\ (n % 10) + 1 \in 1..10
                     /\ n \div 10 \in Nat /\ (~(n < 10) => n \div 10 < n /\ n \div 10 > 0)
                     /\ (n < 10 => ~(n \div 10 > 0))
  OBVIOUS
<1>3. \A n \in Nat : DigitChar[(n % 10) + 1] \in Byte /\ (n < 10 => DigitChar[n + 1] \in Byte)
  BY <1>1, <1>2
<1> DEFINE S == Seq(Byte)
           Short(n) == <<DigitChar[n + 1]>>
           Last(n) == DigitChar[(n % 10) + 1]
<1>4. \A n \in Nat : n < 10 => Short(n) \in S /\ Len(Short(n)) = 1
  BY <1>3
<1>5. \A n \in Nat, s \in S : Append(s, Last(n)) \in S /\ Len(Append(s, Last(n))) = Len(s) + 1
  BY <1>3
<1>6. DecimalStep = [p \in Nat \X [Nat -> S] |->
                       IF p[1] < 10 THEN Short(p[1]) ELSE Append(p[2][p[1] \div 10], Last(p[1]))]
  BY DEF DecimalStep
<1>7. S # {} /\ mu \in [Nat -> Nat]
  <2>1. <<>> \in S
    OBVIOUS
  <2> HIDE DEF S
  <2> QED  BY <2>1
<1> HIDE DEF S, Short, Last
<1>8. DecimalStep \in [Nat \X [Nat -> S] -> S]
  BY <1>2, <1>4, <1>5, <1>6
<1>9. ASSUME NEW n \in Nat, NEW g \in [Nat -> S], NEW h \in [Nat -> S],
             \A e \in Nat : mu[e] < mu[n] => g[e] = h[e]
      PROVE  DecimalStep[<<n, g>>] = DecimalStep[<<n, h>>]
  <2>1. ~(n < 10) => g[n \div 10] = h[n \div 10]
    BY <1>2, <1>9
  <2> QED  BY <2>1, <1>6
<1> HIDE DEF mu
<1>10. PICK f \in [Nat -> S] : \A n \in Nat : f[n] = DecimalStep[<<n, f>>]
  <2>1. \A d \in Nat, g, h \in [Nat -> S] :
          (\A e \in Nat : mu[e] < mu[d] => g[e] = h[e]) => DecimalStep[<<d, g>>] = DecimalStep[<<d, h>>]
    BY <1>9
  <2>2. Recursive(Nat, S, mu, DecimalStep)
    BY <1>7, <1>8, <2>1 DEF Recursive
  <2> QED  BY <2>2, Recursion DEF Follows
<1>11. f = [n \in Nat |-> IF n < 10 THEN <<DigitChar[n + 1]>>
                          ELSE Append(f[n \div 10], DigitChar[(n % 10) + 1])]
  BY <1>6, <1>10 DEF Short, Last
<1>12. Decimal = [n \in Nat |-> IF n < 10 THEN <<DigitChar[n + 1]>>
                                ELSE Append(Decimal[n \div 10], DigitChar[(n % 10) + 1])]
  BY <1>11, Zenon DEF Decimal
<1>13. \A n \in Nat : Decimal[n] = IF n < 10 THEN Short(n) ELSE Append(Decimal[n \div 10], Last(n))
  BY <1>12 DEF Short, Last
<1> DEFINE T == {n \in Nat : Decimal[n] \in S /\ Len(Decimal[n]) = Width[n]}
<1>14. ASSUME NEW n \in Nat, \A k \in 0..(n - 1) : k \in T PROVE n \in T
  <2>1. ~(n < 10) => n \div 10 \in 0..(n - 1)
    BY <1>2
  <2>2. ~(n < 10) => Decimal[n \div 10] \in S /\ Len(Decimal[n \div 10]) = Width[n \div 10]
    BY <2>1, <1>14
  <2>3. Width[n] = IF n < 10 THEN 1 ELSE Width[n \div 10] + 1
    BY <1>2, WidthRecursion
  <2>4. CASE n < 10
    BY <2>4, <2>3, <1>4, <1>13
  <2>5. CASE ~(n < 10)
    BY <2>5, <2>2, <2>3, <1>5, <1>13
  <2> QED  BY <2>4, <2>5
<1> HIDE DEF T
<1>15. \A n \in Nat : n \in T
  BY <1>14, StrongInduction
<1> QED  BY <1>15 DEF T, S

-----------------------------------------------------------------------------
(* What the buffer operators do with a text.                                *)

Text == Seq(Byte)
Memory(h) == [0..h -> Byte]     \* the array for h = B - 1

\* The first n bytes of m.
Bytes(m, n) == [i \in 1..n |-> m[i - 1]]

\* They are a text of that length.
LEMMA BytesText ==
  ASSUME NEW h \in Nat, NEW m \in Memory(h), NEW n \in 0..(h + 1)
  PROVE  Bytes(m, n) \in Text /\ Len(Bytes(m, n)) = n
<1>1. \A i \in 1..n : m[i - 1] \in Byte
  BY DEF Memory
<1> HIDE DEF Byte
<1>2. n \in Nat
  OBVIOUS
<1> QED  BY <1>1, <1>2 DEF Bytes, Text

\* A text stored behind the first `at' bytes is appended to them, byte by byte;
\* what was stored reaches to g.
LEMMA StoreBytes ==
  ASSUME NEW h \in Nat, NEW m \in Memory(h), NEW at \in 0..(h + 1), NEW s \in Text,
         NEW g \in Nat, h <= g, at + Len(s) <= g + 1, g = h \/ g = at + Len(s) - 1
  PROVE  /\ Store(m, at, s) \in Memory(g)
         /\ \A k \in 0..Len(s) : Bytes(Store(m, at, s), at + k) = Bytes(m, at) \o SubSeq(s, 1, k)
         /\ \A i \in 1..Len(s) : Store(m, at, s)[at + i - 1] = s[i]
<1>1. at \in Nat /\ Len(s) \in Nat
  BY DEF Text
<1>2. \A i \in 1..Len(s) : s[i] \in Byte
  BY DEF Text
<1> DEFINE stored == at..(at + Len(s) - 1)
<1>3. \A k \in stored : k - at + 1 \in 1..Len(s)
  BY <1>1
<1>4. Store(m, at, s) \in Memory(g)
  <2>1. DOMAIN m = 0..h /\ \A k \in 0..h : m[k] \in Byte
    BY DEF Memory
  <2>2. (0..h) \cup stored = 0..g
    BY <1>1
  <2>3. \A k \in 0..g : (IF k \in stored THEN s[k - at + 1] ELSE m[k]) \in Byte
    <3> SUFFICES ASSUME NEW k \in 0..g PROVE (IF k \in stored THEN s[k - at + 1] ELSE m[k]) \in Byte
      OBVIOUS
    <3>1. CASE k \in stored
      BY <1>2, <1>3, <3>1
    <3>2. CASE k \notin stored
      <4>1. k \in 0..h
        BY <2>2, <3>2
      <4> QED  BY <2>1, <3>2, <4>1
    <3> QED  BY <3>1, <3>2
  <2>4. Store(m, at, s) = [k \in 0..g |-> IF k \in stored THEN s[k - at + 1] ELSE m[k]]
    BY <2>1, <2>2 DEF Store
  <2> HIDE DEF stored, Byte
  <2> QED  BY <2>3, <2>4 DEF Memory
<1>5. /\ \A i \in 1..Len(s) : Store(m, at, s)[at + i - 1] = s[i]
      /\ \A k \in 0..h : k < at => Store(m, at, s)[k] = m[k]
  <2>1. DOMAIN m = 0..h
    BY DEF Memory
  <2>2. ASSUME NEW i \in 1..Len(s) PROVE Store(m, at, s)[at + i - 1] = s[i]
    <3>1. at + i - 1 \in stored /\ (at + i - 1) - at + 1 = i
      BY <1>1
    <3> QED  BY <3>1 DEF Store
  <2>3. ASSUME NEW k \in 0..h, k < at PROVE Store(m, at, s)[k] = m[k]
    <3>1. k \notin stored
      BY <2>3
    <3> QED  BY <2>1, <3>1 DEF Store
  <2> QED  BY <2>2, <2>3
<1>6. ASSUME NEW k \in 0..Len(s)
      PROVE  Bytes(Store(m, at, s), at + k) = Bytes(m, at) \o SubSeq(s, 1, k)
  <2> DEFINE x == Bytes(Store(m, at, s), at + k)
             y == Bytes(m, at)
             z == SubSeq(s, 1, k)
  <2>1. x \in Text /\ Len(x) = at + k
    <3>1. at + k \in 0..(g + 1)
      BY <1>1
    <3> QED  BY <1>4, <3>1, BytesText
  <2>2. y \in Text /\ Len(y) = at
    BY <1>1, BytesText
  <2>3. z \in Text /\ Len(z) = k /\ \A i \in 1..k : z[i] = s[i]
    BY <1>1, <1>2 DEF Text
  <2>4. y \o z \in Text /\ Len(y \o z) = at + k
    <3> HIDE DEF x, y, z
    <3> QED  BY <1>1, <2>2, <2>3, ConcatProperties DEF Text
  <2>5. ASSUME NEW i \in 1..(at + k) PROVE x[i] = (y \o z)[i]
    <3>1. CASE i <= at
      <4>1. i - 1 \in 0..h /\ i - 1 < at /\ i \in 1..at
        BY <1>1, <3>1
      <4>2. x[i] = m[i - 1] /\ y[i] = m[i - 1]
        BY <1>5, <4>1 DEF Bytes
      <4>3. (y \o z)[i] = y[i]
        BY <2>2, <2>3, <3>1, ConcatProperties DEF Text
      <4> QED  BY <4>2, <4>3
    <3>2. CASE ~(i <= at)
      <4>1. i - at \in 1..k /\ i - at \in 1..Len(s) /\ at + (i - at) - 1 = i - 1
        BY <1>1, <3>2
      <4>2. x[i] = Store(m, at, s)[i - 1]
        BY DEF Bytes
      <4>3. x[i] = s[i - at]
        BY <4>1, <4>2, <1>5
      <4>4. (y \o z)[i] = z[i - at]
        BY <2>2, <2>3, <3>2, ConcatProperties DEF Text
      <4> QED  BY <4>1, <4>3, <4>4, <2>3
    <3> QED  BY <3>1, <3>2
  <2> HIDE DEF x, y, z
  <2> QED  BY <2>1, <2>4, <2>5, SeqEqual DEF Text, x, y, z
<1> QED  BY <1>4, <1>5, <1>6

\* A label that fits is stored whole, with the NUL behind it.
LEMMA SnprintfBytes ==
  ASSUME NEW h \in Nat, NEW m \in Memory(h), NEW at \in 0..h, NEW s \in Text, NEW limit \in Nat,
         Len(s) < limit, at + Len(s) <= h
  PROVE  /\ Snprintf(m, at, limit, s) \in Memory(h)
         /\ Bytes(Snprintf(m, at, limit, s), at + Len(s)) = Bytes(m, at) \o s
<1> DEFINE t == Append(s, NUL)
<1>1. NUL \in Byte
  BY BytesAreBytes
<1>2. SubSeq(s, 1, Len(s)) = s
  BY SubSeqFull DEF Text
<1>3. Snprintf(m, at, limit, s) = Store(m, at, t)
  BY <1>2 DEF Snprintf
<1>4. t \in Text /\ Len(t) = Len(s) + 1 /\ SubSeq(t, 1, Len(s)) = s
  <2> HIDE DEF Byte
  <2> QED  BY <1>1, AppendProperties DEF Text
<1>5. Len(s) \in 0..Len(t) /\ at + Len(t) <= h + 1 /\ at \in 0..(h + 1) /\ h <= h
  BY <1>4 DEF Text
<1> HIDE DEF t
<1>6. /\ Store(m, at, t) \in Memory(h)
      /\ Bytes(Store(m, at, t), at + Len(s)) = Bytes(m, at) \o SubSeq(t, 1, Len(s))
  BY <1>4, <1>5, StoreBytes
<1> QED  BY <1>3, <1>4, <1>6

\* strncpy: a text without NUL is copied as it is.
LEMMA StrncpyBytes ==
  ASSUME NEW h \in Nat, NEW m \in Memory(h), NEW at \in 0..h, NEW s \in Text, at + Len(s) <= h + 1
  PROVE  /\ Strncpy(m, at, s) \in Memory(h)
         /\ ~HasNul(s) => Bytes(Strncpy(m, at, s), at + Len(s)) = Bytes(m, at) \o s
<1> DEFINE t == [i \in 1..Len(s) |-> IF \E k \in 1..i : s[k] = NUL THEN NUL ELSE s[i]]
<1>1. Len(s) \in Nat /\ \A i \in 1..Len(s) : s[i] \in Byte
  BY DEF Text
<1>2. t \in Text /\ Len(t) = Len(s)
  <2>1. \A i \in 1..Len(s) : t[i] \in Byte
    BY <1>1, BytesAreBytes
  <2>2. t = [i \in 1..Len(s) |-> t[i]]
    OBVIOUS
  <2> HIDE DEF t, Byte
  <2> QED  BY <1>1, <2>1, <2>2 DEF Text
<1>3. ~HasNul(s) => t = s
  <2> SUFFICES ASSUME ~HasNul(s) PROVE t = s
    OBVIOUS
  <2>1. \A i \in 1..Len(s) : t[i] = s[i]
    BY <1>1 DEF HasNul
  <2> HIDE DEF t
  <2> QED  BY <1>2, <2>1, SeqEqual DEF Text
<1>4. Strncpy(m, at, s) = Store(m, at, t)
  BY DEF Strncpy
<1> HIDE DEF t
<1>5. /\ Store(m, at, t) \in Memory(h)
      /\ Bytes(Store(m, at, t), at + Len(t)) = Bytes(m, at) \o SubSeq(t, 1, Len(t))
  <2>1. Len(t) \in 0..Len(t) /\ at + Len(t) <= h + 1 /\ at \in 0..(h + 1) /\ h <= h
    BY <1>1, <1>2
  <2> QED  BY <1>2, <2>1, StoreBytes
<1>6. SubSeq(t, 1, Len(t)) = t
  BY <1>2, SubSeqFull DEF Text
<1> QED  BY <1>2, <1>3, <1>4, <1>5, <1>6

\* printf("%s") stops at the first NUL.
LEMMA PrintedBytes ==
  ASSUME NEW h \in Nat, NEW m \in Memory(h), NEW n \in 0..h, m[n] = NUL, ~HasNul(Bytes(m, n))
  PROVE  Printed(m) = Bytes(m, n)
<1> DEFINE First(k) == m[k] = NUL /\ \A i \in 0..(k - 1) : m[i] # NUL
<1>1. n \in Nat /\ n \in 0..(h + 1) /\ DOMAIN m = 0..h
  BY DEF Memory
<1>2. Len(Bytes(m, n)) = n
  BY BytesText, <1>1
<1>3. ASSUME NEW i \in 0..(n - 1) PROVE m[i] # NUL
  <2>1. i + 1 \in 1..n /\ (i + 1) - 1 = i
    BY <1>1
  <2>2. Bytes(m, n)[i + 1] = m[i]
    BY <2>1 DEF Bytes
  <2> QED  BY <1>2, <2>1, <2>2 DEF HasNul
<1>4. First(n)
  BY <1>3
<1>5. ASSUME NEW k \in DOMAIN m, First(k) PROVE k = n
  <2>1. ~(k < n) /\ ~(n < k)
    BY <1>1, <1>3, <1>5
  <2> QED  BY <1>1, <2>1
<1>6. (CHOOSE k \in DOMAIN m : First(k)) = n
  <2> HIDE DEF First
  <2> QED  BY <1>1, <1>4, <1>5, Zenon
<1> QED  BY <1>6 DEF Printed, Bytes

\* A NUL in a part is a NUL in the whole, and the other way round.
LEMMA HasNulConcat ==
  ASSUME NEW s \in Text, NEW t \in Text
  PROVE  HasNul(s \o t) <=> HasNul(s) \/ HasNul(t)
<1>1. Len(s) \in Nat /\ Len(t) \in Nat
  BY DEF Text
<1>2. /\ Len(s \o t) = Len(s) + Len(t)
      /\ \A i \in 1..Len(s) + Len(t) : (s \o t)[i] = IF i <= Len(s) THEN s[i] ELSE t[i - Len(s)]
  BY ConcatProperties DEF Text
<1>3. ASSUME NEW i \in 1..Len(s), s[i] = NUL PROVE HasNul(s \o t)
  BY <1>1, <1>2, <1>3 DEF HasNul
<1>4. ASSUME NEW i \in 1..Len(t), t[i] = NUL PROVE HasNul(s \o t)
  <2>1. i + Len(s) \in 1..(Len(s) + Len(t)) /\ ~(i + Len(s) <= Len(s)) /\ (i + Len(s)) - Len(s) = i
    BY <1>1
  <2> QED  BY <1>2, <1>4, <2>1 DEF HasNul
<1>5. ASSUME NEW i \in 1..(Len(s) + Len(t)), (s \o t)[i] = NUL PROVE HasNul(s) \/ HasNul(t)
  BY <1>1, <1>2, <1>5 DEF HasNul
<1> QED  BY <1>2, <1>3, <1>4, <1>5 DEF HasNul

-----------------------------------------------------------------------------
(* The inductive invariant.                                                 *)

\* What is stored lies in the array, or is the NUL behind it.
Inside == matches \in Memory(B - 1) \/ (matches \in Memory(B) /\ NulBehindArray)

\* Types, as TypeOK has them, and what the variables range over.
Typed ==
  /\ pc \in {"closed", "file", "search", "restart", "fits", "chunks"}
  /\ mode \in Mode
  /\ file \in Text /\ (pc # "closed" => Len(file) # 0)
  /\ line \in Text /\ line_no \in Nat /\ pos \in 1..(Len(line) + 1)
  /\ Inside /\ match_idx \in 0..(B - 1)
  /\ last_match_end \in 0..Len(line) /\ end \in 0..Len(line)
  /\ begin \in Text /\ flush_buffer \in BOOLEAN /\ asked \in Text

\* What one function leaves to the next.  A search starts with last_match_end
\* cleared, so new_match never takes a newline back.  fill_output_buffer has room
\* for the text, its newline and the NUL, or starts with an empty buffer; it is
\* asked to flush only with nothing in front of the text.  Everything else finds
\* a NUL behind the stored text.
Handover ==
  /\ pc = "search" => last_match_end = NULL
  /\ pc \in {"closed", "chunks"} => match_idx = 0
  /\ pc = "fits" => /\ match_idx + Len(begin) + 1 < B
                    /\ flush_buffer => match_idx = 0
  /\ pc \notin {"fits", "chunks"} /\ match_idx # 0 => matches[match_idx] = NUL

\* Every byte reported is printed, stored or about to be stored.
Delivered == ~HasNul(asked) => stdout \in Text /\ stdout \o Stored \o Outstanding = asked

IInv == Typed /\ Handover /\ Delivered

\* Texts: closed under concatenation, which is associative.
LEMMA Texts ==
  /\ <<>> \in Text /\ <<Newline>> \in Text /\ <<Colon>> \in Text /\ <<NUL>> \in Text
  /\ LineEnd \in Text /\ Len(LineEnd) = 2
  /\ \A s, t \in Text : s \o t \in Text /\ Len(s \o t) = Len(s) + Len(t)
  /\ \A s, t, u \in Text : (s \o t) \o u = s \o (t \o u)
  /\ \A s \in Text : Len(s) \in Nat /\ s \o <<>> = s /\ <<>> \o s = s
<1>1. NUL \in Byte /\ Newline \in Byte /\ Colon \in Byte
  BY BytesAreBytes
<1>2. /\ <<>> \in Text /\ <<Newline>> \in Text /\ <<Colon>> \in Text /\ <<NUL>> \in Text
      /\ LineEnd \in Text /\ Len(LineEnd) = 2
  <2> HIDE DEF Byte, Newline, Colon
  <2> QED  BY <1>1 DEF Text, LineEnd
<1>3. \A s, t \in Text : s \o t \in Text /\ Len(s \o t) = Len(s) + Len(t)
  BY ConcatProperties DEF Text
<1>4. \A s, t, u \in Text : (s \o t) \o u = s \o (t \o u)
  BY ConcatAssociative DEF Text
<1>5. \A s \in Text : Len(s) \in Nat /\ s \o <<>> = s /\ <<>> \o s = s
  BY ConcatEmptySeq DEF Text
<1> QED  BY <1>2, <1>3, <1>4, <1>5

\* The same in small doses.
LEMMA Closed == \A s, t \in Text : s \o t \in Text
BY Texts

\* Texts can be put together in any order of steps.
LEMMA Assoc == \A s, t, u \in Text : (s \o t) \o u = s \o (t \o u)
BY ConcatAssociative DEF Text

\* What the next call finds in the array.
LEMMA BufferIs ==
  ASSUME Typed
  PROVE  /\ B - 1 \in Nat /\ Buffer \in Memory(B - 1)
         /\ \A n \in 0..(B - 1) : Bytes(Buffer, n) = Bytes(matches, n) /\ Bytes(matches, n) \in Text
         /\ match_idx # 0 => matches \in Memory(B - 1)
<1>1. B \in Nat /\ B >= 3 /\ B - 1 \in Nat
  BY SizeAssumption
<1>2. Inside
  BY DEF Typed
<1>3. \A k \in 0..(B - 1) : matches[k] \in Byte
  BY <1>1, <1>2 DEF Inside, Memory
<1>4. Buffer \in Memory(B - 1) /\ \A k \in 0..(B - 1) : Buffer[k] = matches[k]
  BY <1>3 DEF Buffer, Array, Memory
<1>5. \A n \in 0..(B - 1) : Bytes(Buffer, n) = Bytes(matches, n)
  <2> SUFFICES ASSUME NEW n \in 0..(B - 1) PROVE Bytes(Buffer, n) = Bytes(matches, n)
    OBVIOUS
  <2>1. \A i \in 1..n : Buffer[i - 1] = matches[i - 1]
    BY <1>1, <1>4
  <2> QED  BY <2>1 DEF Bytes
<1>6. \A n \in 0..(B - 1) : Bytes(Buffer, n) \in Text
  <2>1. \A n \in 0..(B - 1) : n \in 0..((B - 1) + 1)
    BY <1>1
  <2> QED  BY <1>1, <1>4, <2>1, BytesText
<1> QED  BY <1>1, <1>2, <1>4, <1>5, <1>6 DEF Inside, NulBehindArray

\* Nothing is stored and match_idx stays or is reset.
LEMMA InsideStays ==
  ASSUME Inside, matches' = matches, match_idx' = match_idx \/ match_idx' = 0
  PROVE  Inside'
BY DEF Inside, NulBehindArray

\* Lengths of the labels, as new_match computes them.
LEMMA LabelLengths ==
  ASSUME Typed
  PROVE  /\ NameLabel \in Text /\ LineLabel \in Text
         /\ Len(NameLabel) = IF mode.name THEN Len(file) + 1 ELSE 0
         /\ Len(LineLabel) = IF mode.lineno THEN Width[line_no] + 1 ELSE 0
         /\ \A i : LabelEnd(i) = i + Len(NameLabel) + Len(LineLabel)
         /\ \A t \in Text : Size(t) = Len(t) + Len(NameLabel) + Len(LineLabel)
<1>1. file \in Text /\ line_no \in Nat
  BY DEF Typed
<1>2. Decimal[line_no] \in Text /\ Len(Decimal[line_no]) = Width[line_no]
  BY <1>1, DecimalRecursion DEF Text
<1>3. <<Colon>> \in Text /\ Len(<<Colon>>) = 1
  BY Texts
<1>4. file \o <<Colon>> \in Text /\ Len(file \o <<Colon>>) = Len(file) + 1
  BY <1>1, <1>3, Texts
<1>5. /\ Decimal[line_no] \o <<Colon>> \in Text
      /\ Len(Decimal[line_no] \o <<Colon>>) = Width[line_no] + 1
  BY <1>2, <1>3, Texts
<1>6. <<>> \in Text /\ Len(<<>>) = 0
  BY Texts
<1>7. /\ NameLabel \in Text /\ Len(NameLabel) = IF mode.name THEN Len(file) + 1 ELSE 0
  BY <1>4, <1>6 DEF NameLabel
<1>8. /\ LineLabel \in Text /\ Len(LineLabel) = IF mode.lineno THEN Width[line_no] + 1 ELSE 0
  BY <1>5, <1>6 DEF LineLabel
<1> QED  BY <1>7, <1>8 DEF LabelEnd, Size

\* The labels that fit are stored whole behind what is there: neither snprintf's
\* limit cuts them.
LEMMA LabelledBytes ==
  ASSUME Typed, Len(file) # 0,
         NEW m \in Memory(B - 1), NEW idx \in 0..(B - 1), LabelEnd(idx) <= B - 1
  PROVE  /\ Labelled(m, idx) \in Memory(B - 1)
         /\ Bytes(Labelled(m, idx), LabelEnd(idx)) = Bytes(m, idx) \o (NameLabel \o LineLabel)
<1> DEFINE at == idx + Len(NameLabel)
           named == IF mode.name THEN Snprintf(m, idx, Len(file) + 2, NameLabel) ELSE m
           both == Snprintf(named, at, Len(file) + Width[line_no] + 1, LineLabel)
<1>1. /\ B - 1 \in Nat /\ file \in Text /\ line_no \in Nat /\ Len(file) \in Nat
      /\ Width[line_no] \in Nat /\ B \in Nat
  <2>1. file \in Text /\ line_no \in Nat
    BY DEF Typed
  <2>2. Width[line_no] \in Nat /\ Len(file) \in Nat
    BY <2>1, WidthRecursion, Texts
  <2> QED  BY <2>1, <2>2, SizeAssumption
<1>2. /\ NameLabel \in Text /\ LineLabel \in Text
      /\ Len(NameLabel) \in Nat /\ Len(LineLabel) \in Nat
      /\ Len(NameLabel) = IF mode.name THEN Len(file) + 1 ELSE 0
      /\ Len(LineLabel) = IF mode.lineno THEN Width[line_no] + 1 ELSE 0
      /\ LabelEnd(idx) = idx + Len(NameLabel) + Len(LineLabel)
  BY LabelLengths, Texts
<1>3. /\ at \in 0..(B - 1) /\ at + Len(LineLabel) <= B - 1 /\ idx + Len(NameLabel) <= B - 1
      /\ idx \in 0..((B - 1) + 1)
  BY <1>1, <1>2
<1>4. named \in Memory(B - 1) /\ Bytes(named, at) = Bytes(m, idx) \o NameLabel
  <2>1. CASE mode.name
    <3>1. Len(file) + 2 \in Nat /\ Len(NameLabel) < Len(file) + 2
      BY <1>1, <1>2, <2>1
    <3> DEFINE w == Snprintf(m, idx, Len(file) + 2, NameLabel)
    <3>2. w \in Memory(B - 1) /\ Bytes(w, idx + Len(NameLabel)) = Bytes(m, idx) \o NameLabel
      <4>1. B - 1 \in Nat /\ NameLabel \in Text /\ idx + Len(NameLabel) <= B - 1
        BY <1>1, <1>2, <1>3
      <4> QED  BY <3>1, <4>1, SnprintfBytes
    <3>3. named = w
      BY <2>1
    <3> HIDE DEF w, named
    <3> QED  BY <3>2, <3>3
  <2>2. CASE ~mode.name
    <3>1. NameLabel = <<>> /\ Len(NameLabel) = 0
      BY <1>2, <2>2 DEF NameLabel
    <3>2. at = idx /\ Bytes(m, idx) \in Text
      BY <1>1, <1>3, <3>1, BytesText
    <3> QED  BY <1>1, <2>2, <3>1, <3>2, Texts
  <2> QED  BY <2>1, <2>2
<1>5. Bytes(m, idx) \in Text
  BY <1>1, <1>3, BytesText
<1> HIDE DEF named, at
<1>6. CASE mode.lineno
  <2>1. /\ Len(file) + Width[line_no] + 1 \in Nat
        /\ Len(LineLabel) < Len(file) + Width[line_no] + 1
    BY <1>1, <1>2, <1>6
  <2>2. both \in Memory(B - 1) /\ Bytes(both, at + Len(LineLabel)) = Bytes(named, at) \o LineLabel
    <3>1. B - 1 \in Nat /\ LineLabel \in Text /\ at \in 0..(B - 1) /\ named \in Memory(B - 1)
          /\ at + Len(LineLabel) <= B - 1
      BY <1>1, <1>2, <1>3, <1>4
    <3> QED  BY <2>1, <3>1, SnprintfBytes
  <2>3. Labelled(m, idx) = both /\ LabelEnd(idx) = at + Len(LineLabel)
    BY <1>2, <1>6 DEF Labelled, named, at
  <2>4. (Bytes(m, idx) \o NameLabel) \o LineLabel = Bytes(m, idx) \o (NameLabel \o LineLabel)
    BY <1>2, <1>5, Texts, ZenonT(30)
  <2> HIDE DEF both
  <2> QED  BY <1>4, <2>2, <2>3, <2>4
<1>7. CASE ~mode.lineno
  <2>1. LineLabel = <<>> /\ Len(LineLabel) = 0
    BY <1>2, <1>7 DEF LineLabel
  <2>2. Labelled(m, idx) = named /\ LabelEnd(idx) = at
    BY <1>2, <1>3, <1>7, <2>1 DEF Labelled, named, at
  <2> QED  BY <1>2, <1>4, <2>1, <2>2, Texts
<1> QED  BY <1>6, <1>7

-----------------------------------------------------------------------------
(* new_match.                                                               *)

\* What new_match does, without the detour of a joined match: after a search
\* last_match_end is clear.
LEMMA NewMatchCases ==
  ASSUME Typed, Handover, pc = "search", NEW text \in Text, NEW s, NEW e, NewMatch(text, s, e)
  PROVE  /\ asked' = asked \o NameLabel \o LineLabel \o text \o <<Newline>>
         /\ begin' = text /\ end' = e /\ last_match_end' = NULL
         /\ pc' = (IF TooBig(match_idx', Len(text)) THEN "chunks" ELSE "fits")
         /\ UNCHANGED where
         /\ \E flush \in BOOLEAN :
              /\ flush => match_idx # 0
              /\ LET idx == IF flush THEN 0 ELSE match_idx
                     out == IF flush THEN stdout \o Printed(matches) ELSE stdout \o <<>>
                 IN \/ /\ TooBig(idx, Size(text)) /\ idx = 0
                       /\ stdout' = out \o NameLabel \o LineLabel
                       /\ match_idx' = 0 /\ matches' = matches
                       /\ flush_buffer' = (mode.name \/ mode.lineno)
                    \/ /\ ~TooBig(idx, Size(text))
                       /\ stdout' = out
                       /\ matches' = Labelled(Buffer, idx) /\ match_idx' = LabelEnd(idx)
                       /\ flush_buffer' = FALSE
<1>1. last_match_end = NULL /\ Joined(s) = match_idx
  BY DEF Handover, Joined
<1> DEFINE flush == match_idx # 0 /\ TooBig(match_idx, Size(text))
<1>2. flush \in BOOLEAN
  OBVIOUS
<1>3. CASE flush
  <2> USE <1>1, <1>3 DEF NewMatch
  <2>1. CASE TooBig(0, Size(text))
    BY <2>1
  <2>2. CASE ~TooBig(0, Size(text))
    BY <2>2
  <2> QED  BY <2>1, <2>2
<1>4. CASE ~flush
  <2> USE <1>1, <1>4 DEF NewMatch
  <2>1. CASE TooBig(match_idx, Size(text))
    BY <2>1
  <2>2. CASE ~TooBig(match_idx, Size(text))
    BY <2>2
  <2> QED  BY <2>1, <2>2
<1> QED  BY <1>3, <1>4

\* An empty buffer stores nothing.
LEMMA BytesNone ==
  ASSUME NEW m
  PROVE  Bytes(m, 0) = <<>>
BY DEF Bytes

\* new_match leaves room for the text it announces, or nothing in front of it;
\* what it prints and stores are the labels, once and in order.
LEMMA NewMatchStep ==
  ASSUME IInv, pc = "search", NEW text \in Text, NEW s, NEW e \in 0..Len(line),
         NewMatch(text, s, e), pos' \in 1..(Len(line) + 1)
  PROVE  IInv'
<1>1. Typed /\ Handover /\ Delivered
  BY DEF IInv
<1>2. /\ asked' = asked \o NameLabel \o LineLabel \o text \o <<Newline>>
      /\ begin' = text /\ end' = e /\ last_match_end' = NULL
      /\ pc' = (IF TooBig(match_idx', Len(text)) THEN "chunks" ELSE "fits")
      /\ UNCHANGED where
  BY <1>1, NewMatchCases
<1> DEFINE idx(flush) == IF flush THEN 0 ELSE match_idx
           out(flush) == IF flush THEN stdout \o Printed(matches) ELSE stdout \o <<>>
           Direct(flush) == /\ TooBig(idx(flush), Size(text)) /\ idx(flush) = 0
                            /\ stdout' = out(flush) \o NameLabel \o LineLabel
                            /\ match_idx' = 0 /\ matches' = matches
                            /\ flush_buffer' = (mode.name \/ mode.lineno)
           Buffered(flush) == /\ ~TooBig(idx(flush), Size(text))
                              /\ stdout' = out(flush)
                              /\ matches' = Labelled(Buffer, idx(flush))
                              /\ match_idx' = LabelEnd(idx(flush))
                              /\ flush_buffer' = FALSE
<1>3. PICK flush \in BOOLEAN : (flush => match_idx # 0) /\ (Direct(flush) \/ Buffered(flush))
  BY <1>1, NewMatchCases
<1>4. /\ NameLabel \in Text /\ LineLabel \in Text
      /\ Len(NameLabel) \in Nat /\ Len(LineLabel) \in Nat /\ Len(text) \in Nat
      /\ Len(NameLabel) = IF mode.name THEN Len(file) + 1 ELSE 0
      /\ Len(LineLabel) = IF mode.lineno THEN Width[line_no] + 1 ELSE 0
      /\ \A i : LabelEnd(i) = i + Len(NameLabel) + Len(LineLabel)
      /\ Size(text) = Len(text) + Len(NameLabel) + Len(LineLabel)
  BY <1>1, LabelLengths, Texts
<1>5. /\ B \in Nat /\ B >= 3 /\ match_idx \in Nat /\ match_idx < B /\ Inside
      /\ Len(file) # 0 /\ asked \in Text
      /\ B - 1 \in Nat /\ Buffer \in Memory(B - 1) /\ (match_idx # 0 => matches \in Memory(B - 1))
      /\ \A n \in 0..(B - 1) : Bytes(Buffer, n) = Bytes(matches, n) /\ Bytes(matches, n) \in Text
  BY <1>1, SizeAssumption, BufferIs DEF Typed
<1>6. idx(flush) \in 0..(B - 1)
  BY <1>5
<1>7. Buffered(flush) => /\ LabelEnd(idx(flush)) + Len(text) + 1 < B
                         /\ LabelEnd(idx(flush)) \in 0..(B - 1)
  <2>1. Buffered(flush) => ~(idx(flush) + Size(text) + 1 >= B)
    BY DEF TooBig
  <2> DEFINE i == idx(flush)
             n == Len(NameLabel)
             l == Len(LineLabel)
             t == Len(text)
  <2>2. LabelEnd(i) = i + n + l /\ Size(text) = t + n + l
    BY <1>4
  <2>3. n \in Nat /\ l \in Nat /\ t \in Nat /\ B \in Nat /\ i \in 0..(B - 1)
    BY <1>4, <1>5, <1>6
  <2> HIDE DEF Buffered, idx, i, n, l, t
  <2>4. ~(i + (t + n + l) + 1 >= B) => (i + n + l) + t + 1 < B /\ i + n + l \in 0..(B - 1)
    BY <2>3
  <2> QED  BY <2>1, <2>2, <2>4 DEF i, t
<1>8. Buffered(flush) => /\ matches' \in Memory(B - 1)
                         /\ Bytes(matches', match_idx') = Bytes(matches, idx(flush)) \o (NameLabel \o LineLabel)
  <2> SUFFICES ASSUME Buffered(flush)
               PROVE  /\ matches' \in Memory(B - 1)
                      /\ Bytes(matches', match_idx') = Bytes(matches, idx(flush)) \o (NameLabel \o LineLabel)
    OBVIOUS
  <2>1. LabelEnd(idx(flush)) <= B - 1
    BY <1>5, <1>7
  <2>2. /\ Labelled(Buffer, idx(flush)) \in Memory(B - 1)
        /\ Bytes(Labelled(Buffer, idx(flush)), LabelEnd(idx(flush)))
             = Bytes(Buffer, idx(flush)) \o (NameLabel \o LineLabel)
    <3> HIDE DEF idx
    <3> QED  BY <1>1, <1>5, <1>6, <2>1, LabelledBytes
  <2>3. Bytes(Buffer, idx(flush)) = Bytes(matches, idx(flush))
    <3> HIDE DEF idx
    <3> QED  BY <1>5, <1>6
  <2> QED  BY <2>2, <2>3
<1>9. Typed'
  <2>1. Inside' /\ match_idx' \in 0..(B - 1) /\ flush_buffer' \in BOOLEAN
    <3>1. CASE Direct(flush)
      <4>1. matches' = matches /\ match_idx' = 0 /\ flush_buffer' = (mode.name \/ mode.lineno)
        BY <3>1
      <4>2. (mode.name \/ mode.lineno) \in BOOLEAN
        OBVIOUS
      <4>3. Inside'
        BY <1>5, <4>1, InsideStays
      <4> QED  BY <1>5, <4>1, <4>2, <4>3
    <3>2. CASE Buffered(flush)
      <4>1. match_idx' = LabelEnd(idx(flush)) /\ flush_buffer' = FALSE
        BY <3>2
      <4>2. Inside'
        BY <1>8, <3>2 DEF Inside
      <4> QED  BY <1>7, <3>2, <4>1, <4>2
    <3> QED  BY <1>3, <3>1, <3>2
  <2>2. asked' \in Text
    BY <1>2, <1>4, <1>5, Texts
  <2>3. last_match_end' \in 0..Len(line)
    BY <1>1, <1>2, Texts DEF NULL, Typed
  <2>4. mode' = mode /\ file' = file /\ line' = line /\ line_no' = line_no
    BY <1>2 DEF where
  <2>5. pc' \in {"chunks", "fits"}
    BY <1>2
  <2> HIDE DEF idx, out, Direct, Buffered
  <2> QED  BY <1>1, <1>2, <1>5, <2>1, <2>2, <2>3, <2>4, <2>5 DEF Typed
<1>10. Handover'
  <2>1. CASE Direct(flush)
    <3>1. match_idx' = 0 /\ pc' = IF 0 + Len(text) + 1 >= B THEN "chunks" ELSE "fits"
      BY <1>2, <2>1 DEF TooBig
    <3> HIDE DEF Direct, Buffered, idx, out
    <3> QED  BY <1>2, <1>4, <1>5, <3>1 DEF Handover
  <2>2. CASE Buffered(flush)
    <3>1. match_idx' + Len(text) + 1 < B /\ flush_buffer' = FALSE /\ match_idx' \in Nat
      BY <1>7, <2>2, <1>5
    <3>2. pc' = "fits"
      BY <1>2, <1>4, <1>5, <3>1 DEF TooBig
    <3> HIDE DEF Direct, Buffered, idx, out
    <3> QED  BY <1>2, <3>1, <3>2 DEF Handover
  <2> QED  BY <1>3, <2>1, <2>2
<1>11. Delivered'
  <2> SUFFICES ASSUME ~HasNul(asked')
               PROVE  stdout' \in Text /\ stdout' \o Stored' \o Outstanding' = asked'
    BY DEF Delivered, HasNul
  <2> DEFINE st == Bytes(matches, match_idx)
             held == Bytes(matches, idx(flush))
             labels == NameLabel \o LineLabel
             rest == text \o <<Newline>>
  <2>1. st \in Text /\ held \in Text /\ labels \in Text /\ rest \in Text /\ <<Newline>> \in Text
    <3>1. match_idx \in 0..(B - 1) /\ idx(flush) \in 0..(B - 1)
      BY <1>5, <1>6
    <3>2. st \in Text /\ held \in Text
      BY <1>5, <3>1
    <3>3. <<Newline>> \in Text
      BY Texts
    <3> QED  BY <1>4, <3>2, <3>3, Closed
  <2>2. asked' = asked \o (labels \o rest)
    <3> DEFINE n == NameLabel
               l == LineLabel
               nl == <<Newline>>
    <3>1. asked' = (((asked \o n) \o l) \o text) \o nl
      BY <1>2
    <3>2. n \in Text /\ l \in Text /\ nl \in Text /\ asked \in Text /\ text \in Text
      BY <1>4, <1>5, <2>1
    <3> HIDE DEF n, l, nl
    <3>3. n \o l \in Text /\ text \o nl \in Text
      BY <3>2, Closed, Zenon
    <3>4. asked \o (n \o l) \in Text
      BY <3>2, <3>3, Closed, Zenon
    <3>6. (asked \o n) \o l = asked \o (n \o l)
      BY <3>2, Assoc, Zenon
    <3>5. ((asked \o (n \o l)) \o text) \o nl = (asked \o (n \o l)) \o (text \o nl)
      BY <3>2, <3>4, Assoc, Zenon
    <3>7. (asked \o (n \o l)) \o (text \o nl) = asked \o ((n \o l) \o (text \o nl))
      BY <3>2, <3>3, Assoc, Zenon
    <3> QED  BY <3>1, <3>5, <3>6, <3>7 DEF n, l, nl
  <2>3. ~HasNul(asked)
    <3>1. labels \o rest \in Text
      <4> HIDE DEF labels, rest
      <4> QED  BY <2>1, Closed, Zenon
    <3> QED  BY <1>5, <2>2, <3>1, HasNulConcat
  <2>4. stdout \in Text /\ stdout \o st = asked
    <3>1. Stored = st /\ Outstanding = <<>>
      BY DEF Stored, Bytes, Outstanding
    <3> QED  BY <1>1, <2>1, <2>3, <3>1, Texts DEF Delivered
  <2>5. ~HasNul(st)
    BY <2>1, <2>3, <2>4, HasNulConcat
  <2>6. out(flush) \in Text /\ out(flush) \o held = asked
    <3>1. CASE flush
      <4>1. matches[match_idx] = NUL /\ match_idx \in 0..(B - 1) /\ matches \in Memory(B - 1)
        BY <1>1, <1>3, <1>5, <3>1 DEF Handover
      <4>2. Printed(matches) = st
        BY <1>5, <2>5, <4>1, PrintedBytes
      <4>3. held = <<>>
        BY <1>5, <3>1, BytesNone
      <4> QED  BY <1>5, <2>1, <2>4, <3>1, <4>2, <4>3, Texts
    <3>2. CASE ~flush
      BY <2>1, <2>4, <3>2, Texts
    <3> QED  BY <3>1, <3>2
  <2>7. Outstanding' = rest
    BY <1>2 DEF Outstanding
  <2>8. Stored' = Bytes(matches', match_idx')
    BY DEF Stored, Bytes
  <2>9. CASE Direct(flush)
    <3>1. Stored' = <<>> /\ held = <<>>
      BY <1>5, <2>8, <2>9, BytesNone
    <3>2. out(flush) = asked
      BY <2>6, <3>1, Texts
    <3>3. stdout' = asked \o NameLabel \o LineLabel
      BY <2>9, <3>2
    <3> HIDE DEF Direct, Buffered, idx, out
    <3>4. stdout' \in Text /\ stdout' = asked \o labels
      BY <1>4, <1>5, <3>3, Texts, ZenonT(30)
    <3>5. (asked \o labels) \o rest = asked \o (labels \o rest)
      <4> HIDE DEF labels, rest
      <4> QED  BY <1>5, <2>1, Assoc, ZenonT(30)
    <3> HIDE DEF labels, rest
    <3> QED  BY <2>2, <2>7, <3>1, <3>4, <3>5, Texts
  <2>10. CASE Buffered(flush)
    <3>1. stdout' = out(flush) /\ Stored' = held \o labels
      BY <1>8, <2>8, <2>10
    <3> HIDE DEF Direct, Buffered, idx, out, held, labels, rest
    <3>2. out(flush) \o (held \o labels) = asked \o labels
      <4>1. out(flush) \o (held \o labels) = (out(flush) \o held) \o labels
        BY <2>1, <2>6, Assoc, Zenon
      <4> QED  BY <2>6, <4>1
    <3>3. (asked \o labels) \o rest = asked \o (labels \o rest)
      BY <1>5, <2>1, Assoc, ZenonT(30)
    <3> QED  BY <2>2, <2>6, <2>7, <3>1, <3>2, <3>3
  <2> QED  BY <1>3, <2>9, <2>10
<1> QED  BY <1>9, <1>10, <1>11 DEF IInv

-----------------------------------------------------------------------------
(* fill_output_buffer.                                                      *)

\* The text and APPEND_NEWLINE, APPEND_NULL behind it.
LEMMA FilledBytes ==
  ASSUME NEW h \in Nat, NEW m \in Memory(h), NEW i \in 0..h, NEW t \in Text, i + Len(t) <= h + 1,
         NEW g \in Nat, h <= g, i + Len(t) + 1 <= g, g = h \/ g = i + Len(t) + 1,
         NEW f, f = Store(Strncpy(m, i, t), i + Len(t), LineEnd)
  PROVE  /\ f \in Memory(g) /\ f[i + Len(t)] = Newline /\ f[i + Len(t) + 1] = NUL
         /\ ~HasNul(t) => Bytes(f, i + Len(t) + 1) = Bytes(m, i) \o (t \o <<Newline>>)
<1> DEFINE c == Strncpy(m, i, t)
           at == i + Len(t)
<1>1. /\ Len(t) \in Nat /\ at \in 0..(h + 1) /\ LineEnd \in Text /\ Len(LineEnd) = 2
      /\ at + Len(LineEnd) <= g + 1 /\ (g = h \/ g = at + Len(LineEnd) - 1)
  BY Texts
<1>2. c \in Memory(h) /\ (~HasNul(t) => Bytes(c, at) = Bytes(m, i) \o t)
  BY <1>1, StrncpyBytes
<1>3. /\ 1 \in 0..Len(LineEnd) /\ 1 \in 1..Len(LineEnd) /\ 2 \in 1..Len(LineEnd)
      /\ at + 1 - 1 = at /\ at + 2 - 1 = at + 1
  BY <1>1
<1> HIDE DEF c, at
<1>4. /\ f \in Memory(g)
      /\ Bytes(f, at + 1) = Bytes(c, at) \o SubSeq(LineEnd, 1, 1)
      /\ f[at + 1 - 1] = LineEnd[1] /\ f[at + 2 - 1] = LineEnd[2]
  BY <1>1, <1>2, <1>3, StoreBytes DEF c, at
<1>5. SubSeq(LineEnd, 1, 1) = <<Newline>> /\ LineEnd[1] = Newline /\ LineEnd[2] = NUL
  <2>1. LineEnd[1] = Newline /\ LineEnd[2] = NUL
    BY DEF LineEnd
  <2>2. Newline \in Byte /\ <<Newline>> \in Seq(Byte) /\ Len(<<Newline>>) = 1
    BY BytesAreBytes
  <2> DEFINE x == SubSeq(LineEnd, 1, 1)
  <2> HIDE DEF Newline, Byte
  <2>3. x \in Seq(Byte) /\ Len(x) = 1 /\ x[1] = Newline
    BY <2>1, <2>2
  <2> HIDE DEF x
  <2>4. x = <<Newline>>
    BY <2>2, <2>3
  <2> QED  BY <2>1, <2>4 DEF x
<1>6. Bytes(m, i) \in Text /\ <<Newline>> \in Text
  <2>1. i \in 0..(h + 1)
    OBVIOUS
  <2> QED  BY <2>1, BytesText, Texts
<1>7. (Bytes(m, i) \o t) \o <<Newline>> = Bytes(m, i) \o (t \o <<Newline>>)
  BY <1>6, Assoc, Zenon
<1> QED  BY <1>2, <1>3, <1>4, <1>5, <1>7 DEF at

\* The text that fits is stored, or printed with whatever it was to be flushed with.
LEMMA FillFitsStep ==
  ASSUME IInv, FillFits
  PROVE  IInv'
<1> DEFINE t == begin
           f == Store(Strncpy(Buffer, match_idx, begin), match_idx + Len(begin), LineEnd)
           n == match_idx + Len(begin) + 1
<1>1. Typed /\ Handover /\ Delivered /\ pc = "fits"
  BY DEF IInv, FillFits
<1>2. /\ matches' = f /\ begin' = <<>> /\ pc' \in {"restart", "file"}
      /\ UNCHANGED <<where, pos, end, flush_buffer, asked>>
      /\ flush_buffer => stdout' = stdout \o Printed(f) /\ match_idx' = 0 /\ last_match_end' = NULL
      /\ ~flush_buffer => match_idx' = n /\ last_match_end' = end /\ stdout' = stdout
  BY DEF FillFits, Return
<1>3. /\ B - 1 \in Nat /\ Buffer \in Memory(B - 1) /\ match_idx \in 0..(B - 1) /\ t \in Text /\ Len(t) \in Nat
      /\ B \in Nat /\ B >= 3 /\ n < B /\ (flush_buffer => match_idx = 0)
      /\ asked \in Text /\ Bytes(Buffer, match_idx) = Bytes(matches, match_idx)
      /\ Bytes(matches, match_idx) \in Text
  BY <1>1, Texts, SizeAssumption, BufferIs DEF Typed, Handover
<1>4. n \in 0..(B - 1) /\ match_idx + Len(t) <= (B - 1) + 1 /\ match_idx + Len(t) + 1 <= B - 1 /\ B - 1 <= B - 1
  BY <1>3
<1>5. /\ f \in Memory(B - 1) /\ f[n] = NUL
      /\ ~HasNul(t) => Bytes(f, n) = Bytes(matches, match_idx) \o (t \o <<Newline>>)
  BY <1>3, <1>4, FilledBytes
<1> HIDE DEF f, n
<1>6. Typed'
  <2>1. /\ mode' = mode /\ file' = file /\ line' = line /\ line_no' = line_no /\ pos' = pos
        /\ end' = end /\ flush_buffer' = flush_buffer /\ asked' = asked
    BY <1>2 DEF where
  <2>2. match_idx' \in 0..(B - 1) /\ Inside' /\ begin' \in Text
    BY <1>2, <1>3, <1>4, <1>5, Texts DEF Inside
  <2>3. last_match_end' \in 0..Len(line)
    BY <1>1, <1>2, Texts, SMTT(30) DEF Typed, NULL
  <2> QED  BY <1>1, <1>2, <2>1, <2>2, <2>3 DEF Typed
<1>7. Handover'
  <2>1. match_idx' # 0 => matches'[match_idx'] = NUL
    BY <1>2, <1>5
  <2> QED  BY <1>2, <2>1 DEF Handover
<1>8. Delivered'
  <2> SUFFICES ASSUME ~HasNul(asked')
               PROVE  stdout' \in Text /\ stdout' \o Stored' \o Outstanding' = asked'
    BY DEF Delivered, HasNul
  <2> DEFINE st == Bytes(matches, match_idx)
             rest == t \o <<Newline>>
  <2>1. /\ stdout \in Text /\ (stdout \o st) \o rest = asked /\ ~HasNul(asked) /\ asked' = asked
        /\ Outstanding' = <<>>
    BY <1>1, <1>2 DEF Delivered, Stored, Bytes, Outstanding, HasNul
  <2>2. st \in Text /\ rest \in Text /\ <<Newline>> \in Text
    <3>1. <<Newline>> \in Text
      BY Texts
    <3> QED  BY <1>3, <3>1, Closed
  <2>3. st \o rest \in Text /\ stdout \o st \in Text
    BY <2>1, <2>2, Closed, Zenon
  <2>4. (stdout \o st) \o rest = stdout \o (st \o rest)
    BY <2>1, <2>2, Assoc, Zenon
  <2>5. ~HasNul(rest)
    BY <2>1, <2>2, <2>3, HasNulConcat
  <2>6. ~HasNul(t)
    BY <1>3, <2>2, <2>5, HasNulConcat
  <2>7. Bytes(f, n) = st \o rest
    BY <1>5, <2>6
  <2>8. ~HasNul(st \o rest)
    BY <2>1, <2>3, <2>4, HasNulConcat
  <2>9. Stored' = Bytes(f, match_idx')
    BY <1>2 DEF Stored, Bytes
  <2>10. CASE flush_buffer
    <3>1. Printed(f) = st \o rest
      BY <1>3, <1>4, <1>5, <2>7, <2>8, PrintedBytes
    <3>2. Stored' = <<>>
      BY <1>2, <1>5, <2>9, <2>10, BytesNone
    <3>3. stdout' = asked
      BY <1>2, <2>1, <2>4, <2>10, <3>1
    <3> QED  BY <1>3, <2>1, <3>2, <3>3, Texts
  <2>11. CASE ~flush_buffer
    <3>1. stdout' = stdout /\ Stored' = st \o rest
      BY <1>2, <2>7, <2>9, <2>11
    <3>2. stdout' \o Stored' = asked
      BY <2>1, <2>4, <3>1
    <3> QED  BY <1>3, <2>1, <3>1, <3>2, Texts
  <2> QED  BY <2>10, <2>11
<1> QED  BY <1>6, <1>7, <1>8 DEF IInv

\* A full buffer is flushed: the first B - 1 bytes of the text leave, whole.
LEMMA FillChunkStep ==
  ASSUME IInv, FillChunk
  PROVE  IInv'
<1> DEFINE t == SubSeq(begin, 1, B - 1)
           u == SubSeq(begin, B, Len(begin))
           c == Strncpy(Buffer, 0, t)
           f == Store(c, B - 1, <<NUL>>)
<1>1. Typed /\ Handover /\ Delivered /\ pc = "chunks" /\ match_idx = 0
  BY DEF IInv, Handover, FillChunk
<1>2. /\ matches' = f /\ begin' = u /\ pc' = pc
      /\ UNCHANGED <<where, pos, end, flush_buffer, asked>>
      /\ stdout' = stdout \o Printed(f) /\ match_idx' = 0 /\ last_match_end' = NULL
      /\ Len(begin) > B - 1
  BY <1>1 DEF FillChunk
<1>3. /\ B - 1 \in Nat /\ Buffer \in Memory(B - 1) /\ begin \in Text /\ Len(begin) \in Nat
      /\ B \in Nat /\ B >= 3 /\ asked \in Text
  BY <1>1, Texts, SizeAssumption, BufferIs DEF Typed
<1>4. t \in Text /\ Len(t) = B - 1 /\ u \in Text /\ begin = t \o u
  <2>1. 1 \in 1..(Len(begin) + 1) /\ B - 1 \in 0..Len(begin) /\ Len(begin) \in (B - 1)..Len(begin)
    BY <1>2, <1>3
  <2>2. SubSeq(begin, 1, B - 1) \o SubSeq(begin, (B - 1) + 1, Len(begin)) = SubSeq(begin, 1, Len(begin))
    <3>1. begin \in Seq(Byte) /\ 1 \in 1..(Len(begin) + 1) /\ B - 1 \in (1 - 1)..Len(begin)
      BY <1>3, <2>1 DEF Text
    <3> QED  BY <2>1, <3>1, ConcatAdjacentSubSeq
  <2>3. SubSeq(begin, 1, Len(begin)) = begin
    BY <1>3, SubSeqFull DEF Text
  <2>4. (B - 1) + 1 = B
    BY <1>3
  <2>5. \A i \in 1..Len(begin) : begin[i] \in Byte
    BY <1>3 DEF Text
  <2>6. t \in Text /\ Len(t) = B - 1
    BY <1>2, <1>3, <2>5, SubSeqProperties DEF Text
  <2>7. u \in Text
    BY <1>2, <1>3, <2>5, SubSeqProperties DEF Text
  <2> QED  BY <2>2, <2>3, <2>4, <2>6, <2>7
<1> HIDE DEF t, u
<1>5. c \in Memory(B - 1) /\ (~HasNul(t) => Bytes(c, B - 1) = t)
  <2>1. 0 \in 0..(B - 1) /\ 0 + Len(t) <= (B - 1) + 1 /\ 0 + Len(t) = B - 1
    BY <1>3, <1>4
  <2>2. c \in Memory(B - 1) /\ (~HasNul(t) => Bytes(c, 0 + Len(t)) = Bytes(Buffer, 0) \o t)
    BY <1>3, <1>4, <2>1, StrncpyBytes
  <2> HIDE DEF c
  <2> QED  BY <1>3, <1>4, <2>1, <2>2, BytesNone, Texts
<1> HIDE DEF c
<1>6. f \in Memory(B - 1) /\ f[B - 1] = NUL /\ Bytes(f, B - 1) = Bytes(c, B - 1)
  <2>1. <<NUL>> \in Text /\ Len(<<NUL>>) = 1 /\ B - 1 \in 0..((B - 1) + 1) /\ B - 1 + Len(<<NUL>>) <= (B - 1) + 1
        /\ 0 \in 0..Len(<<NUL>>) /\ 1 \in 1..Len(<<NUL>>) /\ (B - 1) + 0 = B - 1 /\ (B - 1) + 1 - 1 = B - 1
    BY <1>3, Texts
  <2>2. f \in Memory(B - 1) /\ Bytes(f, B - 1) = Bytes(c, B - 1) \o SubSeq(<<NUL>>, 1, 0) /\ f[B - 1] = <<NUL>>[1]
    <3> DEFINE z == <<NUL>>
               at == B - 1
    <3>1. /\ z \in Text /\ at \in 0..((B - 1) + 1) /\ at + Len(z) <= (B - 1) + 1 /\ B - 1 <= B - 1
          /\ 0 \in 0..Len(z) /\ 1 \in 1..Len(z) /\ at + 0 = at /\ at + 1 - 1 = at
          /\ f = Store(c, at, z)
      BY <2>1
    <3> HIDE DEF f, z, at
    <3>2. /\ f \in Memory(B - 1) /\ \A k \in 0..Len(z) : Bytes(f, at + k) = Bytes(c, at) \o SubSeq(z, 1, k)
          /\ \A i \in 1..Len(z) : f[at + i - 1] = z[i]
      BY <1>3, <1>5, <3>1, StoreBytes
    <3>3. f \in Memory(B - 1) /\ Bytes(f, at) = Bytes(c, at) \o SubSeq(z, 1, 0) /\ f[at] = z[1]
      BY <3>1, <3>2
    <3> QED  BY <3>3 DEF z, at
  <2>3. SubSeq(<<NUL>>, 1, 0) = <<>>
    BY SubSeqEmpty
  <2>4. Bytes(c, B - 1) \in Text
    <3>1. B - 1 \in 0..((B - 1) + 1)
      BY <1>3
    <3> QED  BY <1>3, <1>5, <3>1, BytesText
  <2> QED  BY <2>2, <2>3, <2>4, Texts
<1> HIDE DEF f
<1>7. Typed'
  <2>1. /\ mode' = mode /\ file' = file /\ line' = line /\ line_no' = line_no /\ pos' = pos
        /\ end' = end /\ flush_buffer' = flush_buffer /\ asked' = asked
    BY <1>2 DEF where
  <2>2. match_idx' \in 0..(B - 1) /\ last_match_end' \in 0..Len(line)
    BY <1>1, <1>2, <1>3, Texts DEF Typed, NULL
  <2>3. Inside'
    BY <1>2, <1>6 DEF Inside
  <2> QED  BY <1>1, <1>2, <1>4, <2>1, <2>2, <2>3 DEF Typed
<1>8. Handover'
  BY <1>1, <1>2 DEF Handover
<1>9. Delivered'
  <2> SUFFICES ASSUME ~HasNul(asked')
               PROVE  stdout' \in Text /\ stdout' \o Stored' \o Outstanding' = asked'
    BY DEF Delivered, HasNul
  <2> DEFINE nl == <<Newline>>
  <2>1. nl \in Text /\ Stored' = <<>> /\ Stored = <<>> /\ Outstanding' = u \o nl
    BY <1>1, <1>2, <1>3, <1>6, BytesNone, Texts DEF Stored, Bytes, Outstanding
  <2>2. stdout \in Text /\ stdout \o (begin \o nl) = asked /\ ~HasNul(asked) /\ asked' = asked
    BY <1>1, <1>2, <2>1, Texts DEF Delivered, Outstanding, HasNul
  <2> HIDE DEF nl
  <2>3. u \o nl \in Text /\ begin \o nl = t \o (u \o nl)
    BY <1>4, <2>1, Closed, Assoc, Zenon
  <2>4. ~HasNul(t)
    <3>1. t \o (u \o nl) \in Text
      BY <1>4, <2>3, Closed, Zenon
    <3>2. ~HasNul(t \o (u \o nl))
      BY <2>2, <2>3, <3>1, HasNulConcat
    <3> QED  BY <1>4, <2>3, <3>2, HasNulConcat
  <2>5. Printed(f) = t
    <3>1. B - 1 \in 0..(B - 1)
      BY <1>3
    <3> QED  BY <1>3, <1>5, <1>6, <2>4, <3>1, PrintedBytes
  <2>6. (stdout \o t) \o (u \o nl) = stdout \o (t \o (u \o nl))
    BY <1>4, <2>2, <2>3, Assoc, Zenon
  <2>7. stdout \o t \in Text
    BY <1>4, <2>2, Closed, Zenon
  <2> QED  BY <1>2, <2>1, <2>2, <2>3, <2>5, <2>6, <2>7, Texts
<1> QED  BY <1>7, <1>8, <1>9 DEF IInv

\* The rest of a text longer than the buffer leaves with its newline; its NUL is
\* stored behind the array when B - 1 bytes are left.
LEMMA FillLastStep ==
  ASSUME IInv, FillLast
  PROVE  IInv'
<1> DEFINE g == IF Len(begin) = B - 1 THEN B ELSE B - 1
           f == Store(Strncpy(Buffer, 0, begin), Len(begin), LineEnd)
           rest == begin \o <<Newline>>
<1>1. Typed /\ Handover /\ Delivered /\ pc = "chunks" /\ match_idx = 0
  BY DEF IInv, Handover, FillLast
<1>2. /\ matches' = f /\ begin' = <<>> /\ pc' \in {"restart", "file"}
      /\ UNCHANGED <<where, pos, end, flush_buffer, asked>>
      /\ stdout' = stdout \o Printed(f) /\ match_idx' = 0 /\ last_match_end' = NULL
      /\ Len(begin) <= B - 1
  BY <1>1 DEF FillLast, Return
<1>3. /\ B - 1 \in Nat /\ Buffer \in Memory(B - 1) /\ begin \in Text /\ Len(begin) \in Nat
      /\ B \in Nat /\ B >= 3 /\ asked \in Text /\ <<Newline>> \in Text
  BY <1>1, Texts, SizeAssumption, BufferIs DEF Typed
<1>4. rest \in Text
  BY <1>3, Closed
<1>5. /\ f \in Memory(g) /\ f[Len(begin)] = Newline /\ f[Len(begin) + 1] = NUL
      /\ ~HasNul(begin) => Bytes(f, Len(begin) + 1) = rest
      /\ g \in Nat /\ Len(begin) + 1 <= g
  <2>1. /\ 0 \in 0..(B - 1) /\ 0 + Len(begin) <= (B - 1) + 1 /\ 0 + Len(begin) = Len(begin)
        /\ 0 + Len(begin) + 1 = Len(begin) + 1
        /\ g \in Nat /\ B - 1 <= g /\ 0 + Len(begin) + 1 <= g /\ (g = B - 1 \/ g = 0 + Len(begin) + 1)
    BY <1>2, <1>3
  <2>2. f = Store(Strncpy(Buffer, 0, begin), 0 + Len(begin), LineEnd)
    BY <2>1
  <2>3. /\ f \in Memory(g) /\ f[0 + Len(begin)] = Newline /\ f[0 + Len(begin) + 1] = NUL
        /\ ~HasNul(begin) => Bytes(f, 0 + Len(begin) + 1) = Bytes(Buffer, 0) \o rest
    <3> HIDE DEF f, g
    <3>1. B - 1 \in Nat /\ Buffer \in Memory(B - 1) /\ begin \in Text
      BY <1>3
    <3> QED  BY <2>1, <2>2, <3>1, FilledBytes
  <2> HIDE DEF f, rest, g
  <2> QED  BY <1>3, <1>4, <2>1, <2>3, BytesNone, Texts
<1> HIDE DEF f
<1>9. Inside'
  <2>1. CASE Len(begin) = B - 1
    <3>1. matches' \in Memory(B) /\ matches'[B - 1] = Newline /\ matches'[B] = NUL /\ match_idx' = 0
      BY <1>2, <1>3, <1>5, <2>1
    <3>2. DOMAIN matches' = 0..B
      BY <3>1 DEF Memory
    <3> QED  BY <3>1, <3>2 DEF Inside, NulBehindArray
  <2>2. CASE Len(begin) # B - 1
    BY <1>2, <1>5, <2>2 DEF Inside
  <2> QED  BY <2>1, <2>2
<1> HIDE DEF g
<1>6. Typed'
  <2>1. /\ mode' = mode /\ file' = file /\ line' = line /\ line_no' = line_no /\ pos' = pos
        /\ end' = end /\ flush_buffer' = flush_buffer /\ asked' = asked
    BY <1>2 DEF where
  <2>2. match_idx' \in 0..(B - 1) /\ last_match_end' \in 0..Len(line) /\ begin' \in Text
    BY <1>1, <1>2, <1>3, Texts DEF Typed, NULL
  <2> QED  BY <1>1, <1>2, <1>9, <2>1, <2>2 DEF Typed
<1>7. Handover'
  BY <1>2 DEF Handover
<1>8. Delivered'
  <2> SUFFICES ASSUME ~HasNul(asked')
               PROVE  stdout' \in Text /\ stdout' \o Stored' \o Outstanding' = asked'
    BY DEF Delivered, HasNul
  <2>1. Stored' = <<>> /\ Stored = <<>> /\ Outstanding = rest /\ Outstanding' = <<>>
    BY <1>1, <1>2, <1>3, <1>5, BytesNone DEF Stored, Bytes, Outstanding
  <2> HIDE DEF rest
  <2>2. stdout \in Text /\ stdout \o rest = asked /\ ~HasNul(asked) /\ asked' = asked
    BY <1>1, <1>2, <2>1, Texts DEF Delivered, HasNul
  <2>3. ~HasNul(rest)
    BY <1>4, <2>2, HasNulConcat
  <2>4. ~HasNul(begin)
    BY <1>3, <2>3, HasNulConcat DEF rest
  <2>5. Printed(f) = rest
    <3>1. Len(begin) + 1 \in 0..g
      BY <1>2, <1>3, <1>5
    <3> QED  BY <1>5, <2>3, <2>4, <3>1, PrintedBytes
  <2> QED  BY <1>2, <1>3, <2>1, <2>2, <2>5, Texts
<1> QED  BY <1>6, <1>7, <1>8 DEF IInv

\* The last flush of a file finds the NUL behind what is stored.
LEMMA CloseFileStep ==
  ASSUME IInv, CloseFile
  PROVE  IInv'
<1>1. Typed /\ Handover /\ Delivered /\ pc = "file"
  BY DEF IInv, CloseFile
<1>2. /\ pc' = "closed" /\ UNCHANGED <<where, pos, matches, begin, end, flush_buffer, asked>>
      /\ match_idx # 0 => stdout' = stdout \o Printed(matches) /\ match_idx' = 0 /\ last_match_end' = NULL
      /\ match_idx = 0 => UNCHANGED <<stdout, match_idx, last_match_end>>
  BY DEF CloseFile, FlushAtClose
<1>3. /\ match_idx \in 0..(B - 1) /\ asked \in Text /\ B \in Nat /\ B >= 3
      /\ match_idx' = 0 /\ Bytes(matches, match_idx) \in Text /\ B - 1 \in Nat
      /\ match_idx # 0 => matches \in Memory(B - 1)
  BY <1>1, <1>2, SizeAssumption, BufferIs DEF Typed
<1>4. Typed'
  <2>1. /\ mode' = mode /\ file' = file /\ line' = line /\ line_no' = line_no /\ pos' = pos
        /\ end' = end /\ flush_buffer' = flush_buffer /\ asked' = asked /\ begin' = begin
        /\ matches' = matches
    BY <1>2 DEF where
  <2>2. match_idx' \in 0..(B - 1) /\ last_match_end' \in 0..Len(line)
    BY <1>1, <1>2, <1>3, Texts, SMTT(30) DEF Typed, NULL
  <2>3. Inside'
    BY <1>1, <1>3, <2>1, InsideStays DEF Typed
  <2> QED  BY <1>1, <1>2, <2>1, <2>2, <2>3 DEF Typed
<1>5. Handover'
  BY <1>2, <1>3 DEF Handover
<1>6. Delivered'
  <2> SUFFICES ASSUME ~HasNul(asked')
               PROVE  stdout' \in Text /\ stdout' \o Stored' \o Outstanding' = asked'
    BY DEF Delivered, HasNul
  <2> DEFINE st == Bytes(matches, match_idx)
  <2>1. Stored = st /\ Outstanding = <<>> /\ Outstanding' = <<>>
    BY <1>1, <1>2 DEF Stored, Bytes, Outstanding
  <2>2. Stored' = <<>>
    BY <1>2, <1>3, BytesNone DEF Stored, Bytes
  <2>3. st \in Text
    BY <1>3
  <2> HIDE DEF st
  <2>4. stdout \in Text /\ stdout \o st = asked /\ ~HasNul(asked) /\ asked' = asked
    BY <1>1, <1>2, <2>1, <2>3, Texts DEF Delivered, HasNul
  <2>5. stdout' = asked
    <3>1. CASE match_idx = 0
      <4>1. st = <<>>
        BY <1>3, <3>1, BytesNone DEF st
      <4> QED  BY <1>2, <2>4, <3>1, <4>1, Texts
    <3>2. CASE match_idx # 0
      <4>1. matches[match_idx] = NUL
        BY <1>1, <3>2 DEF Handover
      <4>2. ~HasNul(st)
        BY <2>3, <2>4, HasNulConcat
      <4>3. Printed(matches) = st
        BY <1>3, <2>3, <3>2, <4>1, <4>2, PrintedBytes DEF st
      <4> QED  BY <1>2, <2>4, <3>2, <4>3
    <3> QED  BY <3>1, <3>2
  <2> QED  BY <1>3, <2>1, <2>2, <2>4, <2>5, Texts
<1> QED  BY <1>4, <1>5, <1>6 DEF IInv

-----------------------------------------------------------------------------
(* The specification.                                                       *)

\* The program starts with an empty buffer and nothing reported.
LEMMA InitIInv == Init => IInv
<1> SUFFICES ASSUME Init PROVE IInv
  OBVIOUS
<1>1. <<>> \in Text /\ Len(<<>>) = 0 /\ B \in Nat /\ B >= 3 /\ NUL \in Byte
  BY Texts, SizeAssumption, BytesAreBytes
<1>2. Inside
  BY <1>1 DEF Init, Inside, Array, Memory
<1>3. Typed
  <2>1. /\ file \in Text /\ line \in Text /\ begin \in Text /\ asked \in Text
        /\ pc = "closed" /\ mode \in Mode /\ flush_buffer \in BOOLEAN /\ line_no \in Nat
    BY <1>1 DEF Init
  <2>2. /\ pos \in 1..(Len(line) + 1) /\ match_idx \in 0..(B - 1)
        /\ last_match_end \in 0..Len(line) /\ end \in 0..Len(line)
    BY <1>1 DEF Init, NULL
  <2> QED  BY <1>2, <2>1, <2>2 DEF Typed
<1>4. Handover
  BY DEF Init, Handover
<1>5. Stored = <<>> /\ Outstanding = <<>> /\ stdout = <<>> /\ asked = <<>>
  BY <1>2, BytesNone DEF Init, Stored, Bytes, Outstanding
<1> QED  BY <1>1, <1>3, <1>4, <1>5, Texts DEF IInv, Delivered

\* Steps that neither store nor print: they keep what is delivered.
LEMMA QuietStep ==
  ASSUME Delivered, UNCHANGED <<matches, match_idx, begin, stdout, asked>>,
         Outstanding' = Outstanding
  PROVE  Delivered'
BY DEF Delivered, Stored, HasNul

\* Every step of the program keeps the invariant.
LEMMA NextIInv == IInv /\ [Next]_vars => IInv'
<1> SUFFICES ASSUME IInv, [Next]_vars PROVE IInv'
  OBVIOUS
<1> USE DEF NULL
<1>1. Typed /\ Handover /\ Delivered
  BY DEF IInv
<1>10. Inside
  BY <1>1 DEF Typed
<1>2. /\ FirstLine - 1 \in Nat /\ Len(line) \in Nat /\ B \in Nat
      /\ \A f \in Files : f \in Text /\ Len(f) # 0
      /\ \A l \in Lines : l \in Text /\ Len(l) \in Nat
  <2>1. \A l \in Lines : l \in Text
    BY BytesAreBytes DEF Text
  <2>2. \A f \in Files : f \in Text /\ Len(f) # 0
    BY BytesAreBytes DEF Text
  <2>3. Len(line) \in Nat
    BY <1>1, Texts DEF Typed
  <2> QED  BY <2>1, <2>2, <2>3, Texts, CountAssumption, SizeAssumption
<1>3. ASSUME NEW f \in Files, OpenFile(f) PROVE IInv'
  <2>0. Inside'
    BY <1>10, <1>3, InsideStays DEF OpenFile, buffer
  <2>1. Typed'
    BY <1>1, <1>2, <1>3, <2>0 DEF Typed, OpenFile, buffer
  <2>2. Handover'
    BY <1>1, <1>3 DEF Handover, OpenFile, buffer
  <2>3. Delivered'
    BY <1>1, <1>3, QuietStep DEF OpenFile, buffer, Outstanding
  <2> QED  BY <2>1, <2>2, <2>3 DEF IInv
<1>4. ASSUME NEW l \in Lines, ReadLine(l) PROVE IInv'
  <2>0. Inside'
    BY <1>10, <1>4, InsideStays DEF ReadLine
  <2>1. Typed'
    BY <1>1, <1>2, <1>4, <2>0 DEF Typed, ReadLine
  <2>2. Handover'
    BY <1>1, <1>4 DEF Handover, ReadLine
  <2>3. Delivered'
    BY <1>1, <1>4, QuietStep DEF ReadLine, Outstanding
  <2> QED  BY <2>1, <2>2, <2>3 DEF IInv
<1>5. CASE LoadStartStates
  <2>0. Inside'
    BY <1>10, <1>5, InsideStays DEF LoadStartStates
  <2>1. Typed'
    BY <1>1, <1>2, <1>5, <2>0 DEF Typed, LoadStartStates, ForgetLastMatch, where
  <2>2. Handover'
    BY <1>1, <1>5 DEF Handover, LoadStartStates, ForgetLastMatch
  <2>3. Delivered'
    BY <1>1, <1>5, QuietStep DEF LoadStartStates, Outstanding
  <2> QED  BY <2>1, <2>2, <2>3 DEF IInv
<1>6. CASE EndLine
  <2>0. Inside'
    BY <1>10, <1>6, InsideStays DEF EndLine, buffer
  <2>1. Typed'
    BY <1>1, <1>6, <2>0 DEF Typed, EndLine, where, buffer
  <2>2. Handover'
    BY <1>1, <1>6 DEF Handover, EndLine, buffer
  <2>3. Delivered'
    BY <1>1, <1>6, QuietStep DEF EndLine, Outstanding, buffer
  <2> QED  BY <2>1, <2>2, <2>3 DEF IInv
<1>7. CASE ReportMatch
  <2>1. PICK s \in pos..Len(line), e \in pos..Len(line) :
          s <= e /\ NewMatch(SubSeq(line, s, e), s, e) /\ pos' = e + 1
    BY <1>7 DEF ReportMatch
  <2>2. pos \in Nat /\ pos >= 1 /\ line \in Text
    BY <1>1, <1>2 DEF Typed
  <2>3. e \in 0..Len(line) /\ pos' \in 1..(Len(line) + 1)
    BY <1>2, <2>1, <2>2
  <2>4. SubSeq(line, s, e) \in Text
    <3>1. \A i \in s..e : line[i] \in Byte
      BY <1>2, <2>1, <2>2 DEF Text
    <3>2. s \in Int /\ e \in Int
      OBVIOUS
    <3> QED  BY <3>1, <3>2, SubSeqProperties DEF Text
  <2>5. pc = "search"
    BY <1>7 DEF ReportMatch
  <2> QED  BY <2>1, <2>3, <2>4, <2>5, NewMatchStep
<1>8. CASE ReportLine
  <2>1. /\ pc = "search" /\ NewMatch(line, 1, Len(line)) /\ pos' = Len(line) + 1
        /\ Len(line) \in 0..Len(line) /\ line \in Text
    BY <1>1, <1>2, <1>8 DEF ReportLine, Typed
  <2>2. pos' \in 1..(Len(line) + 1)
    BY <1>2, <2>1
  <2> QED  BY <2>1, <2>2, NewMatchStep
<1>9. CASE Exit \/ UNCHANGED vars
  <2>1. UNCHANGED vars
    BY <1>9 DEF Exit
  <2>0. Inside'
    BY <1>10, <2>1, InsideStays DEF vars, buffer
  <2>2. Typed'
    BY <1>1, <2>0, <2>1 DEF Typed, vars, where, buffer
  <2>3. Handover'
    BY <1>1, <2>1 DEF Handover, vars, buffer
  <2>4. Delivered'
    BY <1>1, <2>1, QuietStep DEF Outstanding, vars, buffer
  <2> QED  BY <2>2, <2>3, <2>4 DEF IInv
<1> QED  BY <1>3, <1>4, <1>5, <1>6, <1>7, <1>8, <1>9,
            FillFitsStep, FillChunkStep, FillLastStep, CloseFileStep DEF Next

\* The invariant holds in every state of every run of the program's output.
THEOREM SpecIInv == Spec => []IInv
BY InitIInv, NextIInv, PTL DEF Spec

\* new_match and fill_output_buffer store inside matches[], whatever its size and
\* the lengths of names, lines and matches, except for one byte: the NUL of a
\* report of which exactly B - 1 bytes were left is stored behind the array
\* (recognizer.c:232-235), and is flushed at once.
THEOREM TypesHold == Spec => []TypeOK
<1>1. IInv => TypeOK
  <2> SUFFICES ASSUME Typed PROVE TypeOK
    BY DEF IInv
  <2>1. DOMAIN matches = Array \/ NulBehindArray
    BY DEF Typed, Inside, Memory, Array
  <2> QED  BY <2>1 DEF Typed, TypeOK
<1> QED  BY <1>1, SpecIInv, PTL

\* What was printed, what is buffered and what the current report still has to
\* store are together the reports, byte by byte.
THEOREM OutputIsComplete == Spec => []OutputComplete
<1>1. IInv => OutputComplete
  BY DEF IInv, Delivered, OutputComplete
<1> QED  BY <1>1, SpecIInv, PTL

\* When process_file returns, all that was reported from the file is printed.
THEOREM FilesAreFlushed == Spec => []FileFlushed
<1>1. IInv => FileFlushed
  <2> SUFFICES ASSUME IInv, pc = "closed" PROVE match_idx = 0 /\ (HasNul(asked) \/ stdout = asked)
    BY DEF FileFlushed
  <2>1. match_idx = 0
    BY DEF IInv, Handover
  <2>2. Stored = <<>> /\ Outstanding = <<>>
    BY <2>1, BytesNone DEF Stored, Bytes, Outstanding
  <2> QED  BY <2>1, <2>2, Texts DEF IInv, Delivered
<1> QED  BY <1>1, SpecIInv, PTL
=============================================================================
