----------------------------- MODULE MainProofs -----------------------------
(***************************************************************************)
(* Proofs about Main: getopt's exchanges bring the options in front of the *)
(* words in their order; the walk visits the files below the targets, one  *)
(* after the other; so exit status and output are what the help text says, *)
(* for every tree and every command line that Usual admits, the output if  *)
(* no empty line is asked for.                                             *)
(***************************************************************************)
EXTENDS Main, Induction

-----------------------------------------------------------------------------
(* Sequences.                                                               *)

\* Two sequences with the same length and the same entries are the same.
LEMMA SameEntries ==
  ASSUME NEW S, NEW T, NEW s \in Seq(S), NEW t \in Seq(T), Len(s) = Len(t),
         \A i \in 1..Len(s) : s[i] = t[i]
  PROVE  s = t
OBVIOUS

\* Where the entries of a concatenation come from.
LEMMA Concatenation ==
  ASSUME NEW S, NEW s \in Seq(S), NEW t \in Seq(S)
  PROVE  /\ s \o t \in Seq(S) /\ Len(s \o t) = Len(s) + Len(t)
         /\ \A i \in 1..Len(s) : (s \o t)[i] = s[i]
         /\ \A i \in 1..Len(t) : (s \o t)[Len(s) + i] = t[i]
OBVIOUS

\* u has the entries of s and then those of t.
Joins(u, s, t) ==
  /\ Len(u) = Len(s) + Len(t)
  /\ \A i \in 1..Len(s) : u[i] = s[i]
  /\ \A i \in 1..Len(t) : u[Len(s) + i] = t[i]

\* A concatenation does.
LEMMA ConcatenationJoins ==
  ASSUME NEW S, NEW s \in Seq(S), NEW t \in Seq(S)
  PROVE  s \o t \in Seq(S) /\ Joins(s \o t, s, t)
BY DEF Joins

\* What its entries say a sequence is over.
LEMMA SeqOver ==
  ASSUME NEW S, NEW T, NEW s \in Seq(S), \A i \in 1..Len(s) : s[i] \in T
  PROVE  s \in Seq(T)
OBVIOUS

\* What has the entries of two sequences is their concatenation.
LEMMA IsConcatenation ==
  ASSUME NEW S, NEW s \in Seq(S), NEW t \in Seq(S), NEW u \in Seq(S), Joins(u, s, t)
  PROVE  u = s \o t
<1> USE DEF Joins
<1>1. /\ s \o t \in Seq(S) /\ Len(s \o t) = Len(s) + Len(t) /\ Len(s) \in Nat /\ Len(t) \in Nat
      /\ \A i \in 1..Len(s) : (s \o t)[i] = s[i]
      /\ \A i \in 1..Len(t) : (s \o t)[Len(s) + i] = t[i]
  OBVIOUS
<1>2. ASSUME NEW i \in 1..Len(u) PROVE u[i] = (s \o t)[i]
  <2>1. CASE i <= Len(s)
    BY <2>1, <1>1
  <2>2. CASE i > Len(s)
    <3> DEFINE j == i - Len(s)
    <3>1. j \in 1..Len(t) /\ Len(s) + j = i
      BY <2>2, <1>1
    <3> HIDE DEF j
    <3>2. u[Len(s) + j] = (s \o t)[Len(s) + j]
      BY <3>1, <1>1
    <3> QED  BY <3>1, <3>2
  <2> QED  BY <2>1, <2>2, <1>1
<1> QED  BY <1>1, <1>2, SameEntries

\* Concatenation is associative and has <<>> as its unit.
LEMMA Associative ==
  ASSUME NEW S, NEW s \in Seq(S), NEW t \in Seq(S), NEW u \in Seq(S)
  PROVE  (s \o t) \o u = s \o (t \o u) /\ s \o <<>> = s /\ <<>> \o s = s
OBVIOUS

\* The only sequence without entries.
LEMMA EmptySequence ==
  ASSUME NEW S, NEW s \in Seq(S), Len(s) = 0
  PROVE  s = <<>>
OBVIOUS

\* Appending to a concatenation appends to its last part.
LEMMA ConcatenationAppend ==
  ASSUME NEW S, NEW s \in Seq(S), NEW t \in Seq(S), NEW x \in S
  PROVE  s \o Append(t, x) = Append(s \o t, x)
OBVIOUS

\* Concatenating a sequence of sequences, by recursion on its length.
Flattened(S, s, f) ==
  /\ f \in [1..Len(s) -> Seq(S)]
  /\ \A i \in 1..Len(s) : f[i] = IF i = 1 THEN s[i] ELSE f[i - 1] \o s[i]

\* FlattenSeq is that recursion's last value.
LEMMA FlattenDefined ==
  ASSUME NEW S, NEW s \in Seq(Seq(S)), Len(s) # 0
  PROVE  \E f : Flattened(S, s, f) /\ FlattenSeq(s) = f[Len(s)]
<1> DEFINE n == Len(s)
           D == 1..n
           Q == Seq(S)
           mu == [i \in D |-> i]
           H == [p \in D \X [D -> Q] |-> IF p[1] = 1 THEN s[p[1]] ELSE p[2][p[1] - 1] \o s[p[1]]]
           g == CHOOSE g : g = [i \in D |-> IF i = 1 THEN s[i] ELSE g[i - 1] \o s[i]]
<1>1. n \in Nat /\ \A i \in D : i \in Nat /\ s[i] \in Q /\ (i # 1 => i - 1 \in D)
  OBVIOUS
<1>2. Recursive(D, Q, mu, H)
  <2>1. Q # {} /\ mu \in [D -> Nat]
    <3>1. <<>> \in Q
      OBVIOUS
    <3> QED  BY <3>1, <1>1
  <2>2. H \in [D \X [D -> Q] -> Q]
    <3> SUFFICES ASSUME NEW i \in D, NEW h \in [D -> Q]
                 PROVE  (IF i = 1 THEN s[i] ELSE h[i - 1] \o s[i]) \in Q
      OBVIOUS
    <3>1. i # 1 => h[i - 1] \in Q
      BY <1>1
    <3>2. \A a, b \in Q : a \o b \in Q
      OBVIOUS
    <3> HIDE DEF D, Q, n
    <3> QED  BY <1>1, <3>1, <3>2
  <2>3. ASSUME NEW d \in D, NEW a \in [D -> Q], NEW b \in [D -> Q],
               \A e \in D : mu[e] < mu[d] => a[e] = b[e]
        PROVE  H[<<d, a>>] = H[<<d, b>>]
    <3>1. d # 1 => a[d - 1] = b[d - 1]
      BY <1>1, <2>3
    <3>2. /\ H[<<d, a>>] = IF d = 1 THEN s[d] ELSE a[d - 1] \o s[d]
          /\ H[<<d, b>>] = IF d = 1 THEN s[d] ELSE b[d - 1] \o s[d]
      OBVIOUS
    <3> HIDE DEF H
    <3> QED  BY <3>1, <3>2
  <2> HIDE DEF D, Q, mu, H
  <2> QED  BY <2>1, <2>2, <2>3 DEF Recursive
<1>3. PICK f \in [D -> Q] : Follows(f, D, H)
  <2> HIDE DEF D, Q, mu, H
  <2> QED  BY <1>2, Recursion
<1>4. \A i \in D : f[i] = IF i = 1 THEN s[i] ELSE f[i - 1] \o s[i]
  BY <1>3 DEF Follows
<1>5. f = [i \in D |-> IF i = 1 THEN s[i] ELSE f[i - 1] \o s[i]]
  <2> HIDE DEF Q, D
  <2> QED  BY <1>3, <1>4
<1>6. g = [i \in D |-> IF i = 1 THEN s[i] ELSE g[i - 1] \o s[i]]
  BY <1>5
<1>7. FlattenSeq(s) = g[n]
  BY DEF FlattenSeq
<1> HIDE DEF g
<1>8. \A i \in D : g[i] = IF i = 1 THEN s[i] ELSE g[i - 1] \o s[i]
  BY <1>6
<1>9. \A i \in Nat : i \in D => g[i] \in Q
  <2> DEFINE P == {i \in Nat : i \in D => g[i] \in Q}
  <2>1. 0 \in P
    OBVIOUS
  <2>2. ASSUME NEW i \in P PROVE i + 1 \in P
    <3> SUFFICES ASSUME i + 1 \in D PROVE g[i + 1] \in Q
      OBVIOUS
    <3>1. CASE i = 0
      <4>1. g[1] = s[1]
        BY <3>1, <1>8
      <4> QED  BY <4>1, <3>1, <1>1
    <3>2. CASE i # 0
      <4>1. i \in D /\ g[i] \in Q /\ (i + 1) - 1 = i
        BY <3>2
      <4>2. g[i + 1] = g[i] \o s[i + 1]
        <5> DEFINE j == i + 1
        <5>1. j \in D /\ j # 1 /\ j - 1 = i
          BY <3>2
        <5> HIDE DEF j, D, Q
        <5>2. g[j] = g[j - 1] \o s[j]
          BY <5>1, <1>8
        <5> QED  BY <5>1, <5>2 DEF j
      <4> QED  BY <4>1, <4>2, <1>1
    <3> QED  BY <3>1, <3>2
  <2> HIDE DEF P
  <2>3. \A i \in Nat : i \in P
    BY <2>1, <2>2, SetInduction DEF P
  <2> QED  BY <2>3 DEF P
<1>10. g \in [D -> Q]
  <2>1. \A i \in D : g[i] \in Q
    BY <1>9, <1>1
  <2> HIDE DEF D, Q
  <2> QED  BY <1>6, <2>1
<1>11. Flattened(S, s, g)
  BY <1>8, <1>10 DEF Flattened
<1> QED  BY <1>7, <1>11

\* What is concatenated is a sequence.
LEMMA FlattenType ==
  ASSUME NEW S, NEW s \in Seq(Seq(S))
  PROVE  FlattenSeq(s) \in Seq(S) /\ (Len(s) = 0 => FlattenSeq(s) = <<>>)
<1>1. CASE Len(s) = 0
  <2>1. s = <<>>
    BY <1>1, EmptySequence
  <2>2. FlattenSeq(s) = s
    BY <1>1 DEF FlattenSeq
  <2>3. <<>> \in Seq(S)
    OBVIOUS
  <2>4. FlattenSeq(s) = <<>>
    BY <2>1, <2>2, Zenon
  <2> QED  BY <2>3, <2>4, Zenon
<1>2. CASE Len(s) # 0
  <2>1. PICK f : Flattened(S, s, f) /\ FlattenSeq(s) = f[Len(s)]
    BY <1>2, FlattenDefined
  <2>2. Len(s) \in 1..Len(s)
    BY <1>2
  <2> QED  BY <2>1, <2>2, <1>2 DEF Flattened
<1> QED  BY <1>1, <1>2

\* One sequence more.
LEMMA FlattenAppend ==
  ASSUME NEW S, NEW s \in Seq(Seq(S)), NEW x \in Seq(S)
  PROVE  FlattenSeq(Append(s, x)) = FlattenSeq(s) \o x
<1> DEFINE t == Append(s, x)
           n == Len(s)
<1>1. /\ t \in Seq(Seq(S)) /\ n \in Nat /\ Len(t) = n + 1 /\ t[n + 1] = x
      /\ \A i \in 1..n : t[i] = s[i]
  OBVIOUS
<1>2. PICK g : Flattened(S, t, g) /\ FlattenSeq(t) = g[n + 1]
  <2> HIDE DEF t, n
  <2> QED  BY <1>1, FlattenDefined
<1>3. CASE n = 0
  <2>1. FlattenSeq(s) = <<>>
    BY <1>3, FlattenType
  <2>2. g[1] = t[1]
    <3> HIDE DEF t, n
    <3> QED  BY <1>1, <1>2, <1>3 DEF Flattened
  <2>3. FlattenSeq(t) = x
    <3> HIDE DEF t, n
    <3> QED  BY <1>1, <1>2, <1>3, <2>2
  <2> QED  BY <2>1, <2>3
<1>4. CASE n # 0
  <2>1. PICK f : Flattened(S, s, f) /\ FlattenSeq(s) = f[n]
    BY <1>4, FlattenDefined
  <2> HIDE DEF t, n
  <2> DEFINE P == {i \in Nat : i \in 1..n => f[i] = g[i]}
  <2>2. 0 \in P
    OBVIOUS
  <2>3. ASSUME NEW i \in P PROVE i + 1 \in P
    <3> SUFFICES ASSUME i + 1 \in 1..n PROVE f[i + 1] = g[i + 1]
      OBVIOUS
    <3> DEFINE j == i + 1
    <3>1. j \in 1..n /\ j \in 1..(n + 1) /\ j - 1 = i /\ (j # 1 => i \in 1..n)
      BY <1>1
    <3>2. j # 1 => f[i] = g[i]
      BY <3>1
    <3> HIDE DEF j, P
    <3>3. f[j] = IF j = 1 THEN s[j] ELSE f[j - 1] \o s[j]
      BY <3>1, <2>1 DEF Flattened, n
    <3>4. g[j] = IF j = 1 THEN t[j] ELSE g[j - 1] \o t[j]
      BY <3>1, <1>1, <1>2 DEF Flattened
    <3>5. f[j] = g[j]
      BY <3>1, <3>2, <3>3, <3>4, <1>1
    <3> QED  BY <3>5 DEF j
  <2> HIDE DEF P
  <2>4. \A i \in Nat : i \in P
    BY <2>2, <2>3, SetInduction DEF P
  <2>5. f[n] = g[n]
    <3>1. n \in P /\ n \in 1..n
      BY <2>4, <1>1, <1>4
    <3> QED  BY <3>1 DEF P
  <2>6. g[n + 1] = g[n] \o x
    <3> DEFINE j == n + 1
    <3>1. j \in 1..(n + 1) /\ j # 1 /\ j - 1 = n
      BY <1>1, <1>4
    <3> HIDE DEF j
    <3>2. g[j] = g[j - 1] \o t[j]
      BY <3>1, <1>1, <1>2 DEF Flattened
    <3>3. t[j] = x
      BY <1>1 DEF j
    <3> QED  BY <3>1, <3>2, <3>3 DEF j
  <2> QED  BY <1>2, <2>1, <2>5, <2>6 DEF t
<1> QED  BY <1>3, <1>4

\* Concatenating is a homomorphism.
LEMMA FlattenConcatenation ==
  ASSUME NEW S, NEW s \in Seq(Seq(S)), NEW t \in Seq(Seq(S))
  PROVE  FlattenSeq(s \o t) = FlattenSeq(s) \o FlattenSeq(t)
<1> DEFINE Q == Seq(S)
           P == {n \in Nat : \A u \in Seq(Q) : Len(u) = n
                               => FlattenSeq(s \o u) = FlattenSeq(s) \o FlattenSeq(u)}
<1>1. 0 \in P
  <2> SUFFICES ASSUME NEW u \in Seq(Q), Len(u) = 0
               PROVE  FlattenSeq(s \o u) = FlattenSeq(s) \o FlattenSeq(u)
    OBVIOUS
  <2>1. s \o u = s
    OBVIOUS
  <2>2. FlattenSeq(u) = <<>> /\ FlattenSeq(s) \in Seq(S)
    BY FlattenType
  <2>3. FlattenSeq(s) \o <<>> = FlattenSeq(s)
    BY <2>2
  <2> QED  BY <2>1, <2>2, <2>3
<1>2. ASSUME NEW n \in P PROVE n + 1 \in P
  <2> SUFFICES ASSUME NEW u \in Seq(Q), Len(u) = n + 1
               PROVE  FlattenSeq(s \o u) = FlattenSeq(s) \o FlattenSeq(u)
    OBVIOUS
  <2> DEFINE v == SubSeq(u, 1, n)
             x == u[n + 1]
  <2>1. n \in Nat /\ n + 1 \in 1..Len(u)
    OBVIOUS
  <2>2. v \in Seq(Q) /\ Len(v) = n /\ x \in Q
    BY <2>1
  <2>3. u = Append(v, x)
    BY <2>1, <2>2
  <2>4. s \o u = Append(s \o v, x) /\ s \o v \in Seq(Q)
    <3> HIDE DEF v, x, Q
    <3>1. s \in Seq(Q)
      BY DEF Q
    <3>2. s \o Append(v, x) = Append(s \o v, x)
      BY <2>2, <3>1, ConcatenationAppend
    <3>3. s \o v \in Seq(Q)
      BY <2>2, <3>1
    <3> QED  BY <2>3, <3>2, <3>3
  <2>5. FlattenSeq(s \o v) = FlattenSeq(s) \o FlattenSeq(v)
    BY <2>2
  <2>6. FlattenSeq(s \o u) = FlattenSeq(s \o v) \o x
    <3> HIDE DEF v, x
    <3> QED  BY <2>2, <2>4, FlattenAppend
  <2>7. FlattenSeq(u) = FlattenSeq(v) \o x
    <3> HIDE DEF v, x
    <3> QED  BY <2>2, <2>3, FlattenAppend
  <2>8. FlattenSeq(s) \in Seq(S) /\ FlattenSeq(v) \in Seq(S)
    <3> HIDE DEF v, x
    <3> QED  BY <2>2, FlattenType
  <2>9. (FlattenSeq(s) \o FlattenSeq(v)) \o x = FlattenSeq(s) \o (FlattenSeq(v) \o x)
    <3>1. \A a, b, c \in Seq(S) : (a \o b) \o c = a \o (b \o c)
      BY Associative, SMTT(40)
    <3>2. x \in Seq(S)
      BY <2>2
    <3> HIDE DEF v, x
    <3> QED  BY <2>8, <3>1, <3>2
  <2> HIDE DEF v, x
  <2> QED  BY <2>5, <2>6, <2>7, <2>9
<1> HIDE DEF P
<1>3. \A n \in Nat : n \in P
  BY <1>1, <1>2, SetInduction DEF P
<1>4. Len(t) \in P
  BY <1>3
<1> QED  BY <1>4 DEF P

\* One sequence alone, and one in front.
LEMMA FlattenCons ==
  ASSUME NEW S, NEW x \in Seq(S), NEW s \in Seq(Seq(S))
  PROVE  FlattenSeq(<<x>>) = x /\ FlattenSeq(<<x>> \o s) = x \o FlattenSeq(s)
<1>1. <<>> \in Seq(Seq(S)) /\ <<x>> = Append(<<>>, x) /\ <<x>> \in Seq(Seq(S))
  OBVIOUS
<1>2. FlattenSeq(<<>>) = <<>>
  BY <1>1, FlattenType
<1>3. FlattenSeq(<<x>>) = <<>> \o x
  BY <1>1, <1>2, FlattenAppend
<1>4. <<>> \o x = x
  OBVIOUS
<1>5. FlattenSeq(<<x>> \o s) = FlattenSeq(<<x>>) \o FlattenSeq(s)
  BY <1>1, FlattenConcatenation
<1> QED  BY <1>3, <1>4, <1>5

-----------------------------------------------------------------------------
(* What the help text promises.                                             *)

\* The kinds are those of the names, and only directories have entries.
LEMMA Kinded ==
  ASSUME NEW f \in Name
  PROVE  /\ Kind[f] \in Kinds
         /\ Kind[f] \in {"directory", "closed"} => f \in DOMAIN Entries /\ Entries[f] \in Seq(Name)
         /\ Kind[f] = "file" => f \in DOMAIN Content
BY NameAssumption DEF Name

\* A sequence of results, one for each entry of a sequence.
LEMMA MapType ==
  ASSUME NEW S, NEW T, NEW s \in Seq(S), NEW f, \A i \in 1..Len(s) : f[s[i]] \in T
  PROVE  /\ [i \in DOMAIN s |-> f[s[i]]] \in Seq(T)
         /\ Len([i \in DOMAIN s |-> f[s[i]]]) = Len(s)
OBVIOUS

FileName == {f \in Name : Kind[f] = "file"}

\* The walk ends, because every step down adds a directory to those above: the
\* function that FilesBelow defines by recursion exists.
LEMMA WalkDefined ==
  ASSUME NEW c, NEW f \in Name, NEW above \in SUBSET Name
  PROVE  /\ FilesBelow(c)[<<f, above>>] \in Seq(FileName)
         /\ FilesBelow(c)[<<f, above>>] = Descent(c, f, above, FilesBelow(c))
<1> DEFINE D == Name \X SUBSET Name
           Q == Seq(FileName)
           mu == [d \in D |-> Cardinality(Name \ d[2])]
           H == [p \in D \X [D -> Q] |-> Descent(c, p[1][1], p[1][2], p[2])]
<1>1. mu \in [D -> Nat]
  <2> SUFFICES ASSUME NEW d \in D PROVE Cardinality(Name \ d[2]) \in Nat
    OBVIOUS
  <2>1. IsFiniteSet(Name)
    BY NameAssumption DEF Name
  <2>2. IsFiniteSet(Name \ d[2])
    BY <2>1, FS_Difference
  <2> QED  BY <2>2, FS_CardinalityType
<1>2. ASSUME NEW a \in Name, NEW b \in SUBSET Name, a \notin b
      PROVE  b \cup {a} \in SUBSET Name
             /\ Cardinality(Name \ (b \cup {a})) < Cardinality(Name \ b)
  <2>1. IsFiniteSet(Name)
    BY NameAssumption DEF Name
  <2>2. IsFiniteSet(Name \ b)
    BY <2>1, FS_Difference
  <2>3. Name \ (b \cup {a}) = (Name \ b) \ {a} /\ a \in Name \ b
    BY <1>2
  <2>4. Cardinality((Name \ b) \ {a}) = Cardinality(Name \ b) - 1 /\ Cardinality(Name \ b) \in Nat
    BY <2>2, <2>3, FS_RemoveElement, FS_CardinalityType
  <2> QED  BY <2>3, <2>4
<1>3. ASSUME NEW a \in Name, NEW b \in SUBSET Name, NEW h \in [D -> Q]
      PROVE  Descent(c, a, b, h) \in Q
  <2>1. CASE Kind[a] = "file"
    <3>1. <<a>> \in Q
      BY <2>1 DEF FileName
    <3> HIDE DEF Q
    <3> QED  BY <2>1, <3>1 DEF Descent
  <2>2. CASE Kind[a] = "directory" /\ Asked(c, "-r") /\ a \notin b
    <3> DEFINE g == [x \in Name |-> h[<<x, b \cup {a}>>]]
    <3>1. Entries[a] \in Seq(Name)
      BY <2>2, Kinded
    <3>2. \A x \in Name : <<x, b \cup {a}>> \in D /\ g[x] \in Q
      BY <1>3
    <3>3. \A i \in 1..Len(Entries[a]) : Entries[a][i] \in Name /\ g[Entries[a][i]] \in Q
      <4> SUFFICES ASSUME NEW i \in 1..Len(Entries[a])
                   PROVE  Entries[a][i] \in Name /\ g[Entries[a][i]] \in Q
        OBVIOUS
      <4>1. Entries[a][i] \in Name
        BY <3>1
      <4> HIDE DEF g, Q, D
      <4> QED  BY <4>1, <3>2
    <3>4. [i \in DOMAIN Entries[a] |-> g[Entries[a][i]]] \in Seq(Q)
      <4> HIDE DEF g, Q
      <4> QED  BY <3>1, <3>3, MapType
    <3>5. [i \in DOMAIN Entries[a] |-> g[Entries[a][i]]]
          = [i \in DOMAIN Entries[a] |-> h[<<Entries[a][i], b \cup {a}>>]]
      BY <3>1, <3>3
    <3>6. FlattenSeq([i \in DOMAIN Entries[a] |-> h[<<Entries[a][i], b \cup {a}>>]]) \in Q
      <4> HIDE DEF g
      <4> QED  BY <3>4, <3>5, FlattenType
    <3>7. Descent(c, a, b, h) = FlattenSeq([i \in DOMAIN Entries[a] |-> h[<<Entries[a][i], b \cup {a}>>]])
      BY <2>2 DEF Descent
    <3> HIDE DEF Q
    <3> QED  BY <3>6, <3>7
  <2>3. CASE Kind[a] # "file" /\ ~(Kind[a] = "directory" /\ Asked(c, "-r") /\ a \notin b)
    <3>1. Descent(c, a, b, h) = <<>>
      BY <2>3 DEF Descent
    <3>2. <<>> \in Q
      OBVIOUS
    <3> QED  BY <3>1, <3>2
  <2> QED  BY <2>1, <2>2, <2>3
<1>4. ASSUME NEW a \in Name, NEW b \in SUBSET Name, NEW g, NEW h,
             \A e \in D : mu[e] < mu[<<a, b>>] => g[e] = h[e]
      PROVE  Descent(c, a, b, g) = Descent(c, a, b, h)
  <2>1. CASE Kind[a] = "directory" /\ Asked(c, "-r") /\ a \notin b
    <3>1. Entries[a] \in Seq(Name)
      BY <2>1, Kinded
    <3>2. ASSUME NEW x \in Name PROVE g[<<x, b \cup {a}>>] = h[<<x, b \cup {a}>>]
      <4>1. <<x, b \cup {a}>> \in D /\ <<a, b>> \in D
        OBVIOUS
      <4>2. mu[<<x, b \cup {a}>>] = Cardinality(Name \ (b \cup {a})) /\ mu[<<a, b>>] = Cardinality(Name \ b)
        BY <4>1
      <4> HIDE DEF mu, D
      <4> QED  BY <4>1, <4>2, <1>2, <1>4, <2>1
    <3>3. \A i \in DOMAIN Entries[a] : g[<<Entries[a][i], b \cup {a}>>] = h[<<Entries[a][i], b \cup {a}>>]
      BY <3>1, <3>2
    <3>4. [i \in DOMAIN Entries[a] |-> g[<<Entries[a][i], b \cup {a}>>]]
          = [i \in DOMAIN Entries[a] |-> h[<<Entries[a][i], b \cup {a}>>]]
      BY <3>3
    <3>5. /\ Descent(c, a, b, g) = FlattenSeq([i \in DOMAIN Entries[a] |-> g[<<Entries[a][i], b \cup {a}>>]])
          /\ Descent(c, a, b, h) = FlattenSeq([i \in DOMAIN Entries[a] |-> h[<<Entries[a][i], b \cup {a}>>]])
      BY <2>1 DEF Descent
    <3> QED  BY <3>4, <3>5
  <2>2. CASE ~(Kind[a] = "directory" /\ Asked(c, "-r") /\ a \notin b)
    BY <2>2 DEF Descent
  <2> QED  BY <2>1, <2>2
<1>5. Recursive(D, Q, mu, H)
  <2>1. <<>> \in Q
    OBVIOUS
  <2>2. H \in [D \X [D -> Q] -> Q]
    <3> SUFFICES ASSUME NEW p \in D \X [D -> Q] PROVE Descent(c, p[1][1], p[1][2], p[2]) \in Q
      BY Zenon
    <3>1. p[1][1] \in Name /\ p[1][2] \in SUBSET Name /\ p[2] \in [D -> Q]
      OBVIOUS
    <3> QED  BY <3>1, <1>3
  <2>3. ASSUME NEW d \in D, NEW g \in [D -> Q], NEW h \in [D -> Q],
               \A e \in D : mu[e] < mu[d] => g[e] = h[e]
        PROVE  H[<<d, g>>] = H[<<d, h>>]
    <3>1. d[1] \in Name /\ d[2] \in SUBSET Name /\ d = <<d[1], d[2]>>
      OBVIOUS
    <3>2. H[<<d, g>>] = Descent(c, d[1], d[2], g) /\ H[<<d, h>>] = Descent(c, d[1], d[2], h)
      OBVIOUS
    <3> HIDE DEF H, mu, D
    <3> QED  BY <3>1, <3>2, <2>3, <1>4
  <2> HIDE DEF D, Q, mu, H
  <2> QED  BY <2>1, <2>2, <2>3, <1>1 DEF Recursive
<1>6. PICK g \in [D -> Q] : Follows(g, D, H)
  <2> HIDE DEF D, Q, mu, H
  <2> QED  BY <1>5, Recursion
<1>7. g = [d \in D |-> Descent(c, d[1], d[2], g)]
  <2>1. ASSUME NEW d \in D PROVE g[d] = Descent(c, d[1], d[2], g)
    <3>1. H[<<d, g>>] = Descent(c, d[1], d[2], g)
      OBVIOUS
    <3> HIDE DEF H, D
    <3> QED  BY <1>6, <3>1 DEF Follows
  <2> HIDE DEF D
  <2> QED  BY <1>6, <2>1
<1>10. FilesBelow(c) = [d \in D |-> Descent(c, d[1], d[2], FilesBelow(c))]
  BY <1>7 DEF FilesBelow
<1>11. \A d \in D : FilesBelow(c)[d] = Descent(c, d[1], d[2], FilesBelow(c))
  <2> HIDE DEF D
  <2> QED  BY <1>10
<1>12. \A d \in D : FilesBelow(c)[d] = g[d]
  <2> DEFINE P == {n \in Nat : \A d \in D : mu[d] = n => FilesBelow(c)[d] = g[d]}
  <2>1. ASSUME NEW n \in Nat, \A k \in 0..(n - 1) : k \in P PROVE n \in P
    <3> SUFFICES ASSUME NEW d \in D, mu[d] = n PROVE FilesBelow(c)[d] = g[d]
      OBVIOUS
    <3>1. d[1] \in Name /\ d[2] \in SUBSET Name /\ d = <<d[1], d[2]>>
      OBVIOUS
    <3>2. ASSUME NEW e \in D, mu[e] < mu[d] PROVE FilesBelow(c)[e] = g[e]
      <4> HIDE DEF mu, D
      <4>1. mu[e] \in Nat /\ mu[e] < n
        BY <1>1, <3>2
      <4>2. mu[e] \in 0..(n - 1)
        BY <4>1
      <4> QED  BY <4>2, <2>1
    <3> HIDE DEF mu, D, P
    <3>3. Descent(c, d[1], d[2], FilesBelow(c)) = Descent(c, d[1], d[2], g)
      <4> DEFINE a == d[1]
                 b == d[2]
      <4>1. a \in Name /\ b \in SUBSET Name /\ \A e \in D : mu[e] < mu[<<a, b>>] => FilesBelow(c)[e] = g[e]
        BY <3>1, <3>2
      <4> HIDE DEF a, b
      <4>2. Descent(c, a, b, FilesBelow(c)) = Descent(c, a, b, g)
        BY <4>1, <1>4, ZenonT(40)
      <4> QED  BY <4>2 DEF a, b
    <3>4. g[d] = Descent(c, d[1], d[2], g)
      BY <1>7
    <3> QED  BY <3>3, <3>4, <1>11
  <2> HIDE DEF P
  <2>2. \A n \in Nat : n \in P
    BY <2>1, StrongInduction
  <2> SUFFICES ASSUME NEW d \in D PROVE FilesBelow(c)[d] = g[d]
    OBVIOUS
  <2>3. mu[d] \in P
    <3> HIDE DEF mu, D
    <3> QED  BY <2>2, <1>1
  <2> QED  BY <2>3 DEF P
<1>13. <<f, above>> \in D
  OBVIOUS
<1>14. FilesBelow(c)[<<f, above>>] \in Q
  <2> HIDE DEF D, Q
  <2> QED  BY <1>6, <1>12, <1>13
<1>15. FilesBelow(c)[<<f, above>>] = Descent(c, f, above, FilesBelow(c))
  <2> DEFINE d == <<f, above>>
  <2>1. d \in D /\ d[1] = f /\ d[2] = above
    BY <1>13
  <2> HIDE DEF d, D
  <2>2. FilesBelow(c)[d] = Descent(c, f, above, FilesBelow(c))
    BY <2>1, <1>11
  <2> QED  BY <2>2 DEF d
<1> QED  BY <1>14, <1>15

-----------------------------------------------------------------------------
(* The inductive invariant.                                                 *)

\* The argument vector when p options stand before the words.
Permuted(c, p) == SubSeq(Opts(c), 1, p) \o Words(c) \o SubSeq(Opts(c), p + 1, Len(Opts(c)))

AskedBefore(c, o, k) == \E i \in 1..k : c.flags[i] = o

\* The options mean what the first k flags say.
FlagsRead(c, k) ==
  /\ cfl \in [line : BOOLEAN, invert : BOOLEAN, silent : BOOLEAN, name : BOOLEAN]
  /\ recurse_dirs \in BOOLEAN
  /\ cfl.line <=> ~(AskedBefore(c, "-o", k) \/ AskedBefore(c, "-v", k))
  /\ cfl.invert <=> AskedBefore(c, "-v", k)
  /\ cfl.silent <=> AskedBefore(c, "-q", k)
  /\ cfl.name <=> AskedBefore(c, "-F", k) \/ AskedBefore(c, "-r", k)
  /\ recurse_dirs <=> AskedBefore(c, "-r", k)

\* Where the words of argv are when getopt has read its first d options.  If the
\* words come first, an exchange puts them behind the option read before.
Exchanged(c, d) ==
  /\ nonopts \in [first : Nat, last : Nat]
  /\ c.wordsFirst /\ d > 0 =>
       /\ argv = Permuted(c, d - 1) /\ optind = d + Len(Words(c)) + 1
       /\ nonopts.first = d /\ nonopts.last = d + Len(Words(c))
  /\ c.wordsFirst /\ d = 0 =>
       argv = Permuted(c, 0) /\ optind = 1 /\ nonopts.first = 1 /\ nonopts.last = 1
  /\ ~c.wordsFirst =>
       /\ argv = Permuted(c, Len(Opts(c))) /\ optind = d + 1
       /\ nonopts.first = nonopts.last /\ nonopts.first \in 1..optind

OptionsRead(c) ==
  \E d \in 0..Len(c.flags) \cup {Len(Opts(c))} :
    /\ FlagsRead(c, IF d <= Len(c.flags) THEN d ELSE Len(c.flags))
    /\ Exchanged(c, d)
    /\ pattern_file_idx = IF d > Len(c.flags) THEN d ELSE 0

\* Every option has been read, and stands before every word.
Ready(c) ==
  /\ FlagsRead(c, Len(c.flags))
  /\ argv = Permuted(c, Len(Opts(c))) /\ optind = Len(Opts(c)) + 1
  /\ pattern_file_idx = IF c.by = "file" THEN Len(Opts(c)) ELSE 0

\* Where the first target is then.
FirstPlace(c) == Len(Opts(c)) + 1 + (IF c.by = "word" THEN 1 ELSE 0)

Untouched == entries = <<>> /\ status = 0 /\ matches = <<>> /\ stdout = <<>>

\* What fts has still to return: fresh entries, and directories it could not read.
EntryRec ==
  {e \in [name : Name, above : SUBSET Name, info : Kinds \cup {"unread"}] :
     \/ e.info = Kind[e.name]
     \/ e.info = "unread" /\ Kind[e.name] = "closed"}

Report == [label : Name \cup {NULL}, line : STRING]

\* The results for the entries of a sequence, and their concatenation.
Map(f, s) == [i \in DOMAIN s |-> f[s[i]]]
Flat(f, s) == FlattenSeq(Map(f, s))

\* What the program shows of a line, of a file and of all: no empty line.
LineGiven(c, f, l) == IF l = Blank THEN <<>> ELSE ShownLine(c, f, l)
Given(c, f) == FlattenSeq([i \in DOMAIN Content[f] |-> LineGiven(c, f, Content[f][i])])
AllGiven(c) == FlattenSeq([i \in DOMAIN Files(c) |-> Given(c, Files(c)[i])])

OfTarget(c) == [t \in Name \cup {"-"} |-> TargetFiles(c, t)]
OfEntry(c) == [e \in EntryRec |-> FilesBelow(c)[<<e.name, e.above>>]]
OfFile(c) == [f \in FileName |-> Given(c, f)]
OfLine(c, f) == [l \in STRING |-> LineGiven(c, f, l)]

\* The targets from place i of argv on.
TargetsFrom(c, i) == SubSeq(c.targets, i + 1 - FirstPlace(c), Len(c.targets))

\* The files fts and the remaining targets have still to give.
Left(c) == Flat(OfEntry(c), entries) \o Flat(OfTarget(c), TargetsFrom(c, idx))

HitBefore(c, f, k) == \E i \in 1..k : IsHit(c, Content[f][i])

\* The files in done have been searched, the current one up to line.
Searched(c, done) ==
  /\ Files(c) = done \o (IF pc = "file" THEN <<file>> ELSE <<>>) \o Left(c)
  /\ stdout \o matches = Flat(OfFile(c), done)
       \o (IF pc = "file" THEN Flat(OfLine(c, file), SubSeq(Content[file], 1, line)) ELSE <<>>)
  /\ status # 0 <=> \E i \in 1..Len(done) : HitBefore(c, done[i], Len(Content[done[i]]))

InFile(c) ==
  /\ file \in FileName /\ line \in 0..Len(Content[file]) /\ file_status \in Nat
  /\ file_status # 0 <=> HitBefore(c, file, line)

Searching(c) ==
  /\ Ready(c)
  /\ regex = Wanted(c) /\ regex \in DOMAIN Accepts
  /\ idx \in FirstPlace(c)..(Len(argv) + 1)
  /\ entries \in Seq(EntryRec)
  /\ pc = "targets" => entries = <<>>
  /\ status \in Nat /\ stdout \in Seq(Report) /\ matches \in Seq(Report)
  /\ pc # "file" => matches = <<>>
  /\ pc = "file" => InFile(c)
  /\ \E done \in Prefixes(Files(c)) : Searched(c, done)

\* Read off the options and their words; then the expression; then the files so
\* far, what they have shown and what is left of the walk; at the end, all.
IInv ==
  /\ command \in Commands
  /\ Usual(command) =>
       /\ pc \in {"options", "regex", "targets", "walk", "file", "exit"}
       /\ pc = "options" => OptionsRead(command) /\ Untouched
       /\ pc = "regex" => Ready(command) /\ Untouched /\ idx = FirstPlace(command)
       /\ pc \in {"targets", "walk", "file"} => Searching(command)
       /\ pc = "exit" => ExitTellsMatch /\ stdout = AllGiven(command) /\ matches = <<>>

-----------------------------------------------------------------------------
(* Results for the entries of a sequence.                                   *)

\* f is a function from S to T.
Maps(f, S, T) == f \in [S -> T]

\* Nothing for no entry, the entry's result for one.
LEMMA FlatOne ==
  ASSUME NEW S, NEW T, NEW f, Maps(f, S, Seq(T)), NEW x \in S
  PROVE  Flat(f, <<>>) = <<>> /\ Flat(f, <<x>>) = f[x]
<1>1. [i \in DOMAIN <<>> |-> f[<<>>[i]]] = <<>>
  OBVIOUS
<1>2. FlattenSeq(<<>>) = <<>>
  <2>1. <<>> \in Seq(Seq(T)) /\ Len(<<>>) = 0
    OBVIOUS
  <2> QED  BY <2>1, FlattenType
<1>3. [i \in DOMAIN <<x>> |-> f[<<x>>[i]]] = <<f[x]>>
  OBVIOUS
<1>4. FlattenSeq(<<f[x]>>) = f[x]
  <2>1. f[x] \in Seq(T) /\ <<>> \in Seq(Seq(T))
    BY DEF Maps
  <2> QED  BY <2>1, FlattenCons
<1> QED  BY <1>1, <1>2, <1>3, <1>4 DEF Flat, Map

\* A map of a concatenation.
LEMMA MapConcatenation ==
  ASSUME NEW S, NEW T, NEW f, Maps(f, S, T), NEW s \in Seq(S), NEW t \in Seq(S)
  PROVE  Map(f, s \o t) = Map(f, s) \o Map(f, t)
<1> USE DEF Map, Maps
<1> DEFINE u == s \o t
           a == Map(f, u)
           b == Map(f, s)
           d == Map(f, t)
<1>1. \A q \in Seq(S) : [i \in DOMAIN q |-> f[q[i]]] \in Seq(T) /\ Len([i \in DOMAIN q |-> f[q[i]]]) = Len(q)
  <2> SUFFICES ASSUME NEW q \in Seq(S)
               PROVE  [i \in DOMAIN q |-> f[q[i]]] \in Seq(T) /\ Len([i \in DOMAIN q |-> f[q[i]]]) = Len(q)
    OBVIOUS
  <2>1. \A i \in 1..Len(q) : f[q[i]] \in T
    OBVIOUS
  <2> QED  BY <2>1, MapType, SMTT(40)
<1>2. u \in Seq(S) /\ Len(u) = Len(s) + Len(t)
  OBVIOUS
<1>3. a \in Seq(T) /\ b \in Seq(T) /\ d \in Seq(T) /\ Len(a) = Len(s) + Len(t) /\ Len(b) = Len(s) /\ Len(d) = Len(t)
  BY <1>1, <1>2
<1>4. \A i \in 1..Len(s) : a[i] = b[i]
  OBVIOUS
<1>5. \A i \in 1..Len(t) : a[Len(s) + i] = d[i]
  <2> SUFFICES ASSUME NEW i \in 1..Len(t) PROVE a[Len(s) + i] = d[i]
    OBVIOUS
  <2>1. Len(s) + i \in 1..Len(u) /\ u[Len(s) + i] = t[i]
    BY <1>2
  <2> QED  BY <2>1
<1> HIDE DEF a, b, d, u
<1>6. Joins(a, b, d)
  BY <1>3, <1>4, <1>5 DEF Joins
<1>7. a = b \o d
  BY <1>3, <1>6, IsConcatenation
<1> QED  BY <1>7 DEF a, b, d, u

\* The results of a concatenation.
LEMMA FlatConcatenation ==
  ASSUME NEW S, NEW T, NEW f, Maps(f, S, Seq(T)), NEW s \in Seq(S), NEW t \in Seq(S)
  PROVE  /\ Flat(f, s) \in Seq(T)
         /\ Flat(f, s \o t) = Flat(f, s) \o Flat(f, t)
<1> DEFINE b == Map(f, s)
           d == Map(f, t)
           Q == Seq(T)
<1>1. ASSUME NEW q \in Seq(S) PROVE Map(f, q) \in Seq(Q)
  <2>1. \A i \in 1..Len(q) : f[q[i]] \in Q
    BY DEF Maps
  <2> HIDE DEF Q
  <2> QED  BY <2>1, MapType DEF Map
<1>2. b \in Seq(Q) /\ d \in Seq(Q)
  <2> HIDE DEF Q
  <2> QED  BY <1>1
<1>3. Map(f, s \o t) = b \o d
  <2> HIDE DEF Q
  <2>1. Maps(f, S, Q)
    BY DEF Q
  <2> QED  BY <2>1, MapConcatenation
<1> HIDE DEF b, d
<1>4. FlattenSeq(b) \in Q /\ FlattenSeq(b \o d) = FlattenSeq(b) \o FlattenSeq(d)
  BY <1>2, FlattenType, FlattenConcatenation
<1> QED  BY <1>3, <1>4 DEF Flat, b, d

-----------------------------------------------------------------------------
(* Command lines.                                                           *)

Arg(c) == Flags \cup {"-f", "-", c.regex} \cup Name
Shift(c) == IF c.by = "word" THEN 1 ELSE 0

\* The options of a command line: the flags, then -f and its argument.
LEMMA OptsAre ==
  ASSUME NEW c \in Commands, Usual(c)
  PROVE  /\ c.flags \in Seq(Flags) /\ Opts(c) \in Seq(Arg(c)) /\ c.by \in {"word", "file"}
         /\ c.wordsFirst \in BOOLEAN /\ (c.by = "file" => ~c.wordsFirst)
         /\ Len(Opts(c)) = Len(c.flags) + (IF c.by = "file" THEN 2 ELSE 0)
         /\ \A i \in 1..Len(c.flags) : Opts(c)[i] = c.flags[i]
         /\ \A i \in 1..Len(c.flags) : c.flags[i] \in Flags \ {"-h", "-s"}
         /\ c.by = "file" => Opts(c)[Len(c.flags) + 1] = "-f" /\ Opts(c)[Len(c.flags) + 2] = c.regex
         /\ Len(Opts(c)) \in Nat /\ Len(c.flags) \in Nat
<1>1. c \in CommandLine
  BY CommandAssumption
<1>2. c.flags \in Seq(Flags) /\ c.by \in {"word", "file"} /\ c.wordsFirst \in BOOLEAN
  BY <1>1 DEF CommandLine, Usual
<1>3. c.flags \in Seq(Arg(c)) /\ Len(c.flags) \in Nat
  <2>1. \A i \in 1..Len(c.flags) : c.flags[i] \in Arg(c)
    BY <1>2 DEF Arg
  <2> QED  BY <1>2, <2>1, SeqOver
<1>4. \A i \in 1..Len(c.flags) : c.flags[i] \in Flags \ {"-h", "-s"}
  <2> SUFFICES ASSUME NEW i \in 1..Len(c.flags) PROVE c.flags[i] \in Flags /\ c.flags[i] \notin {"-h", "-s"}
    OBVIOUS
  <2>1. i \in DOMAIN c.flags
    BY <1>2
  <2>2. Asked(c, c.flags[i])
    BY <2>1 DEF Asked, Range
  <2>3. c.flags[i] \in Flags
    BY <1>2
  <2> QED  BY <2>2, <2>3 DEF Usual
<1>5. CASE c.by = "file"
  <2> DEFINE t == <<"-f", c.regex>>
  <2>1. Opts(c) = c.flags \o t
    BY <1>5 DEF Opts
  <2>2. t \in Seq(Arg(c)) /\ Len(t) = 2 /\ t[1] = "-f" /\ t[2] = c.regex
    BY DEF Arg
  <2> HIDE DEF t
  <2>3. c.flags \o t \in Seq(Arg(c)) /\ Joins(c.flags \o t, c.flags, t)
    BY <1>3, <2>2, ConcatenationJoins
  <2>4. /\ Len(c.flags \o t) = Len(c.flags) + 2
        /\ \A i \in 1..Len(c.flags) : (c.flags \o t)[i] = c.flags[i]
        /\ (c.flags \o t)[Len(c.flags) + 1] = "-f" /\ (c.flags \o t)[Len(c.flags) + 2] = c.regex
    BY <1>3, <2>2, <2>3 DEF Joins
  <2>5. Len(Opts(c)) = Len(c.flags) + 2 /\ Len(Opts(c)) \in Nat
    BY <1>3, <2>1, <2>4
  <2> QED  BY <1>2, <1>3, <1>4, <1>5, <2>1, <2>3, <2>4, <2>5 DEF Usual
<1>6. CASE c.by = "word"
  <2>1. Opts(c) = c.flags \o <<>>
    BY <1>6 DEF Opts
  <2>2. Opts(c) = c.flags
    BY <1>3, <2>1
  <2> QED  BY <1>2, <1>3, <1>4, <1>6, <2>2
<1> QED  BY <1>2, <1>5, <1>6

\* The words: the expression, unless a file holds it, and the targets.
LEMMA WordsAre ==
  ASSUME NEW c \in Commands, Usual(c)
  PROVE  /\ Words(c) \in Seq(Arg(c)) /\ c.targets \in Seq(Name \cup {"-"}) /\ Shift(c) \in {0, 1}
         /\ Len(Words(c)) = Len(c.targets) + Shift(c) /\ Len(c.targets) \in Nat
         /\ \A i \in 1..Len(c.targets) : Words(c)[i + Shift(c)] = c.targets[i]
         /\ c.by = "word" => Words(c)[1] = c.regex
         /\ \A i \in 1..Len(Words(c)) : ~IsOption(Words(c)[i])
<1>1. c \in CommandLine /\ c.targets \in Seq(Name \cup {"-"})
  BY CommandAssumption
<1>2. c.targets \in Seq(STRING)
  BY <1>1 DEF CommandLine
<1>3. \A i \in 1..Len(Words(c)) : ~IsOption(Words(c)[i])
  BY CommandAssumption
<1> DEFINE S == Arg(c)
           t == c.targets
<1>4. t \in Seq(S) /\ Len(t) \in Nat
  <2>1. \A i \in 1..Len(t) : t[i] \in S
    BY <1>1 DEF Arg
  <2> QED  BY <1>1, <2>1, SeqOver
<1>5. CASE c.by = "word"
  <2> DEFINE x == <<c.regex>>
  <2>1. Words(c) = x \o t
    BY <1>5 DEF Words
  <2>2. x \in Seq(S) /\ Len(x) = 1 /\ x[1] = c.regex
    BY DEF Arg
  <2>3. Shift(c) = 1
    BY <1>5 DEF Shift
  <2> HIDE DEF x, S, t
  <2>4. x \o t \in Seq(S) /\ Joins(x \o t, x, t)
    BY <1>4, <2>2, ConcatenationJoins
  <2>5. /\ Len(x \o t) = Len(t) + 1 /\ (x \o t)[1] = c.regex
        /\ \A i \in 1..Len(t) : (x \o t)[i + 1] = t[i]
    <3>1. \A i \in 1..Len(t) : i + 1 = 1 + i
      BY <1>4
    <3> QED  BY <1>4, <2>2, <2>4, <3>1 DEF Joins
  <2>6. /\ Words(c) \in Seq(S) /\ Len(Words(c)) = Len(t) + 1 /\ Words(c)[1] = c.regex
        /\ \A i \in 1..Len(t) : Words(c)[i + 1] = t[i]
    BY <2>1, <2>4, <2>5
  <2> QED  BY <1>1, <1>3, <1>4, <2>3, <2>6 DEF S, t
<1>6. CASE c.by # "word"
  <2>1. Words(c) = <<>> \o t
    BY <1>6 DEF Words
  <2>2. Words(c) = t
    BY <1>4, <2>1
  <2>3. Shift(c) = 0
    BY <1>6 DEF Shift
  <2>4. \A i \in 1..Len(t) : t[i + 0] = t[i]
    BY <1>4
  <2>5. Len(t) = Len(t) + 0
    BY <1>4
  <2> HIDE DEF S
  <2> QED  BY <1>1, <1>3, <1>4, <1>6, <2>2, <2>3, <2>4, <2>5 DEF S
<1> QED  BY <1>5, <1>6

\* The entries of the argument vector when p options stand before the words.
LEMMA PermutedAre ==
  ASSUME NEW c \in Commands, Usual(c), NEW p \in 0..Len(Opts(c))
  PROVE  /\ Permuted(c, p) \in Seq(Arg(c))
         /\ Len(Permuted(c, p)) = Len(Opts(c)) + Len(Words(c))
         /\ \A i \in 1..p : Permuted(c, p)[i] = Opts(c)[i]
         /\ \A i \in 1..Len(Words(c)) : Permuted(c, p)[p + i] = Words(c)[i]
         /\ \A i \in (p + 1)..Len(Opts(c)) : Permuted(c, p)[i + Len(Words(c))] = Opts(c)[i]
<1> DEFINE o == Opts(c)
           w == Words(c)
           a == SubSeq(o, 1, p)
           b == SubSeq(o, p + 1, Len(o))
<1>1. o \in Seq(Arg(c)) /\ w \in Seq(Arg(c))
  BY OptsAre, WordsAre
<1>2. /\ a \in Seq(Arg(c)) /\ b \in Seq(Arg(c)) /\ Len(a) = p /\ Len(b) = Len(o) - p
      /\ \A i \in 1..p : a[i] = o[i]
      /\ \A i \in 1..(Len(o) - p) : b[i] = o[p + i]
      /\ p \in Nat /\ Len(o) \in Nat /\ p <= Len(o) /\ Len(w) \in Nat
  <2> HIDE DEF o, w
  <2> QED  BY <1>1 DEF o
<1>3. Permuted(c, p) = (a \o w) \o b
  BY DEF Permuted
<1> HIDE DEF a, b, o, w
<1> DEFINE aw == a \o w
<1>4. aw \in Seq(Arg(c)) /\ Joins(aw, a, w)
  BY <1>1, <1>2, ConcatenationJoins
<1> HIDE DEF aw
<1>5. /\ aw \in Seq(Arg(c)) /\ Len(aw) = p + Len(w)
      /\ \A i \in 1..p : aw[i] = o[i]
      /\ \A i \in 1..Len(w) : aw[p + i] = w[i]
  BY <1>2, <1>4 DEF Joins
<1>6. /\ aw \o b \in Seq(Arg(c)) /\ Len(aw \o b) = Len(o) + Len(w)
      /\ \A i \in 1..Len(aw) : (aw \o b)[i] = aw[i]
      /\ \A i \in 1..Len(b) : (aw \o b)[Len(aw) + i] = b[i]
  <2>1. aw \o b \in Seq(Arg(c)) /\ Joins(aw \o b, aw, b)
    BY <1>2, <1>5, ConcatenationJoins
  <2> QED  BY <1>2, <1>5, <2>1, SMTT(40) DEF Joins
<1>7. \A i \in 1..p : (aw \o b)[i] = o[i]
  BY <1>2, <1>5, <1>6
<1>8. \A i \in 1..Len(w) : (aw \o b)[p + i] = w[i]
  BY <1>2, <1>5, <1>6
<1>9. \A i \in (p + 1)..Len(o) : (aw \o b)[i + Len(w)] = o[i]
  <2> SUFFICES ASSUME NEW i \in (p + 1)..Len(o) PROVE (aw \o b)[i + Len(w)] = o[i]
    OBVIOUS
  <2> DEFINE j == i - p
  <2>1. j \in 1..Len(b) /\ j \in 1..(Len(o) - p) /\ Len(aw) + j = i + Len(w) /\ p + j = i
    BY <1>2, <1>5
  <2> HIDE DEF j
  <2>2. (aw \o b)[Len(aw) + j] = b[j] /\ b[j] = o[p + j]
    BY <2>1, <1>2, <1>6
  <2> QED  BY <2>1, <2>2
<1> QED  BY <1>3, <1>6, <1>7, <1>8, <1>9 DEF aw, o, w

-----------------------------------------------------------------------------
(* The options.                                                             *)

\* The next option is the first one from optind on.
LEMMA NextOptionIs ==
  ASSUME optind \in Nat, Len(argv) \in Nat, NEW m \in optind..(Len(argv) + 1),
         m > Len(argv) \/ IsOption(argv[m]), \A k \in optind..(m - 1) : ~IsOption(argv[k])
  PROVE  NextOption = m
<1> DEFINE P(i) == /\ i > Len(argv) \/ IsOption(argv[i])
                   /\ \A k \in optind..(i - 1) : ~IsOption(argv[k])
<1>1. P(m)
  OBVIOUS
<1>2. ASSUME NEW i \in optind..(Len(argv) + 1), P(i) PROVE i = m
  <2>1. ~(i < m)
    <3>1. SUFFICES ASSUME i < m PROVE FALSE
      OBVIOUS
    <3>2. i \in optind..(m - 1) /\ i <= Len(argv)
      BY <3>1
    <3> QED  BY <1>2, <3>2
  <2>2. ~(m < i)
    <3>1. SUFFICES ASSUME m < i PROVE FALSE
      OBVIOUS
    <3>2. m \in optind..(i - 1) /\ m <= Len(argv)
      BY <3>1
    <3> QED  BY <1>2, <3>2
  <2> QED  BY <2>1, <2>2
<1>3. NextOption = CHOOSE i \in optind..(Len(argv) + 1) : P(i)
  BY DEF NextOption
<1> HIDE DEF P
<1> QED  BY <1>1, <1>2, <1>3

\* s with its block from j to e - 1 moved in front of the one from i to j - 1.
Exchange(s, i, j, e) ==
  SubSeq(s, 1, i - 1) \o SubSeq(s, j, e - 1) \o SubSeq(s, i, j - 1) \o SubSeq(s, e, Len(s))

\* The entries of t, which is s with those blocks exchanged.
Moved(t, s, i, j, e) ==
  /\ Len(t) = Len(s)
  /\ \A k \in 1..(i - 1) : t[k] = s[k]
  /\ \A k \in i..(i + e - j - 1) : t[k] = s[j + (k - i)]
  /\ \A k \in (i + e - j)..(e - 1) : t[k] = s[k - (e - j)]
  /\ \A k \in e..Len(s) : t[k] = s[k]

\* What an exchange of two adjacent blocks gives.
LEMMA ExchangeGives ==
  ASSUME NEW S, NEW s \in Seq(S), NEW i \in Nat, NEW j \in Nat, NEW e \in Nat,
         1 <= i, i <= j, j <= e, e <= Len(s) + 1
  PROVE  Exchange(s, i, j, e) \in Seq(S) /\ Moved(Exchange(s, i, j, e), s, i, j, e)
<1> DEFINE n == Len(s)
           a == SubSeq(s, 1, i - 1)
           b == SubSeq(s, j, e - 1)
           c == SubSeq(s, i, j - 1)
           d == SubSeq(s, e, n)
<1>1. 1 <= i /\ i <= j /\ j <= e /\ e <= n + 1 /\ n \in Nat
  OBVIOUS
<1>2. Exchange(s, i, j, e) = ((a \o b) \o c) \o d
  BY DEF Exchange
<1>3. a \in Seq(S) /\ Len(a) = i - 1 /\ \A k \in 1..(i - 1) : a[k] = s[k]
  BY <1>1
<1>4. b \in Seq(S) /\ Len(b) = e - j /\ \A k \in 1..(e - j) : b[k] = s[j + k - 1]
  BY <1>1
<1>5. c \in Seq(S) /\ Len(c) = j - i /\ \A k \in 1..(j - i) : c[k] = s[i + k - 1]
  BY <1>1
<1>6. d \in Seq(S) /\ Len(d) = n + 1 - e /\ \A k \in 1..(n + 1 - e) : d[k] = s[e + k - 1]
  BY <1>1
<1> HIDE DEF n, a, b, c, d
<1> DEFINE ab == a \o b
<1>7. ab \in Seq(S) /\ Joins(ab, a, b)
  BY <1>3, <1>4, ConcatenationJoins
<1> HIDE DEF ab
<1> DEFINE abc == ab \o c
<1>8. abc \in Seq(S) /\ Joins(abc, ab, c)
  BY <1>5, <1>7, ConcatenationJoins
<1> HIDE DEF abc
<1> DEFINE w == abc \o d
<1>9. w \in Seq(S) /\ Joins(w, abc, d)
  BY <1>6, <1>8, ConcatenationJoins
<1> HIDE DEF w
<1>10. Len(ab) = (i - 1) + (e - j) /\ Len(abc) = e - 1 /\ Len(w) = n
  <2>1. Len(ab) = Len(a) + Len(b) /\ Len(abc) = Len(ab) + Len(c) /\ Len(w) = Len(abc) + Len(d)
    BY <1>7, <1>8, <1>9 DEF Joins
  <2>2. Len(a) = i - 1 /\ Len(b) = e - j /\ Len(c) = j - i /\ Len(d) = n + 1 - e
    BY <1>3, <1>4, <1>5, <1>6
  <2>3. Len(ab) = (i - 1) + (e - j)
    BY <2>1, <2>2
  <2>4. Len(abc) = e - 1
    BY <2>1, <2>2, <2>3, <1>1
  <2>5. Len(w) = n
    BY <2>1, <2>2, <2>4, <1>1
  <2> QED  BY <2>3, <2>4, <2>5
<1>11. \A k \in 1..(e - 1) : w[k] = abc[k]
  BY <1>9, <1>10 DEF Joins
<1>12. \A k \in 1..((i - 1) + (e - j)) : w[k] = ab[k]
  <2>1. \A k \in 1..((i - 1) + (e - j)) : k \in 1..(e - 1)
    BY <1>1
  <2>2. \A k \in 1..Len(ab) : abc[k] = ab[k]
    BY <1>8 DEF Joins
  <2> QED  BY <1>10, <1>11, <2>1, <2>2
<1>13. \A k \in 1..(i - 1) : w[k] = s[k]
  <2> SUFFICES ASSUME NEW k \in 1..(i - 1) PROVE w[k] = s[k]
    OBVIOUS
  <2>1. w[k] = ab[k]
    BY <1>1, <1>12
  <2>2. ab[k] = a[k]
    BY <1>3, <1>7 DEF Joins
  <2> QED  BY <2>1, <2>2, <1>3
<1>14. \A k \in i..(i + e - j - 1) : w[k] = s[j + (k - i)]
  <2> SUFFICES ASSUME NEW k \in i..(i + e - j - 1) PROVE w[k] = s[j + (k - i)]
    OBVIOUS
  <2>1. PICK m \in 1..(e - j) : m = k - i + 1
    BY <1>1
  <2>2. k = (i - 1) + m /\ j + (k - i) = j + m - 1 /\ k \in 1..((i - 1) + (e - j))
    <3>1. k \in Int
      OBVIOUS
    <3> QED  BY <1>1, <2>1, <3>1
  <2>3. w[k] = ab[k]
    BY <2>2, <1>12
  <2>4. ab[Len(a) + m] = b[m]
    BY <1>4, <1>7 DEF Joins
  <2>5. ab[k] = b[m]
    BY <2>2, <2>4, <1>3
  <2> QED  BY <1>4, <2>2, <2>3, <2>5
<1>15. \A k \in (i + e - j)..(e - 1) : w[k] = s[k - (e - j)]
  <2> SUFFICES ASSUME NEW k \in (i + e - j)..(e - 1) PROVE w[k] = s[k - (e - j)]
    OBVIOUS
  <2>1. PICK m \in 1..(j - i) : m = k - (i - 1) - (e - j)
    BY <1>1
  <2>2. k = Len(ab) + m /\ k - (e - j) = i + m - 1 /\ k \in 1..(e - 1)
    <3>1. k \in Int
      OBVIOUS
    <3>2. k = (i - 1) + (e - j) + m /\ k - (e - j) = i + m - 1 /\ k \in 1..(e - 1)
      BY <1>1, <2>1, <3>1
    <3> QED  BY <1>10, <3>2
  <2>3. w[k] = abc[k]
    BY <2>2, <1>11
  <2>4. abc[Len(ab) + m] = c[m]
    BY <1>5, <1>8 DEF Joins
  <2> QED  BY <1>5, <2>2, <2>3, <2>4
<1>16. \A k \in e..n : w[k] = s[k]
  <2> SUFFICES ASSUME NEW k \in e..n PROVE w[k] = s[k]
    OBVIOUS
  <2>1. PICK m \in 1..(n + 1 - e) : m = k - (e - 1)
    BY <1>1
  <2>2. k = Len(abc) + m /\ k = e + m - 1
    BY <1>1, <1>10, <2>1
  <2>3. w[Len(abc) + m] = d[m]
    BY <1>6, <1>9 DEF Joins
  <2> QED  BY <1>6, <2>2, <2>3
<1>17. Exchange(s, i, j, e) = w
  BY <1>2 DEF w, abc, ab
<1>18. Moved(w, s, i, j, e)
  BY <1>10, <1>13, <1>14, <1>15, <1>16 DEF n, Moved
<1> QED  BY <1>9, <1>17, <1>18

\* What getopt does next when it has read its first d options.
LEMMA OptionPlaces ==
  ASSUME NEW c \in Commands, Usual(c), NEW d \in 0..Len(Opts(c)), Exchanged(c, d),
         d < Len(Opts(c)) => IsOption(Opts(c)[d + 1])
  PROVE  /\ optind \in Nat /\ Len(argv) = Len(Opts(c)) + Len(Words(c))
         /\ Swapped = Permuted(c, IF c.wordsFirst THEN d ELSE Len(Opts(c)))
         /\ FirstWord = d + 1
         /\ d < Len(Opts(c)) =>
              /\ NextOption = (IF c.wordsFirst THEN d + Len(Words(c)) + 1 ELSE d + 1)
              /\ argv[NextOption] = Opts(c)[d + 1]
         /\ d = Len(Opts(c)) => NextOption = Len(argv) + 1
<1> DEFINE S == Arg(c)
<1> PICK o \in Seq(S) : o = Opts(c)
  BY OptsAre
<1> PICK w \in Seq(S) : w = Words(c)
  BY WordsAre
<1> DEFINE n == Len(o)
           m == Len(w)
<1>1. n \in Nat /\ m \in Nat /\ d \in Nat /\ d <= n /\ c.wordsFirst \in BOOLEAN
  <2>1. n \in Nat /\ m \in Nat
    BY DEF S
  <2>2. d \in 0..n
    OBVIOUS
  <2>3. c.wordsFirst \in BOOLEAN
    BY OptsAre
  <2> HIDE DEF n, m
  <2> QED  BY <2>1, <2>2, <2>3
<1>2. \A i \in 1..m : ~IsOption(w[i])
  BY WordsAre
<1> DEFINE P == [p \in 0..n |-> Permuted(c, p)]
<1>3. \A p \in 0..n : /\ P[p] \in Seq(S) /\ Len(P[p]) = n + m
                      /\ \A i \in 1..p : P[p][i] = o[i]
                      /\ \A i \in 1..m : P[p][p + i] = w[i]
                      /\ \A i \in (p + 1)..n : P[p][i + m] = o[i]
  <2> SUFFICES ASSUME NEW p \in 0..n
               PROVE  /\ Permuted(c, p) \in Seq(S) /\ Len(Permuted(c, p)) = n + m
                      /\ \A i \in 1..p : Permuted(c, p)[i] = o[i]
                      /\ \A i \in 1..m : Permuted(c, p)[p + i] = w[i]
                      /\ \A i \in (p + 1)..n : Permuted(c, p)[i + m] = o[i]
    OBVIOUS
  <2>1. p \in 0..Len(Opts(c))
    OBVIOUS
  <2> QED  BY <2>1, PermutedAre
<1>4. nonopts \in [first : Nat, last : Nat]
  BY DEF Exchanged
<1>5. Swapped = Exchange(argv, nonopts.first, nonopts.last, optind)
  BY DEF Swapped, Exchange
<1>6. d < n => IsOption(o[d + 1])
  OBVIOUS
<1> HIDE DEF S, P
<1>7. \A s \in Seq(S), q \in Seq(S) : Len(s) = Len(q) /\ (\A i \in 1..Len(s) : s[i] = q[i]) => s = q
  BY SameEntries
<1>8. SUFFICES
        /\ optind \in Nat /\ Len(argv) = n + m
        /\ Swapped = P[IF c.wordsFirst THEN d ELSE n]
        /\ FirstWord = d + 1
        /\ d < n => /\ NextOption = (IF c.wordsFirst THEN d + m + 1 ELSE d + 1)
                    /\ argv[NextOption] = o[d + 1]
        /\ d = n => NextOption = Len(argv) + 1
  <2>1. P[IF c.wordsFirst THEN d ELSE n] = Permuted(c, IF c.wordsFirst THEN d ELSE n)
    BY <1>1 DEF P
  <2> QED  BY <2>1
<1>9. CASE c.wordsFirst /\ d > 0
  <2>1. argv = P[d - 1] /\ optind = d + m + 1 /\ nonopts.first = d /\ nonopts.last = d + m
    <3>1. d - 1 \in 0..n
      BY <1>1, <1>9
    <3>2. P[d - 1] = Permuted(c, d - 1)
      BY <3>1 DEF P
    <3> QED  BY <1>9, <3>2 DEF Exchanged
  <2> PICK s \in Seq(S) : s = argv
    BY <2>1, <1>1, <1>3, <1>9
  <2>2. /\ Len(s) = n + m
        /\ \A i \in 1..(d - 1) : s[i] = o[i]
        /\ \A i \in 1..m : s[(d - 1) + i] = w[i]
        /\ \A i \in d..n : s[i + m] = o[i]
    <3>1. d - 1 \in 0..n /\ (d - 1) + 1 = d
      BY <1>1, <1>9
    <3> QED  BY <2>1, <3>1, <1>3, ZenonT(40)
  <2>3. Swapped = P[d]
    <3> DEFINE x == Exchange(s, d, d + m, d + m + 1)
               q == P[d]
    <3>1. /\ x \in Seq(S) /\ Len(x) = n + m
          /\ \A k \in 1..(d - 1) : x[k] = s[k]
          /\ \A k \in d..(d + (d + m + 1) - (d + m) - 1) : x[k] = s[(d + m) + (k - d)]
          /\ \A k \in (d + (d + m + 1) - (d + m))..((d + m + 1) - 1) :
               x[k] = s[k - ((d + m + 1) - (d + m))]
          /\ \A k \in (d + m + 1)..Len(s) : x[k] = s[k]
      <4>1. /\ d \in Nat /\ d + m \in Nat /\ d + m + 1 \in Nat /\ 1 <= d /\ d <= d + m
            /\ d + m <= d + m + 1 /\ d + m + 1 <= Len(s) + 1
        BY <1>1, <1>9, <2>2
      <4> PICK j \in Nat : j = d + m
        BY <4>1
      <4> PICK e \in Nat : e = d + m + 1
        BY <4>1
      <4>2. d \in Nat /\ 1 <= d /\ d <= j /\ j <= e /\ e <= Len(s) + 1
        BY <4>1
      <4>3. Exchange(s, d, j, e) \in Seq(S) /\ Moved(Exchange(s, d, j, e), s, d, j, e)
        BY <4>2, ExchangeGives
      <4>4. x \in Seq(S) /\ Moved(x, s, d, d + m, d + m + 1)
        BY <4>3
      <4> HIDE DEF x, m
      <4> QED  BY <2>2, <4>4 DEF Moved
    <3>2. d + (d + m + 1) - (d + m) - 1 = d /\ d + (d + m + 1) - (d + m) = d + 1
      BY <1>1
    <3>3. (d + m + 1) - (d + m) = 1 /\ (d + m + 1) - 1 = d + m /\ (d + m) + (d - d) = d + m
      BY <1>1
    <3>4. q \in Seq(S) /\ Len(q) = n + m /\ (\A i \in 1..d : q[i] = o[i])
          /\ (\A i \in 1..m : q[d + i] = w[i]) /\ (\A i \in (d + 1)..n : q[i + m] = o[i])
      BY <1>1, <1>3
    <3> HIDE DEF x, q, n, m
    <3>5. \A k \in 1..(n + m) : x[k] = q[k]
      <4> SUFFICES ASSUME NEW k \in 1..(n + m) PROVE x[k] = q[k]
        OBVIOUS
      <4>1. CASE k < d
        <5>1. k \in 1..(d - 1) /\ k \in 1..d
          BY <1>1, <4>1
        <5> QED  BY <5>1, <2>2, <3>1, <3>4
      <4>2. CASE k = d
        <5>1. x[d] = s[d + m]
          BY <1>1, <3>1, <3>2, <3>3
        <5>2. d \in d..n /\ d \in 1..d
          BY <1>1, <1>9
        <5> QED  BY <4>2, <5>1, <5>2, <2>2, <3>4
      <4>3. CASE d < k /\ k <= d + m
        <5>1. k \in (d + 1)..(d + m)
          BY <1>1, <4>3
        <5>2. x[k] = s[k - 1]
          BY <5>1, <3>1, <3>2, <3>3
        <5>3. PICK i \in 1..m : i = k - d
          BY <1>1, <4>3
        <5>4. (d - 1) + i = k - 1 /\ d + i = k
          BY <1>1, <5>3
        <5> QED  BY <5>2, <5>4, <2>2, <3>4
      <4>4. CASE d + m < k
        <5>1. x[k] = s[k]
          <6>1. k \in (d + m + 1)..Len(s)
            BY <1>1, <2>2, <4>4
          <6> QED  BY <6>1, <3>1
        <5>2. PICK i \in (d + 1)..n : k = i + m
          <6>1. k - m \in (d + 1)..n /\ k = (k - m) + m
            BY <1>1, <4>4
          <6> QED  BY <6>1
        <5>3. i \in d..n
          BY <1>1
        <5> QED  BY <5>1, <5>2, <5>3, <2>2, <3>4
      <4> QED  BY <1>1, <4>1, <4>2, <4>3, <4>4
    <3>6. x = q
      BY <3>1, <3>4, <3>5, <1>7
    <3> QED  BY <1>5, <2>1, <3>6 DEF x, q, m
  <2>4. FirstWord = d + 1
    BY <1>1, <2>1 DEF FirstWord
  <2>5. optind \in Nat /\ Len(argv) = n + m
    BY <1>1, <2>1, <2>2
  <2>6. ASSUME d < n PROVE NextOption = d + m + 1 /\ argv[NextOption] = o[d + 1]
    <3>1. argv[d + m + 1] = o[d + 1]
      <4>1. d + 1 \in d..n /\ (d + 1) + m = d + m + 1
        BY <1>1, <2>6
      <4> QED  BY <4>1, <2>2
    <3>2. d + m + 1 \in optind..(Len(argv) + 1) /\ \A k \in optind..((d + m + 1) - 1) : FALSE
      BY <1>1, <2>1, <2>5, <2>6
    <3> HIDE DEF n, m
    <3> QED  BY <1>6, <2>5, <2>6, <3>1, <3>2, NextOptionIs
  <2>7. ASSUME d = n PROVE NextOption = Len(argv) + 1
    <3>1. /\ n + m + 1 \in optind..(Len(argv) + 1) /\ n + m + 1 > Len(argv)
          /\ \A k \in optind..((n + m + 1) - 1) : FALSE
      BY <1>1, <2>1, <2>5, <2>7
    <3> HIDE DEF n, m
    <3>2. NextOption = n + m + 1
      BY <2>5, <3>1, NextOptionIs
    <3> QED  BY <2>5, <3>2
  <2> QED  BY <1>9, <2>3, <2>4, <2>5, <2>6, <2>7
<1>10. ASSUME ~(c.wordsFirst /\ d > 0)
       PROVE /\ argv = P[IF c.wordsFirst THEN 0 ELSE n] /\ optind = d + 1
             /\ nonopts.first = nonopts.last /\ nonopts.first \in 1..optind
  BY <1>1, <1>10 DEF Exchanged, P
<1>11. CASE ~(c.wordsFirst /\ d > 0)
  <2> PICK s \in Seq(S) : s = argv
    BY <1>1, <1>3, <1>10, <1>11
  <2> PICK i \in 1..(d + 1) : i = nonopts.first
    BY <1>10, <1>11
  <2>1. Len(s) = n + m /\ optind = d + 1 /\ nonopts.last = i
    BY <1>1, <1>3, <1>10, <1>11
  <2>2. Swapped = s
    <3> DEFINE x == Exchange(s, i, i, d + 1)
    <3>1. /\ x \in Seq(S) /\ Len(x) = Len(s)
          /\ \A k \in 1..(i - 1) : x[k] = s[k]
          /\ \A k \in i..(i + (d + 1) - i - 1) : x[k] = s[i + (k - i)]
          /\ \A k \in (i + (d + 1) - i)..((d + 1) - 1) : x[k] = s[k - ((d + 1) - i)]
          /\ \A k \in (d + 1)..Len(s) : x[k] = s[k]
      <4>1. i \in Nat /\ d + 1 \in Nat /\ 1 <= i /\ i <= d + 1 /\ d + 1 <= Len(s) + 1
        BY <1>1, <2>1
      <4> PICK e \in Nat : e = d + 1
        BY <4>1
      <4>2. Exchange(s, i, i, e) \in Seq(S) /\ Moved(Exchange(s, i, i, e), s, i, i, e)
        <5>1. i \in Nat /\ 1 <= i /\ i <= i /\ i <= e /\ e <= Len(s) + 1
          BY <4>1
        <5> QED  BY <5>1, ExchangeGives
      <4>3. x \in Seq(S) /\ Moved(x, s, i, i, d + 1)
        BY <4>2
      <4> HIDE DEF x
      <4> QED  BY <4>3 DEF Moved
    <3>2. i + (d + 1) - i - 1 = d /\ \A k \in Int : i + (k - i) = k
      BY <1>1, SMTT(40)
    <3> HIDE DEF x
    <3>3. \A k \in 1..Len(s) : x[k] = s[k]
      <4> SUFFICES ASSUME NEW k \in 1..Len(s) PROVE x[k] = s[k]
        OBVIOUS
      <4>1. k \in 1..(i - 1) \/ k \in i..d \/ k \in (d + 1)..Len(s)
        BY <1>1
      <4>2. CASE k \in i..d
        <5>1. k \in i..(i + (d + 1) - i - 1)
          BY <3>2, <4>2
        <5>2. x[k] = s[i + (k - i)]
          BY <3>1, <5>1
        <5>3. k \in Int
          OBVIOUS
        <5>4. i + (k - i) = k
          BY <3>2, <5>3
        <5> QED  BY <5>2, <5>4
      <4> QED  BY <3>1, <4>1, <4>2
    <3>4. x = s
      BY <3>1, <3>3, <1>7
    <3> QED  BY <1>5, <2>1, <3>4 DEF x
  <2>3. Swapped = P[IF c.wordsFirst THEN d ELSE n]
    <3>1. c.wordsFirst => d = 0
      BY <1>1, <1>11
    <3> QED  BY <1>10, <1>11, <2>2, <3>1
  <2>4. FirstWord = d + 1
    BY <1>1, <2>1 DEF FirstWord
  <2>5. optind \in Nat /\ Len(argv) = n + m
    BY <1>1, <2>1
  <2>6. ASSUME d < n, c.wordsFirst PROVE NextOption = d + m + 1 /\ argv[NextOption] = o[d + 1]
    <3>1. d = 0 /\ argv = P[0]
      BY <1>1, <1>10, <1>11, <2>6
    <3>2. 0 \in 0..n /\ 1 \in (0 + 1)..n /\ 1 + m = d + m + 1 /\ \A k \in Int : 0 + k = k
      BY <1>1, <2>6, <3>1
    <3>3. argv[d + m + 1] = o[d + 1] /\ \A k \in 1..m : argv[k] = w[k]
      <4>1. (\A k \in 1..m : P[0][0 + k] = w[k]) /\ (\A k \in (0 + 1)..n : P[0][k + m] = o[k])
        BY <3>2, <1>3
      <4> QED  BY <4>1, <3>1, <3>2
    <3>4. d + m + 1 \in optind..(Len(argv) + 1) /\ \A k \in optind..((d + m + 1) - 1) : k \in 1..m
      BY <1>1, <2>1, <2>5, <2>6, <3>1
    <3> HIDE DEF n, m
    <3> QED  BY <1>2, <1>6, <2>5, <2>6, <3>3, <3>4, NextOptionIs
  <2>7. ASSUME d < n, ~c.wordsFirst PROVE NextOption = d + 1 /\ argv[NextOption] = o[d + 1]
    <3>1. argv = P[n] /\ n \in 0..n /\ d + 1 \in 1..n
      BY <1>1, <1>10, <1>11, <2>7
    <3>2. argv[d + 1] = o[d + 1]
      BY <3>1, <1>3
    <3>3. d + 1 \in optind..(Len(argv) + 1) /\ \A k \in optind..((d + 1) - 1) : FALSE
      BY <1>1, <2>1, <2>5, <2>7
    <3> HIDE DEF n, m
    <3>4. IsOption(argv[d + 1])
      BY <1>6, <2>7, <3>2
    <3>5. NextOption = d + 1
      <4> PICK t \in Nat : t = d + 1
        BY <1>1
      <4>1. t \in optind..(Len(argv) + 1) /\ (t > Len(argv) \/ IsOption(argv[t]))
        BY <3>3, <3>4
      <4>2. \A k \in optind..(t - 1) : ~IsOption(argv[k])
        BY <3>3
      <4>3. optind \in Nat /\ Len(argv) \in Nat
        BY <1>1, <2>5
      <4> HIDE DEF S
      <4>4. NextOption = t
        BY <4>1, <4>2, <4>3, NextOptionIs, Zenon
      <4> QED  BY <4>4
    <3> QED  BY <3>2, <3>5
  <2>8. ASSUME d = n PROVE NextOption = Len(argv) + 1
    <3>1. n \in 0..n /\ argv = P[n]
      BY <1>1, <1>10, <1>11, <2>8
    <3>2. \A k \in 1..m : argv[n + k] = w[k]
      BY <3>1, <1>3
    <3>3. \A k \in optind..((n + m + 1) - 1) : ~IsOption(argv[k])
      <4> SUFFICES ASSUME NEW k \in optind..((n + m + 1) - 1) PROVE ~IsOption(argv[k])
        OBVIOUS
      <4>1. k - n \in 1..m /\ n + (k - n) = k
        BY <1>1, <2>1, <2>8
      <4> QED  BY <4>1, <1>2, <3>2
    <3>4. n + m + 1 \in optind..(Len(argv) + 1) /\ n + m + 1 > Len(argv)
      BY <1>1, <2>1, <2>5, <2>8
    <3> HIDE DEF n, m
    <3>5. NextOption = n + m + 1
      BY <2>5, <3>3, <3>4, NextOptionIs
    <3> QED  BY <2>5, <3>5
  <2> QED  BY <1>11, <2>3, <2>4, <2>5, <2>6, <2>7, <2>8
<1> QED  BY <1>9, <1>11

\* The vector the program is started with.
LEMMA ArgvIs ==
  ASSUME NEW c \in Commands, Usual(c)
  PROVE  Argv(c) = Permuted(c, IF c.wordsFirst THEN 0 ELSE Len(Opts(c)))
<1> PICK o \in Seq(Arg(c)) : o = Opts(c)
  BY OptsAre
<1> PICK w \in Seq(Arg(c)) : w = Words(c)
  BY WordsAre
<1>1. SubSeq(o, 1, 0) = <<>> /\ SubSeq(o, Len(o) + 1, Len(o)) = <<>> /\ SubSeq(o, 1, Len(o)) = o
  BY DEF Arg
<1>2. c.wordsFirst \in BOOLEAN
  BY OptsAre
<1> DEFINE S == Arg(c)
<1> HIDE DEF S
<1>3. o \in Seq(S) /\ w \in Seq(S)
  BY DEF S
<1>4. CASE c.wordsFirst
  <2>1. Argv(c) = w \o o /\ Permuted(c, 0) = <<>> \o w \o SubSeq(o, 0 + 1, Len(o))
    BY <1>1, <1>4 DEF Argv, Permuted
  <2>2. SubSeq(o, 0 + 1, Len(o)) = o /\ <<>> \o w = w
    BY <1>1, <1>3
  <2> QED  BY <1>4, <2>1, <2>2
<1>5. CASE ~c.wordsFirst
  <2>1. Argv(c) = o \o w /\ Permuted(c, Len(o)) = (o \o w) \o <<>>
    BY <1>1, <1>5 DEF Argv, Permuted
  <2>2. o \o w \in Seq(S)
    BY <1>3
  <2>3. (o \o w) \o <<>> = o \o w
    BY <2>2
  <2> QED  BY <1>5, <2>1, <2>3
<1> QED  BY <1>2, <1>4, <1>5

\* What the flags up to k + 1 ask for.
LEMMA AskedNext ==
  ASSUME NEW c, NEW o, NEW k \in Nat
  PROVE  AskedBefore(c, o, k + 1) <=> AskedBefore(c, o, k) \/ c.flags[k + 1] = o
<1>1. \A i \in 1..(k + 1) : i \in 1..k \/ i = k + 1
  OBVIOUS
<1>2. k + 1 \in 1..(k + 1) /\ \A i \in 1..k : i \in 1..(k + 1)
  OBVIOUS
<1> QED  BY <1>1, <1>2, Zenon DEF AskedBefore

\* One more flag.
LEMMA FlagStep ==
  ASSUME NEW c, NEW k \in Nat, FlagsRead(c, k), NEW o, o = c.flags[k + 1],
         cfl' = FlagsAfter(o), recurse_dirs' = (recurse_dirs \/ o = "-r")
  PROVE  FlagsRead(c, k + 1)'
<1>1. \A x : AskedBefore(c, x, k + 1) <=> AskedBefore(c, x, k) \/ o = x
  BY AskedNext
<1>2. /\ cfl \in [line : BOOLEAN, invert : BOOLEAN, silent : BOOLEAN, name : BOOLEAN]
      /\ recurse_dirs \in BOOLEAN
  BY DEF FlagsRead
<1>3. /\ cfl' \in [line : BOOLEAN, invert : BOOLEAN, silent : BOOLEAN, name : BOOLEAN]
      /\ cfl'.invert <=> (cfl.invert \/ o = "-v")
      /\ cfl'.silent <=> (cfl.silent \/ o = "-q")
      /\ cfl'.line <=> (cfl.line /\ o # "-o" /\ o # "-v")
      /\ cfl'.name <=> (cfl.name \/ o = "-F" \/ o = "-r")
  BY <1>2 DEF FlagsAfter
<1>4. /\ cfl.line <=> ~(AskedBefore(c, "-o", k) \/ AskedBefore(c, "-v", k))
      /\ cfl.invert <=> AskedBefore(c, "-v", k)
      /\ cfl.silent <=> AskedBefore(c, "-q", k)
      /\ cfl.name <=> AskedBefore(c, "-F", k) \/ AskedBefore(c, "-r", k)
      /\ recurse_dirs <=> AskedBefore(c, "-r", k)
  BY DEF FlagsRead
<1>5. recurse_dirs' \in BOOLEAN /\ (recurse_dirs' <=> AskedBefore(c, "-r", k + 1))
  BY <1>1, <1>4
<1>6. /\ cfl'.line <=> ~(AskedBefore(c, "-o", k + 1) \/ AskedBefore(c, "-v", k + 1))
      /\ cfl'.invert <=> AskedBefore(c, "-v", k + 1)
      /\ cfl'.silent <=> AskedBefore(c, "-q", k + 1)
      /\ cfl'.name <=> AskedBefore(c, "-F", k + 1) \/ AskedBefore(c, "-r", k + 1)
  BY <1>1, <1>3, <1>4
<1> QED  BY <1>3, <1>5, <1>6 DEF FlagsRead, AskedBefore

\* The program starts with no option read.
LEMMA InitInvariant == Init => IInv
<1> SUFFICES ASSUME Init PROVE IInv
  OBVIOUS
<1>1. command \in Commands /\ pc = "options"
  BY DEF Init
<1>2. ASSUME Usual(command) PROVE OptionsRead(command) /\ Untouched
  <2> PICK c \in Commands : c = command
    BY <1>1
  <2>1. Untouched
    BY DEF Init, Untouched
  <2>2. Len(Opts(c)) \in Nat /\ Len(c.flags) \in Nat
    BY <1>2, OptsAre
  <2>3. FlagsRead(c, 0)
    <3>1. \A x : ~AskedBefore(c, x, 0)
      BY DEF AskedBefore
    <3> QED  BY <3>1 DEF Init, FlagsRead
  <2>4. Exchanged(c, 0)
    <3>1. argv = Permuted(c, IF c.wordsFirst THEN 0 ELSE Len(Opts(c)))
      BY <1>2, ArgvIs DEF Init
    <3> QED  BY <3>1 DEF Init, Exchanged
  <2>5. 0 \in 0..Len(c.flags) \cup {Len(Opts(c))} /\ 0 <= Len(c.flags) /\ ~(0 > Len(c.flags))
    BY <2>2
  <2>6. pattern_file_idx = 0
    BY DEF Init
  <2>7. OptionsRead(c)
    BY <2>3, <2>4, <2>5, <2>6 DEF OptionsRead
  <2> QED  BY <2>1, <2>7
<1> QED  BY <1>1, <1>2 DEF IInv

\* The flag or -f that getopt finds next.
LEMMA ReadOptionStep == IInv /\ ReadOption => IInv'
<1> SUFFICES ASSUME IInv, ReadOption PROVE IInv'
  OBVIOUS
<1> PICK c \in Commands : c = command
  BY DEF IInv
<1>1. command' = c /\ pc = "options"
  BY DEF ReadOption
<1>2. SUFFICES ASSUME Usual(c) PROVE pc' = "options" /\ OptionsRead(c)' /\ Untouched'
  BY <1>1 DEF IInv
<1>3. OptionsRead(c) /\ Untouched
  BY <1>1, <1>2 DEF IInv
<1>4. Untouched'
  BY <1>3 DEF Untouched, ReadOption, targets, search, output
<1> DEFINE n == Len(Opts(c))
           m == Len(Words(c))
           h == Len(c.flags)
<1>5. PICK d \in 0..h \cup {n} :
        /\ FlagsRead(c, IF d <= h THEN d ELSE h)
        /\ Exchanged(c, d)
        /\ pattern_file_idx = IF d > h THEN d ELSE 0
  BY <1>3 DEF OptionsRead
<1>6. /\ n \in Nat /\ m \in Nat /\ h \in Nat /\ d \in 0..n /\ c.by \in {"word", "file"}
      /\ n = h + (IF c.by = "file" THEN 2 ELSE 0)
      /\ \A i \in 1..h : Opts(c)[i] = c.flags[i] /\ c.flags[i] \in Flags \ {"-h", "-s"}
      /\ c.by = "file" => Opts(c)[h + 1] = "-f"
      /\ c.wordsFirst \in BOOLEAN /\ (c.by = "file" => ~c.wordsFirst)
  <2>1. /\ n = h + (IF c.by = "file" THEN 2 ELSE 0) /\ c.by \in {"word", "file"}
        /\ c.by = "file" => Opts(c)[h + 1] = "-f"
        /\ c.wordsFirst \in BOOLEAN /\ (c.by = "file" => ~c.wordsFirst)
    BY <1>2, OptsAre
  <2>2. \A i \in 1..h : Opts(c)[i] = c.flags[i]
    BY <1>2, OptsAre
  <2>3. \A i \in 1..h : c.flags[i] \in Flags \ {"-h", "-s"}
    BY <1>2, OptsAre
  <2>4. n \in Nat /\ h \in Nat
    BY <1>2, OptsAre
  <2>5. m \in Nat
    BY <1>2, WordsAre
  <2> HIDE DEF n, m, h
  <2>6. d \in 0..n
    <3>1. n >= h
      BY <2>1, <2>4
    <3> QED  BY <2>4, <3>1
  <2> QED  BY <2>1, <2>2, <2>3, <2>4, <2>5, <2>6
<1> HIDE DEF n, m, h
<1>7. /\ d < n => d <= h /\ Opts(c)[d + 1] \in Flags \cup {"-f"} /\ IsOption(Opts(c)[d + 1])
      /\ d < h => Opts(c)[d + 1] = c.flags[d + 1] /\ c.flags[d + 1] \in Flags \ {"-h", "-s"}
      /\ d < n /\ d >= h => Opts(c)[d + 1] = "-f" /\ c.by = "file" /\ d = h /\ n = h + 2
  <2>1. ASSUME d < h PROVE Opts(c)[d + 1] = c.flags[d + 1] /\ c.flags[d + 1] \in Flags \ {"-h", "-s"}
    <3>1. d + 1 \in 1..h
      BY <1>6, <2>1
    <3> QED  BY <1>6, <3>1
  <2>2. ASSUME d < n, d >= h PROVE Opts(c)[d + 1] = "-f" /\ c.by = "file" /\ d = h /\ n = h + 2
    <3>1. d \in 0..h
      BY <1>6, <2>2
    <3>2. d = h /\ n # h
      BY <1>6, <2>2, <3>1
    <3> QED  BY <1>6, <3>2
  <2>3. ASSUME d < n PROVE d <= h /\ Opts(c)[d + 1] \in Flags \cup {"-f"} /\ IsOption(Opts(c)[d + 1])
    <3>1. CASE d < h
      BY <1>6, <2>1, <3>1 DEF IsOption
    <3>2. CASE ~(d < h)
      BY <1>6, <2>2, <2>3, <3>2 DEF IsOption
    <3> QED  BY <3>1, <3>2
  <2> QED  BY <2>1, <2>2, <2>3
<1>8. /\ optind \in Nat /\ Len(argv) = n + m
      /\ Swapped = Permuted(c, IF c.wordsFirst THEN d ELSE n)
      /\ FirstWord = d + 1
      /\ d < n => /\ NextOption = (IF c.wordsFirst THEN d + m + 1 ELSE d + 1)
                  /\ argv[NextOption] = Opts(c)[d + 1]
      /\ d = n => NextOption = Len(argv) + 1
  BY <1>2, <1>5, <1>6, <1>7, OptionPlaces DEF n, m
<1>9. d < n
  <2>1. NextOption # Len(argv) + 1
    <3>1. NextOption <= Len(argv)
      BY DEF ReadOption
    <3>2. Len(argv) \in Nat
      BY <1>6, <1>8
    <3> QED  BY <3>1, <3>2
  <2>2. d # n
    BY <1>8, <2>1
  <2> QED  BY <1>6, <2>2
<1> PICK o : o = Opts(c)[d + 1]
  OBVIOUS
<1> PICK p \in Nat : p = (IF c.wordsFirst THEN d + m + 1 ELSE d + 1)
  BY <1>6
<1>10. /\ argv' = Swapped /\ nonopts' = [first |-> d + 1, last |-> p]
       /\ optind' = p + (IF o = "-f" THEN 2 ELSE 1)
       /\ cfl' = FlagsAfter(o) /\ recurse_dirs' = (recurse_dirs \/ o = "-r")
       /\ pattern_file_idx' = IF o \in {"-f", Joined} THEN p + (IF o = "-f" THEN 2 ELSE 1) - 1
                              ELSE pattern_file_idx
  BY <1>8, <1>9 DEF ReadOption
<1>11. CASE d < h
  <2>1. o = c.flags[d + 1] /\ o # "-f" /\ o # Joined /\ o # "-h" /\ o # "-s"
    BY <1>7, <1>11 DEF Flags, Joined
  <2>2. FlagsRead(c, d + 1)'
    <3>1. FlagsRead(c, d) /\ d \in Nat
      BY <1>5, <1>6, <1>11
    <3> QED  BY <2>1, <3>1, <1>10, FlagStep
  <2>3. Exchanged(c, d + 1)'
    <3>1. /\ argv' = Permuted(c, IF c.wordsFirst THEN d ELSE n) /\ optind' = p + 1
          /\ nonopts' = [first |-> d + 1, last |-> p]
      BY <1>8, <1>10, <2>1
    <3>2. CASE c.wordsFirst
      <4>1. p + 1 = (d + 1) + m + 1 /\ p = (d + 1) + m /\ (d + 1) - 1 = d /\ d + 1 > 0
        BY <1>6, <3>2
      <4> QED  BY <1>6, <3>1, <3>2, <4>1 DEF Exchanged, m
    <3>3. CASE ~c.wordsFirst
      <4>1. p = d + 1 /\ d + 1 \in 1..(p + 1)
        BY <1>6, <3>3
      <4> QED  BY <1>6, <3>1, <3>3, <4>1 DEF Exchanged, n
    <3> QED  BY <1>6, <3>2, <3>3
  <2>4. pattern_file_idx' = 0
    BY <1>5, <1>6, <1>10, <1>11, <2>1
  <2>5. d + 1 \in 0..h /\ d + 1 <= h /\ ~(d + 1 > h)
    BY <1>6, <1>11
  <2>6. OptionsRead(c)'
    BY <2>2, <2>3, <2>4, <2>5 DEF OptionsRead, h, n
  <2>7. pc' = "options"
    <3>1. argv[NextOption] = o /\ NextOption = p
      BY <1>8, <1>9
    <3>2. ~(p + 1 > Len(argv) + 1)
      BY <1>6, <1>8, <1>9
    <3> QED  BY <1>1, <2>1, <3>1, <3>2 DEF ReadOption
  <2> QED  BY <1>4, <2>6, <2>7
<1>12. CASE ~(d < h)
  <2>1. o = "-f" /\ d = h /\ n = h + 2 /\ ~c.wordsFirst /\ p = d + 1
    BY <1>6, <1>7, <1>9, <1>12
  <2>2. FlagsRead(c, h)'
    <3>1. FlagsRead(c, h)
      BY <1>5, <1>6, <2>1
    <3>2. cfl' = cfl /\ (recurse_dirs' <=> recurse_dirs) /\ recurse_dirs' \in BOOLEAN
      <4>1. cfl \in [line : BOOLEAN, invert : BOOLEAN, silent : BOOLEAN, name : BOOLEAN]
        BY <3>1 DEF FlagsRead
      <4>2. FlagsAfter("-f") = cfl
        BY <4>1 DEF FlagsAfter
      <4> QED  BY <1>10, <2>1, <4>2
    <3> QED  BY <3>1, <3>2 DEF FlagsRead, AskedBefore
  <2>3. Exchanged(c, n)'
    <3>1. /\ argv' = Permuted(c, n) /\ optind' = d + 3 /\ nonopts' = [first |-> d + 1, last |-> d + 1]
      BY <1>6, <1>8, <1>10, <2>1
    <3>2. d + 3 = n + 1 /\ d + 1 \in 1..(d + 3) /\ d + 1 \in Nat
      BY <1>6, <2>1
    <3> QED  BY <2>1, <3>1, <3>2 DEF Exchanged, n
  <2>4. pattern_file_idx' = n /\ n > h
    BY <1>6, <1>10, <2>1
  <2>5. OptionsRead(c)'
    <3>1. n \in 0..h \cup {n} /\ ~(n <= h)
      BY <1>6, <2>1
    <3> QED  BY <2>2, <2>3, <2>4, <3>1 DEF OptionsRead, h, n
  <2>6. pc' = "options"
    <3>1. argv[NextOption] = o /\ NextOption = p
      BY <1>8, <1>9
    <3>2. ~(p + 2 > Len(argv) + 1)
      BY <1>6, <1>8, <2>1
    <3> QED  BY <1>1, <2>1, <3>1, <3>2 DEF ReadOption
  <2> QED  BY <1>4, <2>5, <2>6
<1> QED  BY <1>11, <1>12

-----------------------------------------------------------------------------
(* What lines, files and targets give.                                      *)

\* What a line shows is a sequence of reports.
LEMMA LineShows ==
  ASSUME NEW c, NEW f \in Name
  PROVE  Maps(OfLine(c, f), STRING, Seq(Report))
<1> SUFFICES ASSUME NEW l \in STRING PROVE LineGiven(c, f, l) \in Seq(Report)
  BY DEF OfLine, Maps
<1>1. \A b \in BOOLEAN : Text(f, l, b) \in Report
  BY DEF Text, Report
<1>2. (Asked(c, "-F") \/ Asked(c, "-r")) \in BOOLEAN
  OBVIOUS
<1>3. Text(f, l, Asked(c, "-F") \/ Asked(c, "-r")) \in Report
  BY <1>1, <1>2
<1> QED  BY <1>3 DEF LineGiven, ShownLine

\* What a file shows are the reports of its lines.
LEMMA FileShows ==
  ASSUME NEW c, NEW f \in FileName
  PROVE  /\ f \in Name /\ Content[f] \in Seq(STRING) /\ Len(Content[f]) \in Nat
         /\ Given(c, f) = Flat(OfLine(c, f), Content[f]) /\ Given(c, f) \in Seq(Report)
<1>1. f \in Name /\ Kind[f] = "file"
  BY DEF FileName
<1>2. f \in DOMAIN Content
  BY <1>1, NameAssumption
<1>3. Content[f] \in Seq(STRING)
  BY <1>2, NameAssumption
<1> PICK s \in Seq(STRING) : s = Content[f]
  BY <1>3
<1>4. \A i \in DOMAIN s : s[i] \in STRING
  OBVIOUS
<1>5. [i \in DOMAIN s |-> OfLine(c, f)[s[i]]] = [i \in DOMAIN s |-> LineGiven(c, f, s[i])]
  BY <1>4 DEF OfLine
<1>6. Given(c, f) = Flat(OfLine(c, f), s)
  BY <1>5 DEF Given, Flat, Map
<1>7. Maps(OfLine(c, f), STRING, Seq(Report))
  BY <1>1, LineShows
<1>8. Flat(OfLine(c, f), s) \in Seq(Report)
  BY <1>7, FlatConcatenation
<1> QED  BY <1>1, <1>3, <1>6, <1>8

\* What the entries of a target and the files among them give.
LEMMA ResultTypes ==
  ASSUME NEW c
  PROVE  /\ Maps(OfTarget(c), Name \cup {"-"}, Seq(FileName))
         /\ Maps(OfEntry(c), EntryRec, Seq(FileName))
         /\ Maps(OfFile(c), FileName, Seq(Report))
<1>1. ASSUME NEW t \in Name \cup {"-"} PROVE TargetFiles(c, t) \in Seq(FileName)
  <2>1. CASE t = "-"
    BY <2>1 DEF TargetFiles
  <2>2. CASE t # "-"
    <3>1. t \in Name /\ {} \in SUBSET Name
      BY <2>2
    <3>2. FilesBelow(c)[<<t, {}>>] \in Seq(FileName)
      BY <3>1, WalkDefined
    <3> QED  BY <2>2, <3>2 DEF TargetFiles
  <2> QED  BY <2>1, <2>2
<1>2. ASSUME NEW e \in EntryRec PROVE FilesBelow(c)[<<e.name, e.above>>] \in Seq(FileName)
  <2>1. e.name \in Name /\ e.above \in SUBSET Name
    BY DEF EntryRec
  <2> QED  BY <2>1, WalkDefined
<1>3. ASSUME NEW f \in FileName PROVE Given(c, f) \in Seq(Report)
  BY FileShows
<1>4. Maps(OfTarget(c), Name \cup {"-"}, Seq(FileName))
  BY <1>1 DEF OfTarget, Maps
<1>5. Maps(OfEntry(c), EntryRec, Seq(FileName))
  BY <1>2 DEF OfEntry, Maps
<1>6. Maps(OfFile(c), FileName, Seq(Report))
  BY <1>3 DEF OfFile, Maps
<1> QED  BY <1>4, <1>5, <1>6

\* Nothing comes of nothing.
LEMMA NoResults == ASSUME NEW f PROVE Flat(f, <<>>) = <<>>
<1>1. [i \in DOMAIN <<>> |-> f[<<>>[i]]] = <<>>
  OBVIOUS
<1>2. <<>> \in Seq(Seq({})) /\ Len(<<>>) = 0
  OBVIOUS
<1>3. FlattenSeq(<<>>) = <<>>
  BY <1>2, FlattenType
<1> QED  BY <1>1, <1>3 DEF Flat, Map

\* The files of a command line are those of its targets; the output is theirs.
LEMMA FilesAre ==
  ASSUME NEW c \in Commands
  PROVE  /\ Wanted(c) \in DOMAIN Accepts => Files(c) = Flat(OfTarget(c), c.targets)
         /\ Wanted(c) \notin DOMAIN Accepts => Files(c) = <<>>
         /\ Files(c) \in Seq(FileName)
         /\ AllGiven(c) = Flat(OfFile(c), Files(c)) /\ AllGiven(c) \in Seq(Report)
<1> PICK t \in Seq(Name \cup {"-"}) : t = c.targets
  BY CommandAssumption
<1>1. /\ Maps(OfTarget(c), Name \cup {"-"}, Seq(FileName))
      /\ Maps(OfFile(c), FileName, Seq(Report))
  BY ResultTypes
<1>2. \A i \in DOMAIN t : t[i] \in Name \cup {"-"}
  OBVIOUS
<1>3. [i \in DOMAIN t |-> OfTarget(c)[t[i]]] = [i \in DOMAIN t |-> TargetFiles(c, t[i])]
  BY <1>2 DEF OfTarget
<1>4. Files(c) = IF Wanted(c) \in DOMAIN Accepts THEN Flat(OfTarget(c), t) ELSE <<>>
  BY <1>3 DEF Files, Flat, Map
<1>5. Flat(OfTarget(c), t) \in Seq(FileName) /\ <<>> \in Seq(FileName)
  <2>1. Flat(OfTarget(c), t) \in Seq(FileName)
    BY <1>1, FlatConcatenation
  <2> QED  BY <2>1
<1> PICK s \in Seq(FileName) : s = Files(c)
  BY <1>4, <1>5
<1>6. \A i \in DOMAIN s : s[i] \in FileName
  OBVIOUS
<1>7. [i \in DOMAIN s |-> OfFile(c)[s[i]]] = [i \in DOMAIN s |-> Given(c, s[i])]
  BY <1>6 DEF OfFile
<1>8. AllGiven(c) = Flat(OfFile(c), s)
  BY <1>7 DEF AllGiven, Flat, Map
<1>9. Flat(OfFile(c), s) \in Seq(Report)
  BY <1>1, FlatConcatenation
<1> QED  BY <1>4, <1>8, <1>9

\* A run that ends before it searches has nothing to show.
LEMMA NothingToShow ==
  ASSUME NEW c \in Commands, Files(c) = <<>>
  PROVE  AllGiven(c) = <<>> /\ ~\E f \in Range(Files(c)) : \E l \in Range(Content[f]) : IsHit(c, l)
<1>1. AllGiven(c) = <<>>
  BY FilesAre, NoResults
<1>2. Range(<<>>) = {}
  BY DEF Range
<1> QED  BY <1>1, <1>2

-----------------------------------------------------------------------------
(* From the options to the first target.                                    *)

\* The places in argv when every option has been read.
LEMMA PlacesAre ==
  ASSUME NEW c \in Commands, Usual(c)
  PROVE  /\ Len(Opts(c)) \in Nat /\ Len(c.targets) \in Nat /\ Shift(c) \in {0, 1}
         /\ FirstPlace(c) = Len(Opts(c)) + 1 + Shift(c)
         /\ Permuted(c, Len(Opts(c))) \in Seq(Arg(c))
         /\ Len(Permuted(c, Len(Opts(c)))) = Len(Opts(c)) + Shift(c) + Len(c.targets)
         /\ \A i \in 1..Len(c.targets) :
              Permuted(c, Len(Opts(c)))[FirstPlace(c) + i - 1] = c.targets[i]
         /\ c.by = "word" => Permuted(c, Len(Opts(c)))[Len(Opts(c)) + 1] = c.regex
         /\ c.by = "file" => Permuted(c, Len(Opts(c)))[Len(Opts(c))] = c.regex
<1> DEFINE n == Len(Opts(c))
           k == Len(c.targets)
           x == Permuted(c, n)
           w == Words(c)
           s == Shift(c)
           h == Len(c.flags)
<1>1. n \in Nat /\ h \in Nat /\ c.by \in {"word", "file"}
      /\ n = h + (IF c.by = "file" THEN 2 ELSE 0) /\ (c.by = "file" => Opts(c)[h + 2] = c.regex)
  BY OptsAre
<1>2. /\ k \in Nat /\ s \in {0, 1} /\ Len(w) = k + s
      /\ \A i \in 1..k : w[i + s] = c.targets[i]
      /\ c.by = "word" => w[1] = c.regex
  BY WordsAre
<1>3. n \in 0..Len(Opts(c))
  <2>1. \A z \in Nat : z \in 0..z
    OBVIOUS
  <2> QED  BY <1>1, <2>1
<1>4. /\ x \in Seq(Arg(c)) /\ Len(x) = n + Len(w)
      /\ \A i \in 1..n : x[i] = Opts(c)[i]
      /\ \A i \in 1..Len(w) : x[n + i] = w[i]
  BY <1>3, PermutedAre
<1>5. FirstPlace(c) = n + 1 + s
  BY DEF FirstPlace, Shift
<1>6. c.by = "word" => s = 1
  BY DEF Shift
<1> HIDE DEF n, k, x, w, s, h
<1>7. Len(x) = n + s + k
  BY <1>1, <1>2, <1>4
<1>8. ASSUME NEW i \in 1..k PROVE x[n + 1 + s + i - 1] = c.targets[i]
  <2>1. i + s \in 1..Len(w) /\ n + 1 + s + i - 1 = n + (i + s)
    BY <1>1, <1>2
  <2> QED  BY <2>1, <1>2, <1>4
<1>9. c.by = "word" => x[n + 1] = c.regex
  <2> HAVE c.by = "word"
  <2>1. 1 \in 1..Len(w)
    BY <1>2, <1>6
  <2> QED  BY <1>2, <1>4, <2>1
<1>10. c.by = "file" => x[n] = c.regex
  <2> HAVE c.by = "file"
  <2>1. n = h + 2 /\ n \in 1..n
    BY <1>1
  <2> QED  BY <1>1, <1>4, <2>1
<1> QED  BY <1>1, <1>2, <1>4, <1>5, <1>7, <1>8, <1>9, <1>10 DEF n, k, x, s

\* The last exchange puts all options before all words; without a target the
\* program ends.
LEMMA EndOptionsStep == IInv /\ EndOptions => IInv'
<1> SUFFICES ASSUME IInv, EndOptions PROVE IInv'
  OBVIOUS
<1> PICK c \in Commands : c = command
  BY DEF IInv
<1>1. command' = c /\ pc = "options"
  BY DEF EndOptions
<1>2. SUFFICES ASSUME Usual(c)
               PROVE  \/ pc' = "regex" /\ Ready(c)' /\ Untouched' /\ idx' = FirstPlace(c)
                      \/ pc' = "exit" /\ ExitTellsMatch' /\ stdout' = AllGiven(c) /\ matches' = <<>>
  BY <1>1 DEF IInv
<1>3. OptionsRead(c) /\ Untouched
  BY <1>1, <1>2 DEF IInv
<1>4. Untouched' /\ matches' = <<>> /\ stdout' = <<>>
  BY <1>3 DEF Untouched, EndOptions, search, output
<1> DEFINE n == Len(Opts(c))
           h == Len(c.flags)
<1>5. PICK d \in 0..h \cup {n} :
        /\ FlagsRead(c, IF d <= h THEN d ELSE h)
        /\ Exchanged(c, d)
        /\ pattern_file_idx = IF d > h THEN d ELSE 0
  BY <1>3 DEF OptionsRead
<1>6. /\ n \in Nat /\ h \in Nat /\ c.by \in {"word", "file"} /\ c.wordsFirst \in BOOLEAN
      /\ n = h + (IF c.by = "file" THEN 2 ELSE 0)
  BY <1>2, OptsAre
<1>7. \A i \in 1..h : Opts(c)[i] = c.flags[i] /\ c.flags[i] \in Flags \ {"-h", "-s"}
  BY <1>2, OptsAre
<1>8. c.by = "file" => Opts(c)[h + 1] = "-f"
  BY <1>2, OptsAre
<1> HIDE DEF n, h
<1>9. d \in 0..n
  <2>1. n >= h
    BY <1>6
  <2> QED  BY <1>6, <2>1
<1>10. ASSUME d < n PROVE IsOption(Opts(c)[d + 1])
  <2>1. CASE d < h
    <3>1. d + 1 \in 1..h
      BY <1>6, <1>9, <2>1
    <3> QED  BY <1>7, <3>1 DEF IsOption
  <2>2. CASE ~(d < h)
    <3>1. d \in 0..h
      BY <1>6, <1>10
    <3>2. d = h /\ c.by = "file"
      BY <1>6, <1>10, <2>2, <3>1
    <3> QED  BY <1>8, <3>2 DEF IsOption
  <2> QED  BY <2>1, <2>2
<1>11. /\ optind \in Nat /\ Len(argv) = n + Len(Words(c))
       /\ Swapped = Permuted(c, IF c.wordsFirst THEN d ELSE n)
       /\ FirstWord = d + 1
       /\ d < n => /\ NextOption = (IF c.wordsFirst THEN d + Len(Words(c)) + 1 ELSE d + 1)
                   /\ argv[NextOption] = Opts(c)[d + 1]
  BY <1>2, <1>5, <1>9, <1>10, OptionPlaces DEF n
<1>12. Len(Words(c)) \in Nat
  BY <1>2, WordsAre
<1>13. d = n
  <2>1. SUFFICES ASSUME d < n PROVE FALSE
    BY <1>6, <1>9
  <2>2. NextOption = (IF c.wordsFirst THEN d + Len(Words(c)) + 1 ELSE d + 1)
    BY <1>11, <2>1
  <2>3. NextOption <= Len(argv)
    BY <1>6, <1>9, <1>11, <1>12, <2>1, <2>2
  <2>4. NextOption > Len(argv)
    BY DEF EndOptions
  <2>5. NextOption \in Nat /\ Len(argv) \in Nat
    BY <1>6, <1>9, <1>11, <1>12, <2>2
  <2> QED  BY <2>3, <2>4, <2>5
<1>14. argv' = Permuted(c, n) /\ optind' = n + 1
  BY <1>6, <1>11, <1>13 DEF EndOptions
<1>15. pattern_file_idx' = (IF c.by = "file" THEN n ELSE 0) /\ idx' = n + 1 + Shift(c)
  <2>1. idx' = FirstTarget(n + 1) /\ pattern_file_idx' = pattern_file_idx
    BY <1>11, <1>13 DEF EndOptions
  <2>2. CASE c.by = "file"
    <3>1. n > h /\ n # 0
      BY <1>6, <2>2
    <3> QED  BY <1>5, <1>6, <1>13, <2>1, <2>2, <3>1 DEF FirstTarget, Shift
  <2>3. CASE c.by = "word"
    <3>1. ~(n > h)
      BY <1>6, <2>3
    <3> QED  BY <1>5, <1>6, <1>13, <2>1, <2>3, <3>1 DEF FirstTarget, Shift
  <2> QED  BY <1>6, <2>2, <2>3
<1>16. Ready(c)'
  <2>1. FlagsRead(c, h)
    <3>1. n <= h => n = h
      BY <1>6
    <3> QED  BY <1>5, <1>13, <3>1
  <2>2. FlagsRead(c, h)'
    BY <2>1 DEF FlagsRead, AskedBefore, EndOptions
  <2> QED  BY <1>14, <1>15, <2>2 DEF Ready, n, h
<1>17. idx' = FirstPlace(c)
  BY <1>2, <1>15, PlacesAre DEF n
<1>18. CASE ~(idx' > Len(argv))
  BY <1>4, <1>16, <1>17, <1>18 DEF EndOptions
<1>19. CASE idx' > Len(argv)
  <2>1. pc' = "exit" /\ exit_code' = 1
    BY <1>19 DEF EndOptions, Exits
  <2>2. Len(c.targets) = 0
    <3>1. Len(Words(c)) = Len(c.targets) + Shift(c) /\ Len(c.targets) \in Nat /\ Shift(c) \in {0, 1}
      BY <1>2, WordsAre
    <3> QED  BY <1>6, <1>11, <1>15, <1>19, <3>1
  <2>3. c.targets = <<>>
    BY <2>2, CommandAssumption, EmptySequence
  <2>4. Files(c) = <<>>
    BY <2>3, FilesAre, NoResults
  <2>5. AllGiven(c) = <<>> /\ ~\E f \in Range(Files(c)) : \E l \in Range(Content[f]) : IsHit(c, l)
    BY <2>4, NothingToShow
  <2>6. ExitTellsMatch'
    BY <1>1, <2>1, <2>5 DEF ExitTellsMatch
  <2> QED  BY <1>4, <2>1, <2>5, <2>6
<1> QED  BY <1>18, <1>19

\* The expression that is compiled is the one that was asked for.
LEMMA ExpressionIs ==
  ASSUME NEW c \in Commands, Usual(c), Ready(c)
  PROVE  Expression = Wanted(c)
<1> DEFINE n == Len(Opts(c))
<1>1. /\ n \in Nat /\ c.by \in {"word", "file"}
      /\ n = Len(c.flags) + (IF c.by = "file" THEN 2 ELSE 0) /\ Len(c.flags) \in Nat
  BY OptsAre
<1>2. argv = Permuted(c, n) /\ optind = n + 1 /\ pattern_file_idx = IF c.by = "file" THEN n ELSE 0
  BY DEF Ready
<1>3. /\ c.by = "word" => argv[n + 1] = c.regex
      /\ c.by = "file" => argv[n] = c.regex
  BY <1>2, PlacesAre
<1> HIDE DEF n
<1>4. CASE c.by = "word"
  BY <1>2, <1>3, <1>4 DEF Expression, Wanted
<1>5. CASE c.by = "file"
  <2>1. n # 0
    BY <1>1, <1>5
  <2> QED  BY <1>2, <1>3, <1>5, <2>1 DEF Expression, Wanted
<1> QED  BY <1>1, <1>4, <1>5

\* A part of a sequence's beginning that something follows is a prefix.
LEMMA PrefixesAre ==
  ASSUME NEW S, NEW s \in Seq(S), NEW t \in Seq(S)
  PROVE  s \in Prefixes(s \o t)
<1>1. /\ s \o t \in Seq(S) /\ Len(s \o t) = Len(s) + Len(t) /\ Len(s) \in Nat /\ Len(t) \in Nat
      /\ \A i \in 1..Len(s) : (s \o t)[i] = s[i]
  BY Concatenation
<1> PICK u \in Seq(S) : u = s \o t
  BY <1>1
<1>2. SubSeq(u, 1, Len(s)) = s
  <2>1. Len(s) <= Len(u) /\ \A i \in 1..Len(s) : u[i] = s[i]
    BY <1>1
  <2>2. SubSeq(u, 1, Len(s)) \in Seq(S) /\ Len(SubSeq(u, 1, Len(s))) = Len(s)
        /\ \A i \in 1..Len(s) : SubSeq(u, 1, Len(s))[i] = u[i]
    BY <1>1, <2>1
  <2> QED  BY <2>1, <2>2, SameEntries
<1>3. Len(s) \in 0..Len(u)
  BY <1>1
<1> QED  BY <1>2, <1>3 DEF Prefixes

\* The results of every concatenation.
LEMMA FlatJoin ==
  ASSUME NEW S, NEW T, NEW f, Maps(f, S, Seq(T))
  PROVE  \A a, b \in Seq(S) : Flat(f, a \o b) = Flat(f, a) \o Flat(f, b)
<1>1. ASSUME NEW a \in Seq(S), NEW b \in Seq(S) PROVE Flat(f, a \o b) = Flat(f, a) \o Flat(f, b)
  BY FlatConcatenation
<1> QED  BY <1>1

\* The results of a sequence without its first entry.
LEMMA FlatHead ==
  ASSUME NEW S, NEW T, NEW f, Maps(f, S, Seq(T)), NEW s \in Seq(S), s # <<>>
  PROVE  /\ Head(s) \in S /\ Tail(s) \in Seq(S)
         /\ Flat(f, s) = f[Head(s)] \o Flat(f, Tail(s))
<1>1. Head(s) \in S /\ Tail(s) \in Seq(S) /\ s = <<Head(s)>> \o Tail(s)
  OBVIOUS
<1>2. \A a, b \in Seq(S) : Flat(f, a \o b) = Flat(f, a) \o Flat(f, b)
  BY FlatJoin
<1>3. ASSUME NEW x \in S PROVE Flat(f, <<x>>) = f[x] /\ <<x>> \in Seq(S)
  <2>1. Flat(f, <<x>>) = f[x]
    BY FlatOne
  <2> QED  BY <2>1
<1>4. ASSUME NEW x \in S, NEW b \in Seq(S) PROVE Flat(f, <<x>> \o b) = f[x] \o Flat(f, b)
  BY <1>2, <1>3
<1> QED  BY <1>1, <1>4

\* The targets from a place on are the one at it and those behind it.
LEMMA TargetsSplit ==
  ASSUME NEW c \in Commands, Usual(c), NEW i \in FirstPlace(c)..(FirstPlace(c) + Len(c.targets))
  PROVE  /\ TargetsFrom(c, i) \in Seq(Name \cup {"-"})
         /\ i = FirstPlace(c) => TargetsFrom(c, i) = c.targets
         /\ i = FirstPlace(c) + Len(c.targets) => TargetsFrom(c, i) = <<>>
         /\ i < FirstPlace(c) + Len(c.targets) =>
              /\ Permuted(c, Len(Opts(c)))[i] \in Name \cup {"-"}
              /\ TargetsFrom(c, i) = <<Permuted(c, Len(Opts(c)))[i]>> \o TargetsFrom(c, i + 1)
<1> DEFINE S == Name \cup {"-"}
<1> PICK t \in Seq(S) : t = c.targets
  BY CommandAssumption
<1> HIDE DEF S
<1> DEFINE a == FirstPlace(c)
           k == Len(t)
           x == Permuted(c, Len(Opts(c)))
<1>1. a \in Nat /\ k \in Nat /\ \A j \in 1..k : x[a + j - 1] = t[j]
  <2>1. /\ Len(Opts(c)) \in Nat /\ Shift(c) \in {0, 1} /\ FirstPlace(c) = Len(Opts(c)) + 1 + Shift(c)
        /\ \A j \in 1..Len(c.targets) : x[FirstPlace(c) + j - 1] = c.targets[j]
    BY PlacesAre
  <2> QED  BY <2>1
<1>2. i \in a..(a + k)
  OBVIOUS
<1>3. TargetsFrom(c, i) = SubSeq(t, i + 1 - a, k) /\ TargetsFrom(c, i + 1) = SubSeq(t, i + 1 + 1 - a, k)
  BY DEF TargetsFrom
<1> HIDE DEF a, k, x
<1> PICK j \in 1..(k + 1) : j = i + 1 - a
  BY <1>1, <1>2
<1>4. i + 1 + 1 - a = j + 1
  BY <1>1, <1>2
<1>5. SubSeq(t, j, k) \in Seq(S)
  BY <1>1 DEF k
<1>6. j = 1 => SubSeq(t, j, k) = t
  BY <1>1 DEF k
<1>7. j = k + 1 => SubSeq(t, j, k) = <<>>
  BY <1>1 DEF k
<1>8. ASSUME j <= k PROVE t[j] \in S /\ SubSeq(t, j, k) = <<t[j]>> \o SubSeq(t, j + 1, k)
  <2>1. j \in 1..k
    BY <1>1, <1>8
  <2> DEFINE b == SubSeq(t, j, k)
             d == SubSeq(t, j + 1, k)
             y == <<t[j]>>
  <2>2. t[j] \in S
    BY <2>1 DEF k
  <2>3. b \in Seq(S) /\ Len(b) = k - j + 1 /\ \A m \in 1..(k - j + 1) : b[m] = t[j + m - 1]
    BY <1>1, <2>1, SMTT(40) DEF k
  <2>4. d \in Seq(S) /\ Len(d) = k - j /\ \A m \in 1..(k - j) : d[m] = t[j + 1 + m - 1]
    BY <1>1, <2>1 DEF k
  <2>5. y \in Seq(S) /\ Len(y) = 1 /\ y[1] = t[j]
    BY <2>2
  <2> HIDE DEF b, d, y
  <2>6. Joins(b, y, d)
    <3>1. Len(b) = Len(y) + Len(d)
      BY <1>1, <2>1, <2>3, <2>4, <2>5
    <3>2. \A m \in 1..Len(y) : b[m] = y[m]
      <4>1. 1 \in 1..(k - j + 1) /\ j + 1 - 1 = j
        BY <1>1, <2>1
      <4>2. b[1] = y[1]
        BY <4>1, <2>3, <2>5
      <4>3. \A m \in 1..1 : m = 1
        OBVIOUS
      <4> QED  BY <4>2, <4>3, <2>5
    <3>3. \A m \in 1..Len(d) : b[Len(y) + m] = d[m]
      <4> SUFFICES ASSUME NEW m \in 1..(k - j) PROVE b[1 + m] = d[m]
        BY <2>4, <2>5
      <4>1. 1 + m \in 1..(k - j + 1) /\ j + (1 + m) - 1 = j + 1 + m - 1
        BY <1>1, <2>1
      <4> QED  BY <4>1, <2>3, <2>4
    <3> QED  BY <3>1, <3>2, <3>3 DEF Joins
  <2>7. b = y \o d
    BY <2>3, <2>4, <2>5, <2>6, IsConcatenation
  <2> QED  BY <2>2, <2>7 DEF b, d, y
<1>9. i = a => j = 1
  BY <1>1
<1>10. i = a + k => j = k + 1
  BY <1>1
<1>11. i < a + k => j <= k /\ x[i] = t[j]
  <2> HAVE i < a + k
  <2>1. j <= k /\ j \in 1..k /\ a + j - 1 = i
    BY <1>1, <1>2
  <2> QED  BY <1>1, <2>1
<1> QED  BY <1>3, <1>4, <1>5, <1>6, <1>7, <1>8, <1>9, <1>10, <1>11 DEF a, k, x, S

\* The search starts with nothing done, or never.
LEMMA ReadRegexStep == IInv /\ ReadRegex => IInv'
<1> SUFFICES ASSUME IInv, ReadRegex PROVE IInv'
  OBVIOUS
<1> PICK c \in Commands : c = command
  BY DEF IInv
<1>1. command' = c /\ pc = "regex"
  BY DEF ReadRegex, options
<1>2. SUFFICES ASSUME Usual(c)
               PROVE  \/ pc' = "targets" /\ Searching(c)'
                      \/ pc' = "exit" /\ ExitTellsMatch' /\ stdout' = AllGiven(c) /\ matches' = <<>>
  BY <1>1 DEF IInv
<1>3. Ready(c) /\ Untouched /\ idx = FirstPlace(c)
  BY <1>1, <1>2 DEF IInv
<1>4. regex' = Wanted(c)
  BY <1>2, <1>3, ExpressionIs DEF ReadRegex
<1>5. entries' = <<>> /\ status' = 0 /\ matches' = <<>> /\ stdout' = <<>> /\ idx' = FirstPlace(c)
      /\ argv' = argv
  BY <1>3 DEF Untouched, ReadRegex, targets, search, output, options
<1>6. Ready(c)'
  BY <1>3 DEF Ready, FlagsRead, AskedBefore, ReadRegex, options
<1>7. CASE Wanted(c) \in DOMAIN Accepts
  <2>1. pc' = "targets"
    BY <1>4, <1>7 DEF ReadRegex
  <2>2. idx' \in FirstPlace(c)..(FirstPlace(c) + Len(c.targets)) /\ FirstPlace(c) + Len(c.targets) = Len(argv') + 1
    <3>1. /\ Len(Opts(c)) \in Nat /\ Len(c.targets) \in Nat /\ Shift(c) \in {0, 1}
          /\ FirstPlace(c) = Len(Opts(c)) + 1 + Shift(c)
          /\ Len(Permuted(c, Len(Opts(c)))) = Len(Opts(c)) + Shift(c) + Len(c.targets)
      BY <1>2, PlacesAre
    <3>2. argv' = Permuted(c, Len(Opts(c)))
      BY <1>6 DEF Ready
    <3> QED  BY <1>5, <3>1, <3>2
  <2>3. Left(c)' = Files(c)
    <3>1. TargetsFrom(c, idx') = c.targets
      BY <1>2, <1>5, <2>2, TargetsSplit
    <3>2. Flat(OfEntry(c), <<>>) = <<>>
      BY NoResults
    <3>3. Files(c) = Flat(OfTarget(c), c.targets) /\ Files(c) \in Seq(FileName)
      BY <1>7, FilesAre
    <3>4. <<>> \o Files(c) = Files(c)
      BY <3>3
    <3> QED  BY <1>5, <3>1, <3>2, <3>3, <3>4 DEF Left
  <2>4. Searched(c, <<>>)'
    <3>1. Files(c) \in Seq(FileName)
      BY FilesAre
    <3>2. <<>> \o <<>> \o Files(c) = Files(c) /\ <<>> \o <<>> = <<>>
      BY <3>1
    <3>3. Flat(OfFile(c), <<>>) = <<>>
      BY NoResults
    <3>4. ~\E i \in 1..Len(<<>>) : TRUE
      OBVIOUS
    <3> QED  BY <1>5, <2>1, <2>3, <3>2, <3>3, <3>4 DEF Searched
  <2>5. <<>> \in Prefixes(Files(c))
    <3>1. Files(c) \in Seq(FileName) /\ <<>> \in Seq(FileName) /\ <<>> \o Files(c) = Files(c)
      BY FilesAre
    <3>2. <<>> \in Prefixes(<<>> \o Files(c))
      BY <3>1, PrefixesAre
    <3> QED  BY <3>1, <3>2
  <2>6. Searching(c)'
    BY <1>4, <1>5, <1>6, <1>7, <2>1, <2>2, <2>4, <2>5 DEF Searching
  <2> QED  BY <2>1, <2>6
<1>8. CASE Wanted(c) \notin DOMAIN Accepts
  <2>1. pc' = "exit" /\ exit_code' = 1
    BY <1>2, <1>3, <1>8, ExpressionIs DEF ReadRegex, Exits
  <2>2. Files(c) = <<>>
    BY <1>8, FilesAre
  <2>3. AllGiven(c) = <<>> /\ ~\E f \in Range(Files(c)) : \E l \in Range(Content[f]) : IsHit(c, l)
    BY <2>2, NothingToShow
  <2>4. ExitTellsMatch'
    BY <1>1, <2>1, <2>3 DEF ExitTellsMatch
  <2> QED  BY <1>5, <2>1, <2>3, <2>4
<1> QED  BY <1>7, <1>8

-----------------------------------------------------------------------------
(* The walk.                                                                *)

\* What stays the same when the walk moves on between two files: the entries
\* and targets left are for the same files.
WalksOn(c) ==
  /\ pc \in {"targets", "walk"} /\ pc' \in {"targets", "walk"}
  /\ UNCHANGED <<options, regex, status, output>>
  /\ idx' \in FirstPlace(c)..(Len(argv) + 1)
  /\ entries' \in Seq(EntryRec) /\ (pc' = "targets" => entries' = <<>>)
  /\ Left(c)' = Left(c)

\* Then the search is as far as it was.
LEMMA WalkOn ==
  ASSUME NEW c, Searching(c), WalksOn(c)
  PROVE  Searching(c)'
<1>1. PICK done \in Prefixes(Files(c)) : Searched(c, done)
  BY DEF Searching
<1>2. pc # "file" /\ pc' # "file"
  BY DEF WalksOn
<1>3. Searched(c, done)'
  <2>1. Left(c)' = Left(c) /\ stdout' = stdout /\ matches' = matches /\ status' = status
    BY DEF WalksOn, output
  <2>2. (done \o (IF pc = "file" THEN <<file>> ELSE <<>>) \o Left(c))' =
          done \o (IF pc = "file" THEN <<file>> ELSE <<>>) \o Left(c)
    BY <1>2, <2>1
  <2>3. Files(c) = done \o <<>> \o Left(c)
    BY <1>1, <1>2 DEF Searched
  <2>4. stdout \o matches = Flat(OfFile(c), done) \o <<>>
    BY <1>1, <1>2 DEF Searched
  <2>5. status # 0 <=> \E i \in 1..Len(done) : HitBefore(c, done[i], Len(Content[done[i]]))
    BY <1>1 DEF Searched
  <2> QED  BY <1>2, <2>1, <2>3, <2>4, <2>5 DEF Searched
<1>4. Ready(c)'
  <2>1. Ready(c)
    BY DEF Searching
  <2> QED  BY <2>1 DEF Ready, FlagsRead, AskedBefore, WalksOn, options
<1>5. /\ regex' = Wanted(c) /\ regex' \in DOMAIN Accepts
      /\ status' \in Nat /\ stdout' \in Seq(Report) /\ matches' \in Seq(Report) /\ matches' = <<>>
      /\ argv' = argv
  BY <1>2 DEF Searching, WalksOn, output, options
<1> QED  BY <1>2, <1>3, <1>4, <1>5 DEF Searching, WalksOn

\* The files of an entry, those of the others, those of the targets.
LEMMA LeftIs ==
  ASSUME NEW c \in Commands, Usual(c), Searching(c)
  PROVE  /\ FirstPlace(c) \in Nat /\ Len(argv) \in Nat
         /\ Len(argv) + 1 = FirstPlace(c) + Len(c.targets)
         /\ Flat(OfTarget(c), TargetsFrom(c, idx)) \in Seq(FileName)
         /\ Flat(OfEntry(c), entries) \in Seq(FileName)
         /\ Left(c) \in Seq(FileName)
<1>1. argv = Permuted(c, Len(Opts(c)))
  BY DEF Searching, Ready
<1>2. FirstPlace(c) \in Nat /\ Len(argv) \in Nat /\ Len(argv) + 1 = FirstPlace(c) + Len(c.targets)
  <2>1. /\ Len(Opts(c)) \in Nat /\ Len(c.targets) \in Nat /\ Shift(c) \in {0, 1}
        /\ FirstPlace(c) = Len(Opts(c)) + 1 + Shift(c)
        /\ Len(Permuted(c, Len(Opts(c)))) = Len(Opts(c)) + Shift(c) + Len(c.targets)
    BY PlacesAre
  <2> QED  BY <1>1, <2>1
<1>3. idx \in FirstPlace(c)..(FirstPlace(c) + Len(c.targets))
  BY <1>2 DEF Searching
<1>4. TargetsFrom(c, idx) \in Seq(Name \cup {"-"})
  BY <1>3, TargetsSplit
<1>5. Flat(OfTarget(c), TargetsFrom(c, idx)) \in Seq(FileName)
  <2> PICK t \in Seq(Name \cup {"-"}) : t = TargetsFrom(c, idx)
    BY <1>4
  <2>1. Maps(OfTarget(c), Name \cup {"-"}, Seq(FileName))
    BY ResultTypes
  <2>2. Flat(OfTarget(c), t) \in Seq(FileName)
    BY <2>1, FlatConcatenation
  <2> QED  BY <2>2
<1>6. Flat(OfEntry(c), entries) \in Seq(FileName)
  <2> PICK s \in Seq(EntryRec) : s = entries
    BY DEF Searching
  <2>1. Maps(OfEntry(c), EntryRec, Seq(FileName))
    BY ResultTypes
  <2>2. Flat(OfEntry(c), s) \in Seq(FileName)
    BY <2>1, FlatConcatenation
  <2> QED  BY <2>2
<1>7. Left(c) \in Seq(FileName)
  BY <1>5, <1>6 DEF Left
<1> QED  BY <1>2, <1>5, <1>6, <1>7

\* The first entry of the walk, and what is left without it.
LEMMA HeadOfWalk ==
  ASSUME NEW c \in Commands, Usual(c), Searching(c), entries # <<>>
  PROVE  /\ Head(entries) \in EntryRec /\ Tail(entries) \in Seq(EntryRec)
         /\ Flat(OfEntry(c), entries) = OfEntry(c)[Head(entries)] \o Flat(OfEntry(c), Tail(entries))
         /\ Flat(OfEntry(c), Tail(entries)) \in Seq(FileName)
         /\ LET e == Head(entries)
            IN  /\ e.name \in Name /\ e.above \in SUBSET Name
                /\ (e.info = Kind[e.name] \/ (e.info = "unread" /\ Kind[e.name] = "closed"))
                /\ OfEntry(c)[e] = Descent(c, e.name, e.above, FilesBelow(c))
                /\ OfEntry(c)[e] \in Seq(FileName)
<1> PICK s \in Seq(EntryRec) : s = entries
  BY DEF Searching
<1>1. Maps(OfEntry(c), EntryRec, Seq(FileName))
  BY ResultTypes
<1>2. /\ Head(s) \in EntryRec /\ Tail(s) \in Seq(EntryRec)
      /\ Flat(OfEntry(c), s) = OfEntry(c)[Head(s)] \o Flat(OfEntry(c), Tail(s))
  BY <1>1, FlatHead
<1> PICK e \in EntryRec : e = Head(s)
  BY <1>2
<1> PICK t \in Seq(EntryRec) : t = Tail(s)
  BY <1>2
<1>3. Flat(OfEntry(c), t) \in Seq(FileName)
  BY <1>1, FlatConcatenation
<1>4. /\ e.name \in Name /\ e.above \in SUBSET Name
      /\ (e.info = Kind[e.name] \/ (e.info = "unread" /\ Kind[e.name] = "closed"))
  BY DEF EntryRec
<1>5. OfEntry(c)[e] = FilesBelow(c)[<<e.name, e.above>>]
  BY DEF OfEntry
<1>6. /\ FilesBelow(c)[<<e.name, e.above>>] = Descent(c, e.name, e.above, FilesBelow(c))
      /\ FilesBelow(c)[<<e.name, e.above>>] \in Seq(FileName)
  BY <1>4, WalkDefined
<1> QED  BY <1>2, <1>3, <1>4, <1>5, <1>6

\* A sequence of one entry.
LEMMA OneEntry == ASSUME NEW S, NEW x \in S PROVE <<x>> \in Seq(S)
OBVIOUS

\* What the first n + 1 entries of s give is what n give and the last one's result.
Grows(f, s, n) == Flat(f, SubSeq(s, 1, n + 1)) = Flat(f, SubSeq(s, 1, n)) \o f[s[n + 1]]

\* A line more of a sequence's beginning.
LEMMA FlatPrefix ==
  ASSUME NEW S, NEW T, NEW f, Maps(f, S, Seq(T)), NEW s \in Seq(S), NEW n \in 0..(Len(s) - 1)
  PROVE  /\ SubSeq(s, 1, n) \in Seq(S) /\ s[n + 1] \in S /\ Flat(f, SubSeq(s, 1, n)) \in Seq(T)
         /\ Grows(f, s, n)
<1> DEFINE a == SubSeq(s, 1, n)
           b == SubSeq(s, 1, n + 1)
           x == <<s[n + 1]>>
<1>1. n \in Nat /\ n + 1 \in 1..Len(s) /\ n <= Len(s) /\ n + 1 <= Len(s)
  OBVIOUS
<1>2. s[n + 1] \in S
  BY <1>1
<1>3. a \in Seq(S) /\ Len(a) = n /\ \A i \in 1..n : a[i] = s[i]
  BY <1>1
<1>4. b \in Seq(S) /\ Len(b) = n + 1 /\ \A i \in 1..(n + 1) : b[i] = s[i]
  BY <1>1
<1>5. x \in Seq(S) /\ Len(x) = 1 /\ x[1] = s[n + 1]
  BY <1>2
<1> HIDE DEF a, b, x
<1>6. Joins(b, a, x)
  <2>1. Len(b) = Len(a) + Len(x)
    BY <1>3, <1>4, <1>5
  <2>2. \A i \in 1..Len(a) : b[i] = a[i]
    BY <1>1, <1>3, <1>4
  <2>3. \A i \in 1..Len(x) : b[Len(a) + i] = x[i]
    <3>1. \A i \in 1..1 : i = 1
      OBVIOUS
    <3>2. b[n + 1] = s[n + 1]
      BY <1>1, <1>4
    <3> QED  BY <3>1, <3>2, <1>3, <1>5
  <2> QED  BY <2>1, <2>2, <2>3 DEF Joins
<1>7. b = a \o x
  BY <1>3, <1>4, <1>5, <1>6, IsConcatenation
<1>8. Flat(f, a \o x) = Flat(f, a) \o Flat(f, x) /\ Flat(f, a) \in Seq(T)
  BY <1>3, <1>5, FlatConcatenation
<1>9. Flat(f, x) = f[s[n + 1]]
  BY <1>2, FlatOne DEF x
<1> QED  BY <1>2, <1>3, <1>7, <1>8, <1>9 DEF a, b, Grows

\* Entries that give nothing give nothing together.
LEMMA FlatEmpty ==
  ASSUME NEW S, NEW T, NEW f, Maps(f, S, Seq(T)), NEW s \in Seq(S),
         \A i \in 1..Len(s) : f[s[i]] = <<>>
  PROVE  Flat(f, s) = <<>>
<1>0. \A n \in 0..(Len(s) - 1) : Grows(f, s, n)
  BY FlatPrefix
<1> DEFINE R == {n \in Nat : n <= Len(s) => Flat(f, SubSeq(s, 1, n)) = <<>>}
<1>1. 0 \in R
  <2>1. SubSeq(s, 1, 0) = <<>>
    OBVIOUS
  <2> QED  BY <2>1, NoResults
<1>2. ASSUME NEW n \in R PROVE n + 1 \in R
  <2>1. n \in Nat /\ Len(s) \in Nat
    OBVIOUS
  <2>2. SUFFICES ASSUME n + 1 <= Len(s) PROVE Flat(f, SubSeq(s, 1, n + 1)) = <<>>
    OBVIOUS
  <2>3. n <= Len(s) /\ n \in 0..(Len(s) - 1) /\ n + 1 \in 1..Len(s)
    BY <2>1, <2>2
  <2>4. Flat(f, SubSeq(s, 1, n)) = <<>>
    BY <2>3
  <2>5. Flat(f, SubSeq(s, 1, n + 1)) = Flat(f, SubSeq(s, 1, n)) \o f[s[n + 1]]
    BY <2>3, <1>0 DEF Grows
  <2>6. f[s[n + 1]] = <<>>
    BY <2>3
  <2> QED  BY <2>4, <2>5, <2>6
<1>3. R \in SUBSET Nat
  OBVIOUS
<1> HIDE DEF R
<1>4. \A n \in Nat : n \in R
  BY <1>1, <1>2, <1>3, SetInduction
<1>5. Len(s) \in R /\ SubSeq(s, 1, Len(s)) = s /\ Len(s) <= Len(s)
  BY <1>4
<1> QED  BY <1>5 DEF R

\* The next target becomes the entry the walk starts from.
LEMMA OpenTargetStep ==
  ASSUME NEW c \in Commands, Usual(c), Searching(c), OpenTarget
  PROVE  WalksOn(c)
<1>1. /\ FirstPlace(c) \in Nat /\ Len(argv) \in Nat
      /\ Len(argv) + 1 = FirstPlace(c) + Len(c.targets)
  BY LeftIs
<1>2. idx \in FirstPlace(c)..(Len(argv) + 1) /\ idx <= Len(argv) /\ idx' = idx + 1 /\ entries = <<>>
  BY DEF Searching, OpenTarget
<1>3. idx \in FirstPlace(c)..(FirstPlace(c) + Len(c.targets)) /\ idx < FirstPlace(c) + Len(c.targets)
      /\ idx + 1 \in FirstPlace(c)..(FirstPlace(c) + Len(c.targets))
      /\ idx + 1 \in FirstPlace(c)..(Len(argv) + 1)
  BY <1>1, <1>2
<1> PICK t : t = argv[idx]
  OBVIOUS
<1>4. argv = Permuted(c, Len(Opts(c)))
  BY DEF Searching, Ready
<1>5. t \in Name \cup {"-"} /\ TargetsFrom(c, idx) = <<t>> \o TargetsFrom(c, idx + 1)
  BY <1>3, <1>4, TargetsSplit
<1>6. TargetsFrom(c, idx + 1) \in Seq(Name \cup {"-"})
  BY <1>3, TargetsSplit
<1> PICK r \in Seq(Name \cup {"-"}) : r = TargetsFrom(c, idx + 1)
  BY <1>6
<1>7. Maps(OfTarget(c), Name \cup {"-"}, Seq(FileName)) /\ Maps(OfEntry(c), EntryRec, Seq(FileName))
  BY ResultTypes
<1>8. Flat(OfTarget(c), <<t>> \o r) = TargetFiles(c, t) \o Flat(OfTarget(c), r)
  <2> DEFINE S == Name \cup {"-"}
  <2>1. <<t>> \in Seq(S)
    BY <1>5
  <2>2. OfTarget(c)[t] = TargetFiles(c, t)
    BY <1>5 DEF OfTarget
  <2> HIDE DEF S
  <2> PICK a \in Seq(S) : a = <<t>>
    BY <2>1
  <2>3. Flat(OfTarget(c), a \o r) = Flat(OfTarget(c), a) \o Flat(OfTarget(c), r)
    <3>1. \A x, y \in Seq(S) : Flat(OfTarget(c), x \o y) = Flat(OfTarget(c), x) \o Flat(OfTarget(c), y)
      BY <1>7, FlatJoin DEF S
    <3>2. r \in Seq(S)
      BY DEF S
    <3> QED  BY <3>1, <3>2
  <2>4. Flat(OfTarget(c), <<t>>) = OfTarget(c)[t]
    BY <1>5, <1>7, FlatOne
  <2> QED  BY <2>2, <2>3, <2>4
<1>9. Flat(OfTarget(c), r) \in Seq(FileName)
  BY <1>7, FlatConcatenation
<1> PICK g \in Seq(FileName) : g = Flat(OfTarget(c), r)
  BY <1>9
<1>10. Left(c) = <<>> \o (TargetFiles(c, t) \o g)
  BY <1>2, <1>5, <1>8, NoResults DEF Left
<1>11. Left(c)' = Flat(OfEntry(c), entries') \o g
  BY <1>2 DEF Left
<1>12. UNCHANGED <<options, regex, status, output>> /\ pc = "targets"
  BY DEF OpenTarget, search, output
<1>13. CASE t = "-"
  <2>1. pc' = pc /\ entries' = <<>>
    BY <1>2, <1>13 DEF OpenTarget
  <2>2. Left(c) = g /\ Left(c)' = g
    <3>1. TargetFiles(c, t) = <<>>
      BY <1>13 DEF TargetFiles
    <3>2. Flat(OfEntry(c), <<>>) = <<>> /\ <<>> \o g = g /\ <<>> \o (<<>> \o g) = g
      BY NoResults
    <3> QED  BY <1>10, <1>11, <2>1, <3>1, <3>2
  <2>3. <<>> \in Seq(EntryRec)
    OBVIOUS
  <2> QED  BY <1>2, <1>3, <1>12, <2>1, <2>2, <2>3 DEF WalksOn
<1>14. CASE t # "-"
  <2>1. pc' = "walk" /\ entries' = <<Entry(t, {})>>
    BY <1>14 DEF OpenTarget
  <2>2. t \in Name /\ Kind[t] \in Kinds
    BY <1>5, <1>14, NameAssumption
  <2> PICK e : e = Entry(t, {})
    OBVIOUS
  <2>3. e \in EntryRec /\ e.name = t /\ e.above = {}
    BY <2>2 DEF Entry, EntryRec
  <2>4. OfEntry(c)[e] = TargetFiles(c, t)
    BY <1>14, <2>3 DEF OfEntry, TargetFiles
  <2>5. Flat(OfEntry(c), <<e>>) = OfEntry(c)[e]
    BY <1>7, <2>3, FlatOne
  <2>6. OfEntry(c)[e] \in Seq(FileName)
    BY <1>7, <2>3 DEF Maps
  <2> PICK y \in Seq(FileName) : y = TargetFiles(c, t)
    BY <2>4, <2>6
  <2>7. y \o g \in Seq(FileName)
    OBVIOUS
  <2>8. <<>> \o (y \o g) = y \o g
    BY <2>7
  <2>9. Left(c)' = Left(c)
    BY <1>10, <1>11, <2>1, <2>4, <2>5, <2>8
  <2>10. entries' \in Seq(EntryRec)
    BY <2>1, <2>3
  <2> QED  BY <1>2, <1>3, <1>12, <2>1, <2>9, <2>10 DEF WalksOn
<1> QED  BY <1>13, <1>14

\* A directory whose entries have all been returned is closed.
LEMMA CloseTargetStep ==
  ASSUME NEW c \in Commands, Usual(c), Searching(c), CloseTarget
  PROVE  WalksOn(c)
<1>1. /\ pc \in {"targets", "walk"} /\ pc' \in {"targets", "walk"}
      /\ UNCHANGED <<options, regex, status, output, idx, entries>> /\ entries = <<>>
  BY DEF CloseTarget, targets, search
<1>2. idx \in FirstPlace(c)..(Len(argv) + 1) /\ entries \in Seq(EntryRec)
  BY DEF Searching
<1>3. Left(c)' = Left(c)
  BY <1>1 DEF Left
<1> QED  BY <1>1, <1>2, <1>3 DEF WalksOn

\* What replaces the first entry of the walk has the same files below it.
LEMMA HeadReplaced ==
  ASSUME NEW c \in Commands, Usual(c), Searching(c), entries # <<>>, pc = "walk", pc' = "walk",
         UNCHANGED <<options, regex, status, output, idx>>,
         NEW below \in Seq(EntryRec), entries' = below \o Tail(entries),
         Flat(OfEntry(c), below) = OfEntry(c)[Head(entries)]
  PROVE  WalksOn(c)
<1>1. /\ Tail(entries) \in Seq(EntryRec)
      /\ Flat(OfEntry(c), entries) = OfEntry(c)[Head(entries)] \o Flat(OfEntry(c), Tail(entries))
  BY HeadOfWalk
<1> PICK r \in Seq(EntryRec) : r = Tail(entries)
  BY <1>1
<1>2. Maps(OfEntry(c), EntryRec, Seq(FileName))
  BY ResultTypes
<1>3. Flat(OfEntry(c), below \o r) = Flat(OfEntry(c), below) \o Flat(OfEntry(c), r)
  <2>1. \A x, y \in Seq(EntryRec) : Flat(OfEntry(c), x \o y) = Flat(OfEntry(c), x) \o Flat(OfEntry(c), y)
    BY <1>2, FlatJoin, SMTT(40)
  <2> QED  BY <2>1, Zenon
<1>4. Left(c)' = Left(c)
  BY <1>1, <1>3 DEF Left
<1>5. entries' \in Seq(EntryRec)
  OBVIOUS
<1>6. idx \in FirstPlace(c)..(Len(argv) + 1)
  BY DEF Searching
<1> QED  BY <1>4, <1>5, <1>6 DEF WalksOn

\* An entry that is passed over has no files below it.
LEMMA HeadPassed ==
  ASSUME NEW c \in Commands, Usual(c), Searching(c), entries # <<>>, pc = "walk", pc' = "walk",
         UNCHANGED <<options, regex, status, output, idx>>, entries' = Tail(entries),
         OfEntry(c)[Head(entries)] = <<>>
  PROVE  WalksOn(c)
<1>1. Tail(entries) \in Seq(EntryRec)
  BY HeadOfWalk
<1>2. <<>> \in Seq(EntryRec) /\ <<>> \o Tail(entries) = Tail(entries)
  BY <1>1
<1>3. Flat(OfEntry(c), <<>>) = <<>>
  BY NoResults
<1> PICK b \in Seq(EntryRec) : b = <<>>
  BY <1>2
<1> QED  BY <1>2, <1>3, HeadReplaced

\* A flag in front of the words is asked for.
LEMMA AskedIs ==
  ASSUME NEW c \in Commands, Usual(c)
  PROVE  \A o : Asked(c, o) <=> AskedBefore(c, o, Len(c.flags))
<1>1. c.flags \in Seq(Flags)
  BY OptsAre
<1> PICK s \in Seq(Flags) : s = c.flags
  BY <1>1
<1>2. DOMAIN s = 1..Len(s)
  OBVIOUS
<1>3. Range(c.flags) = {s[i] : i \in 1..Len(s)}
  BY <1>2 DEF Range
<1> QED  BY <1>3 DEF Asked, AskedBefore

\* What fts returns for a directory stands for the files below it.
LEMMA EnterDirectoryStep ==
  ASSUME NEW c \in Commands, Usual(c), Searching(c), EnterDirectory
  PROVE  WalksOn(c)
<1>1. pc = "walk" /\ pc' = "walk" /\ entries # <<>> /\ UNCHANGED <<options, regex, status, output, idx>>
  BY DEF EnterDirectory, Visit, search
<1> PICK e : e = Head(entries)
  OBVIOUS
<1>2. /\ e \in EntryRec /\ e.name \in Name /\ e.above \in SUBSET Name
      /\ (e.info = Kind[e.name] \/ (e.info = "unread" /\ Kind[e.name] = "closed"))
      /\ OfEntry(c)[e] = Descent(c, e.name, e.above, FilesBelow(c))
      /\ Tail(entries) \in Seq(EntryRec)
  BY <1>1, HeadOfWalk
<1>3. e.info \in {"directory", "closed"} /\ ~Loops(e)
  BY DEF EnterDirectory, Visit
<1>4. e.info = Kind[e.name] /\ e.name \notin e.above
  BY <1>2, <1>3 DEF Loops
<1>5. recurse_dirs <=> Asked(c, "-r")
  <2>1. FlagsRead(c, Len(c.flags))
    BY DEF Searching, Ready
  <2> QED  BY <2>1, AskedIs DEF FlagsRead
<1>6. Maps(OfEntry(c), EntryRec, Seq(FileName))
  BY ResultTypes
<1>7. CASE ~recurse_dirs
  <2>1. entries' = <<>> \o Tail(entries)
    BY <1>7 DEF EnterDirectory
  <2>2. <<>> \o Tail(entries) = Tail(entries)
    BY <1>2
  <2>3. OfEntry(c)[e] = <<>>
    BY <1>2, <1>3, <1>4, <1>5, <1>7 DEF Descent
  <2> QED  BY <1>1, <2>1, <2>2, <2>3, HeadPassed
<1>8. CASE recurse_dirs /\ e.info = "closed"
  <2> PICK u : u = [e EXCEPT !.info = "unread"]
    OBVIOUS
  <2>1. entries' = <<u>> \o Tail(entries)
    BY <1>8 DEF EnterDirectory
  <2>2. u \in EntryRec /\ u.name = e.name /\ u.above = e.above
    BY <1>2, <1>4, <1>8 DEF EntryRec
  <2>3. OfEntry(c)[u] = OfEntry(c)[e]
    BY <1>2, <2>2 DEF OfEntry
  <2>4. Flat(OfEntry(c), <<u>>) = OfEntry(c)[u]
    BY <1>6, <2>2, FlatOne
  <2>5. <<u>> \in Seq(EntryRec)
    BY <2>2, OneEntry, Zenon
  <2> PICK b \in Seq(EntryRec) : b = <<u>>
    BY <2>5
  <2> QED  BY <1>1, <2>1, <2>3, <2>4, HeadReplaced
<1>9. CASE recurse_dirs /\ e.info = "directory"
  <2>1. e.name \in DOMAIN Entries
    BY <1>2, <1>4, <1>9, NameAssumption
  <2>2. Entries[e.name] \in Seq(Name)
    BY <2>1, NameAssumption
  <2> PICK s \in Seq(Name) : s = Entries[e.name]
    BY <2>2
  <2> DEFINE up == e.above \cup {e.name}
             b  == [i \in DOMAIN s |-> Entry(s[i], up)]
  <2>3. entries' = b \o Tail(entries)
    BY <1>9 DEF EnterDirectory
  <2>4. up \in SUBSET Name
    BY <1>2
  <2>5. \A i \in DOMAIN s : s[i] \in Name /\ Kind[s[i]] \in Kinds
    BY NameAssumption
  <2>6. \A i \in DOMAIN s : Entry(s[i], up) \in EntryRec
    <3> HIDE DEF up
    <3> QED  BY <2>4, <2>5 DEF Entry, EntryRec
  <2>7. b \in Seq(EntryRec) /\ DOMAIN b = DOMAIN s
    <3> HIDE DEF up
    <3> QED  BY <2>6
  <2>8. \A i \in DOMAIN s : OfEntry(c)[b[i]] = FilesBelow(c)[<<s[i], up>>]
    <3> SUFFICES ASSUME NEW i \in DOMAIN s
                 PROVE  OfEntry(c)[Entry(s[i], up)] = FilesBelow(c)[<<s[i], up>>]
      OBVIOUS
    <3>1. Entry(s[i], up) \in EntryRec
      BY <2>6
    <3>2. Entry(s[i], up).name = s[i] /\ Entry(s[i], up).above = up
      BY DEF Entry
    <3> HIDE DEF up
    <3> QED  BY <3>1, <3>2 DEF OfEntry
  <2>9. Flat(OfEntry(c), b) = FlattenSeq([i \in DOMAIN s |-> FilesBelow(c)[<<s[i], up>>]])
    <3>1. [i \in DOMAIN b |-> OfEntry(c)[b[i]]] = [i \in DOMAIN s |-> FilesBelow(c)[<<s[i], up>>]]
      <4> HIDE DEF b, up
      <4> QED  BY <2>7, <2>8
    <3> HIDE DEF b
    <3> QED  BY <3>1 DEF Flat, Map
  <2>10. Flat(OfEntry(c), b) = OfEntry(c)[e]
    <3>1. Asked(c, "-r") /\ Kind[e.name] = "directory" /\ e.name \notin e.above
      BY <1>4, <1>5, <1>9
    <3>2. OfEntry(c)[e] = FlattenSeq([i \in DOMAIN Entries[e.name] |->
                            FilesBelow(c)[<<Entries[e.name][i], e.above \cup {e.name}>>]])
      BY <1>2, <3>1 DEF Descent
    <3> QED  BY <2>9, <3>2
  <2> HIDE DEF b
  <2> PICK x \in Seq(EntryRec) : x = b
    BY <2>7
  <2> QED  BY <1>1, <2>3, <2>10, HeadReplaced
<1> QED  BY <1>3, <1>7, <1>8, <1>9

\* An entry that fts only reports has no files below it.
LEMMA PassEntryStep ==
  ASSUME NEW c \in Commands, Usual(c), Searching(c), PassEntry
  PROVE  WalksOn(c)
<1>1. /\ pc = "walk" /\ pc' = "walk" /\ entries # <<>> /\ entries' = Tail(entries)
      /\ UNCHANGED <<options, regex, status, output, idx>>
  BY DEF PassEntry, Visit, search
<1> PICK e : e = Head(entries)
  OBVIOUS
<1>2. /\ e.name \in Name /\ e.above \in SUBSET Name
      /\ (e.info = Kind[e.name] \/ (e.info = "unread" /\ Kind[e.name] = "closed"))
      /\ OfEntry(c)[e] = Descent(c, e.name, e.above, FilesBelow(c))
  BY <1>1, HeadOfWalk
<1>3. /\ e.info \in {"device", "missing", "unread", "directory", "closed"}
      /\ e.info \in {"directory", "closed"} => e.name \in e.above
  BY DEF PassEntry, Visit, Loops
<1>4. Kind[e.name] # "file" /\ (Kind[e.name] = "directory" => e.name \in e.above)
  BY <1>2, <1>3
<1>5. OfEntry(c)[e] = <<>>
  BY <1>2, <1>4 DEF Descent
<1> QED  BY <1>1, <1>5, HeadPassed

\* A file that is opened is searched next; what cannot be opened is passed over.
LEMMA ProcessFileStep ==
  ASSUME NEW c \in Commands, Usual(c), Searching(c), ProcessFile
  PROVE  pc' \in {"walk", "file"} /\ Searching(c)'
<1>1. /\ pc = "walk" /\ entries # <<>> /\ entries' = Tail(entries)
      /\ UNCHANGED <<options, regex, status, output, idx>>
  BY DEF ProcessFile, Visit
<1> PICK e : e = Head(entries)
  OBVIOUS
<1>2. /\ e \in EntryRec /\ e.name \in Name /\ e.above \in SUBSET Name
      /\ (e.info = Kind[e.name] \/ (e.info = "unread" /\ Kind[e.name] = "closed"))
      /\ OfEntry(c)[e] = Descent(c, e.name, e.above, FilesBelow(c))
      /\ Tail(entries) \in Seq(EntryRec)
      /\ Flat(OfEntry(c), entries) = OfEntry(c)[e] \o Flat(OfEntry(c), Tail(entries))
      /\ Flat(OfEntry(c), Tail(entries)) \in Seq(FileName)
  BY <1>1, HeadOfWalk
<1>3. e.info \in {"file", "link", "locked", "output"}
  BY DEF ProcessFile, Visit
<1>4. e.info = Kind[e.name]
  BY <1>2, <1>3
<1>5. CASE e.info # "file"
  <2>1. pc' = "walk"
    BY <1>1, <1>5 DEF ProcessFile
  <2>2. OfEntry(c)[e] = <<>>
    BY <1>2, <1>3, <1>4, <1>5 DEF Descent
  <2>3. WalksOn(c)
    BY <1>1, <2>1, <2>2, HeadPassed
  <2> QED  BY <2>1, <2>3, WalkOn
<1>6. CASE e.info = "file"
  <2>1. file' = e.name /\ line' = 0 /\ file_status' = 0 /\ pc' = "file"
    BY <1>6 DEF ProcessFile
  <2>2. OfEntry(c)[e] = <<e.name>> /\ e.name \in FileName
    BY <1>2, <1>4, <1>6 DEF Descent, FileName
  <2> PICK f \in FileName : f = e.name
    BY <2>2
  <2>3. PICK done \in Prefixes(Files(c)) : Searched(c, done)
    BY DEF Searching
  <2>4. Files(c) \in Seq(FileName)
    BY FilesAre
  <2>5. done \in Seq(FileName)
    BY <2>4 DEF Prefixes
  <2> PICK r \in Seq(FileName) : r = Flat(OfEntry(c), Tail(entries))
    BY <1>2
  <2> PICK t \in Seq(FileName) : t = Flat(OfTarget(c), TargetsFrom(c, idx))
    BY LeftIs
  <2>6. Left(c) = (<<f>> \o r) \o t /\ Left(c)' = r \o t
    BY <1>1, <1>2, <2>2 DEF Left
  <2>7. Files(c) = done \o <<f>> \o (r \o t)
    <3>1. Files(c) = done \o <<>> \o ((<<f>> \o r) \o t)
      BY <1>1, <2>3, <2>6 DEF Searched
    <3>2. <<f>> \in Seq(FileName)
      OBVIOUS
    <3> PICK x \in Seq(FileName) : x = <<f>>
      BY <3>2
    <3>3. done \o <<>> \o ((x \o r) \o t) = done \o x \o (r \o t)
      <4>1. done \o <<>> = done
        BY <2>5
      <4>2. (x \o r) \o t = x \o (r \o t) /\ r \o t \in Seq(FileName)
        BY Associative
      <4> PICK y \in Seq(FileName) : y = r \o t
        BY <4>2
      <4>3. (done \o x) \o y = done \o (x \o y)
        BY <2>5, Associative, SMTT(40)
      <4> QED  BY <4>1, <4>2, <4>3
    <3> QED  BY <3>1, <3>3
  <2>8. Content[f] \in Seq(STRING) /\ Len(Content[f]) \in Nat
    BY FileShows
  <2>9. stdout \o matches = Flat(OfFile(c), done) \o <<>>
    BY <1>1, <2>3 DEF Searched
  <2>10. Flat(OfLine(c, f), SubSeq(Content[f], 1, 0)) = <<>>
    <3>1. SubSeq(Content[f], 1, 0) = <<>>
      BY <2>8
    <3> QED  BY <3>1, NoResults
  <2>11. status # 0 <=> \E i \in 1..Len(done) : HitBefore(c, done[i], Len(Content[done[i]]))
    BY <2>3 DEF Searched
  <2>12. Searched(c, done)'
    BY <1>1, <2>1, <2>6, <2>7, <2>9, <2>10, <2>11 DEF Searched, output
  <2>13. InFile(c)'
    BY <2>1, <2>8 DEF InFile, HitBefore
  <2>14. Ready(c)'
    <3>1. Ready(c)
      BY DEF Searching
    <3> QED  BY <1>1, <3>1 DEF Ready, FlagsRead, AskedBefore, options
  <2>15. /\ regex' = Wanted(c) /\ regex' \in DOMAIN Accepts /\ idx' \in FirstPlace(c)..(Len(argv') + 1)
         /\ status' \in Nat /\ stdout' \in Seq(Report) /\ matches' \in Seq(Report)
    BY <1>1 DEF Searching, options, output
  <2>16. Searching(c)'
    BY <1>1, <1>2, <2>1, <2>12, <2>13, <2>14, <2>15 DEF Searching
  <2> QED  BY <2>1, <2>16
<1> QED  BY <1>5, <1>6

-----------------------------------------------------------------------------
(* A file.                                                                  *)

\* The options decide for a line what the help text says.
LEMMA ReportedIs ==
  ASSUME NEW c \in Commands, Usual(c), Ready(c), NEW l,
         NEW hit \in BOOLEAN, hit <=> IsHit(c, l)
  PROVE  Reported(l, hit) = LineGiven(c, file, l)
<1>1. \A o : Asked(c, o) <=> AskedBefore(c, o, Len(c.flags))
  BY AskedIs
<1>2. /\ cfl.line <=> ~(Asked(c, "-o") \/ Asked(c, "-v"))
      /\ cfl.invert <=> Asked(c, "-v")
      /\ cfl.silent <=> Asked(c, "-q")
      /\ cfl.name <=> Asked(c, "-F") \/ Asked(c, "-r")
  BY <1>1 DEF Ready, FlagsRead
<1>3. cfl.line \in BOOLEAN /\ cfl.invert \in BOOLEAN /\ cfl.silent \in BOOLEAN /\ cfl.name \in BOOLEAN
  BY DEF Ready, FlagsRead
<1>4. cfl.name = (Asked(c, "-F") \/ Asked(c, "-r"))
  BY <1>2, <1>3 DEF Asked
<1>5. Text(file, l, cfl.name) = Text(file, l, Asked(c, "-F") \/ Asked(c, "-r"))
  BY <1>4
<1>6. (/\ ~cfl.silent /\ l # Blank
       /\ (hit => cfl.line \/ ~cfl.invert) /\ (~hit => cfl.invert))
        <=> ~Asked(c, "-q") /\ l # Blank /\ (IsHit(c, l) <=> ~Asked(c, "-v"))
  BY <1>2, <1>3
<1> QED  BY <1>5, <1>6 DEF Reported, LineGiven, ShownLine, LineAsked

\* Concatenating them one way or the other is the same.
Associates(x, y, z) == (x \o y) \o z = x \o (y \o z)

\* Sequences all do.
LEMMA AllAssociate == ASSUME NEW S PROVE \A x, y, z \in Seq(S) : Associates(x, y, z)
BY Associative DEF Associates

\* Printing out, with held left in the buffer, loses and adds nothing.
Kept(S, s, m, new, held, out) ==
  held \in Seq(S) /\ out \in Seq(S) /\ out \o held = (s \o m) \o new

\* What may be printed of a buffer before or after an addition.
LEMMA BufferKept ==
  ASSUME NEW S, NEW s \in Seq(S), NEW m \in Seq(S), NEW new \in Seq(S),
         NEW all \in Seq(S), all = m \o new, NEW held \in {all, new, <<>>},
         NEW out, out = s \o SubSeq(all, 1, Len(all) - Len(held))
  PROVE  Kept(S, s, m, new, held, out)
<1>1. Len(all) = Len(m) + Len(new) /\ \A i \in 1..Len(m) : all[i] = m[i]
  OBVIOUS
<1>2. (s \o m) \o new = s \o all
  <2>1. Associates(s, m, new)
    BY AllAssociate
  <2>2. (s \o m) \o new = s \o (m \o new)
    BY <2>1, Zenon DEF Associates
  <2> QED  BY <2>2, Zenon
<1>3. s \o all \in Seq(S) /\ s \o m \in Seq(S) /\ <<>> \in Seq(S)
  OBVIOUS
<1>4. CASE held = all
  <2>1. SubSeq(all, 1, Len(all) - Len(held)) = <<>>
    BY <1>4
  <2>2. out = s
    <3>1. out = s \o <<>>
      BY <2>1, Zenon
    <3>2. s \o <<>> = s
      OBVIOUS
    <3> QED  BY <3>1, <3>2, Zenon
  <2> QED  BY <1>2, <1>4, <2>2 DEF Kept
<1>5. CASE held = new
  <2>1. Len(all) - Len(held) = Len(m)
    BY <1>1, <1>5
  <2>2. SubSeq(all, 1, Len(m)) = m
    <3>1. SubSeq(all, 1, Len(m)) \in Seq(S) /\ Len(SubSeq(all, 1, Len(m))) = Len(m)
          /\ \A i \in 1..Len(m) : SubSeq(all, 1, Len(m))[i] = all[i]
      BY <1>1
    <3> QED  BY <1>1, <3>1, SameEntries
  <2>3. out = s \o m
    BY <2>1, <2>2
  <2> QED  BY <1>3, <1>5, <2>3 DEF Kept
<1>6. CASE held = <<>>
  <2>1. Len(all) - Len(held) = Len(all)
    BY <1>6
  <2>2. SubSeq(all, 1, Len(all)) = all
    OBVIOUS
  <2>3. out = s \o all
    BY <2>1, <2>2
  <2>4. (s \o all) \o <<>> = s \o all
    BY <1>3
  <2> QED  BY <1>2, <1>3, <1>6, <2>3, <2>4 DEF Kept
<1> QED  BY <1>4, <1>5, <1>6

\* A report more, whether the buffer is printed before it, after it or not.
LEMMA ReportKept ==
  ASSUME NEW S, NEW new \in Seq(S), matches \in Seq(S), stdout \in Seq(S),
         NEW held \in Holding(new), matches' = held,
         stdout' = stdout \o SubSeq(matches \o new, 1, Len(matches \o new) - Len(held))
  PROVE  /\ matches' \in Seq(S) /\ stdout' \in Seq(S)
         /\ stdout' \o matches' = (stdout \o matches) \o new
<1>1. matches \o new \in Seq(S)
  OBVIOUS
<1>2. held \in {matches \o new, new, <<>>}
  BY DEF Holding
<1> PICK m \in Seq(S) : m = matches
  OBVIOUS
<1> PICK s \in Seq(S) : s = stdout
  OBVIOUS
<1> PICK all \in Seq(S) : all = m \o new
  BY <1>1
<1> PICK out : out = s \o SubSeq(all, 1, Len(all) - Len(held))
  OBVIOUS
<1>3. held \in {all, new, <<>>}
  BY <1>2
<1>4. Kept(S, s, m, new, held, out)
  BY <1>3, BufferKept
<1>5. stdout' = out /\ matches' = held
  OBVIOUS
<1> QED  BY <1>4, <1>5, Zenon DEF Kept

\* A line more has been searched, and its report added.
LEMMA ReadLineStep ==
  ASSUME NEW c \in Commands, Usual(c), Searching(c), ReadLine
  PROVE  pc' = "file" /\ Searching(c)'
<1>1. /\ pc = "file" /\ pc' = "file" /\ line < Len(Content[file]) /\ line' = line + 1
      /\ UNCHANGED <<options, regex, targets, file, status>>
  BY DEF ReadLine
<1>2. /\ file \in FileName /\ line \in 0..Len(Content[file]) /\ file_status \in Nat
      /\ file_status # 0 <=> HitBefore(c, file, line)
      /\ stdout \in Seq(Report) /\ matches \in Seq(Report)
  BY <1>1 DEF Searching, InFile
<1> PICK f \in FileName : f = file
  BY <1>2
<1>3. f \in Name /\ Content[f] \in Seq(STRING) /\ Len(Content[f]) \in Nat
  BY FileShows
<1> PICK s \in Seq(STRING) : s = Content[f]
  BY <1>3
<1> PICK k \in 0..(Len(s) - 1) : k = line
  BY <1>1, <1>2, <1>3
<1> PICK l \in STRING : l = s[k + 1]
  OBVIOUS
<1> DEFINE hit == l \in Accepts[regex]
           new == Reported(l, hit)
<1>4. Ready(c) /\ regex = Wanted(c) /\ regex \in DOMAIN Accepts
  BY DEF Searching
<1>5. hit \in BOOLEAN /\ (hit <=> IsHit(c, l))
  BY <1>4 DEF IsHit
<1>6. new = LineGiven(c, f, l)
  BY <1>4, <1>5, ReportedIs
<1>7. Maps(OfLine(c, f), STRING, Seq(Report))
  BY <1>3, LineShows
<1>8. new = OfLine(c, f)[l] /\ new \in Seq(Report)
  BY <1>6, <1>7 DEF OfLine, Maps
<1>9. /\ file_status' = file_status + (IF hit THEN 1 ELSE 0)
      /\ IF new = <<>> THEN UNCHANGED output
         ELSE \E held \in Holding(new) :
                /\ matches' = held
                /\ stdout' = stdout \o SubSeq(matches \o new, 1, Len(matches \o new) - Len(held))
  BY DEF ReadLine
<1> HIDE DEF new, hit
<1>10. /\ matches' \in Seq(Report) /\ stdout' \in Seq(Report)
       /\ stdout' \o matches' = (stdout \o matches) \o new
  <2>1. CASE new = <<>>
    <3>1. stdout \o matches \in Seq(Report)
      BY <1>2
    <3>2. (stdout \o matches) \o <<>> = stdout \o matches
      BY <3>1
    <3> QED  BY <1>2, <1>9, <2>1, <3>2 DEF output
  <2>2. CASE new # <<>>
    <3>1. PICK held \in Holding(new) :
            /\ matches' = held
            /\ stdout' = stdout \o SubSeq(matches \o new, 1, Len(matches \o new) - Len(held))
      BY <1>9, <2>2
    <3> QED  BY <1>2, <1>8, <3>1, ReportKept
  <2> QED  BY <2>1, <2>2
<1>11. /\ Flat(OfLine(c, f), SubSeq(s, 1, k)) \in Seq(Report)
       /\ Flat(OfLine(c, f), SubSeq(s, 1, k + 1)) = Flat(OfLine(c, f), SubSeq(s, 1, k)) \o new
  <2>1. Flat(OfLine(c, f), SubSeq(s, 1, k)) \in Seq(Report) /\ Grows(OfLine(c, f), s, k)
    BY <1>7, FlatPrefix
  <2> QED  BY <1>8, <2>1 DEF Grows
<1>12. PICK done \in Prefixes(Files(c)) : Searched(c, done)
  BY DEF Searching
<1>13. done \in Seq(FileName)
  <2>1. Files(c) \in Seq(FileName)
    BY FilesAre
  <2> QED  BY <2>1 DEF Prefixes
<1>14. Flat(OfFile(c), done) \in Seq(Report)
  BY <1>13, ResultTypes, FlatConcatenation
<1>15. Searched(c, done)'
  <2>1. Left(c)' = Left(c)
    BY <1>1 DEF Left, targets
  <2>2. Files(c) = done \o <<f>> \o Left(c)
    BY <1>1, <1>12 DEF Searched
  <2>3. stdout \o matches = Flat(OfFile(c), done) \o Flat(OfLine(c, f), SubSeq(s, 1, k))
    BY <1>1, <1>12 DEF Searched
  <2> PICK x \in Seq(Report) : x = Flat(OfFile(c), done)
    BY <1>14
  <2> PICK y \in Seq(Report) : y = Flat(OfLine(c, f), SubSeq(s, 1, k))
    BY <1>11
  <2> PICK z \in Seq(Report) : z = new
    BY <1>8
  <2>4. (x \o y) \o z = x \o (y \o z)
    <3>1. Associates(x, y, z)
      BY AllAssociate
    <3> QED  BY <3>1, Zenon DEF Associates
  <2>5. stdout' \o matches' = Flat(OfFile(c), done) \o Flat(OfLine(c, f), SubSeq(s, 1, k + 1))
    BY <1>10, <1>11, <2>3, <2>4
  <2>6. status # 0 <=> \E i \in 1..Len(done) : HitBefore(c, done[i], Len(Content[done[i]]))
    BY <1>12 DEF Searched
  <2> QED  BY <1>1, <2>1, <2>2, <2>5, <2>6 DEF Searched
<1>16. InFile(c)'
  <2>1. k + 1 \in 0..Len(s) /\ k \in Nat
    OBVIOUS
  <2>2. HitBefore(c, f, k + 1) <=> HitBefore(c, f, k) \/ hit
    <3>1. \A i \in 1..(k + 1) : i \in 1..k \/ i = k + 1
      OBVIOUS
    <3>2. k + 1 \in 1..(k + 1) /\ \A i \in 1..k : i \in 1..(k + 1)
      OBVIOUS
    <3> QED  BY <1>5, <3>1, <3>2 DEF HitBefore
  <2>3. file_status' \in Nat /\ (file_status' # 0 <=> file_status # 0 \/ hit)
    BY <1>2, <1>5, <1>9
  <2> QED  BY <1>1, <1>2, <2>1, <2>2, <2>3 DEF InFile, HitBefore
<1>17. Ready(c)'
  BY <1>1, <1>4 DEF Ready, FlagsRead, AskedBefore, options
<1>18. /\ regex' = Wanted(c) /\ regex' \in DOMAIN Accepts /\ idx' \in FirstPlace(c)..(Len(argv') + 1)
       /\ entries' \in Seq(EntryRec) /\ status' \in Nat
  BY <1>1 DEF Searching, options, targets
<1>19. Searching(c)'
  BY <1>1, <1>10, <1>12, <1>15, <1>16, <1>17, <1>18 DEF Searching
<1> QED  BY <1>1, <1>19

\* -q shows nothing of a file.
LEMMA QuietShows ==
  ASSUME NEW c, Asked(c, "-q"), NEW f \in Name, NEW s \in Seq(STRING)
  PROVE  Flat(OfLine(c, f), s) = <<>>
<1>1. Maps(OfLine(c, f), STRING, Seq(Report))
  BY LineShows
<1>2. \A l \in STRING : OfLine(c, f)[l] = <<>>
  BY DEF OfLine, LineGiven, ShownLine, LineAsked
<1>3. \A i \in 1..Len(s) : OfLine(c, f)[s[i]] = <<>>
  <2>1. \A i \in 1..Len(s) : s[i] \in STRING
    OBVIOUS
  <2> QED  BY <1>2, <2>1, Zenon
<1> QED  BY <1>1, <1>3, FlatEmpty

\* A file that is closed has shown all it has to show, and its status counts.
LEMMA CloseFileStep ==
  ASSUME NEW c \in Commands, Usual(c), Searching(c), CloseFile
  PROVE  pc' = "walk" /\ Searching(c)'
<1>1. /\ pc = "file" /\ pc' = "walk" /\ (line = Len(Content[file]) \/ Stops)
      /\ UNCHANGED <<options, regex, targets>> /\ status' = status + file_status
  BY DEF CloseFile, AddStatus
<1>2. /\ file \in FileName /\ line \in 0..Len(Content[file]) /\ file_status \in Nat
      /\ file_status # 0 <=> HitBefore(c, file, line)
      /\ stdout \in Seq(Report) /\ matches \in Seq(Report) /\ status \in Nat
  BY <1>1 DEF Searching, InFile
<1>3. Ready(c)
  BY DEF Searching
<1> PICK f \in FileName : f = file
  BY <1>2
<1>4. /\ f \in Name /\ Content[f] \in Seq(STRING) /\ Len(Content[f]) \in Nat
      /\ Given(c, f) = Flat(OfLine(c, f), Content[f]) /\ Given(c, f) \in Seq(Report)
  BY FileShows
<1> PICK s \in Seq(STRING) : s = Content[f]
  BY <1>4
<1> PICK k \in 0..Len(s) : k = line
  BY <1>2
<1>5. Flat(OfLine(c, f), SubSeq(s, 1, k)) = Given(c, f)
  <2>1. CASE k = Len(s)
    <3>1. SubSeq(s, 1, Len(s)) = s
      OBVIOUS
    <3> QED  BY <1>4, <2>1, <3>1
  <2>2. CASE Stops
    <3>1. Asked(c, "-q")
      BY <1>3, <2>2, AskedIs DEF Ready, FlagsRead, Stops
    <3>2. SubSeq(s, 1, k) \in Seq(STRING)
      OBVIOUS
    <3>3. Flat(OfLine(c, f), SubSeq(s, 1, k)) = <<>>
      BY <1>4, <3>1, <3>2, QuietShows
    <3>4. Flat(OfLine(c, f), s) = <<>>
      BY <1>4, <3>1, QuietShows
    <3> QED  BY <1>4, <3>3, <3>4
  <2> QED  BY <1>1, <2>1, <2>2
<1>6. file_status # 0 <=> HitBefore(c, f, Len(s))
  <2>1. CASE k = Len(s)
    BY <1>2, <2>1
  <2>2. CASE Stops
    <3>1. file_status # 0
      BY <2>2 DEF Stops
    <3>2. \A i \in 1..k : i \in 1..Len(s)
      OBVIOUS
    <3> QED  BY <1>2, <3>1, <3>2 DEF HitBefore
  <2> QED  BY <1>1, <2>1, <2>2
<1>7. /\ matches' = <<>> /\ stdout' \in Seq(Report)
      /\ stdout' \o matches' = stdout \o matches
  <2>1. CASE matches # <<>>
    <3>1. matches' = <<>> /\ stdout' = stdout \o matches
      BY <2>1 DEF CloseFile, FlushAtClose
    <3>2. stdout \o matches \in Seq(Report)
      BY <1>2
    <3>3. (stdout \o matches) \o <<>> = stdout \o matches
      BY <3>2
    <3> QED  BY <3>1, <3>2, <3>3
  <2>2. CASE matches = <<>>
    BY <1>2, <2>2 DEF CloseFile, FlushAtClose, output
  <2> QED  BY <2>1, <2>2
<1>8. PICK done \in Prefixes(Files(c)) : Searched(c, done)
  BY DEF Searching
<1>9. done \in Seq(FileName)
  <2>1. Files(c) \in Seq(FileName)
    BY FilesAre
  <2> QED  BY <2>1 DEF Prefixes
<1>20. \A a, b \in Seq(FileName) : Flat(OfFile(c), a \o b) = Flat(OfFile(c), a) \o Flat(OfFile(c), b)
  BY ResultTypes, FlatJoin
<1>21. <<f>> \in Seq(FileName)
  BY OneEntry, Zenon
<1> PICK one \in Seq(FileName) : one = <<f>>
  BY <1>21
<1> PICK left \in Seq(FileName) : left = Left(c)
  BY LeftIs
<1>10. done \o one \in Seq(FileName) /\ Joins(done \o one, done, one)
  BY <1>9, ConcatenationJoins
<1> PICK d \in Seq(FileName) : d = done \o one
  BY <1>10
<1>11. Files(c) = d \o left
  BY <1>1, <1>8 DEF Searched
<1>12. Searched(c, d)'
  <2>1. Left(c)' = left
    BY <1>1 DEF Left, targets
  <2>2. Files(c) = d \o <<>> \o left
    <3>1. d \o <<>> = d
      OBVIOUS
    <3> QED  BY <1>11, <3>1
  <2>3. Maps(OfFile(c), FileName, Seq(Report))
    BY ResultTypes
  <2>4. Flat(OfFile(c), d) = Flat(OfFile(c), done) \o Given(c, f) /\ Flat(OfFile(c), d) \in Seq(Report)
    <3>2. Flat(OfFile(c), done \o one) = Flat(OfFile(c), done) \o Flat(OfFile(c), one)
      BY <1>9, <1>20
    <3>3. Flat(OfFile(c), <<f>>) = OfFile(c)[f]
      BY <2>3, FlatOne
    <3>4. OfFile(c)[f] = Given(c, f)
      BY DEF OfFile
    <3>5. Flat(OfFile(c), d) \in Seq(Report)
      BY <2>3, FlatConcatenation
    <3> QED  BY <3>2, <3>3, <3>4, <3>5
  <2>5. stdout \o matches = Flat(OfFile(c), done) \o Flat(OfLine(c, f), SubSeq(s, 1, k))
    BY <1>1, <1>8 DEF Searched
  <2>6. stdout' \o matches' = Flat(OfFile(c), d) \o <<>>
    <3>1. Flat(OfFile(c), d) \o <<>> = Flat(OfFile(c), d)
      BY <2>4
    <3> QED  BY <1>5, <1>7, <2>4, <2>5, <3>1
  <2>7. status' # 0 <=> \E i \in 1..Len(d) : HitBefore(c, d[i], Len(Content[d[i]]))
    <3>1. status # 0 <=> \E i \in 1..Len(done) : HitBefore(c, done[i], Len(Content[done[i]]))
      BY <1>8 DEF Searched
    <3>2. Len(one) = 1 /\ one[1] = f /\ Len(done) \in Nat
      BY <1>9
    <3>3. Len(d) = Len(done) + 1 /\ d[Len(done) + 1] = f /\ \A i \in 1..Len(done) : d[i] = done[i]
      BY <1>10, <3>2 DEF Joins
    <3>4. \A i \in 1..Len(d) : i \in 1..Len(done) \/ i = Len(done) + 1
      BY <3>2, <3>3
    <3>5. Len(done) + 1 \in 1..Len(d) /\ \A i \in 1..Len(done) : i \in 1..Len(d)
      BY <3>2, <3>3
    <3>6. (\E i \in 1..Len(d) : HitBefore(c, d[i], Len(Content[d[i]])))
            <=> (\E i \in 1..Len(done) : HitBefore(c, done[i], Len(Content[done[i]])))
                \/ HitBefore(c, f, Len(Content[f]))
      <4>1. \A i \in 1..Len(done) : HitBefore(c, d[i], Len(Content[d[i]]))
                                      <=> HitBefore(c, done[i], Len(Content[done[i]]))
        BY <3>3
      <4>2. HitBefore(c, d[Len(done) + 1], Len(Content[d[Len(done) + 1]]))
              <=> HitBefore(c, f, Len(Content[f]))
        BY <3>3
      <4> QED  BY <3>4, <3>5, <4>1, <4>2
    <3>7. status' # 0 <=> status # 0 \/ file_status # 0
      BY <1>1, <1>2
    <3> QED  BY <1>6, <3>1, <3>6, <3>7
  <2>8. status' \in Nat
    BY <1>1, <1>2
  <2> QED  BY <1>1, <2>1, <2>2, <2>6, <2>7 DEF Searched, HitBefore
<1>13. d \in Prefixes(Files(c))
  BY <1>11, PrefixesAre
<1>14. Ready(c)'
  BY <1>1, <1>3 DEF Ready, FlagsRead, AskedBefore, options
<1>15. /\ regex' = Wanted(c) /\ regex' \in DOMAIN Accepts /\ idx' \in FirstPlace(c)..(Len(argv') + 1)
       /\ entries' \in Seq(EntryRec) /\ status' \in Nat /\ matches' \in Seq(Report)
  BY <1>1, <1>2, <1>7 DEF Searching, options, targets
<1>16. Searching(c)'
  BY <1>1, <1>7, <1>12, <1>13, <1>14, <1>15 DEF Searching
<1> QED  BY <1>1, <1>16

\* At the end every file has been searched, and the status is the user's answer.
LEMMA EndMainStep ==
  ASSUME NEW c \in Commands, c = command, Usual(c), Searching(c), EndMain
  PROVE  pc' = "exit" /\ ExitTellsMatch' /\ stdout' = AllGiven(c) /\ matches' = <<>>
<1>1. /\ pc = "targets" /\ pc' = "exit" /\ idx > Len(argv) /\ exit_code' = (IF status = 0 THEN 1 ELSE 0)
      /\ UNCHANGED <<options, output>>
  BY DEF EndMain, Exits
<1>2. /\ entries = <<>> /\ matches = <<>> /\ stdout \in Seq(Report) /\ status \in Nat
      /\ idx \in FirstPlace(c)..(Len(argv) + 1)
  BY <1>1 DEF Searching
<1>3. /\ FirstPlace(c) \in Nat /\ Len(argv) \in Nat
      /\ Len(argv) + 1 = FirstPlace(c) + Len(c.targets)
  BY LeftIs
<1>4. idx = FirstPlace(c) + Len(c.targets) /\ idx \in FirstPlace(c)..(FirstPlace(c) + Len(c.targets))
  BY <1>1, <1>2, <1>3
<1>5. Left(c) = <<>>
  <2>1. TargetsFrom(c, idx) = <<>>
    BY <1>4, TargetsSplit
  <2>2. Flat(OfEntry(c), <<>>) = <<>> /\ Flat(OfTarget(c), <<>>) = <<>> /\ <<>> \o <<>> = <<>>
    BY NoResults
  <2> QED  BY <1>2, <2>1, <2>2 DEF Left
<1>6. PICK done \in Prefixes(Files(c)) : Searched(c, done)
  BY DEF Searching
<1>7. done \in Seq(FileName)
  <2>1. Files(c) \in Seq(FileName)
    BY FilesAre
  <2> QED  BY <2>1 DEF Prefixes
<1>8. Files(c) = done
  <2>1. Files(c) = done \o <<>> \o <<>>
    BY <1>1, <1>5, <1>6 DEF Searched
  <2>2. done \o <<>> = done
    BY <1>7
  <2> QED  BY <2>1, <2>2
<1>9. stdout' = AllGiven(c) /\ matches' = <<>>
  <2>1. stdout \o matches = Flat(OfFile(c), done) \o <<>>
    BY <1>1, <1>6 DEF Searched
  <2>2. stdout \o <<>> = stdout
    BY <1>2
  <2>3. Flat(OfFile(c), done) = AllGiven(c) /\ AllGiven(c) \in Seq(Report)
    BY <1>8, FilesAre
  <2>4. AllGiven(c) \o <<>> = AllGiven(c)
    BY <2>3
  <2> QED  BY <1>1, <1>2, <2>1, <2>2, <2>3, <2>4 DEF output
<1>10. (status # 0) <=> \E f \in Range(Files(c)) : \E l \in Range(Content[f]) : IsHit(c, l)
  <2>1. status # 0 <=> \E i \in 1..Len(done) : HitBefore(c, done[i], Len(Content[done[i]]))
    BY <1>6 DEF Searched
  <2>2. Range(Files(c)) = {done[i] : i \in 1..Len(done)}
    <3>1. DOMAIN done = 1..Len(done)
      BY <1>7
    <3> QED  BY <1>8, <3>1 DEF Range
  <2>3. ASSUME NEW f \in FileName
        PROVE  HitBefore(c, f, Len(Content[f])) <=> \E l \in Range(Content[f]) : IsHit(c, l)
    <3>1. Content[f] \in Seq(STRING)
      BY FileShows
    <3> PICK s \in Seq(STRING) : s = Content[f]
      BY <3>1
    <3>2. DOMAIN s = 1..Len(s)
      OBVIOUS
    <3>3. Range(s) = {s[i] : i \in 1..Len(s)}
      BY <3>2 DEF Range
    <3> QED  BY <3>3 DEF HitBefore
  <2>4. \A i \in 1..Len(done) : done[i] \in FileName
    BY <1>7
  <2> QED  BY <2>1, <2>2, <2>3, <2>4
<1>11. ExitTellsMatch'
  <2>1. command' = c
    BY <1>1 DEF options
  <2> QED  BY <1>1, <1>2, <1>10, <2>1 DEF ExitTellsMatch
<1> QED  BY <1>1, <1>9, <1>11

-----------------------------------------------------------------------------
(* The program.                                                             *)

\* Every step of the program keeps the invariant.
LEMMA NextInvariant == IInv /\ [Next]_vars => IInv'
<1> SUFFICES ASSUME IInv, [Next]_vars PROVE IInv'
  OBVIOUS
<1> PICK c \in Commands : c = command
  BY DEF IInv
<1>1. CASE ReadOption
  BY <1>1, ReadOptionStep
<1>2. CASE EndOptions
  BY <1>2, EndOptionsStep
<1>3. CASE ReadRegex
  BY <1>3, ReadRegexStep
<1>4. ASSUME pc \in {"targets", "walk", "file"}, Usual(c) PROVE Searching(c)
  BY <1>4 DEF IInv
<1>5. ASSUME pc' \in {"targets", "walk", "file"}, command' = c, Usual(c) => Searching(c)' PROVE IInv'
  BY <1>5 DEF IInv
<1>6. CASE OpenTarget
  <2>1. pc = "targets" /\ pc' \in {"targets", "walk"} /\ command' = c
    BY <1>6 DEF OpenTarget, options
  <2>2. Usual(c) => Searching(c)'
    BY <1>4, <1>6, <2>1, OpenTargetStep, WalkOn
  <2> QED  BY <1>5, <2>1, <2>2
<1>7. CASE CloseTarget
  <2>1. pc = "walk" /\ pc' = "targets" /\ command' = c
    BY <1>7 DEF CloseTarget, options
  <2>2. Usual(c) => Searching(c)'
    BY <1>4, <1>7, <2>1, CloseTargetStep, WalkOn
  <2> QED  BY <1>5, <2>1, <2>2
<1>8. CASE ProcessFile
  <2>1. pc = "walk" /\ pc' \in {"walk", "file"} /\ command' = c
    BY <1>8 DEF ProcessFile, Visit, options
  <2>2. Usual(c) => Searching(c)'
    BY <1>4, <1>8, <2>1, ProcessFileStep
  <2> QED  BY <1>5, <2>1, <2>2
<1>9. CASE EnterDirectory
  <2>1. pc = "walk" /\ pc' = "walk" /\ command' = c
    BY <1>9 DEF EnterDirectory, Visit, options
  <2>2. Usual(c) => Searching(c)'
    BY <1>4, <1>9, <2>1, EnterDirectoryStep, WalkOn
  <2> QED  BY <1>5, <2>1, <2>2
<1>10. CASE PassEntry
  <2>1. pc = "walk" /\ pc' = "walk" /\ command' = c
    BY <1>10 DEF PassEntry, Visit, options
  <2>2. Usual(c) => Searching(c)'
    BY <1>4, <1>10, <2>1, PassEntryStep, WalkOn
  <2> QED  BY <1>5, <2>1, <2>2
<1>11. CASE ReadLine
  <2>1. pc = "file" /\ pc' = "file" /\ command' = c
    BY <1>11 DEF ReadLine, options
  <2>2. Usual(c) => Searching(c)'
    BY <1>4, <1>11, <2>1, ReadLineStep
  <2> QED  BY <1>5, <2>1, <2>2
<1>12. CASE CloseFile
  <2>1. pc = "file" /\ pc' = "walk" /\ command' = c
    BY <1>12 DEF CloseFile, options
  <2>2. Usual(c) => Searching(c)'
    BY <1>4, <1>12, <2>1, CloseFileStep
  <2> QED  BY <1>5, <2>1, <2>2
<1>13. CASE EndMain
  <2>1. pc = "targets" /\ pc' = "exit" /\ command' = c
    BY <1>13 DEF EndMain, options, Exits
  <2>2. Usual(c) => ExitTellsMatch' /\ stdout' = AllGiven(c) /\ matches' = <<>>
    BY <1>4, <1>13, <2>1, EndMainStep
  <2> QED  BY <2>1, <2>2 DEF IInv
<1>14. CASE Exited \/ UNCHANGED vars
  <2>1. UNCHANGED vars
    BY <1>14 DEF Exited
  <2>2. /\ UNCHANGED <<argv, optind, nonopts, cfl, recurse_dirs, pattern_file_idx, command, pc>>
        /\ UNCHANGED <<regex, idx, entries, file, line, file_status, status, matches, stdout, exit_code>>
    BY <2>1 DEF vars, options, targets, search, output
  <2>3. OptionsRead(c) => OptionsRead(c)'
    BY <2>2 DEF OptionsRead, FlagsRead, AskedBefore, Exchanged
  <2>4. Ready(c) => Ready(c)'
    BY <2>2 DEF Ready, FlagsRead, AskedBefore
  <2>5. Untouched => Untouched'
    BY <2>2 DEF Untouched
  <2>6. Left(c)' = Left(c)
    BY <2>2 DEF Left
  <2>7. InFile(c) => InFile(c)'
    BY <2>2 DEF InFile, HitBefore
  <2>8. \A done : Searched(c, done) => Searched(c, done)'
    BY <2>2, <2>6 DEF Searched, HitBefore
  <2>9. Searching(c) => Searching(c)'
    BY <2>2, <2>4, <2>7, <2>8 DEF Searching
  <2>10. ExitTellsMatch => ExitTellsMatch'
    BY <2>2 DEF ExitTellsMatch
  <2> QED  BY <2>2, <2>3, <2>4, <2>5, <2>9, <2>10 DEF IInv
<1> QED
  BY <1>1, <1>2, <1>3, <1>6, <1>7, <1>8, <1>9, <1>10, <1>11, <1>12, <1>13, <1>14 DEF Next

\* Every state the program reaches satisfies the invariant.
THEOREM Invariant == Spec => []IInv
<1>1. Init => IInv
  BY InitInvariant
<1>2. IInv /\ [Next]_vars => IInv'
  BY NextInvariant
<1> QED  BY <1>1, <1>2, PTL DEF Spec

\* The exit status main returns tells whether a line of a searched file matches,
\* for every command line that only searches and every tree of files.
THEOREM ExitStatusTellsMatch == Spec => []ExitTellsMatch
<1>1. IInv => ExitTellsMatch
  BY DEF IInv, ExitTellsMatch
<1> QED  BY <1>1, Invariant, PTL

\* What something follows is a prefix of the whole.
LEMMA IsPrefixOf ==
  ASSUME NEW S, NEW s \in Seq(S), NEW t \in Seq(S)
  PROVE  IsPrefix(s, s \o t)
<1>1. s \o t \in Seq(S) /\ Len(s \o t) = Len(s) + Len(t) /\ \A i \in 1..Len(s) : (s \o t)[i] = s[i]
  BY Concatenation
<1> PICK u \in Seq(S) : u = s \o t
  BY <1>1
<1>2. Len(s) \in Nat /\ Len(s) <= Len(u)
  BY <1>1
<1>3. SubSeq(s, 1, Len(s)) = s
  OBVIOUS
<1>4. SubSeq(u, 1, Len(s)) = s
  <2>1. /\ SubSeq(u, 1, Len(s)) \in Seq(S) /\ Len(SubSeq(u, 1, Len(s))) = Len(s)
        /\ \A i \in 1..Len(s) : SubSeq(u, 1, Len(s))[i] = u[i]
    BY <1>2
  <2> QED  BY <1>1, <2>1, SameEntries
<1> QED  BY <1>2, <1>3, <1>4 DEF IsPrefix

\* A sequence is its beginning and its end.
LEMMA SplitAt ==
  ASSUME NEW S, NEW s \in Seq(S), NEW k \in 0..Len(s)
  PROVE  /\ SubSeq(s, 1, k) \in Seq(S) /\ SubSeq(s, k + 1, Len(s)) \in Seq(S)
         /\ s = SubSeq(s, 1, k) \o SubSeq(s, k + 1, Len(s))
<1> DEFINE a == SubSeq(s, 1, k)
           b == SubSeq(s, k + 1, Len(s))
           n == Len(s)
<1>1. a \in Seq(S) /\ Len(a) = k /\ \A i \in 1..k : a[i] = s[i]
  OBVIOUS
<1>2. b \in Seq(S) /\ Len(b) = n - k /\ \A i \in 1..(n - k) : b[i] = s[k + 1 + i - 1]
  OBVIOUS
<1>3. n \in Nat /\ k \in 0..n /\ Len(s) = n
  OBVIOUS
<1> HIDE DEF a, b, n
<1>4. \A i \in 1..Len(b) : s[Len(a) + i] = b[i]
  <2>1. \A i \in 1..(n - k) : k + 1 + i - 1 = k + i
    BY <1>3
  <2> QED  BY <1>1, <1>2, <2>1
<1>5. Len(s) = Len(a) + Len(b)
  BY <1>1, <1>2, <1>3
<1>6. Joins(s, a, b)
  BY <1>1, <1>4, <1>5 DEF Joins
<1>7. s = a \o b
  BY <1>1, <1>2, <1>6, IsConcatenation
<1> QED  BY <1>1, <1>2, <1>7 DEF a, b, n

\* What the first k lines of a file show and what the others show.
LEMMA FileSoFar ==
  ASSUME NEW c, NEW f \in FileName, NEW k \in 0..Len(Content[f])
  PROVE  /\ Flat(OfLine(c, f), SubSeq(Content[f], 1, k)) \in Seq(Report)
         /\ \E w \in Seq(Report) : Given(c, f) = Flat(OfLine(c, f), SubSeq(Content[f], 1, k)) \o w
<1> DEFINE read == SubSeq(Content[f], 1, k)
           rest == SubSeq(Content[f], k + 1, Len(Content[f]))
<1>1. f \in Name /\ Content[f] \in Seq(STRING) /\ Given(c, f) = Flat(OfLine(c, f), Content[f])
  BY FileShows
<1>2. Maps(OfLine(c, f), STRING, Seq(Report))
  BY <1>1, LineShows
<1>3. read \in Seq(STRING) /\ rest \in Seq(STRING) /\ Content[f] = read \o rest
  BY <1>1, SplitAt
<1> HIDE DEF read, rest
<1>4. Flat(OfLine(c, f), read \o rest) = Flat(OfLine(c, f), read) \o Flat(OfLine(c, f), rest)
  BY <1>2, <1>3, FlatJoin
<1>5. Flat(OfLine(c, f), read) \in Seq(Report) /\ Flat(OfLine(c, f), rest) \in Seq(Report)
  BY <1>2, <1>3, FlatConcatenation
<1>6. Given(c, f) = Flat(OfLine(c, f), read) \o Flat(OfLine(c, f), rest)
  BY <1>1, <1>3, <1>4, Zenon
<1> QED  BY <1>5, <1>6, Zenon DEF read

\* What files show, those before one, it and those behind it.
LEMMA FilesSplit ==
  ASSUME NEW c, NEW d \in Seq(FileName), NEW f \in FileName, NEW left \in Seq(FileName)
  PROVE  /\ Flat(OfFile(c), d) \in Seq(Report) /\ Given(c, f) \in Seq(Report)
         /\ Flat(OfFile(c), left) \in Seq(Report)
         /\ Flat(OfFile(c), d \o <<f>> \o left)
              = (Flat(OfFile(c), d) \o Given(c, f)) \o Flat(OfFile(c), left)
<1>1. Maps(OfFile(c), FileName, Seq(Report))
  BY ResultTypes
<1>2. <<f>> \in Seq(FileName)
  BY OneEntry, Zenon
<1>3. d \o <<f>> \in Seq(FileName)
  BY <1>2, Concatenation, Zenon
<1>4. Flat(OfFile(c), <<f>>) = Given(c, f)
  <2>1. Flat(OfFile(c), <<f>>) = OfFile(c)[f]
    BY <1>1, FlatOne
  <2> QED  BY <2>1 DEF OfFile
<1>5. \A a, b \in Seq(FileName) : Flat(OfFile(c), a \o b) = Flat(OfFile(c), a) \o Flat(OfFile(c), b)
  BY <1>1, FlatJoin, SMTT(40)
<1>6. Flat(OfFile(c), d \o <<f>>) = Flat(OfFile(c), d) \o Given(c, f)
  BY <1>2, <1>4, <1>5, Zenon
<1>7. Flat(OfFile(c), (d \o <<f>>) \o left) = Flat(OfFile(c), d \o <<f>>) \o Flat(OfFile(c), left)
  BY <1>3, <1>5, Zenon
<1>8. \A a \in Seq(FileName) : Flat(OfFile(c), a) \in Seq(Report)
  BY <1>1, FlatConcatenation
<1>9. Given(c, f) \in Seq(Report)
  BY FileShows
<1> QED  BY <1>6, <1>7, <1>8, <1>9, Zenon

\* The beginning of the second of three sequences, behind the first.
LEMMA BeginsThree ==
  ASSUME NEW S, NEW x \in Seq(S), NEW y \in Seq(S), NEW w \in Seq(S), NEW z \in Seq(S)
  PROVE  IsPrefix(x \o y, (x \o (y \o w)) \o z)
<1>1. y \o w \in Seq(S) /\ w \o z \in Seq(S) /\ x \o y \in Seq(S)
  OBVIOUS
<1>2. Associates(x, y \o w, z) /\ Associates(y, w, z) /\ Associates(x, y, w \o z)
  BY <1>1, AllAssociate, Zenon
<1>3. (x \o (y \o w)) \o z = (x \o y) \o (w \o z)
  BY <1>2, Zenon DEF Associates
<1>4. IsPrefix(x \o y, (x \o y) \o (w \o z))
  BY <1>1, IsPrefixOf, Zenon
<1> QED  BY <1>3, <1>4, Zenon

\* Nothing is a beginning of every sequence, and so is the sequence itself.
LEMMA BeginsItself ==
  ASSUME NEW S, NEW s \in Seq(S)
  PROVE  IsPrefix(<<>>, s) /\ IsPrefix(s, s) /\ s \o <<>> = s
<1>1. <<>> \in Seq(S) /\ <<>> \o s = s /\ s \o <<>> = s
  OBVIOUS
<1>2. IsPrefix(<<>>, <<>> \o s) /\ IsPrefix(s, s \o <<>>)
  BY <1>1, IsPrefixOf, Zenon
<1> QED  BY <1>1, <1>2, Zenon

\* So far the output is the beginning of it.
LEMMA OutputSoFar ==
  ASSUME NEW c \in Commands, Usual(c), Searching(c)
  PROVE  IsPrefix(stdout \o matches, AllGiven(c))
<1>1. PICK done \in Prefixes(Files(c)) : Searched(c, done)
  BY DEF Searching
<1>2. done \in Seq(FileName) /\ AllGiven(c) = Flat(OfFile(c), Files(c))
  <2>1. Files(c) \in Seq(FileName) /\ AllGiven(c) = Flat(OfFile(c), Files(c))
    BY FilesAre
  <2> QED  BY <2>1 DEF Prefixes
<1>3. Left(c) \in Seq(FileName)
  BY LeftIs
<1>4. CASE pc # "file"
  <2>1. Files(c) = (done \o <<>>) \o Left(c) /\ stdout \o matches = Flat(OfFile(c), done) \o <<>>
    BY <1>1, <1>4 DEF Searched
  <2>2. Maps(OfFile(c), FileName, Seq(Report))
    BY ResultTypes
  <2>3. Flat(OfFile(c), done) \in Seq(Report) /\ Flat(OfFile(c), Left(c)) \in Seq(Report)
    BY <1>2, <1>3, <2>2, FlatConcatenation
  <2>4. done \o <<>> = done /\ Flat(OfFile(c), done) \o <<>> = Flat(OfFile(c), done)
    BY <1>2, <2>3, BeginsItself, Zenon
  <2>5. Flat(OfFile(c), done \o Left(c)) = Flat(OfFile(c), done) \o Flat(OfFile(c), Left(c))
    BY <1>2, <1>3, <2>2, FlatJoin
  <2>6. IsPrefix(Flat(OfFile(c), done), Flat(OfFile(c), done) \o Flat(OfFile(c), Left(c)))
    BY <2>3, IsPrefixOf
  <2> QED  BY <1>2, <2>1, <2>4, <2>5, <2>6, Zenon
<1>5. CASE pc = "file"
  <2> DEFINE seen == Flat(OfLine(c, file), SubSeq(Content[file], 1, line))
  <2>1. file \in FileName /\ line \in 0..Len(Content[file])
    BY <1>5 DEF Searching, InFile
  <2>2. Files(c) = (done \o <<file>>) \o Left(c) /\ stdout \o matches = Flat(OfFile(c), done) \o seen
    BY <1>1, <1>5 DEF Searched
  <2>3. seen \in Seq(Report) /\ \E w \in Seq(Report) : Given(c, file) = seen \o w
    BY <2>1, FileSoFar
  <2> HIDE DEF seen
  <2>4. PICK w \in Seq(Report) : Given(c, file) = seen \o w
    BY <2>3
  <2>5. /\ Flat(OfFile(c), done) \in Seq(Report) /\ Flat(OfFile(c), Left(c)) \in Seq(Report)
        /\ Flat(OfFile(c), done \o <<file>> \o Left(c))
             = (Flat(OfFile(c), done) \o Given(c, file)) \o Flat(OfFile(c), Left(c))
    BY <1>2, <1>3, <2>1, FilesSplit
  <2>6. IsPrefix(Flat(OfFile(c), done) \o seen,
                 (Flat(OfFile(c), done) \o (seen \o w)) \o Flat(OfFile(c), Left(c)))
    BY <2>3, <2>5, BeginsThree
  <2> QED  BY <1>2, <2>2, <2>4, <2>5, <2>6, Zenon
<1> QED  BY <1>4, <1>5

\* If no empty line is asked for, what the program shows is what it is asked for.
LEMMA GivenIsShown ==
  ASSUME NEW c, ~EmptyLineAsked(c)
  PROVE  AllGiven(c) = AllShown(c)
<1>1. ASSUME NEW f \in Range(Files(c)) PROVE Given(c, f) = Shown(c, f)
  <2>1. ASSUME NEW i \in DOMAIN Content[f] PROVE LineGiven(c, f, Content[f][i]) = ShownLine(c, f, Content[f][i])
    <3>1. CASE Content[f][i] = Blank
      <4>1. Blank \in Range(Content[f])
        BY <3>1 DEF Range
      <4>2. ~LineAsked(c, Blank)
        BY <4>1 DEF EmptyLineAsked
      <4> QED  BY <3>1, <4>2 DEF LineGiven, ShownLine
    <3>2. CASE Content[f][i] # Blank
      BY <3>2 DEF LineGiven
    <3> QED  BY <3>1, <3>2
  <2> QED  BY <2>1, Zenon DEF Given, Shown
<1>2. \A i \in DOMAIN Files(c) : Given(c, Files(c)[i]) = Shown(c, Files(c)[i])
  BY <1>1 DEF Range
<1> QED  BY <1>2, Zenon DEF AllGiven, AllShown

\* The output is what the files have to show, in the order of the walk, for every
\* command line that asks for no empty line.
THEOREM OutputIsWhatIsAsked == Spec => []OutputIsShown
<1>1. ASSUME IInv PROVE OutputIsShown
  <2> DEFINE c == command
  <2>1. c \in Commands
    BY <1>1 DEF IInv
  <2>2. SUFFICES ASSUME Usual(c)
                 PROVE  /\ IsPrefix(stdout \o matches, AllGiven(c))
                        /\ pc = "exit" => stdout = AllGiven(c)
    BY GivenIsShown DEF OutputIsShown
  <2> HIDE DEF c
  <2>3. IsPrefix(<<>>, AllGiven(c)) /\ IsPrefix(AllGiven(c), AllGiven(c))
        /\ AllGiven(c) \o <<>> = AllGiven(c)
    BY <2>1, FilesAre, BeginsItself
  <2>4. CASE pc \in {"options", "regex"}
    <3>1. stdout = <<>> /\ matches = <<>>
      BY <1>1, <2>1, <2>2, <2>4 DEF IInv, Untouched, c
    <3>2. stdout \o matches = <<>>
      BY <3>1
    <3> QED  BY <2>3, <2>4, <3>2
  <2>5. CASE pc = "exit"
    <3>1. stdout = AllGiven(c) /\ matches = <<>>
      BY <1>1, <2>1, <2>2, <2>5 DEF IInv, c
    <3> QED  BY <2>3, <3>1, Zenon
  <2>6. CASE pc \in {"targets", "walk", "file"}
    <3>1. Searching(c) /\ pc # "exit"
      BY <1>1, <2>1, <2>2, <2>6 DEF IInv, c
    <3> QED  BY <2>1, <2>2, <3>1, OutputSoFar
  <2>7. pc \in {"options", "regex", "targets", "walk", "file", "exit"}
    BY <1>1, <2>2 DEF IInv, c
  <2> QED  BY <2>4, <2>5, <2>6, <2>7
<1> QED  BY <1>1, Invariant, PTL

=============================================================================
