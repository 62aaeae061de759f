---------------------------- MODULE SListProofs ----------------------------
(***************************************************************************)
(* Proofs about SList.  The chains and the pools of all lists together     *)
(* hold every allocated item, each once, and follow the links; so they     *)
(* stay under every operation, because each of them is made of a few moves *)
(* of items between sequences.  From there the lists are shown to be the   *)
(* sequences with a cursor of ListSpec.                                    *)
(***************************************************************************)
EXTENDS SList, Induction

-----------------------------------------------------------------------------
(* Items strung on sequences.                                               *)

\* Each list has two sequences of items: its chain and its pool.
Key == Lists \X {"chain", "pool"}
ChainOf(l) == <<l, "chain">>
PoolOf(l) == <<l, "pool">>

Pointer == Item \cup {NULL}
First(q) == IF q = <<>> THEN NULL ELSE q[1]
LastOf(q) == IF q = <<>> THEN NULL ELSE q[Len(q)]
Following(q, i) == IF i < Len(q) THEN q[i + 1] ELSE NULL
Without(q, k) == [i \in 1..(Len(q) - 1) |-> IF i < k THEN q[i] ELSE q[i + 1]]

\* The sequences s follow the links n.
Strung(s, n) ==
  \A a \in Key : \A i \in 1..Len(s[a]) : n[s[a][i]] = Following(s[a], i)

\* Every item is in one place of one sequence, or free (in H).
Apart(s, H) ==
  /\ \A a \in Key : \A i \in 1..Len(s[a]) : s[a][i] \in Item \ H
  /\ \A a, b \in Key : \A i \in 1..Len(s[a]), k \in 1..Len(s[b]) : s[a][i] = s[b][k] => a = b /\ i = k
  /\ \A x \in Item \ H : \E a \in Key : \E i \in 1..Len(s[a]) : s[a][i] = x

Linked(s, H, n) ==
  /\ s \in [Key -> Seq(Item)] /\ H \subseteq Item /\ n \in [Item -> Pointer]
  /\ Strung(s, n) /\ Apart(s, H)

\* Sequences of items.
LEMMA SeqIs ==
  ASSUME NEW s, NEW H, NEW n, Linked(s, H, n), NEW a \in Key
  PROVE  /\ s[a] \in Seq(Item) /\ Len(s[a]) \in Nat
         /\ \A i \in 1..Len(s[a]) : s[a][i] \in Item /\ s[a][i] \notin H
         /\ s[a] # <<>> <=> Len(s[a]) # 0
<1>1. s[a] \in Seq(Item)
  BY DEF Linked
<1>2. \A i \in 1..Len(s[a]) : s[a][i] \in Item /\ s[a][i] \notin H
  BY DEF Linked, Apart
<1>3. s[a] # <<>> <=> Len(s[a]) # 0
  BY <1>1
<1> QED  BY <1>1, <1>2, <1>3

\* The parts of Linked.
LEMMA LinkedBy ==
  ASSUME NEW s, NEW H, NEW n,
         s \in [Key -> Seq(Item)], H \subseteq Item, n \in [Item -> Pointer],
         \A a \in Key : \A i \in 1..Len(s[a]) :
            s[a][i] \notin H /\ n[s[a][i]] = Following(s[a], i),
         \A a, b \in Key : \A i \in 1..Len(s[a]), k \in 1..Len(s[b]) :
            s[a][i] = s[b][k] => a = b /\ i = k,
         \A x \in Item \ H : \E a \in Key : \E i \in 1..Len(s[a]) : s[a][i] = x
  PROVE  Linked(s, H, n)
<1>1. Strung(s, n)
  BY DEF Strung
<1>2. \A a \in Key : \A i \in 1..Len(s[a]) : s[a][i] \in Item \ H
  <2> SUFFICES ASSUME NEW a \in Key, NEW i \in 1..Len(s[a]) PROVE s[a][i] \in Item \ H
    OBVIOUS
  <2>1. s[a] \in Seq(Item)
    OBVIOUS
  <2>2. s[a][i] \in Item
    BY <2>1
  <2> QED  BY <2>2
<1>3. Apart(s, H)
  BY <1>2, Zenon DEF Apart
<1> QED  BY <1>1, <1>3, Zenon DEF Linked

\* The links of free items do not matter.
LEMMA FreeLinks ==
  ASSUME NEW s, NEW H, NEW n, Linked(s, H, n), NEW m \in [Item -> Pointer],
         \A x \in Item \ H : m[x] = n[x]
  PROVE  Linked(s, H, m)
<1>1. Strung(s, m)
  BY DEF Linked, Strung, Apart
<1> QED  BY <1>1 DEF Linked

\* A sequence without its k-th item.
LEMMA WithoutIs ==
  ASSUME NEW q \in Seq(Item), NEW k \in 1..Len(q)
  PROVE  /\ Without(q, k) \in Seq(Item) /\ Len(Without(q, k)) = Len(q) - 1
         /\ \A i \in 1..(Len(q) - 1) : Without(q, k)[i] = IF i < k THEN q[i] ELSE q[i + 1]
<1>1. Len(q) \in Nat /\ Len(q) - 1 \in Nat
  OBVIOUS
<1>2. \A i \in 1..(Len(q) - 1) : i \in 1..Len(q) /\ i + 1 \in 1..Len(q)
  BY <1>1
<1>3. \A i \in 1..Len(q) : q[i] \in Item
  OBVIOUS
<1>4. Without(q, k) \in [1..(Len(q) - 1) -> Item]
  BY <1>2, <1>3 DEF Without
<1>5. Without(q, k) \in Seq(Item) /\ Len(Without(q, k)) = Len(q) - 1
  BY <1>1, <1>4
<1> QED  BY <1>5 DEF Without

\* An item is taken out: the one before it is linked to the one behind it.
Unlinked(n, q, k) == IF k = 1 THEN n ELSE [n EXCEPT ![q[k - 1]] = n[q[k]]]

\* The item unlinked is free; all others stay in their places.
LEMMA Unlink ==
  ASSUME NEW s, NEW H, NEW n, Linked(s, H, n), NEW a \in Key, NEW k \in 1..Len(s[a])
  PROVE  Linked([s EXCEPT ![a] = Without(s[a], k)], H \cup {s[a][k]}, Unlinked(n, s[a], k))
<1> DEFINE q == s[a]
           t == [s EXCEPT ![a] = Without(q, k)]
           G == H \cup {q[k]}
           m == Unlinked(n, q, k)
           At(b, i) == IF b = a /\ i >= k THEN i + 1 ELSE i
<1>1. /\ q \in Seq(Item) /\ Len(q) \in Nat /\ k \in 1..Len(q) /\ q[k] \in Item
      /\ \A i \in 1..Len(q) : q[i] \in Item
  BY SeqIs
<1>2. s \in [Key -> Seq(Item)] /\ H \subseteq Item /\ n \in [Item -> Pointer]
  BY DEF Linked
<1>3. t \in [Key -> Seq(Item)] /\ G \subseteq Item
  BY <1>1, <1>2, WithoutIs
<1>4. \A b \in Key : b # a => t[b] = s[b]
  BY <1>2
<1>5. /\ Len(t[a]) = Len(q) - 1
      /\ \A i \in 1..(Len(q) - 1) : t[a][i] = IF i < k THEN q[i] ELSE q[i + 1]
  <2>1. t[a] = Without(q, k)
    BY <1>2
  <2> QED  BY <1>1, <2>1, WithoutIs
<1>6. \A b \in Key : \A i \in 1..Len(t[b]) : At(b, i) \in 1..Len(s[b]) /\ t[b][i] = s[b][At(b, i)]
  <2> SUFFICES ASSUME NEW b \in Key, NEW i \in 1..Len(t[b])
               PROVE  At(b, i) \in 1..Len(s[b]) /\ t[b][i] = s[b][At(b, i)]
    OBVIOUS
  <2>1. CASE b # a
    BY <1>4, <2>1
  <2>2. CASE b = a
    BY <1>1, <1>5, <2>2
  <2> QED  BY <2>1, <2>2
<1>7. \A b, c \in Key : \A i \in 1..Len(s[b]), j \in 1..Len(s[c]) : s[b][i] = s[c][j] => b = c /\ i = j
  BY DEF Linked, Apart
<1>8. \A b \in Key : \A i \in 1..Len(s[b]) : s[b][i] \in Item \ H /\ n[s[b][i]] = Following(s[b], i)
  BY DEF Linked, Apart, Strung
<1> HIDE DEF t, m, G
<1>9. m \in [Item -> Pointer]
  BY <1>1, <1>2, <1>8 DEF m, Unlinked
<1>10. \A b, c \in Key : \A i \in 1..Len(t[b]), j \in 1..Len(t[c]) : t[b][i] = t[c][j] => b = c /\ i = j
  <2> SUFFICES ASSUME NEW b \in Key, NEW c \in Key, NEW i \in 1..Len(t[b]), NEW j \in 1..Len(t[c]),
                      t[b][i] = t[c][j]
               PROVE  b = c /\ i = j
    OBVIOUS
  <2>1. b = c /\ At(b, i) = At(c, j)
    <3> HIDE DEF At
    <3>1. /\ At(b, i) \in 1..Len(s[b]) /\ t[b][i] = s[b][At(b, i)]
          /\ At(c, j) \in 1..Len(s[c]) /\ t[c][j] = s[c][At(c, j)]
      BY <1>6
    <3>2. s[b][At(b, i)] = s[c][At(c, j)]
      BY <3>1
    <3> QED  BY <1>7, <3>1, <3>2
  <2>2. i \in Int /\ j \in Int
    OBVIOUS
  <2> QED  BY <1>1, <2>1, <2>2
<1>11. \A x \in Item \ G : \E b \in Key : \E i \in 1..Len(t[b]) : t[b][i] = x
  <2> SUFFICES ASSUME NEW x \in Item \ G PROVE \E b \in Key : \E i \in 1..Len(t[b]) : t[b][i] = x
    OBVIOUS
  <2>1. x \in Item \ H /\ x # q[k]
    BY DEF G
  <2>2. PICK b \in Key : \E i \in 1..Len(s[b]) : s[b][i] = x
    BY <2>1 DEF Linked, Apart
  <2>3. PICK i \in 1..Len(s[b]) : s[b][i] = x
    BY <2>2
  <2>4. CASE b # a
    BY <1>4, <2>3, <2>4
  <2>5. CASE b = a
    <3>1. i # k
      BY <2>1, <2>3, <2>5
    <3>2. CASE i < k
      <4>1. i \in 1..(Len(q) - 1)
        BY <1>1, <2>5, <3>2
      <4>2. t[a][i] = x
        BY <1>1, <1>5, <2>3, <2>5, <3>2, <4>1
      <4> QED  BY <1>5, <2>5, <4>1, <4>2
    <3>3. CASE i > k
      <4>1. i - 1 \in 1..(Len(q) - 1) /\ ~(i - 1 < k) /\ (i - 1) + 1 = i
        BY <1>1, <2>5, <3>3
      <4>2. t[a][i - 1] = x
        BY <1>1, <1>5, <2>3, <2>5, <4>1
      <4> QED  BY <1>5, <2>5, <4>1, <4>2
    <3> QED  BY <1>1, <3>1, <3>2, <3>3
  <2> QED  BY <2>4, <2>5
<1>12. \A b \in Key : \A i \in 1..Len(t[b]) : t[b][i] \notin G
  <2> SUFFICES ASSUME NEW b \in Key, NEW i \in 1..Len(t[b]) PROVE t[b][i] \notin G
    OBVIOUS
  <2>1. At(b, i) \in 1..Len(s[b]) /\ t[b][i] = s[b][At(b, i)] /\ ~(b = a /\ At(b, i) = k)
    BY <1>1, <1>6
  <2>2. s[b][At(b, i)] # q[k]
    BY <1>1, <1>7, <2>1
  <2> QED  BY <1>8, <2>1, <2>2 DEF G
<1>13. \A b \in Key : \A i \in 1..Len(t[b]) : m[t[b][i]] = Following(t[b], i)
  <2> SUFFICES ASSUME NEW b \in Key, NEW i \in 1..Len(t[b]) PROVE m[t[b][i]] = Following(t[b], i)
    OBVIOUS
  <2>1. /\ At(b, i) \in 1..Len(s[b]) /\ t[b][i] = s[b][At(b, i)]
        /\ n[s[b][At(b, i)]] = Following(s[b], At(b, i)) /\ s[b][At(b, i)] \in Item
    BY <1>6, <1>8
  <2>2. k > 1 => k - 1 \in 1..Len(q)
    BY <1>1
  <2>3. CASE b # a
    <3>1. m[t[b][i]] = n[t[b][i]]
      BY <1>1, <1>2, <1>7, <2>1, <2>2, <2>3 DEF m, Unlinked
    <3> QED  BY <1>4, <2>1, <2>3, <3>1
  <2>4. CASE b = a /\ i = k - 1
    <3>1. m[t[b][i]] = n[q[k]]
      BY <1>1, <1>2, <2>1, <2>4 DEF m, Unlinked
    <3>2. n[q[k]] = Following(q, k)
      BY <1>1, <1>8
    <3>3. Following(t[a], k - 1) = Following(q, k)
      <4>1. CASE k < Len(q)
        <5>1. k \in 1..(Len(q) - 1) /\ k - 1 < Len(q) - 1 /\ (k - 1) + 1 = k /\ ~(k < k)
          BY <1>1, <4>1
        <5>2. t[a][k] = q[k + 1]
          BY <1>1, <1>5, <5>1
        <5> QED  BY <1>5, <4>1, <5>1, <5>2 DEF Following
      <4>2. CASE k = Len(q)
        BY <1>1, <1>5, <4>2 DEF Following
      <4> QED  BY <1>1, <4>1, <4>2
    <3> QED  BY <2>4, <3>1, <3>2, <3>3
  <2>5. CASE b = a /\ i # k - 1
    <3>1. At(b, i) # k - 1
      BY <1>1, <2>5
    <3>2. m[t[b][i]] = n[t[b][i]]
      BY <1>1, <1>2, <1>7, <2>1, <2>2, <2>5, <3>1 DEF m, Unlinked
    <3>3. Following(t[a], i) = Following(q, At(a, i))
      <4>1. i \in 1..(Len(q) - 1)
        BY <1>5, <2>5
      <4>2. CASE i < Len(q) - 1
        <5>1. i + 1 \in 1..(Len(q) - 1) /\ At(a, i) < Len(q) /\ (i + 1 < k <=> i < k)
          BY <1>1, <2>5, <4>1, <4>2
        <5>2. t[a][i + 1] = q[At(a, i) + 1]
          BY <1>1, <1>5, <5>1
        <5> QED  BY <1>5, <4>2, <5>1, <5>2 DEF Following
      <4>3. CASE i = Len(q) - 1
        <5>1. At(a, i) = Len(q)
          BY <1>1, <2>5, <4>3
        <5> QED  BY <1>1, <1>5, <4>3, <5>1 DEF Following
      <4> QED  BY <1>1, <4>1, <4>2, <4>3
    <3> QED  BY <2>1, <2>5, <3>2, <3>3
  <2> QED  BY <2>3, <2>4, <2>5
<1>14. Linked(t, G, m)
  BY <1>3, <1>9, <1>10, <1>11, <1>12, <1>13, LinkedBy
<1> QED  BY <1>14 DEF t, G, m

\* A sequence with one more item x in the k-th place.
With(q, k, x) == [i \in 1..(Len(q) + 1) |-> IF i < k THEN q[i] ELSE IF i = k THEN x ELSE q[i - 1]]

\* It is one longer.
LEMMA WithIs ==
  ASSUME NEW q \in Seq(Item), NEW k \in 1..(Len(q) + 1), NEW x \in Item
  PROVE  /\ With(q, k, x) \in Seq(Item) /\ Len(With(q, k, x)) = Len(q) + 1
         /\ \A i \in 1..(Len(q) + 1) :
              With(q, k, x)[i] = IF i < k THEN q[i] ELSE IF i = k THEN x ELSE q[i - 1]
<1>1. Len(q) \in Nat /\ Len(q) + 1 \in Nat
  OBVIOUS
<1>2. \A i \in 1..(Len(q) + 1) : (i < k => i \in 1..Len(q)) /\ (i > k => i - 1 \in 1..Len(q))
  BY <1>1
<1>3. \A i \in 1..Len(q) : q[i] \in Item
  OBVIOUS
<1>4. With(q, k, x) \in [1..(Len(q) + 1) -> Item]
  <2> SUFFICES ASSUME NEW i \in 1..(Len(q) + 1)
               PROVE  (IF i < k THEN q[i] ELSE IF i = k THEN x ELSE q[i - 1]) \in Item
    BY DEF With
  <2>1. i < k \/ i = k \/ i > k
    BY <1>1
  <2> QED  BY <1>2, <1>3, <2>1
<1>5. With(q, k, x) \in Seq(Item) /\ Len(With(q, k, x)) = Len(q) + 1
  BY <1>1, <1>4
<1> QED  BY <1>5 DEF With

\* A free item is put in: the one before it is linked to it, it to the one behind it.
Inserted(n, q, k, x) ==
  LET m == [n EXCEPT ![x] = IF k <= Len(q) THEN q[k] ELSE NULL]
  IN IF k = 1 THEN m ELSE [m EXCEPT ![q[k - 1]] = x]

\* A free item is linked in; all others stay in their places.
LEMMA Insert ==
  ASSUME NEW s, NEW H, NEW n, Linked(s, H, n), NEW a \in Key,
         NEW k \in 1..(Len(s[a]) + 1), NEW x \in H
  PROVE  Linked([s EXCEPT ![a] = With(s[a], k, x)], H \ {x}, Inserted(n, s[a], k, x))
<1> DEFINE q == s[a]
           t == [s EXCEPT ![a] = With(q, k, x)]
           G == H \ {x}
           m == Inserted(n, q, k, x)
           New(b, i) == b = a /\ i = k
           At(b, i) == IF b = a /\ i > k THEN i - 1 ELSE i
<1>1. /\ q \in Seq(Item) /\ Len(q) \in Nat /\ k \in 1..(Len(q) + 1) /\ x \in Item
      /\ \A i \in 1..Len(q) : q[i] \in Item
  BY SeqIs DEF Linked
<1>2. s \in [Key -> Seq(Item)] /\ H \subseteq Item /\ n \in [Item -> Pointer]
  BY DEF Linked
<1>3. t \in [Key -> Seq(Item)] /\ G \subseteq Item
  BY <1>1, <1>2, WithIs
<1>4. \A b \in Key : b # a => t[b] = s[b]
  BY <1>2
<1>5. /\ Len(t[a]) = Len(q) + 1
      /\ \A i \in 1..(Len(q) + 1) : t[a][i] = IF i < k THEN q[i] ELSE IF i = k THEN x ELSE q[i - 1]
  <2>1. t[a] = With(q, k, x)
    BY <1>2
  <2> HIDE DEF t, q
  <2>2. /\ Len(With(q, k, x)) = Len(q) + 1
        /\ \A i \in 1..(Len(q) + 1) :
             With(q, k, x)[i] = IF i < k THEN q[i] ELSE IF i = k THEN x ELSE q[i - 1]
    BY <1>1, WithIs
  <2> QED  BY <2>1, <2>2
<1>6. \A b \in Key : \A i \in 1..Len(t[b]) :
        IF New(b, i) THEN t[b][i] = x ELSE At(b, i) \in 1..Len(s[b]) /\ t[b][i] = s[b][At(b, i)]
  <2> SUFFICES ASSUME NEW b \in Key, NEW i \in 1..Len(t[b])
               PROVE  IF New(b, i) THEN t[b][i] = x
                      ELSE At(b, i) \in 1..Len(s[b]) /\ t[b][i] = s[b][At(b, i)]
    OBVIOUS
  <2>1. CASE b # a
    BY <1>4, <2>1
  <2>2. CASE b = a
    BY <1>1, <1>5, <2>2
  <2> QED  BY <2>1, <2>2
<1>7. \A b, c \in Key : \A i \in 1..Len(s[b]), j \in 1..Len(s[c]) : s[b][i] = s[c][j] => b = c /\ i = j
  BY DEF Linked, Apart
<1>8. \A b \in Key : \A i \in 1..Len(s[b]) :
        s[b][i] \in Item \ H /\ s[b][i] # x /\ n[s[b][i]] = Following(s[b], i)
  BY DEF Linked, Apart, Strung
<1> HIDE DEF t, m, G
<1>9. m \in [Item -> Pointer]
  <2>1. k # 1 => k - 1 \in 1..Len(q)
    BY <1>1
  <2>2. k <= Len(q) => k \in 1..Len(q)
    BY <1>1
  <2> QED  BY <1>1, <1>2, <2>1, <2>2 DEF m, Inserted, Pointer
<1>10. \A b, c \in Key : \A i \in 1..Len(t[b]), j \in 1..Len(t[c]) : t[b][i] = t[c][j] => b = c /\ i = j
  <2> SUFFICES ASSUME NEW b \in Key, NEW c \in Key, NEW i \in 1..Len(t[b]), NEW j \in 1..Len(t[c]),
                      t[b][i] = t[c][j]
               PROVE  b = c /\ i = j
    OBVIOUS
  <2>1. CASE New(b, i) /\ New(c, j)
    BY <2>1
  <2>2. CASE New(b, i) /\ ~New(c, j)
    BY <1>6, <1>8, <2>2
  <2>3. CASE ~New(b, i) /\ New(c, j)
    BY <1>6, <1>8, <2>3
  <2>4. CASE ~New(b, i) /\ ~New(c, j)
    <3>1. b = c /\ At(b, i) = At(c, j)
      <4> HIDE DEF At, New
      <4>1. /\ At(b, i) \in 1..Len(s[b]) /\ t[b][i] = s[b][At(b, i)]
            /\ At(c, j) \in 1..Len(s[c]) /\ t[c][j] = s[c][At(c, j)]
        BY <1>6, <2>4
      <4>2. s[b][At(b, i)] = s[c][At(c, j)]
        BY <4>1
      <4> QED  BY <1>7, <4>1, <4>2
    <3>2. i \in Int /\ j \in Int
      OBVIOUS
    <3> QED  BY <1>1, <2>4, <3>1, <3>2
  <2> QED  BY <2>1, <2>2, <2>3, <2>4
<1>11. \A y \in Item \ G : \E b \in Key : \E i \in 1..Len(t[b]) : t[b][i] = y
  <2> SUFFICES ASSUME NEW y \in Item \ G PROVE \E b \in Key : \E i \in 1..Len(t[b]) : t[b][i] = y
    OBVIOUS
  <2>1. CASE y = x
    <3>1. k \in 1..Len(t[a]) /\ t[a][k] = x
      BY <1>1, <1>5
    <3> QED  BY <2>1, <3>1
  <2>2. CASE y # x
    <3>1. y \in Item \ H
      BY <2>2 DEF G
    <3>2. PICK b \in Key : \E i \in 1..Len(s[b]) : s[b][i] = y
      BY <3>1 DEF Linked, Apart
    <3>3. PICK i \in 1..Len(s[b]) : s[b][i] = y
      BY <3>2
    <3>4. CASE b # a
      BY <1>4, <3>3, <3>4
    <3>5. CASE b = a
      <4>1. CASE i < k
        <5>1. i \in 1..(Len(q) + 1)
          BY <1>1, <3>5
        <5>2. t[a][i] = y
          BY <1>1, <1>5, <3>3, <3>5, <4>1, <5>1
        <5> QED  BY <1>5, <3>5, <5>1, <5>2
      <4>2. CASE i >= k
        <5>1. i + 1 \in 1..(Len(q) + 1) /\ ~(i + 1 < k) /\ i + 1 # k /\ (i + 1) - 1 = i
          BY <1>1, <3>5, <4>2
        <5>2. t[a][i + 1] = y
          BY <1>1, <1>5, <3>3, <3>5, <5>1
        <5> QED  BY <1>5, <3>5, <5>1, <5>2
      <4> QED  BY <1>1, <3>5, <4>1, <4>2
    <3> QED  BY <3>4, <3>5
  <2> QED  BY <2>1, <2>2
<1>12. \A b \in Key : \A i \in 1..Len(t[b]) : t[b][i] \notin G
  BY <1>6, <1>8 DEF G
<1>13. \A b \in Key : \A i \in 1..Len(t[b]) : m[t[b][i]] = Following(t[b], i)
  <2> SUFFICES ASSUME NEW b \in Key, NEW i \in 1..Len(t[b]) PROVE m[t[b][i]] = Following(t[b], i)
    OBVIOUS
  <2>1. /\ m[x] = IF k <= Len(q) THEN q[k] ELSE NULL
        /\ k # 1 => m[q[k - 1]] = x
        /\ \A y \in Item : y # x /\ (k = 1 \/ y # q[k - 1]) => m[y] = n[y]
    <3>1. k # 1 => k - 1 \in 1..Len(q)
      BY <1>1
    <3>2. k # 1 => q[k - 1] \in Item /\ q[k - 1] # x
      BY <1>8, <3>1
    <3> QED  BY <1>1, <1>2, <3>2 DEF m, Inserted
  <2>2. CASE New(b, i)
    <3>1. Following(t[a], k) = IF k <= Len(q) THEN q[k] ELSE NULL
      <4>1. k <= Len(q) => k + 1 \in 1..(Len(q) + 1) /\ ~(k + 1 < k) /\ k + 1 # k /\ (k + 1) - 1 = k
        BY <1>1
      <4>2. k <= Len(q) => t[a][k + 1] = q[k]
        BY <1>5, <4>1
      <4> QED  BY <1>1, <1>5, <4>2 DEF Following
    <3>2. t[b][i] = x
      BY <1>6, <2>2
    <3> QED  BY <2>1, <2>2, <3>1, <3>2
  <2>3. CASE ~New(b, i)
    <3>1. /\ At(b, i) \in 1..Len(s[b]) /\ t[b][i] = s[b][At(b, i)]
          /\ n[s[b][At(b, i)]] = Following(s[b], At(b, i))
          /\ s[b][At(b, i)] \in Item /\ s[b][At(b, i)] # x
      <4> HIDE DEF At, New
      <4>1. At(b, i) \in 1..Len(s[b]) /\ t[b][i] = s[b][At(b, i)]
        BY <1>6, <2>3
      <4> QED  BY <1>8, <4>1
    <3>2. k # 1 => k - 1 \in 1..Len(q)
      BY <1>1
    <3>3. CASE b # a
      <4>1. m[t[b][i]] = n[t[b][i]]
        BY <1>7, <2>1, <3>1, <3>2, <3>3
      <4> QED  BY <1>4, <3>1, <3>3, <4>1
    <3>4. CASE b = a /\ i = k - 1
      <4>1. k # 1 /\ At(b, i) = k - 1
        BY <1>1, <3>4
      <4>2. m[t[b][i]] = x
        BY <2>1, <3>1, <3>4, <4>1
      <4>3. k \in 1..(Len(q) + 1) /\ ~(k < k) /\ k - 1 < Len(q) + 1 /\ (k - 1) + 1 = k
        BY <1>1
      <4>4. Following(t[a], k - 1) = x
        BY <1>5, <4>3 DEF Following
      <4> QED  BY <3>4, <4>2, <4>4
    <3>5. CASE b = a /\ i # k - 1
      <4>1. At(b, i) # k - 1
        BY <1>1, <2>3, <3>5
      <4>2. k = 1 \/ t[b][i] # q[k - 1]
        BY <1>7, <3>1, <3>2, <3>5, <4>1
      <4>3. m[t[b][i]] = n[t[b][i]]
        BY <2>1, <3>1, <4>2
      <4>4. Following(t[a], i) = Following(q, At(a, i))
        <5>1. i \in 1..(Len(q) + 1) /\ i # k
          BY <1>5, <2>3, <3>5
        <5>2. CASE i < Len(q) + 1
          <6>1. /\ i + 1 \in 1..(Len(q) + 1) /\ (i < k => i + 1 < k)
                /\ (i > k => ~(i + 1 < k) /\ i + 1 # k /\ (i + 1) - 1 = (i - 1) + 1)
            BY <1>1, <3>5, <5>1, <5>2
          <6>2. t[a][i + 1] = q[At(a, i) + 1] /\ At(a, i) < Len(q)
            <7>1. CASE i < k
              BY <1>1, <1>5, <5>1, <6>1, <7>1
            <7>2. CASE i > k
              BY <1>1, <1>5, <5>1, <5>2, <6>1, <7>2
            <7> QED  BY <1>1, <5>1, <7>1, <7>2
          <6> QED  BY <1>5, <5>2, <6>2 DEF Following
        <5>3. CASE i = Len(q) + 1
          <6>1. At(a, i) = Len(q)
            BY <1>1, <5>1, <5>3
          <6> QED  BY <1>1, <1>5, <5>3, <6>1 DEF Following
        <5> QED  BY <1>1, <5>1, <5>2, <5>3
      <4> QED  BY <3>1, <3>5, <4>3, <4>4
    <3> QED  BY <3>3, <3>4, <3>5
  <2> QED  BY <2>2, <2>3
<1>14. Linked(t, G, m)
  BY <1>3, <1>9, <1>10, <1>11, <1>12, <1>13, LinkedBy
<1> QED  BY <1>14 DEF t, G, m

\* All of one sequence goes behind another one.
Joined(n, q, r) == IF q = <<>> THEN n ELSE [n EXCEPT ![LastOf(q)] = First(r)]

\* Two sequences of items in a row.
LEMMA ConcatIs ==
  ASSUME NEW q \in Seq(Item), NEW r \in Seq(Item)
  PROVE  /\ q \o r \in Seq(Item) /\ Len(q \o r) = Len(q) + Len(r)
         /\ \A i \in 1..(Len(q) + Len(r)) : (q \o r)[i] = IF i <= Len(q) THEN q[i] ELSE r[i - Len(q)]
OBVIOUS

\* One sequence is linked behind another, which leaves it empty.
LEMMA Join ==
  ASSUME NEW s, NEW H, NEW n, Linked(s, H, n), NEW a \in Key, NEW b \in Key, a # b
  PROVE  Linked([s EXCEPT ![a] = s[a] \o s[b], ![b] = <<>>], H, Joined(n, s[a], s[b]))
<1> DEFINE q == s[a]
           r == s[b]
           t == [s EXCEPT ![a] = q \o r, ![b] = <<>>]
           m == Joined(n, q, r)
           Far(c, i) == c = a /\ i > Len(q)
           From(c, i) == IF Far(c, i) THEN b ELSE c
           At(c, i) == IF Far(c, i) THEN i - Len(q) ELSE i
<1>1. /\ q \in Seq(Item) /\ Len(q) \in Nat /\ r \in Seq(Item) /\ Len(r) \in Nat
      /\ q # <<>> <=> Len(q) # 0
      /\ r # <<>> <=> Len(r) # 0
      /\ \A i \in 1..Len(q) : q[i] \in Item
      /\ \A i \in 1..Len(r) : r[i] \in Item
  BY SeqIs
<1>2. s \in [Key -> Seq(Item)] /\ H \subseteq Item /\ n \in [Item -> Pointer] /\ s[a] = q /\ s[b] = r
  BY DEF Linked
<1>3. t \in [Key -> Seq(Item)]
  <2>1. q \o r \in Seq(Item) /\ <<>> \in Seq(Item)
    BY <1>1
  <2> HIDE DEF q, r
  <2> QED  BY <1>2, <2>1
<1>4. \A c \in Key : c # a /\ c # b => t[c] = s[c]
  BY <1>2
<1> HIDE DEF q, r
<1>5. /\ t[b] = <<>> /\ Len(t[b]) = 0
      /\ Len(t[a]) = Len(q) + Len(r)
      /\ \A i \in 1..(Len(q) + Len(r)) : t[a][i] = IF i <= Len(q) THEN q[i] ELSE r[i - Len(q)]
  <2>1. t[a] = q \o r /\ t[b] = <<>>
    BY <1>2
  <2> HIDE DEF t
  <2>2. /\ Len(q \o r) = Len(q) + Len(r)
        /\ \A i \in 1..(Len(q) + Len(r)) : (q \o r)[i] = IF i <= Len(q) THEN q[i] ELSE r[i - Len(q)]
    BY <1>1, ConcatIs
  <2> QED  BY <2>1, <2>2
<1>6. \A c \in Key : \A i \in 1..Len(t[c]) :
        From(c, i) \in Key /\ At(c, i) \in 1..Len(s[From(c, i)]) /\ t[c][i] = s[From(c, i)][At(c, i)]
  <2> SUFFICES ASSUME NEW c \in Key, NEW i \in 1..Len(t[c])
               PROVE  /\ From(c, i) \in Key /\ At(c, i) \in 1..Len(s[From(c, i)])
                      /\ t[c][i] = s[From(c, i)][At(c, i)]
    OBVIOUS
  <2>1. CASE c # a /\ c # b
    BY <1>4, <2>1
  <2>2. CASE c = a
    <3> HIDE DEF t
    <3> QED  BY <1>1, <1>2, <1>5, <2>2
  <2>3. CASE c = b
    <3> HIDE DEF t
    <3> QED  BY <1>5, <2>3
  <2> QED  BY <2>1, <2>2, <2>3
<1>7. \A c, d \in Key : \A i \in 1..Len(s[c]), j \in 1..Len(s[d]) : s[c][i] = s[d][j] => c = d /\ i = j
  BY DEF Linked, Apart
<1>8. \A c \in Key : \A i \in 1..Len(s[c]) :
        s[c][i] \in Item \ H /\ n[s[c][i]] = Following(s[c], i)
  BY DEF Linked, Apart, Strung
<1> HIDE DEF t, m
<1>9. \A c \in Key : \A i \in 1..Len(t[c]) : c # b
  BY <1>5
<1>10. m \in [Item -> Pointer]
  <2>1. Len(q) # 0 => Len(q) \in 1..Len(q)
    BY <1>1
  <2>2. Len(r) # 0 => 1 \in 1..Len(r)
    BY <1>1
  <2>3. First(r) \in Pointer
    BY <1>1, <2>2 DEF First, Pointer
  <2> QED  BY <1>1, <1>2, <2>1, <2>3 DEF m, Joined, LastOf
<1>11. \A c, d \in Key : \A i \in 1..Len(t[c]), j \in 1..Len(t[d]) : t[c][i] = t[d][j] => c = d /\ i = j
  <2> SUFFICES ASSUME NEW c \in Key, NEW d \in Key, NEW i \in 1..Len(t[c]), NEW j \in 1..Len(t[d]),
                      t[c][i] = t[d][j]
               PROVE  c = d /\ i = j
    OBVIOUS
  <2>1. From(c, i) = From(d, j) /\ At(c, i) = At(d, j)
    <3> HIDE DEF At, From, Far
    <3>1. /\ From(c, i) \in Key /\ At(c, i) \in 1..Len(s[From(c, i)]) /\ t[c][i] = s[From(c, i)][At(c, i)]
          /\ From(d, j) \in Key /\ At(d, j) \in 1..Len(s[From(d, j)]) /\ t[d][j] = s[From(d, j)][At(d, j)]
      BY <1>6
    <3>2. s[From(c, i)][At(c, i)] = s[From(d, j)][At(d, j)]
      BY <3>1
    <3> QED  BY <1>7, <3>1, <3>2
  <2>2. i \in Int /\ j \in Int /\ c # b /\ d # b
    BY <1>9
  <2> QED  BY <1>1, <2>1, <2>2
<1>12. \A y \in Item \ H : \E c \in Key : \E i \in 1..Len(t[c]) : t[c][i] = y
  <2> SUFFICES ASSUME NEW y \in Item \ H PROVE \E c \in Key : \E i \in 1..Len(t[c]) : t[c][i] = y
    OBVIOUS
  <2>1. PICK c \in Key : \E i \in 1..Len(s[c]) : s[c][i] = y
    BY DEF Linked, Apart
  <2>2. PICK i \in 1..Len(s[c]) : s[c][i] = y
    BY <2>1
  <2>3. CASE c # a /\ c # b
    BY <1>4, <2>2, <2>3
  <2>4. CASE c = a
    <3>1. i \in 1..(Len(q) + Len(r)) /\ i <= Len(q)
      BY <1>1, <1>2, <2>4
    <3> QED  BY <1>2, <1>5, <2>2, <2>4, <3>1
  <2>5. CASE c = b
    <3>1. /\ Len(q) + i \in 1..(Len(q) + Len(r)) /\ ~(Len(q) + i <= Len(q))
          /\ (Len(q) + i) - Len(q) = i
      BY <1>1, <1>2, <2>5
    <3>2. t[a][Len(q) + i] = y
      BY <1>2, <1>5, <2>2, <2>5, <3>1
    <3> QED  BY <1>5, <3>1, <3>2
  <2> QED  BY <2>3, <2>4, <2>5
<1>13. \A c \in Key : \A i \in 1..Len(t[c]) : t[c][i] \notin H
  <2> SUFFICES ASSUME NEW c \in Key, NEW i \in 1..Len(t[c]) PROVE t[c][i] \notin H
    OBVIOUS
  <2> HIDE DEF At, From, Far
  <2>1. From(c, i) \in Key /\ At(c, i) \in 1..Len(s[From(c, i)]) /\ t[c][i] = s[From(c, i)][At(c, i)]
    BY <1>6
  <2> QED  BY <1>8, <2>1
<1>14. \A c \in Key : \A i \in 1..Len(t[c]) : m[t[c][i]] = Following(t[c], i)
  <2> SUFFICES ASSUME NEW c \in Key, NEW i \in 1..Len(t[c]) PROVE m[t[c][i]] = Following(t[c], i)
    OBVIOUS
  <2>1. /\ Len(q) # 0 => m[q[Len(q)]] = First(r)
        /\ \A y \in Item : Len(q) = 0 \/ y # q[Len(q)] => m[y] = n[y]
    <3>1. Len(q) # 0 => Len(q) \in 1..Len(q)
      BY <1>1
    <3>2. Len(q) # 0 => q[Len(q)] \in Item
      BY <1>1, <3>1
    <3> QED  BY <1>1, <1>2, <3>2 DEF m, Joined, LastOf
  <2>2. /\ From(c, i) \in Key /\ At(c, i) \in 1..Len(s[From(c, i)]) /\ t[c][i] = s[From(c, i)][At(c, i)]
        /\ n[t[c][i]] = Following(s[From(c, i)], At(c, i)) /\ t[c][i] \in Item
    <3> HIDE DEF At, From
    <3>1. From(c, i) \in Key /\ At(c, i) \in 1..Len(s[From(c, i)]) /\ t[c][i] = s[From(c, i)][At(c, i)]
      BY <1>6
    <3> QED  BY <1>8, <3>1
  <2>3. Len(q) # 0 => Len(q) \in 1..Len(q)
    BY <1>1
  <2>4. CASE c # a
    <3>1. From(c, i) = c /\ c # b /\ At(c, i) = i /\ t[c] = s[c]
      BY <1>4, <1>9, <2>4
    <3>2. m[t[c][i]] = n[t[c][i]]
      BY <1>2, <1>7, <2>1, <2>2, <2>3, <2>4, <3>1
    <3> QED  BY <2>2, <3>1, <3>2
  <2>5. CASE c = a /\ i = Len(q)
    <3>1. Len(q) # 0 /\ At(c, i) = Len(q) /\ From(c, i) = a
      BY <1>1, <2>5
    <3>2. m[t[c][i]] = First(r)
      BY <1>2, <2>1, <2>2, <3>1
    <3>3. Following(t[a], Len(q)) = First(r)
      <4>1. CASE Len(r) = 0
        BY <1>1, <1>5, <4>1 DEF First, Following
      <4>2. CASE Len(r) # 0
        <5>1. /\ Len(q) + 1 \in 1..(Len(q) + Len(r)) /\ ~(Len(q) + 1 <= Len(q))
              /\ (Len(q) + 1) - Len(q) = 1 /\ Len(q) < Len(q) + Len(r)
          BY <1>1, <4>2
        <5>2. t[a][Len(q) + 1] = r[1]
          BY <1>5, <5>1
        <5> QED  BY <1>1, <1>5, <4>2, <5>1, <5>2 DEF First, Following
      <4> QED  BY <4>1, <4>2
    <3> QED  BY <2>5, <3>2, <3>3
  <2>6. CASE c = a /\ i < Len(q)
    <3>1. /\ i \in 1..Len(q) /\ At(c, i) = i /\ From(c, i) = a /\ i # Len(q)
          /\ i + 1 \in 1..(Len(q) + Len(r)) /\ i + 1 <= Len(q) /\ i < Len(q) + Len(r)
      BY <1>1, <2>6
    <3>2. t[c][i] # q[Len(q)]
      BY <1>2, <1>7, <2>2, <2>3, <3>1
    <3>3. m[t[c][i]] = n[t[c][i]]
      BY <2>1, <2>2, <3>2
    <3>4. t[a][i + 1] = q[i + 1]
      BY <1>5, <3>1
    <3>5. Following(t[a], i) = Following(q, i)
      BY <1>5, <2>6, <3>1, <3>4 DEF Following
    <3> QED  BY <1>2, <2>2, <2>6, <3>1, <3>3, <3>5
  <2>7. CASE c = a /\ i > Len(q)
    <3>1. At(c, i) = i - Len(q) /\ From(c, i) = b /\ i \in 1..(Len(q) + Len(r))
      BY <1>5, <2>7
    <3>2. Len(q) = 0 \/ t[c][i] # q[Len(q)]
      BY <1>2, <1>7, <2>2, <2>3, <3>1
    <3>3. m[t[c][i]] = n[t[c][i]]
      BY <2>1, <2>2, <3>2
    <3>4. Following(t[a], i) = Following(r, i - Len(q))
      <4>1. CASE i < Len(q) + Len(r)
        <5>1. /\ i + 1 \in 1..(Len(q) + Len(r)) /\ ~(i + 1 <= Len(q))
              /\ (i + 1) - Len(q) = (i - Len(q)) + 1 /\ i - Len(q) < Len(r)
          BY <1>1, <2>7, <3>1, <4>1
        <5>2. t[a][i + 1] = r[(i - Len(q)) + 1]
          BY <1>5, <5>1
        <5> QED  BY <1>5, <4>1, <5>1, <5>2 DEF Following
      <4>2. CASE i = Len(q) + Len(r)
        <5>1. i - Len(q) = Len(r)
          BY <1>1, <4>2
        <5> QED  BY <1>1, <1>5, <4>2, <5>1 DEF Following
      <4> QED  BY <1>1, <3>1, <4>1, <4>2
    <3> QED  BY <1>2, <2>2, <2>7, <3>1, <3>3, <3>4
  <2> QED  BY <1>1, <2>4, <2>5, <2>6, <2>7
<1>15. Linked(t, H, m)
  BY <1>2, <1>3, <1>10, <1>11, <1>12, <1>13, <1>14, LinkedBy
<1> QED  BY <1>15 DEF t, m, q, r

\* The items of a sequence up to the k-th, and those behind it.
LEMMA PartsAre ==
  ASSUME NEW q \in Seq(Item), NEW k \in 0..Len(q)
  PROVE  /\ SubSeq(q, 1, k) \in Seq(Item) /\ Len(SubSeq(q, 1, k)) = k
         /\ SubSeq(q, k + 1, Len(q)) \in Seq(Item) /\ Len(SubSeq(q, k + 1, Len(q))) = Len(q) - k
         /\ \A i \in 1..k : SubSeq(q, 1, k)[i] = q[i]
         /\ \A i \in 1..(Len(q) - k) : SubSeq(q, k + 1, Len(q))[i] = q[k + i]
OBVIOUS

\* A sequence is cut behind its k-th item.
LEMMA Split ==
  ASSUME NEW s, NEW H, NEW n, Linked(s, H, n), NEW a \in Key, NEW b \in Key, a # b,
         s[b] = <<>>, NEW k \in 1..Len(s[a])
  PROVE  Linked([s EXCEPT ![a] = SubSeq(s[a], k + 1, Len(s[a])), ![b] = SubSeq(s[a], 1, k)],
                H, [n EXCEPT ![s[a][k]] = NULL])
<1> DEFINE q == s[a]
           t == [s EXCEPT ![a] = SubSeq(q, k + 1, Len(q)), ![b] = SubSeq(q, 1, k)]
           m == [n EXCEPT ![q[k]] = NULL]
           From(c) == IF c = b THEN a ELSE c
           At(c, i) == IF c = a THEN k + i ELSE i
<1>1. /\ q \in Seq(Item) /\ Len(q) \in Nat /\ k \in 1..Len(q)
      /\ \A i \in 1..Len(q) : q[i] \in Item
  BY SeqIs
<1>2. /\ s \in [Key -> Seq(Item)] /\ H \subseteq Item /\ n \in [Item -> Pointer]
      /\ s[a] = q /\ s[b] = <<>> /\ Len(s[b]) = 0
  BY DEF Linked
<1> HIDE DEF q
<1>3. /\ SubSeq(q, 1, k) \in Seq(Item) /\ Len(SubSeq(q, 1, k)) = k
      /\ SubSeq(q, k + 1, Len(q)) \in Seq(Item) /\ Len(SubSeq(q, k + 1, Len(q))) = Len(q) - k
      /\ \A i \in 1..k : SubSeq(q, 1, k)[i] = q[i]
      /\ \A i \in 1..(Len(q) - k) : SubSeq(q, k + 1, Len(q))[i] = q[k + i]
  <2>1. k \in 0..Len(q)
    BY <1>1
  <2> QED  BY <1>1, <2>1, PartsAre
<1>4. t \in [Key -> Seq(Item)]
  BY <1>2, <1>3
<1>5. \A c \in Key : c # a /\ c # b => t[c] = s[c]
  BY <1>2
<1>6. /\ Len(t[b]) = k /\ \A i \in 1..k : t[b][i] = q[i]
      /\ Len(t[a]) = Len(q) - k /\ \A i \in 1..(Len(q) - k) : t[a][i] = q[k + i]
  <2>1. t[a] = SubSeq(q, k + 1, Len(q)) /\ t[b] = SubSeq(q, 1, k)
    BY <1>2
  <2> QED  BY <1>3, <2>1
<1> HIDE DEF t, m
<1>7. \A c \in Key : \A i \in 1..Len(t[c]) :
        From(c) \in Key /\ At(c, i) \in 1..Len(s[From(c)]) /\ t[c][i] = s[From(c)][At(c, i)]
  <2> SUFFICES ASSUME NEW c \in Key, NEW i \in 1..Len(t[c])
               PROVE  From(c) \in Key /\ At(c, i) \in 1..Len(s[From(c)]) /\ t[c][i] = s[From(c)][At(c, i)]
    OBVIOUS
  <2>1. CASE c # a /\ c # b
    BY <1>5, <2>1
  <2>2. CASE c = a
    BY <1>1, <1>2, <1>6, <2>2
  <2>3. CASE c = b
    BY <1>1, <1>2, <1>6, <2>3
  <2> QED  BY <2>1, <2>2, <2>3
<1>8. \A c, d \in Key : \A i \in 1..Len(s[c]), j \in 1..Len(s[d]) : s[c][i] = s[d][j] => c = d /\ i = j
  BY DEF Linked, Apart
<1>9. \A c \in Key : \A i \in 1..Len(s[c]) :
        s[c][i] \in Item \ H /\ n[s[c][i]] = Following(s[c], i)
  BY DEF Linked, Apart, Strung
<1>10. m \in [Item -> Pointer] /\ \A y \in Item : m[y] = IF y = q[k] THEN NULL ELSE n[y]
  BY <1>1, <1>2 DEF m, Pointer
<1>11. \A c, d \in Key : \A i \in 1..Len(t[c]), j \in 1..Len(t[d]) : t[c][i] = t[d][j] => c = d /\ i = j
  <2> SUFFICES ASSUME NEW c \in Key, NEW d \in Key, NEW i \in 1..Len(t[c]), NEW j \in 1..Len(t[d]),
                      t[c][i] = t[d][j]
               PROVE  c = d /\ i = j
    OBVIOUS
  <2>1. From(c) = From(d) /\ At(c, i) = At(d, j)
    <3> HIDE DEF At, From
    <3>1. /\ From(c) \in Key /\ At(c, i) \in 1..Len(s[From(c)]) /\ t[c][i] = s[From(c)][At(c, i)]
          /\ From(d) \in Key /\ At(d, j) \in 1..Len(s[From(d)]) /\ t[d][j] = s[From(d)][At(d, j)]
      BY <1>7
    <3>2. s[From(c)][At(c, i)] = s[From(d)][At(d, j)]
      BY <3>1
    <3> QED  BY <1>8, <3>1, <3>2
  <2>2. i \in 1..Len(t[c]) /\ j \in 1..Len(t[d]) /\ i \in Int /\ j \in Int /\ k \in Int
    OBVIOUS
  <2>3. c = b => i <= k
    BY <1>6, <2>2
  <2>4. d = b => j <= k
    BY <1>6, <2>2
  <2> QED  BY <2>1, <2>2, <2>3, <2>4
<1>12. \A y \in Item \ H : \E c \in Key : \E i \in 1..Len(t[c]) : t[c][i] = y
  <2> SUFFICES ASSUME NEW y \in Item \ H PROVE \E c \in Key : \E i \in 1..Len(t[c]) : t[c][i] = y
    OBVIOUS
  <2>1. PICK c \in Key : \E i \in 1..Len(s[c]) : s[c][i] = y
    BY DEF Linked, Apart
  <2>2. PICK i \in 1..Len(s[c]) : s[c][i] = y
    BY <2>1
  <2>3. c # b
    BY <1>2
  <2>4. CASE c # a
    BY <1>5, <2>2, <2>3, <2>4
  <2>5. CASE c = a /\ i <= k
    <3>1. i \in 1..k
      BY <1>1, <2>5
    <3> QED  BY <1>2, <1>6, <2>2, <2>5, <3>1
  <2>6. CASE c = a /\ i > k
    <3>1. i - k \in 1..(Len(q) - k) /\ k + (i - k) = i
      BY <1>1, <1>2, <2>6
    <3>2. t[a][i - k] = y
      BY <1>2, <1>6, <2>2, <2>6, <3>1
    <3> QED  BY <1>6, <3>1, <3>2
  <2> QED  BY <1>1, <2>4, <2>5, <2>6
<1>13. \A c \in Key : \A i \in 1..Len(t[c]) : t[c][i] \notin H
  <2> SUFFICES ASSUME NEW c \in Key, NEW i \in 1..Len(t[c]) PROVE t[c][i] \notin H
    OBVIOUS
  <2> HIDE DEF At, From
  <2>1. From(c) \in Key /\ At(c, i) \in 1..Len(s[From(c)]) /\ t[c][i] = s[From(c)][At(c, i)]
    BY <1>7
  <2> QED  BY <1>9, <2>1
<1>14. \A c \in Key : \A i \in 1..Len(t[c]) : m[t[c][i]] = Following(t[c], i)
  <2> SUFFICES ASSUME NEW c \in Key, NEW i \in 1..Len(t[c]) PROVE m[t[c][i]] = Following(t[c], i)
    OBVIOUS
  <2>1. /\ From(c) \in Key /\ At(c, i) \in 1..Len(s[From(c)]) /\ t[c][i] = s[From(c)][At(c, i)]
        /\ n[t[c][i]] = Following(s[From(c)], At(c, i)) /\ t[c][i] \in Item
    <3> HIDE DEF At, From
    <3>1. From(c) \in Key /\ At(c, i) \in 1..Len(s[From(c)]) /\ t[c][i] = s[From(c)][At(c, i)]
      BY <1>7
    <3> QED  BY <1>9, <3>1
  <2>2. t[c][i] = q[k] => From(c) = a /\ At(c, i) = k
    <3> HIDE DEF At, From
    <3>1. k \in 1..Len(s[a]) /\ s[a][k] = q[k]
      BY <1>1, <1>2
    <3>2. ASSUME t[c][i] = q[k] PROVE From(c) = a /\ At(c, i) = k
      <4>1. s[From(c)][At(c, i)] = s[a][k]
        BY <2>1, <3>1, <3>2
      <4> QED  BY <1>8, <2>1, <3>1, <4>1
    <3> QED  BY <3>2
  <2>3. CASE c # a /\ c # b
    <3>1. m[t[c][i]] = n[t[c][i]]
      BY <1>10, <2>1, <2>2, <2>3
    <3> QED  BY <1>5, <2>1, <2>3, <3>1
  <2>4. CASE c = a
    <3>1. At(c, i) = k + i /\ i \in 1..(Len(q) - k) /\ k + i # k
      BY <1>1, <1>6, <2>4
    <3>2. m[t[c][i]] = n[t[c][i]]
      BY <1>10, <2>1, <2>2, <2>4, <3>1
    <3>3. Following(t[a], i) = Following(q, k + i)
      <4>1. CASE i < Len(q) - k
        <5>1. i + 1 \in 1..(Len(q) - k) /\ k + (i + 1) = (k + i) + 1 /\ k + i < Len(q)
          BY <1>1, <3>1, <4>1
        <5>2. t[a][i + 1] = q[(k + i) + 1]
          BY <1>6, <5>1
        <5> QED  BY <1>6, <4>1, <5>1, <5>2 DEF Following
      <4>2. CASE i = Len(q) - k
        <5>1. k + i = Len(q)
          BY <1>1, <4>2
        <5> QED  BY <1>1, <1>6, <4>2, <5>1 DEF Following
      <4> QED  BY <1>1, <3>1, <4>1, <4>2
    <3> QED  BY <1>2, <2>1, <2>4, <3>1, <3>2, <3>3
  <2>5. CASE c = b /\ i < k
    <3>1. At(c, i) = i /\ From(c) = a /\ i + 1 \in 1..k /\ i < Len(q) /\ i # k
      BY <1>1, <2>5
    <3>2. m[t[c][i]] = n[t[c][i]]
      BY <1>10, <2>1, <2>2, <3>1
    <3>3. Following(t[b], i) = Following(q, i)
      BY <1>6, <2>5, <3>1 DEF Following
    <3> QED  BY <1>2, <2>1, <2>5, <3>1, <3>2, <3>3
  <2>6. CASE c = b /\ i = k
    <3>1. t[c][i] = q[k]
      BY <1>1, <1>6, <2>6
    <3>2. m[t[c][i]] = NULL
      BY <1>1, <1>10, <3>1
    <3>3. Following(t[b], k) = NULL
      BY <1>1, <1>6 DEF Following
    <3> QED  BY <2>6, <3>2, <3>3
  <2>7. c = b => i <= k
    BY <1>1, <1>6
  <2> QED  BY <1>1, <2>3, <2>4, <2>5, <2>6, <2>7
<1>15. Linked(t, H, m)
  <2>1. m \in [Item -> Pointer] /\ H \subseteq Item
    BY <1>2, <1>10
  <2>2. \A c \in Key : \A i \in 1..Len(t[c]) : t[c][i] \notin H /\ m[t[c][i]] = Following(t[c], i)
    BY <1>13, <1>14
  <2> HIDE DEF At, From
  <2> QED  BY <1>4, <1>11, <1>12, <2>1, <2>2, LinkedBy
<1> QED  BY <1>15 DEF t, m, q

\* The items of a sequence become free.
LEMMA Drop ==
  ASSUME NEW s, NEW H, NEW n, Linked(s, H, n), NEW a \in Key
  PROVE  Linked([s EXCEPT ![a] = <<>>], H \cup Members(s[a]), n)
<1> DEFINE t == [s EXCEPT ![a] = <<>>]
           G == H \cup Members(s[a])
<1>1. s \in [Key -> Seq(Item)] /\ H \subseteq Item /\ n \in [Item -> Pointer]
  BY DEF Linked
<1>2. \A c, d \in Key : \A i \in 1..Len(s[c]), j \in 1..Len(s[d]) : s[c][i] = s[d][j] => c = d /\ i = j
  BY DEF Linked, Apart
<1>3. \A c \in Key : \A i \in 1..Len(s[c]) :
        s[c][i] \in Item \ H /\ n[s[c][i]] = Following(s[c], i)
  BY DEF Linked, Apart, Strung
<1>4. t \in [Key -> Seq(Item)] /\ \A c \in Key : c # a => t[c] = s[c]
  BY <1>1
<1>5. Len(t[a]) = 0
  BY <1>1
<1> HIDE DEF t
<1>6. \A c \in Key : \A i \in 1..Len(t[c]) : c # a /\ t[c] = s[c]
  BY <1>4, <1>5
<1>7. G \subseteq Item
  BY <1>1, <1>3 DEF Members
<1>8. \A c \in Key : \A i \in 1..Len(t[c]) : t[c][i] \notin G /\ n[t[c][i]] = Following(t[c], i)
  <2> SUFFICES ASSUME NEW c \in Key, NEW i \in 1..Len(t[c])
               PROVE  t[c][i] \notin G /\ n[t[c][i]] = Following(t[c], i)
    OBVIOUS
  <2>1. c # a /\ t[c] = s[c]
    BY <1>6
  <2>2. \A j \in 1..Len(s[a]) : s[c][i] # s[a][j]
    BY <1>2, <2>1
  <2> QED  BY <1>3, <2>1, <2>2 DEF Members
<1>9. \A c, d \in Key : \A i \in 1..Len(t[c]), j \in 1..Len(t[d]) : t[c][i] = t[d][j] => c = d /\ i = j
  BY <1>2, <1>6
<1>10. \A y \in Item \ G : \E c \in Key : \E i \in 1..Len(t[c]) : t[c][i] = y
  <2> SUFFICES ASSUME NEW y \in Item \ G PROVE \E c \in Key : \E i \in 1..Len(t[c]) : t[c][i] = y
    OBVIOUS
  <2>1. PICK c \in Key : \E i \in 1..Len(s[c]) : s[c][i] = y
    BY DEF Linked, Apart
  <2>2. c # a
    BY <2>1 DEF Members
  <2> QED  BY <1>4, <2>1, <2>2
<1>11. Linked(t, G, n)
  <2> HIDE DEF G
  <2> QED  BY <1>1, <1>4, <1>7, <1>8, <1>9, <1>10, LinkedBy
<1> QED  BY <1>11 DEF t, G

-----------------------------------------------------------------------------
(* Reading chains.                                                          *)

\* Chain follows a sequence that ends.
LEMMA ChainIs ==
  ASSUME next \in [Item -> Pointer], NEW q \in Seq(Item), Len(q) <= MaxItems,
         \A i \in 1..Len(q) : next[q[i]] = Following(q, i)
  PROVE  Chain(First(q)) = q
<1> DEFINE D == 0..(MaxItems + 1)
           S == [Pointer -> Seq(Item)]
           Value(k, g) == [p \in Pointer |-> IF k = 0 \/ p = NULL THEN <<>> ELSE <<p>> \o g[k - 1][next[p]]]
           F(g) == [k \in D |-> Value(k, g)]
           U == CHOOSE g : g = F(g)
           mu == [k \in D |-> k]
           H == [a \in D \X [D -> S] |-> Value(a[1], a[2])]
<1>1. MaxItems \in Nat /\ MaxItems + 1 \in D /\ NULL \notin Item /\ D \subseteq Nat
  BY ListAssumption DEF Item, NULL
<1>2. \A k \in D : k # 0 => k - 1 \in D /\ k - 1 < k
  BY <1>1
<1>3. \A p \in Pointer : p # NULL => p \in Item /\ next[p] \in Pointer
  BY <1>1 DEF Pointer
<1>4. Chain(First(q)) = U[MaxItems + 1][First(q)]
  BY DEF Chain, Pointer
<1>5. mu \in [D -> Nat] /\ \A k \in D : mu[k] = k
  BY <1>1
<1>6. \A k \in D, g \in [D -> S] : Value(k, g) \in S
  <2> SUFFICES ASSUME NEW k \in D, NEW g \in [D -> S] PROVE Value(k, g) \in S
    OBVIOUS
  <2>1. ASSUME NEW p \in Pointer, k # 0, p # NULL
        PROVE  <<p>> \o g[k - 1][next[p]] \in Seq(Item)
    <3>1. g[k - 1] \in S
      BY <1>2, <2>1
    <3>2. g[k - 1][next[p]] \in Seq(Item) /\ p \in Item
      BY <1>3, <2>1, <3>1
    <3> QED  BY <3>2
  <2>2. <<>> \in Seq(Item)
    OBVIOUS
  <2>3. \A p \in Pointer :
          (IF k = 0 \/ p = NULL THEN <<>> ELSE <<p>> \o g[k - 1][next[p]]) \in Seq(Item)
    BY <2>1, <2>2
  <2> QED  BY <2>3
<1>7. H \in [D \X [D -> S] -> S]
  <2> HIDE DEF S, Value
  <2> QED  BY <1>6
<1>8. \A k \in D, g \in [D -> S] : H[<<k, g>>] = Value(k, g)
  <2> HIDE DEF S, Value
  <2> QED  OBVIOUS
<1> HIDE DEF D, H, mu, U
<1>9. ASSUME NEW k \in D, NEW g \in [D -> S], NEW f \in [D -> S],
             \A e \in D : mu[e] < mu[k] => g[e] = f[e]
      PROVE  H[<<k, g>>] = H[<<k, f>>]
  <2>1. k # 0 => g[k - 1] = f[k - 1]
    BY <1>2, <1>5, <1>9
  <2>2. Value(k, g) = Value(k, f)
    BY <2>1
  <2> HIDE DEF Value, S
  <2> QED  BY <1>8, <2>2
<1> HIDE DEF S
<1>10. Recursive(D, S, mu, H)
  <2>1. S # {}
    <3>1. [p \in Pointer |-> <<>>] \in S
      BY DEF S
    <3> QED  BY <3>1
  <2> QED  BY <1>5, <1>7, <1>9, <2>1 DEF Recursive
<1>11. PICK u \in [D -> S] : Follows(u, D, H)
  BY <1>10, Recursion
<1>12. \A k \in D : u[k] = Value(k, u)
  BY <1>8, <1>11 DEF Follows
<1>13. u = F(u)
  <2> HIDE DEF Value
  <2> QED  BY <1>12
<1> HIDE DEF F
<1>14. U = F(U)
  BY <1>13, Zenon DEF U
<1>15. \A k \in D, p \in Pointer : U[k][p] = IF k = 0 \/ p = NULL THEN <<>> ELSE <<p>> \o U[k - 1][next[p]]
  <2>1. \A k \in D : U[k] = Value(k, U)
    <3> HIDE DEF Value
    <3> QED  BY <1>14 DEF F
  <2> QED  BY <2>1
<1> HIDE DEF Value
<1> DEFINE n == Len(q)
           After(m) == SubSeq(q, (n - m) + 1, n)
           Start(m) == IF m = 0 THEN NULL ELSE q[(n - m) + 1]
           P == {m \in Nat : m <= n => \A k \in m..(MaxItems + 1) : U[k][Start(m)] = After(m)}
<1>16. n \in Nat
  OBVIOUS
<1>17. 0 \in P
  <2>1. \A k \in 0..(MaxItems + 1) : U[k][NULL] = <<>>
    BY <1>15 DEF Pointer, D
  <2>2. After(0) = <<>>
    BY <1>16
  <2> QED  BY <2>1, <2>2
<1>18. ASSUME NEW m \in P PROVE m + 1 \in P
  <2>1. m \in Nat /\ (m <= n => \A k \in m..(MaxItems + 1) : U[k][Start(m)] = After(m))
    BY <1>18
  <2> HIDE DEF After, Start
  <2> SUFFICES ASSUME m + 1 <= n, NEW k \in (m + 1)..(MaxItems + 1)
               PROVE  U[k][Start(m + 1)] = After(m + 1)
    BY <2>1
  <2> USE DEF After, Start
  <2> DEFINE i == n - m
             p == q[i]
  <2>2. i \in 1..n /\ (n - (m + 1)) + 1 = i /\ m + 1 # 0
    BY <1>16, <2>1
  <2>3. p \in Item /\ p # NULL /\ p \in Pointer /\ Start(m + 1) = p
    BY <1>1, <2>2 DEF Pointer
  <2>4. k \in D /\ k # 0 /\ k - 1 \in m..(MaxItems + 1)
    BY <1>1, <2>1 DEF D
  <2>5. next[p] = Start(m)
    <3>1. next[p] = Following(q, i)
      BY <2>2
    <3>2. i < n <=> m # 0
      BY <1>16, <2>1
    <3> QED  BY <3>1, <3>2 DEF Following
  <2> HIDE DEF i, P
  <2>6. U[k][p] = <<p>> \o U[k - 1][Start(m)]
    BY <1>15, <2>3, <2>4, <2>5
  <2>7. U[k - 1][Start(m)] = SubSeq(q, i + 1, n)
    BY <1>16, <2>1, <2>4 DEF i
  <2>8. <<q[i]>> \o SubSeq(q, i + 1, n) = SubSeq(q, i, n)
    BY <2>2
  <2> QED  BY <2>2, <2>3, <2>6, <2>7, <2>8
<1>19. \A m \in Nat : m \in P
  <2>1. P \in SUBSET Nat
    OBVIOUS
  <2> HIDE DEF P
  <2> QED  BY <1>17, <1>18, <2>1, SetInduction
<1>20. U[MaxItems + 1][Start(n)] = After(n)
  <2>1. n \in P /\ MaxItems + 1 \in n..(MaxItems + 1)
    <3> HIDE DEF P
    <3> QED  BY <1>1, <1>16, <1>19
  <2> HIDE DEF After, Start
  <2> QED  BY <1>16, <2>1
<1>21. Start(n) = First(q) /\ After(n) = q
  <2>1. (n - n) + 1 = 1 /\ (n = 0 <=> q = <<>>)
    BY <1>16
  <2>2. SubSeq(q, 1, n) = q
    OBVIOUS
  <2> QED  BY <2>1, <2>2 DEF First
<1> QED  BY <1>4, <1>20, <1>21

\* Without repetition a sequence is no longer than there are items.
LEMMA SeqFits ==
  ASSUME NEW q \in Seq(Item), \A i, k \in 1..Len(q) : q[i] = q[k] => i = k
  PROVE  Len(q) <= MaxItems
<1> DEFINE f == [i \in 1..Len(q) |-> q[i]]
<1>1. Len(q) \in Nat /\ MaxItems \in Nat
  BY ListAssumption
<1>2. IsFiniteSet(Item) /\ Cardinality(Item) = MaxItems
  BY <1>1, FS_Interval DEF Item
<1>3. IsFiniteSet(1..Len(q)) /\ Cardinality(1..Len(q)) = Len(q)
  <2>1. \A n \in Nat : IsFiniteSet(1..n) /\ Cardinality(1..n) = n
    BY FS_Interval
  <2> QED  BY <1>1, <2>1
<1>4. f \in Injection(1..Len(q), Item)
  BY DEF Injection, IsInjective
<1>5. Cardinality(1..Len(q)) <= Cardinality(Item)
  BY <1>2, <1>4, FS_Injection
<1> QED  BY <1>2, <1>3, <1>5

-----------------------------------------------------------------------------
(* Where the items of a state are.                                          *)

C(s, l) == s[ChainOf(l)]
Q(s, l) == s[PoolOf(l)]

\* The chains and pools of all lists are the sequences s.
HomesAre(s) ==
  /\ Linked(s, heap, next) /\ data \in [Item -> Data \cup {NULL}]
  /\ head \in [Lists -> Pointer] /\ tail \in [Lists -> Pointer] /\ pool \in [Lists -> Pointer]
  /\ size \in [Lists -> Nat] /\ pool_size \in [Lists -> Nat]
  /\ \A l \in Lists :
       /\ head[l] = First(C(s, l)) /\ size[l] = Len(C(s, l))
       /\ pool[l] = First(Q(s, l)) /\ pool_size[l] = Len(Q(s, l))

\* They are what Chain reads.
Read == [k \in Key |-> IF k[2] = "chain" THEN Chain(head[k[1]]) ELSE Chain(pool[k[1]])]

Told == \A s : HomesAre(s) => s = Read

\* Following next from head and pool reads exactly these sequences.
LEMMA HomesTold == Told
<1> SUFFICES ASSUME NEW s, HomesAre(s) PROVE s = Read
  BY DEF Told
<1>1. Linked(s, heap, next) /\ s \in [Key -> Seq(Item)]
  BY DEF HomesAre, Linked
<1>2. \A k \in Key : Chain(First(s[k])) = s[k]
  <2> SUFFICES ASSUME NEW k \in Key PROVE Chain(First(s[k])) = s[k]
    OBVIOUS
  <2>1. /\ s[k] \in Seq(Item) /\ next \in [Item -> Pointer]
        /\ \A i \in 1..Len(s[k]) : next[s[k][i]] = Following(s[k], i)
        /\ \A i, j \in 1..Len(s[k]) : s[k][i] = s[k][j] => i = j
    BY <1>1 DEF Linked, Strung, Apart
  <2>2. Len(s[k]) <= MaxItems
    BY <2>1, SeqFits
  <2> QED  BY <2>1, <2>2, ChainIs
<1>3. \A l \in Lists : Chain(head[l]) = s[<<l, "chain">>] /\ Chain(pool[l]) = s[<<l, "pool">>]
  BY <1>2 DEF HomesAre, C, Q, ChainOf, PoolOf, Key
<1>4. \A k \in Key : Read[k] = s[k]
  <2> SUFFICES ASSUME NEW k \in Key PROVE Read[k] = s[k]
    OBVIOUS
  <2>1. PICK l \in Lists, w \in {"chain", "pool"} : k = <<l, w>>
    BY DEF Key
  <2>2. k[1] = l /\ k[2] = w
    BY <2>1
  <2>3. CASE w = "chain"
    BY <1>3, <2>1, <2>2, <2>3 DEF Read
  <2>4. CASE w = "pool"
    BY <1>3, <2>1, <2>2, <2>4 DEF Read
  <2> QED  BY <2>3, <2>4
<1> QED  BY <1>1, <1>4 DEF Read

\* Chains and pools are different sequences.
LEMMA Keys ==
  /\ \A l \in Lists : ChainOf(l) \in Key /\ PoolOf(l) \in Key
  /\ \A l, k \in Lists : ChainOf(l) # PoolOf(k)
  /\ \A l, k \in Lists : ChainOf(l) = ChainOf(k) => l = k
  /\ \A l, k \in Lists : PoolOf(l) = PoolOf(k) => l = k
  /\ \A a \in Key : \E l \in Lists : a = ChainOf(l) \/ a = PoolOf(l)
BY DEF Key, ChainOf, PoolOf

\* The chain and the pool of a list.
LEMMA HomeIs ==
  ASSUME NEW s, HomesAre(s), NEW l \in Lists
  PROVE  /\ C(s, l) \in Seq(Item) /\ Len(C(s, l)) \in Nat /\ size[l] = Len(C(s, l))
         /\ Q(s, l) \in Seq(Item) /\ Len(Q(s, l)) \in Nat /\ pool_size[l] = Len(Q(s, l))
         /\ head[l] = First(C(s, l)) /\ pool[l] = First(Q(s, l))
         /\ head[l] = NULL <=> C(s, l) = <<>>
         /\ size[l] = 0 <=> C(s, l) = <<>>
         /\ pool_size[l] = 0 <=> Q(s, l) = <<>>
         /\ Len(C(s, l)) <= MaxItems /\ Len(Q(s, l)) <= MaxItems
         /\ \A i \in 1..Len(C(s, l)) : C(s, l)[i] \in Item /\ C(s, l)[i] \notin heap
         /\ \A i \in 1..Len(Q(s, l)) : Q(s, l)[i] \in Item /\ Q(s, l)[i] \notin heap
<1>1. ChainOf(l) \in Key /\ PoolOf(l) \in Key /\ Linked(s, heap, next)
  BY Keys DEF HomesAre
<1>2. /\ C(s, l) \in Seq(Item) /\ Len(C(s, l)) \in Nat
      /\ \A i \in 1..Len(C(s, l)) : C(s, l)[i] \in Item /\ C(s, l)[i] \notin heap
      /\ C(s, l) # <<>> <=> Len(C(s, l)) # 0
  BY <1>1, SeqIs DEF C
<1>3. /\ Q(s, l) \in Seq(Item) /\ Len(Q(s, l)) \in Nat
      /\ \A i \in 1..Len(Q(s, l)) : Q(s, l)[i] \in Item /\ Q(s, l)[i] \notin heap
      /\ Q(s, l) # <<>> <=> Len(Q(s, l)) # 0
  BY <1>1, SeqIs DEF Q
<1>4. Len(C(s, l)) <= MaxItems /\ Len(Q(s, l)) <= MaxItems
  <2>1. \A i, k \in 1..Len(C(s, l)) : C(s, l)[i] = C(s, l)[k] => i = k
    BY <1>1 DEF Linked, Apart, C
  <2>2. \A i, k \in 1..Len(Q(s, l)) : Q(s, l)[i] = Q(s, l)[k] => i = k
    BY <1>1 DEF Linked, Apart, Q
  <2> QED  BY <1>2, <1>3, <2>1, <2>2, SeqFits
<1>5. /\ size[l] = Len(C(s, l)) /\ pool_size[l] = Len(Q(s, l))
      /\ head[l] = First(C(s, l)) /\ pool[l] = First(Q(s, l))
  BY DEF HomesAre
<1>6. head[l] = NULL <=> C(s, l) = <<>>
  <2>1. C(s, l) # <<>> => 1 \in 1..Len(C(s, l))
    BY <1>2
  <2>2. NULL \notin Item
    BY ListAssumption DEF Item, NULL
  <2> QED  BY <1>2, <1>5, <2>1, <2>2 DEF First
<1> QED  BY <1>2, <1>3, <1>4, <1>5, <1>6

-----------------------------------------------------------------------------
(* Items are taken from and given to the pools.                             *)

\* malloc has an item if one is free.
LEMMA LeastIs ==
  ASSUME NEW S \in SUBSET Item, S # {}
  PROVE  Least(S) \in S
<1>1. S \in SUBSET Nat
  BY DEF Item
<1>2. \E x \in S : \A y \in S : x <= y
  BY <1>1, LeastNumber
<1> QED  BY <1>2, Zenon DEF Least

\* The sequences Insert and Unlink make.
LEMMA AppendIs ==
  ASSUME NEW q \in Seq(Item), NEW x \in Item
  PROVE  With(q, Len(q) + 1, x) = Append(q, x)
<1> PICK k : k = Len(q) + 1
  OBVIOUS
<1>1. Len(q) \in Nat /\ k \in 1..(Len(q) + 1)
  OBVIOUS
<1>2. /\ With(q, k, x) \in Seq(Item) /\ Len(With(q, k, x)) = Len(q) + 1
      /\ \A i \in 1..(Len(q) + 1) :
           With(q, k, x)[i] = IF i < k THEN q[i] ELSE IF i = k THEN x ELSE q[i - 1]
  <2>1. k \in 1..(Len(q) + 1)
    BY <1>1
  <2>2. With(q, k, x) \in Seq(Item)
    BY <2>1, WithIs
  <2>3. Len(With(q, k, x)) = Len(q) + 1
    BY <2>1, WithIs
  <2>4. \A i \in 1..(Len(q) + 1) :
           With(q, k, x)[i] = IF i < k THEN q[i] ELSE IF i = k THEN x ELSE q[i - 1]
    BY DEF With
  <2> QED  BY <2>2, <2>3, <2>4
<1>3. \A i \in 1..(Len(q) + 1) : With(q, k, x)[i] = Append(q, x)[i]
  BY <1>1, <1>2
<1>4. With(q, k, x) = Append(q, x)
  <2> HIDE DEF With
  <2>1. Append(q, x) \in Seq(Item) /\ Len(Append(q, x)) = Len(q) + 1
    OBVIOUS
  <2> QED  BY <1>2, <1>3, <2>1
<1> QED  BY <1>4

\* An item in front is put at the first place.
LEMMA PrependIs ==
  ASSUME NEW q \in Seq(Item), NEW x \in Item
  PROVE  With(q, 1, x) = <<x>> \o q
<1>1. Len(q) \in Nat /\ 1 \in 1..(Len(q) + 1)
  OBVIOUS
<1>2. /\ With(q, 1, x) \in Seq(Item) /\ Len(With(q, 1, x)) = Len(q) + 1
      /\ \A i \in 1..(Len(q) + 1) :
           With(q, 1, x)[i] = IF i < 1 THEN q[i] ELSE IF i = 1 THEN x ELSE q[i - 1]
  BY <1>1, WithIs
<1>3. <<x>> \o q \in Seq(Item) /\ Len(<<x>> \o q) = Len(q) + 1
  OBVIOUS
<1>4. \A i \in 1..(Len(q) + 1) : (<<x>> \o q)[i] = IF i = 1 THEN x ELSE q[i - 1]
  OBVIOUS
<1>5. \A i \in 1..(Len(q) + 1) : With(q, 1, x)[i] = (<<x>> \o q)[i]
  BY <1>1, <1>2, <1>4
<1> QED  BY <1>2, <1>3, <1>5

\* What list_shift leaves is the rest of the sequence.
LEMMA TailIs ==
  ASSUME NEW q \in Seq(Item), q # <<>>
  PROVE  Without(q, 1) = Tail(q)
<1>1. Len(q) \in Nat /\ 1 \in 1..Len(q)
  OBVIOUS
<1>2. /\ Without(q, 1) \in Seq(Item) /\ Len(Without(q, 1)) = Len(q) - 1
      /\ \A i \in 1..(Len(q) - 1) : Without(q, 1)[i] = IF i < 1 THEN q[i] ELSE q[i + 1]
  BY <1>1, WithoutIs
<1>3. \A i \in 1..(Len(q) - 1) : Without(q, 1)[i] = Tail(q)[i]
  BY <1>1, <1>2
<1>4. Tail(q) \in Seq(Item) /\ Len(Tail(q)) = Len(q) - 1
  OBVIOUS
<1> QED  BY <1>2, <1>3, <1>4

\* The rest of a sequence begins with its second item.
LEMMA RestIs ==
  ASSUME NEW q \in Seq(Item), q # <<>>
  PROVE  /\ Tail(q) \in Seq(Item) /\ Len(Tail(q)) = Len(q) - 1 /\ Len(Tail(q)) \in Nat
         /\ \A i \in 1..(Len(q) - 1) : Tail(q)[i] = q[i + 1]
         /\ First(Tail(q)) = Following(q, 1)
<1>1. /\ Tail(q) \in Seq(Item) /\ Len(Tail(q)) = Len(q) - 1 /\ Len(q) \in Nat /\ Len(q) >= 1
      /\ \A i \in 1..(Len(q) - 1) : Tail(q)[i] = q[i + 1]
  OBVIOUS
<1>2. \A r \in Seq(Item) : Len(r) = 0 <=> r = <<>>
  OBVIOUS
<1>3. PICK r \in Seq(Item) : r = Tail(q)
  BY <1>1
<1>4. /\ Len(r) = Len(q) - 1 /\ (Len(r) = 0 <=> r = <<>>)
      /\ \A i \in 1..(Len(q) - 1) : r[i] = q[i + 1]
  BY <1>1, <1>2, <1>3
<1>5. First(r) = Following(q, 1)
  <2>1. Len(q) > 1 => 1 \in 1..(Len(q) - 1)
    BY <1>1
  <2>2. Len(q) > 1 => r[1] = q[1 + 1]
    BY <1>4, <2>1
  <2> QED  BY <1>1, <1>4, <2>2 DEF First, Following
<1> QED  BY <1>1, <1>3, <1>5

\* The pool and the free items when new_list_item has taken one for l.
LessPool(l) == IF pool_size[l] > 0 THEN [pool EXCEPT ![l] = next[pool[l]]] ELSE pool
LessSize(l) == IF pool_size[l] > 0 THEN [pool_size EXCEPT ![l] = @ - 1] ELSE pool_size
LessHeap(l) == IF pool_size[l] > 0 THEN heap ELSE heap \ {NewItem(l)}

\* The item it takes is on no chain and in no pool any more, as one that is free.
LEMMA TakeIs ==
  ASSUME NEW s, HomesAre(s), NEW l \in Lists, Obtainable(l)
  PROVE  \E u, G :
           /\ Linked(u, G, next) /\ NewItem(l) \in G /\ G \ {NewItem(l)} = LessHeap(l)
           /\ \A k \in Lists : /\ C(u, k) = C(s, k)
                               /\ LessPool(l)[k] = First(Q(u, k)) /\ LessSize(l)[k] = Len(Q(u, k))
           /\ LessPool(l) \in [Lists -> Pointer] /\ LessSize(l) \in [Lists -> Nat]
<1> DEFINE i == NewItem(l)
<1>1. /\ Linked(s, heap, next) /\ heap \subseteq Item /\ next \in [Item -> Pointer] /\ s \in [Key -> Seq(Item)]
      /\ pool \in [Lists -> Pointer] /\ pool_size \in [Lists -> Nat]
      /\ \A k \in Lists : pool[k] = First(Q(s, k)) /\ pool_size[k] = Len(Q(s, k))
  BY DEF HomesAre, Linked
<1>2. CASE pool_size[l] > 0
  <2> DEFINE a == PoolOf(l)
             q == Q(s, l)
             u == [s EXCEPT ![a] = Without(s[a], 1)]
             G == heap \cup {s[a][1]}
  <2>1. /\ a \in Key /\ s[a] = q /\ q \in Seq(Item) /\ Len(q) \in Nat /\ q # <<>> /\ Len(q) = pool_size[l]
        /\ pool[l] = First(q) /\ \A j \in 1..Len(q) : q[j] \in Item /\ q[j] \notin heap
    BY <1>2, Keys, HomeIs DEF Q
  <2>2. 1 \in 1..Len(s[a]) /\ i = s[a][1] /\ i \in Item /\ i \notin heap
    BY <1>2, <2>1 DEF NewItem, First
  <2>3. Linked(u, G, next)
    BY <1>1, <2>1, <2>2, Unlink DEF Unlinked
  <2>4. i \in G /\ G \ {i} = LessHeap(l)
    BY <1>2, <2>2 DEF LessHeap
  <2>5. /\ Len(Without(q, 1)) = Len(q) - 1 /\ First(Without(q, 1)) = next[i]
    <3>1. /\ Without(q, 1) \in Seq(Item) /\ Len(Without(q, 1)) = Len(q) - 1
          /\ \A j \in 1..(Len(q) - 1) : Without(q, 1)[j] = IF j < 1 THEN q[j] ELSE q[j + 1]
      BY <2>1, <2>2, WithoutIs
    <3>2. next[i] = Following(q, 1)
      BY <1>1, <2>1, <2>2 DEF Linked, Strung
    <3>3. CASE Len(q) = 1
      <4>1. Without(q, 1) = <<>>
        BY <3>1, <3>3
      <4> QED  BY <3>1, <3>2, <3>3, <4>1 DEF First, Following
    <3>4. CASE Len(q) > 1
      <4>1. 1 \in 1..(Len(q) - 1)
        BY <2>1, <3>4
      <4>2. Without(q, 1)[1] = q[2] /\ Without(q, 1) # <<>>
        BY <3>1, <4>1
      <4> QED  BY <3>1, <3>2, <3>4, <4>2 DEF First, Following
    <3> QED  BY <2>1, <3>3, <3>4
  <2>6. Q(u, l) = Without(q, 1) /\ \A k \in Lists : C(u, k) = C(s, k) /\ (k # l => Q(u, k) = Q(s, k))
    BY <1>1, <2>1, Keys DEF C, Q
  <2>7. /\ LessPool(l) = [pool EXCEPT ![l] = next[i]] /\ next[i] \in Pointer
        /\ LessSize(l) = [pool_size EXCEPT ![l] = Len(q) - 1] /\ Len(q) - 1 \in Nat
    BY <1>1, <1>2, <2>1, <2>2 DEF LessPool, LessSize, NewItem
  <2> HIDE DEF i, u, G, q
  <2>8. \A k \in Lists : LessPool(l)[k] = First(Q(u, k)) /\ LessSize(l)[k] = Len(Q(u, k))
    BY <1>1, <2>5, <2>6, <2>7
  <2>9. LessPool(l) \in [Lists -> Pointer] /\ LessSize(l) \in [Lists -> Nat]
    BY <1>1, <2>7
  <2> QED  BY <2>3, <2>4, <2>6, <2>8, <2>9 DEF i
<1>3. CASE ~(pool_size[l] > 0)
  <2>1. heap # {} /\ i = Least(heap)
    BY <1>3 DEF Obtainable, NewItem
  <2>2. i \in heap
    BY <1>1, <2>1, LeastIs
  <2>3. LessHeap(l) = heap \ {i} /\ LessPool(l) = pool /\ LessSize(l) = pool_size
    BY <1>3 DEF LessHeap, LessPool, LessSize
  <2> QED  BY <1>1, <2>2, <2>3
<1> QED  BY <1>2, <1>3

\* TakeItem takes it.
LEMMA TakeItemIs ==
  ASSUME NEW l \in Lists, TakeItem(l)
  PROVE  pool' = LessPool(l) /\ pool_size' = LessSize(l) /\ heap' = LessHeap(l)
BY DEF TakeItem, LessPool, LessSize, LessHeap, pools, NewItem

\* A free item is linked behind the last one.
Extended(n, q, x) == IF q = <<>> THEN [n EXCEPT ![x] = NULL] ELSE [n EXCEPT ![x] = NULL, ![LastOf(q)] = x]

\* list_append puts its item at the last place.
LEMMA InsertLast ==
  ASSUME NEW s, NEW H, NEW n, Linked(s, H, n), NEW a \in Key, NEW x \in H
  PROVE  Linked([s EXCEPT ![a] = Append(s[a], x)], H \ {x}, Extended(n, s[a], x))
<1> DEFINE k == Len(s[a]) + 1
<1>1. /\ s[a] \in Seq(Item) /\ Len(s[a]) \in Nat /\ x \in Item
      /\ s[a] # <<>> <=> Len(s[a]) # 0
  BY SeqIs DEF Linked
<1>2. k \in 1..(Len(s[a]) + 1) /\ ~(k <= Len(s[a])) /\ k - 1 = Len(s[a]) /\ (k = 1 <=> s[a] = <<>>)
  BY <1>1
<1>3. Inserted(n, s[a], k, x) = Extended(n, s[a], x)
  BY <1>2 DEF Inserted, Extended, LastOf
<1>4. With(s[a], k, x) = Append(s[a], x)
  BY <1>1, AppendIs
<1>5. Linked([s EXCEPT ![a] = With(s[a], k, x)], H \ {x}, Inserted(n, s[a], k, x))
  BY <1>2, Insert
<1> QED  BY <1>3, <1>4, <1>5

\* And one is linked in front.
LEMMA InsertFirst ==
  ASSUME NEW s, NEW H, NEW n, Linked(s, H, n), NEW a \in Key, NEW x \in H
  PROVE  Linked([s EXCEPT ![a] = <<x>> \o s[a]], H \ {x}, [n EXCEPT ![x] = First(s[a])])
<1>1. /\ s[a] \in Seq(Item) /\ Len(s[a]) \in Nat /\ x \in Item
      /\ s[a] # <<>> <=> Len(s[a]) # 0
  BY SeqIs DEF Linked
<1>2. 1 \in 1..(Len(s[a]) + 1) /\ (1 <= Len(s[a]) <=> s[a] # <<>>)
  BY <1>1
<1>3. Inserted(n, s[a], 1, x) = [n EXCEPT ![x] = First(s[a])]
  BY <1>2 DEF Inserted, First
<1>4. With(s[a], 1, x) = <<x>> \o s[a]
  BY <1>1, PrependIs
<1>5. Linked([s EXCEPT ![a] = With(s[a], 1, x)], H \ {x}, Inserted(n, s[a], 1, x))
  BY <1>2, Insert
<1> QED  BY <1>3, <1>4, <1>5

\* What is on no chain and in no pool.
LEMMA FreeIs ==
  ASSUME NEW s, NEW H, NEW n, Linked(s, H, n), NEW x \in H
  PROVE  x \in Item /\ \A l \in Lists : x \notin Members(C(s, l)) /\ x \notin Members(Q(s, l))
<1>1. \A a \in Key : \A i \in 1..Len(s[a]) : s[a][i] \notin H
  BY DEF Linked, Apart
<1>2. x \in Item
  BY DEF Linked
<1> QED  BY <1>1, <1>2, Keys DEF C, Q, Members

\* Only the chain of l becomes another one.
Else(s, t, l) == \A k \in Lists \ {l} : C(t, k) = C(s, k)

\* list_append: the item goes behind the chain.
LEMMA AppendHomes ==
  ASSUME NEW s, HomesAre(s), NEW l \in Lists, NEW d \in Data, Append_(l, d),
         tail[l] = LastOf(C(s, l))
  PROVE  \E t, i : /\ HomesAre(t)' /\ C(t, l) = Append(C(s, l), i) /\ Else(s, t, l)
                   /\ i \in Item /\ data' = [data EXCEPT ![i] = d] /\ tail' = [tail EXCEPT ![l] = i]
                   /\ \A k \in Lists : i \notin Members(C(s, k))
<1> DEFINE i == NewItem(l)
           a == ChainOf(l)
<1>1. /\ head \in [Lists -> Pointer] /\ tail \in [Lists -> Pointer] /\ size \in [Lists -> Nat]
      /\ data \in [Item -> Data \cup {NULL}]
      /\ \A k \in Lists : head[k] = First(C(s, k)) /\ size[k] = Len(C(s, k))
  BY DEF HomesAre
<1>2. PICK u, G :
        /\ Linked(u, G, next) /\ i \in G /\ G \ {i} = LessHeap(l)
        /\ \A k \in Lists : /\ C(u, k) = C(s, k)
                            /\ LessPool(l)[k] = First(Q(u, k)) /\ LessSize(l)[k] = Len(Q(u, k))
        /\ LessPool(l) \in [Lists -> Pointer] /\ LessSize(l) \in [Lists -> Nat]
  BY TakeIs DEF Append_
<1>3. pool' = LessPool(l) /\ pool_size' = LessSize(l) /\ heap' = LessHeap(l)
  BY TakeItemIs DEF Append_
<1>4. i \in Item /\ \A k \in Lists : i \notin Members(C(s, k))
  BY <1>2, FreeIs
<1> HIDE DEF i
<1>5. a \in Key /\ u[a] = C(s, l) /\ u \in [Key -> Seq(Item)]
  BY <1>2, Keys DEF C, Linked
<1>6. C(s, l) \in Seq(Item) /\ (head[l] = NULL <=> C(s, l) = <<>>) /\ Len(C(s, l)) \in Nat
  BY HomeIs
<1> DEFINE w == [u EXCEPT ![a] = Append(u[a], i)]
<1>7. PICK t : t = w
  OBVIOUS
<1>8. next' = Extended(next, C(s, l), i) /\ data' = [data EXCEPT ![i] = d]
  BY <1>6 DEF Append_, Link, Extended, i
<1>9. Linked(t, heap', next')
  <2>1. Linked(w, G \ {i}, Extended(next, u[a], i))
    BY <1>2, <1>5, InsertLast
  <2> QED  BY <1>2, <1>3, <1>5, <1>7, <1>8, <2>1
<1>10. /\ C(t, l) = Append(C(s, l), i) /\ Else(s, t, l)
       /\ \A k \in Lists : Q(t, k) = Q(u, k)
  BY <1>2, <1>5, <1>7, Keys DEF C, Q, Else
<1>11. /\ head' = [head EXCEPT ![l] = First(C(t, l))] /\ tail' = [tail EXCEPT ![l] = i]
       /\ size' = [size EXCEPT ![l] = Len(C(t, l))]
  <2>1. /\ head' = [head EXCEPT ![l] = IF @ = NULL THEN i ELSE @] /\ tail' = [tail EXCEPT ![l] = i]
        /\ size' = [size EXCEPT ![l] = @ + 1]
    BY DEF Append_, i, NewTail
  <2>2. Len(C(t, l)) = Len(C(s, l)) + 1 /\ C(t, l) # <<>>
    BY <1>4, <1>6, <1>10
  <2>3. C(t, l)[1] = IF C(s, l) = <<>> THEN i ELSE C(s, l)[1]
    BY <1>4, <1>6, <1>10
  <2> QED  BY <1>1, <1>6, <2>1, <2>2, <2>3 DEF First
<1>12. First(C(t, l)) \in Pointer /\ Len(C(t, l)) \in Nat /\ C(t, l) # <<>>
  BY <1>4, <1>6, <1>10 DEF First, Pointer
<1>13. HomesAre(t)'
  <2>1. /\ head' \in [Lists -> Pointer] /\ tail' \in [Lists -> Pointer] /\ size' \in [Lists -> Nat]
        /\ data' \in [Item -> Data \cup {NULL}]
    BY <1>1, <1>4, <1>8, <1>11, <1>12 DEF Pointer
  <2>2. \A k \in Lists : head'[k] = First(C(t, k)) /\ size'[k] = Len(C(t, k))
    BY <1>1, <1>10, <1>11 DEF Else
  <2>3. /\ pool' \in [Lists -> Pointer] /\ pool_size' \in [Lists -> Nat]
        /\ \A k \in Lists : pool'[k] = First(Q(t, k)) /\ pool_size'[k] = Len(Q(t, k))
    BY <1>2, <1>3, <1>10
  <2> QED  BY <1>9, <2>1, <2>2, <2>3 DEF HomesAre
<1> QED  BY <1>4, <1>8, <1>10, <1>11, <1>13

\* The item i in front of q.
InFront(i, q) == <<i>> \o q

\* list_push: the item goes in front of the chain.
LEMMA PushHomes ==
  ASSUME NEW s, HomesAre(s), NEW l \in Lists, NEW d \in Data, Push(l, d)
  PROVE  \E t, i : /\ HomesAre(t)' /\ C(t, l) = InFront(i, C(s, l)) /\ Else(s, t, l)
                   /\ i \in Item /\ data' = [data EXCEPT ![i] = d]
                   /\ tail' = [tail EXCEPT ![l] = IF C(s, l) = <<>> THEN i ELSE @]
                   /\ \A k \in Lists : i \notin Members(C(s, k))
<1> DEFINE i == NewItem(l)
           a == ChainOf(l)
<1>1. /\ head \in [Lists -> Pointer] /\ tail \in [Lists -> Pointer] /\ size \in [Lists -> Nat]
      /\ data \in [Item -> Data \cup {NULL}]
      /\ \A k \in Lists : head[k] = First(C(s, k)) /\ size[k] = Len(C(s, k))
  BY DEF HomesAre
<1>2. PICK u, G :
        /\ Linked(u, G, next) /\ i \in G /\ G \ {i} = LessHeap(l)
        /\ \A k \in Lists : /\ C(u, k) = C(s, k)
                            /\ LessPool(l)[k] = First(Q(u, k)) /\ LessSize(l)[k] = Len(Q(u, k))
        /\ LessPool(l) \in [Lists -> Pointer] /\ LessSize(l) \in [Lists -> Nat]
  BY TakeIs DEF Push
<1>3. pool' = LessPool(l) /\ pool_size' = LessSize(l) /\ heap' = LessHeap(l)
  BY TakeItemIs DEF Push
<1>4. i \in Item /\ \A k \in Lists : i \notin Members(C(s, k))
  BY <1>2, FreeIs
<1> HIDE DEF i
<1>5. a \in Key /\ u[a] = C(s, l) /\ u \in [Key -> Seq(Item)]
  BY <1>2, Keys DEF C, Linked
<1>6. /\ C(s, l) \in Seq(Item) /\ (size[l] = 0 <=> C(s, l) = <<>>) /\ Len(C(s, l)) \in Nat
      /\ head[l] = First(C(s, l))
  BY HomeIs
<1> DEFINE w == [u EXCEPT ![a] = <<i>> \o u[a]]
<1>7. PICK t : t = w
  OBVIOUS
<1>8. next' = [next EXCEPT ![i] = First(C(s, l))] /\ data' = [data EXCEPT ![i] = d]
  BY <1>6 DEF Push, i
<1>9. Linked(t, heap', next')
  <2>1. Linked(w, G \ {i}, [next EXCEPT ![i] = First(u[a])])
    BY <1>2, <1>5, InsertFirst
  <2> QED  BY <1>2, <1>3, <1>5, <1>7, <1>8, <2>1
<1>10. /\ C(t, l) = <<i>> \o C(s, l) /\ Else(s, t, l)
       /\ \A k \in Lists : Q(t, k) = Q(u, k)
  BY <1>2, <1>5, <1>7, Keys DEF C, Q, Else
<1>11. Len(C(t, l)) = Len(C(s, l)) + 1 /\ C(t, l) # <<>> /\ C(t, l)[1] = i /\ Len(C(t, l)) \in Nat
  BY <1>4, <1>6, <1>10
<1>12. /\ head' = [head EXCEPT ![l] = i] /\ First(C(t, l)) = i
       /\ tail' = [tail EXCEPT ![l] = IF C(s, l) = <<>> THEN i ELSE @]
       /\ size' = [size EXCEPT ![l] = Len(C(t, l))]
  BY <1>1, <1>6, <1>11 DEF Push, i, First
<1>13. HomesAre(t)'
  <2>1. /\ head' \in [Lists -> Pointer] /\ tail' \in [Lists -> Pointer] /\ size' \in [Lists -> Nat]
        /\ data' \in [Item -> Data \cup {NULL}]
    BY <1>1, <1>4, <1>8, <1>11, <1>12 DEF Pointer
  <2>2. \A k \in Lists : head'[k] = First(C(t, k)) /\ size'[k] = Len(C(t, k))
    BY <1>1, <1>10, <1>12 DEF Else
  <2>3. /\ pool' \in [Lists -> Pointer] /\ pool_size' \in [Lists -> Nat]
        /\ \A k \in Lists : pool'[k] = First(Q(t, k)) /\ pool_size'[k] = Len(Q(t, k))
    BY <1>2, <1>3, <1>10
  <2> QED  BY <1>9, <2>1, <2>2, <2>3 DEF HomesAre
<1> QED  BY <1>4, <1>8, <1>10, <1>12, <1>13 DEF InFront

\* list_shift: the first item goes to the pool.
LEMMA ShiftHomes ==
  ASSUME NEW s, HomesAre(s), NEW l \in Lists, Shift(l)
  PROVE  \E t : /\ HomesAre(t)' /\ C(s, l) # <<>> /\ C(t, l) = Tail(C(s, l)) /\ Else(s, t, l)
                /\ data' = [data EXCEPT ![C(s, l)[1]] = NULL] /\ ret' = data[C(s, l)[1]]
                /\ tail' = [tail EXCEPT ![l] = IF @ = C(s, l)[1] THEN NULL ELSE @]
<1> DEFINE a == ChainOf(l)
           b == PoolOf(l)
           i == C(s, l)[1]
<1>1. /\ head \in [Lists -> Pointer] /\ tail \in [Lists -> Pointer] /\ size \in [Lists -> Nat]
      /\ pool \in [Lists -> Pointer] /\ pool_size \in [Lists -> Nat]
      /\ data \in [Item -> Data \cup {NULL}] /\ Linked(s, heap, next) /\ s \in [Key -> Seq(Item)]
      /\ \A k \in Lists : /\ head[k] = First(C(s, k)) /\ size[k] = Len(C(s, k))
                          /\ pool[k] = First(Q(s, k)) /\ pool_size[k] = Len(Q(s, k))
  BY DEF HomesAre, Linked
<1>2. /\ C(s, l) \in Seq(Item) /\ (head[l] = NULL <=> C(s, l) = <<>>) /\ Len(C(s, l)) \in Nat
      /\ Q(s, l) \in Seq(Item) /\ Len(Q(s, l)) \in Nat
      /\ \A j \in 1..Len(C(s, l)) : C(s, l)[j] \in Item /\ C(s, l)[j] \notin heap
  BY HomeIs
<1>3. C(s, l) # <<>> /\ 1 \in 1..Len(C(s, l)) /\ head[l] = i /\ i \in Item /\ i \notin heap
  <2>1. C(s, l) # <<>>
    BY <1>2 DEF Shift
  <2>2. 1 \in 1..Len(C(s, l))
    BY <1>2, <2>1
  <2> QED  BY <1>1, <1>2, <2>1, <2>2 DEF First
<1>4. a \in Key /\ b \in Key /\ a # b /\ s[a] = C(s, l) /\ s[b] = Q(s, l)
  BY Keys DEF C, Q
<1> HIDE DEF i
<1> DEFINE u == [s EXCEPT ![a] = Tail(C(s, l))]
           w == [u EXCEPT ![b] = <<i>> \o Q(s, l)]
<1>5. Linked(u, heap \cup {i}, next)
  <2>1. 1 \in 1..Len(s[a]) /\ s[a][1] = i /\ Without(s[a], 1) = Tail(C(s, l))
    BY <1>2, <1>3, <1>4, TailIs DEF i
  <2>2. Linked([s EXCEPT ![a] = Without(s[a], 1)], heap \cup {s[a][1]}, Unlinked(next, s[a], 1))
    BY <1>1, <1>4, <2>1, Unlink
  <2> QED  BY <2>1, <2>2 DEF Unlinked
<1>6. u[a] = Tail(C(s, l)) /\ u[b] = Q(s, l) /\ u \in [Key -> Seq(Item)]
  BY <1>1, <1>4, <1>5 DEF Linked
<1>7. PICK t : t = w
  OBVIOUS
<1>8. /\ next' = [next EXCEPT ![i] = First(Q(s, l))] /\ data' = [data EXCEPT ![i] = NULL] /\ ret' = data[i]
      /\ head' = [head EXCEPT ![l] = next[i]] /\ tail' = [tail EXCEPT ![l] = IF @ = i THEN NULL ELSE @]
      /\ size' = [size EXCEPT ![l] = @ - 1] /\ heap' = heap
      /\ pool' = [pool EXCEPT ![l] = i] /\ pool_size' = [pool_size EXCEPT ![l] = @ + 1]
  BY <1>1, <1>3 DEF Shift, PoolLink, ReleasedSize
<1>9. Linked(t, heap', next')
  <2> HIDE DEF u
  <2>1. Linked([u EXCEPT ![b] = <<i>> \o u[b]], (heap \cup {i}) \ {i}, [next EXCEPT ![i] = First(u[b])])
    BY <1>4, <1>5, InsertFirst
  <2>2. (heap \cup {i}) \ {i} = heap
    BY <1>3
  <2> QED  BY <1>6, <1>7, <1>8, <2>1, <2>2
<1>10. /\ C(t, l) = Tail(C(s, l)) /\ Else(s, t, l) /\ Q(t, l) = <<i>> \o Q(s, l)
       /\ \A k \in Lists \ {l} : Q(t, k) = Q(s, k)
  BY <1>1, <1>4, <1>6, <1>7, Keys DEF C, Q, Else
<1>11. /\ Len(C(t, l)) = Len(C(s, l)) - 1 /\ Len(C(t, l)) \in Nat /\ First(C(t, l)) = next[i]
  <2>1. next[i] = Following(C(s, l), 1)
    BY <1>1, <1>3, <1>4 DEF Linked, Strung, i
  <2> QED  BY <1>2, <1>3, <1>10, <2>1, RestIs
<1>12. Len(Q(t, l)) = Len(Q(s, l)) + 1 /\ Len(Q(t, l)) \in Nat /\ First(Q(t, l)) = i
  BY <1>2, <1>3, <1>10 DEF First
<1>13. HomesAre(t)'
  <2>1. next[i] \in Pointer
    BY <1>1, <1>3 DEF Linked
  <2>2. /\ head' \in [Lists -> Pointer] /\ tail' \in [Lists -> Pointer] /\ size' \in [Lists -> Nat]
        /\ pool' \in [Lists -> Pointer] /\ pool_size' \in [Lists -> Nat]
        /\ data' \in [Item -> Data \cup {NULL}]
    BY <1>1, <1>3, <1>8, <1>11, <1>12, <2>1 DEF Pointer
  <2>3. \A k \in Lists : head'[k] = First(C(t, k)) /\ size'[k] = Len(C(t, k))
    BY <1>1, <1>8, <1>10, <1>11 DEF Else
  <2>4. \A k \in Lists : pool'[k] = First(Q(t, k)) /\ pool_size'[k] = Len(Q(t, k))
    BY <1>1, <1>8, <1>10, <1>12
  <2> QED  BY <1>9, <2>2, <2>3, <2>4 DEF HomesAre
<1> QED  BY <1>3, <1>8, <1>10, <1>13 DEF i

\* Chain reads the chain and the pool of a list.
LEMMA ChainReads ==
  ASSUME NEW s, HomesAre(s), NEW l \in Lists
  PROVE  Chain(head[l]) = C(s, l) /\ Chain(pool[l]) = Q(s, l)
<1>1. s = Read
  BY HomesTold DEF Told
<1>2. ChainOf(l) \in Key /\ PoolOf(l) \in Key
  BY Keys
<1>3. ChainOf(l)[1] = l /\ ChainOf(l)[2] = "chain" /\ PoolOf(l)[1] = l /\ PoolOf(l)[2] = "pool"
  BY DEF ChainOf, PoolOf
<1>4. Read[ChainOf(l)] = Chain(head[l]) /\ Read[PoolOf(l)] = Chain(pool[l])
  BY <1>2, <1>3 DEF Read
<1> QED  BY <1>1, <1>4 DEF C, Q

\* Two sequences become one, wherever it is put.
LEMMA JoinTo ==
  ASSUME NEW s, NEW H, NEW n, Linked(s, H, n), NEW a \in Key, NEW b \in Key, a # b
  PROVE  Linked([s EXCEPT ![a] = <<>>, ![b] = s[a] \o s[b]], H, Joined(n, s[a], s[b]))
<1> DEFINE q == s[a] \o s[b]
           u == [s EXCEPT ![a] = q, ![b] = <<>>]
           m == Joined(n, s[a], s[b])
           v == [u EXCEPT ![b] = u[b] \o u[a], ![a] = <<>>]
<1>1. Linked(u, H, m)
  BY Join
<1>2. s \in [Key -> Seq(Item)] /\ s[a] \in Seq(Item) /\ s[b] \in Seq(Item) /\ q \in Seq(Item)
  BY SeqIs DEF Linked
<1> HIDE DEF q, m
<1>3. u \in [Key -> Seq(Item)] /\ u[b] = <<>> /\ u[a] = q
  BY <1>2, SMTT(30)
<1> HIDE DEF u
<1>4. Linked(v, H, Joined(m, u[b], u[a]))
  BY <1>1, Join
<1>5. Joined(m, u[b], u[a]) = m /\ u[b] \o u[a] = q
  BY <1>2, <1>3 DEF Joined
<1>6. v = [s EXCEPT ![a] = <<>>, ![b] = q]
  <2>1. v = [u EXCEPT ![b] = q, ![a] = <<>>]
    BY <1>5
  <2> QED  BY <1>2, <2>1 DEF u
<1> HIDE DEF v
<1> QED  BY <1>4, <1>5, <1>6 DEF q, m

\* list_clear: chain and pool become the pool.
LEMMA ClearHomes ==
  ASSUME NEW s, HomesAre(s), NEW l \in Lists, Clear(l)
  PROVE  \E t : /\ HomesAre(t)' /\ C(t, l) = <<>> /\ Else(s, t, l)
                /\ data' = [i \in Item |-> IF i \in Members(C(s, l)) THEN NULL ELSE data[i]]
                /\ tail' = [tail EXCEPT ![l] = NULL]
<1> DEFINE a == ChainOf(l)
           b == PoolOf(l)
           c == C(s, l)
           q == Q(s, l)
<1>1. /\ head \in [Lists -> Pointer] /\ tail \in [Lists -> Pointer] /\ size \in [Lists -> Nat]
      /\ pool \in [Lists -> Pointer] /\ pool_size \in [Lists -> Nat] /\ next \in [Item -> Pointer]
      /\ data \in [Item -> Data \cup {NULL}] /\ Linked(s, heap, next) /\ s \in [Key -> Seq(Item)]
      /\ \A k \in Lists : /\ head[k] = First(C(s, k)) /\ size[k] = Len(C(s, k))
                          /\ pool[k] = First(Q(s, k)) /\ pool_size[k] = Len(Q(s, k))
  BY DEF HomesAre, Linked
<1>2. /\ c \in Seq(Item) /\ Len(c) \in Nat /\ q \in Seq(Item) /\ Len(q) \in Nat
      /\ size[l] = Len(c) /\ pool_size[l] = Len(q)
      /\ (size[l] = 0 <=> c = <<>>) /\ (pool_size[l] = 0 <=> q = <<>>)
      /\ head[l] = First(c) /\ pool[l] = First(q)
      /\ \A j \in 1..Len(c) : c[j] \in Item
      /\ \A j \in 1..Len(q) : q[j] \in Item
  BY HomeIs
<1>3. c # <<>> /\ Chain(head[l]) = c /\ Chain(pool[l]) = q
  BY <1>2, ChainReads DEF Clear
<1>4. a \in Key /\ b \in Key /\ a # b /\ s[a] = c /\ s[b] = q
  BY Keys DEF C, Q
<1> HIDE DEF c, q
<1> DEFINE One(t, r) == /\ Linked(t, heap, next') /\ r \in Seq(Item) /\ First(r) = pool'[l] /\ Len(r) = Len(c) + Len(q)
                        /\ t = [s EXCEPT ![a] = <<>>, ![b] = r]
<1>5. \E t, r : One(t, r)
  <2> DEFINE first == IF pool_size[l] = 0 \/ size[l] < pool_size[l] THEN head[l] ELSE pool[l]
             second == IF first = head[l] THEN pool[l] ELSE head[l]
             last == Chain(first)[Len(Chain(first))]
  <2>1. /\ pool' = [pool EXCEPT ![l] = first]
        /\ next' = IF pool_size[l] = 0 THEN next ELSE [next EXCEPT ![last] = second]
    BY DEF Clear
  <2>2. ASSUME NEW r, r \in Seq(Item), r # <<>>, NEW r2, r2 \in Seq(Item)
        PROVE  r \o r2 \in Seq(Item) /\ Len(r \o r2) = Len(r) + Len(r2) /\ First(r \o r2) = First(r)
    <3>1. r \o r2 \in Seq(Item) /\ Len(r \o r2) = Len(r) + Len(r2) /\ r \o r2 # <<>> /\ (r \o r2)[1] = r[1]
      BY <2>2
    <3> QED  BY <2>2, <3>1 DEF First
  <2>3. CASE q = <<>>
    <3>1. Linked([s EXCEPT ![b] = s[b] \o s[a], ![a] = <<>>], heap, Joined(next, s[b], s[a]))
      BY <1>1, <1>4, Join
    <3>2. s[b] \o s[a] = c /\ Joined(next, s[b], s[a]) = next
      BY <1>2, <1>4, <2>3 DEF Joined
    <3>3. next' = next /\ pool'[l] = First(c)
      BY <1>1, <1>2, <2>1, <2>3
    <3>4. [s EXCEPT ![b] = c, ![a] = <<>>] = [s EXCEPT ![a] = <<>>, ![b] = c]
      BY <1>1, <1>4
    <3>5. Len(c) = Len(c) + Len(q)
      BY <1>2, <2>3
    <3>6. One([s EXCEPT ![a] = <<>>, ![b] = c], c)
      BY <1>2, <3>1, <3>2, <3>3, <3>4, <3>5
    <3> HIDE DEF One
    <3> QED  BY <3>6
  <2>4. CASE q # <<>> /\ size[l] < pool_size[l]
    <3>1. Linked([s EXCEPT ![a] = <<>>, ![b] = s[a] \o s[b]], heap, Joined(next, s[a], s[b]))
      BY <1>1, <1>4, JoinTo
    <3>2. first = head[l] /\ second = pool[l] /\ last = LastOf(c)
      BY <1>2, <1>3, <2>4 DEF LastOf
    <3>3. next' = Joined(next, s[a], s[b]) /\ pool'[l] = First(c)
      BY <1>1, <1>2, <1>3, <1>4, <2>1, <2>4, <3>2 DEF Joined
    <3>4. c \o q \in Seq(Item) /\ First(c \o q) = First(c) /\ Len(c \o q) = Len(c) + Len(q)
      BY <1>2, <1>3, <2>2
    <3>5. One([s EXCEPT ![a] = <<>>, ![b] = c \o q], c \o q)
      BY <1>4, <3>1, <3>3, <3>4
    <3> HIDE DEF One
    <3> QED  BY <3>5
  <2>5. CASE q # <<>> /\ ~(size[l] < pool_size[l])
    <3>1. Linked([s EXCEPT ![b] = s[b] \o s[a], ![a] = <<>>], heap, Joined(next, s[b], s[a]))
      BY <1>1, <1>4, Join
    <3>2. first = pool[l] /\ first # head[l]
      <4>1. 1 \in 1..Len(s[a]) /\ 1 \in 1..Len(s[b])
        BY <1>2, <1>3, <1>4, <2>5
      <4>2. s[a][1] # s[b][1]
        BY <1>1, <1>4, <4>1 DEF Linked, Apart
      <4> QED  BY <1>2, <1>3, <1>4, <2>5, <4>2 DEF First
    <3>3. second = head[l] /\ last = LastOf(q)
      BY <1>2, <1>3, <2>5, <3>2 DEF LastOf
    <3>4. next' = Joined(next, s[b], s[a]) /\ pool'[l] = First(q)
      BY <1>1, <1>2, <1>3, <1>4, <2>1, <2>5, <3>2, <3>3 DEF Joined
    <3>5. q \o c \in Seq(Item) /\ First(q \o c) = First(q) /\ Len(q \o c) = Len(c) + Len(q)
      BY <1>2, <1>3, <2>2, <2>5
    <3>6. [s EXCEPT ![b] = q \o c, ![a] = <<>>] = [s EXCEPT ![a] = <<>>, ![b] = q \o c]
      BY <1>1, <1>4
    <3>7. One([s EXCEPT ![a] = <<>>, ![b] = q \o c], q \o c)
      BY <1>4, <3>1, <3>4, <3>5, <3>6
    <3> HIDE DEF One
    <3> QED  BY <3>7
  <2> QED  BY <2>3, <2>4, <2>5
<1>6. PICK t, r : One(t, r)
  BY <1>5
<1>7. /\ C(t, l) = <<>> /\ Q(t, l) = r /\ Else(s, t, l)
      /\ \A k \in Lists \ {l} : Q(t, k) = Q(s, k)
  BY <1>1, <1>4, <1>6, Keys DEF C, Q, Else
<1>8. /\ head' = [head EXCEPT ![l] = NULL] /\ tail' = [tail EXCEPT ![l] = NULL]
      /\ size' = [size EXCEPT ![l] = 0] /\ pool_size' = [pool_size EXCEPT ![l] = @ + size[l]]
      /\ data' = [i \in Item |-> IF i \in Members(c) THEN NULL ELSE data[i]] /\ heap' = heap
  BY <1>3 DEF Clear
<1>9. \A k \in Lists \ {l} : pool'[k] = pool[k]
  BY <1>1 DEF Clear
<1>10. pool' \in [Lists -> Pointer]
  <2>1. First(r) \in Pointer
    <3>1. r # <<>> => 1 \in 1..Len(r)
      BY <1>6
    <3> QED  BY <1>6, <3>1 DEF First, Pointer
  <2>2. pool' = [pool EXCEPT ![l] = pool'[l]]
    BY <1>1 DEF Clear
  <2> QED  BY <1>1, <1>6, <2>1, <2>2
<1>11. HomesAre(t)'
  <2>1. /\ head' \in [Lists -> Pointer] /\ tail' \in [Lists -> Pointer] /\ size' \in [Lists -> Nat]
        /\ pool_size' \in [Lists -> Nat] /\ data' \in [Item -> Data \cup {NULL}]
    BY <1>1, <1>2, <1>8 DEF Pointer
  <2>2. \A k \in Lists : head'[k] = First(C(t, k)) /\ size'[k] = Len(C(t, k))
    BY <1>1, <1>7, <1>8 DEF Else, First
  <2>3. \A k \in Lists : pool'[k] = First(Q(t, k)) /\ pool_size'[k] = Len(Q(t, k))
    <3>1. pool'[l] = First(r) /\ Q(t, l) = r
      BY <1>6, <1>7
    <3>2. pool_size'[l] = Len(r)
      BY <1>1, <1>2, <1>6, <1>8
    <3>3. \A k \in Lists \ {l} : pool'[k] = pool[k] /\ pool_size'[k] = pool_size[k]
      BY <1>1, <1>8, <1>9
    <3> HIDE DEF One
    <3> QED  BY <1>1, <1>7, <3>1, <3>2, <3>3
  <2>4. Linked(t, heap', next')
    BY <1>6, <1>8
  <2> QED  BY <1>10, <2>1, <2>2, <2>3, <2>4 DEF HomesAre
<1> QED  BY <1>7, <1>8, <1>11 DEF c

\* list_free: the items of chain and pool become free.
LEMMA FreeHomes ==
  ASSUME NEW s, HomesAre(s), NEW l \in Lists, Free(l)
  PROVE  \E t : /\ HomesAre(t)' /\ C(t, l) = <<>> /\ Q(t, l) = <<>> /\ Else(s, t, l)
                /\ \A k \in Lists \ {l} : Q(t, k) = Q(s, k)
                /\ \A k \in Lists \ {l} : \A i \in 1..Len(C(s, k)) : data'[C(s, k)[i]] = data[C(s, k)[i]]
                /\ tail' = [tail EXCEPT ![l] = NULL]
<1> DEFINE a == ChainOf(l)
           b == PoolOf(l)
           own == Members(C(s, l)) \cup Members(Q(s, l))
           u == [s EXCEPT ![a] = <<>>]
           w == [u EXCEPT ![b] = <<>>]
<1>1. /\ head \in [Lists -> Pointer] /\ tail \in [Lists -> Pointer] /\ size \in [Lists -> Nat]
      /\ pool \in [Lists -> Pointer] /\ pool_size \in [Lists -> Nat] /\ next \in [Item -> Pointer]
      /\ data \in [Item -> Data \cup {NULL}] /\ Linked(s, heap, next) /\ s \in [Key -> Seq(Item)]
      /\ \A k \in Lists : /\ head[k] = First(C(s, k)) /\ size[k] = Len(C(s, k))
                          /\ pool[k] = First(Q(s, k)) /\ pool_size[k] = Len(Q(s, k))
  BY DEF HomesAre, Linked
<1>2. Chain(head[l]) = C(s, l) /\ Chain(pool[l]) = Q(s, l)
  BY ChainReads
<1>3. a \in Key /\ b \in Key /\ a # b /\ s[a] = C(s, l) /\ s[b] = Q(s, l)
  BY Keys DEF C, Q
<1>4. /\ heap' = heap \cup own
      /\ next' = [i \in Item |-> IF i \in own THEN NULL ELSE next[i]]
      /\ data' = [i \in Item |-> IF i \in own THEN NULL ELSE data[i]]
      /\ head' = [head EXCEPT ![l] = NULL] /\ tail' = [tail EXCEPT ![l] = NULL]
      /\ size' = [size EXCEPT ![l] = 0]
      /\ pool' = [pool EXCEPT ![l] = NULL] /\ pool_size' = [pool_size EXCEPT ![l] = 0]
  BY <1>2 DEF Free
<1>5. u[b] = s[b] /\ w = [s EXCEPT ![a] = <<>>, ![b] = <<>>]
  BY <1>1, <1>3
<1>6. Linked(w, (heap \cup Members(s[a])) \cup Members(s[b]), next)
  <2>1. Linked(u, heap \cup Members(s[a]), next)
    BY <1>1, <1>3, Drop
  <2> HIDE DEF u
  <2>2. Linked(w, (heap \cup Members(s[a])) \cup Members(u[b]), next)
    BY <1>3, <2>1, Drop
  <2> QED  BY <1>5, <2>2
<1> HIDE DEF own
<1>7. PICK t : t = w
  OBVIOUS
<1>8. Linked(t, heap', next')
  <2>1. (heap \cup Members(s[a])) \cup Members(s[b]) = heap'
    BY <1>3, <1>4 DEF own
  <2>2. next' \in [Item -> Pointer] /\ \A x \in Item \ heap' : next'[x] = next[x]
    BY <1>1, <1>4 DEF Pointer
  <2> HIDE DEF w
  <2> QED  BY <1>6, <1>7, <2>1, <2>2, FreeLinks
<1>9. /\ C(t, l) = <<>> /\ Q(t, l) = <<>> /\ Else(s, t, l)
      /\ \A k \in Lists \ {l} : Q(t, k) = Q(s, k)
  <2> HIDE DEF w
  <2> QED  BY <1>1, <1>3, <1>5, <1>7, Keys DEF C, Q, Else
<1>10. \A k \in Lists \ {l} : \A i \in 1..Len(C(s, k)) : data'[C(s, k)[i]] = data[C(s, k)[i]]
  <2> SUFFICES ASSUME NEW k \in Lists \ {l}, NEW i \in 1..Len(C(s, k))
               PROVE  data'[C(s, k)[i]] = data[C(s, k)[i]]
    OBVIOUS
  <2>1. C(s, k)[i] \in Item
    BY HomeIs
  <2>2. /\ \A j \in 1..Len(C(s, l)) : C(s, k)[i] # C(s, l)[j]
        /\ \A j \in 1..Len(Q(s, l)) : C(s, k)[i] # Q(s, l)[j]
    BY <1>1, Keys DEF Linked, Apart, C, Q
  <2>3. C(s, k)[i] \notin own
    BY <2>2 DEF own, Members
  <2> QED  BY <1>4, <2>1, <2>3
<1>11. HomesAre(t)'
  <2>1. /\ head' \in [Lists -> Pointer] /\ tail' \in [Lists -> Pointer] /\ size' \in [Lists -> Nat]
        /\ pool' \in [Lists -> Pointer] /\ pool_size' \in [Lists -> Nat] /\ data' \in [Item -> Data \cup {NULL}]
    BY <1>1, <1>4 DEF Pointer
  <2>2. \A k \in Lists : head'[k] = First(C(t, k)) /\ size'[k] = Len(C(t, k))
    BY <1>1, <1>4, <1>9 DEF Else, First
  <2>3. \A k \in Lists : pool'[k] = First(Q(t, k)) /\ pool_size'[k] = Len(Q(t, k))
    BY <1>1, <1>4, <1>9 DEF First
  <2> QED  BY <1>8, <2>1, <2>2, <2>3 DEF HomesAre
<1> QED  BY <1>4, <1>9, <1>10, <1>11

-----------------------------------------------------------------------------
(* Steps along a chain.                                                     *)

\* The address of the pointer behind the m-th item.
Place(q, m) == IF m = 0 THEN HeadField ELSE q[m]

\* Through that address the next item is found.
LEMMA PlaceIs ==
  ASSUME NEW s, HomesAre(s), NEW l \in Lists, NEW m \in 0..Len(C(s, l))
  PROVE  /\ Deref(l, Place(C(s, l), m)) = Following(C(s, l), m)
         /\ Place(C(s, l), m) \in Item \cup {HeadField} /\ (Place(C(s, l), m) = HeadField <=> m = 0)
<1>1. /\ Len(C(s, l)) \in Nat /\ head[l] = First(C(s, l)) /\ C(s, l) \in Seq(Item)
      /\ \A i \in 1..Len(C(s, l)) : C(s, l)[i] \in Item
  BY HomeIs
<1>2. HeadField \notin Item
  BY ListAssumption DEF Item, HeadField
<1>3. \A i \in 1..Len(C(s, l)) : next[C(s, l)[i]] = Following(C(s, l), i)
  BY Keys DEF HomesAre, Linked, Strung, C
<1>4. CASE m = 0
  <2>1. First(C(s, l)) = Following(C(s, l), 0)
    BY <1>1 DEF First, Following
  <2> QED  BY <1>1, <1>4, <2>1 DEF Place, Deref
<1>5. CASE m # 0
  <2>1. m \in 1..Len(C(s, l))
    BY <1>1, <1>5
  <2> QED  BY <1>1, <1>2, <1>3, <1>5, <2>1 DEF Place, Deref
<1> QED  BY <1>4, <1>5

\* j steps from behind the p-th item lead behind item p + j.
LEMMA StepsIs ==
  ASSUME NEW s, HomesAre(s), NEW l \in Lists, NEW p \in Nat, NEW j \in Nat, p + j <= Len(C(s, l))
  PROVE  StepsFrom(l, Place(C(s, l), p), j) = Place(C(s, l), p + j)
<1> DEFINE q == C(s, l)
           a == Place(q, p)
           F(g) == [i \in 0..j |-> IF i = 0 THEN a ELSE Deref(l, g[i - 1])]
           U == CHOOSE g : g = F(g)
           u == [i \in 0..j |-> Place(q, p + i)]
<1>1. Len(q) \in Nat
  BY HomeIs
<1>2. StepsFrom(l, a, j) = U[j]
  BY DEF StepsFrom
<1>3. \A m \in 0..Len(q) : m < Len(q) => Deref(l, Place(q, m)) = Place(q, m + 1)
  <2> SUFFICES ASSUME NEW m \in 0..Len(q), m < Len(q) PROVE Deref(l, Place(q, m)) = Place(q, m + 1)
    OBVIOUS
  <2>1. Deref(l, Place(q, m)) = Following(q, m)
    BY PlaceIs
  <2> QED  BY <2>1 DEF Following, Place
<1> HIDE DEF q, a, U
<1>4. u = F(u)
  <2> SUFFICES ASSUME NEW i \in 0..j PROVE u[i] = IF i = 0 THEN a ELSE Deref(l, u[i - 1])
    OBVIOUS
  <2>1. CASE i = 0
    BY <2>1 DEF a
  <2>2. CASE i # 0
    <3>1. i - 1 \in 0..j /\ p + (i - 1) \in 0..Len(q) /\ p + (i - 1) < Len(q) /\ (p + (i - 1)) + 1 = p + i
      BY <1>1, <2>2 DEF q
    <3>2. Deref(l, Place(q, p + (i - 1))) = Place(q, p + i)
      BY <1>3, <3>1
    <3> QED  BY <2>2, <3>1, <3>2
  <2> QED  BY <2>1, <2>2
<1> HIDE DEF F
<1>5. U = F(U)
  BY <1>4, Zenon DEF U
<1>6. \A i \in 0..j : U[i] = IF i = 0 THEN a ELSE Deref(l, U[i - 1])
  BY <1>5 DEF F
<1> DEFINE P == {i \in Nat : i <= j => U[i] = Place(q, p + i)}
<1>7. 0 \in P
  BY <1>6 DEF a
<1>8. ASSUME NEW i \in P PROVE i + 1 \in P
  <2>1. i \in Nat /\ (i <= j => U[i] = Place(q, p + i))
    BY <1>8
  <2>2. ASSUME i + 1 <= j PROVE U[i + 1] = Place(q, p + (i + 1))
    <3>1. /\ i + 1 \in 0..j /\ i + 1 # 0 /\ (i + 1) - 1 = i /\ i <= j
          /\ p + i \in 0..Len(q) /\ p + i < Len(q) /\ (p + i) + 1 = p + (i + 1)
      BY <1>1, <2>1, <2>2 DEF q
    <3>2. U[i + 1] = Deref(l, U[i])
      BY <1>6, <3>1
    <3> QED  BY <1>3, <2>1, <3>1, <3>2
  <2> QED  BY <2>1, <2>2
<1>9. j \in P
  <2>1. P \in SUBSET Nat
    OBVIOUS
  <2> HIDE DEF P
  <2> QED  BY <1>7, <1>8, <2>1, SetInduction
<1> QED  BY <1>2, <1>9 DEF q, a

-----------------------------------------------------------------------------
(* The inductive invariant.                                                 *)

\* tail is the last item of the chain; only the list that is being searched
\* for matches may wait for its tail until the search is over.
Tails(s) == \A l \in Lists : Idle \/ l # scan.src => tail[l] = LastOf(C(s, l))

\* The iterator of list l with chain c stands behind item iter_idx[l].
WalkOf(l, c) ==
  /\ iter_idx[l] \in -1..Len(c)
  /\ iter_idx[l] >= 1 => iter[l] = c[iter_idx[l]]
  /\ iter_idx[l] < 1 => iter[l] = HeadField \/ (iter[l] = NULL /\ c = <<>>)
  /\ l \in walking => iter_idx[l] >= 0 /\ c # <<>>

\* The lists that exist and those that are walked through.
Walkers ==
  /\ live \subseteq Lists /\ Embedded \cup Stacks \subseteq live /\ walking \subseteq live \ Stacks
  /\ iter \in [Lists -> Pointer \cup {HeadField}] /\ iter_idx \in [Lists -> Int]

\* So do the iterators of all lists but the stacks, which nobody walks.
Walks(s) ==
  /\ Walkers
  /\ \A l \in Lists \ live : C(s, l) = <<>>
  /\ \A l \in Stacks : iter[l] = HeadField
  /\ \A l \in Lists \ Stacks : WalkOf(l, C(s, l))

\* The k items the search of chain c has passed do not match.
Passed(c, k) == scan.at = Place(c, k) /\ \A i \in 1..k : data[c[i]] \notin Matching

\* When k items of chain c are passed, the tail is right, or the last item has
\* just been moved and freed.
TailOrFreed(c, k) ==
  tail[scan.src] = LastOf(c) \/ (k = Len(c) /\ tail[scan.src] \in heap)

\* The search of list_transfer_on_match.
Scans(s) ==
  \/ Idle
  \/ /\ scan \in [dst : live \ Stacks, src : live \ Stacks, at : Item \cup {NULL, HeadField}]
     /\ scan.dst # scan.src /\ scan.dst \notin walking /\ scan.src \notin walking
     /\ iter[scan.src] = HeadField
     /\ Busy => \E k \in 0..Len(C(s, scan.src)) :
                  Passed(C(s, scan.src), k) /\ TailOrFreed(C(s, scan.src), k)

IInvOf(s) == HomesAre(s) /\ Tails(s) /\ Walks(s) /\ Scans(s)
IInv == IInvOf(Read)

-----------------------------------------------------------------------------
(* What the lists hold.                                                     *)

\* What an item's data field holds.
Datum == Data \cup {NULL}

\* The data f of the items of q, and of every list.
Value(q, f) == [i \in 1..Len(q) |-> f[q[i]]]
Held(s) == [l \in Lists |-> Value(C(s, l), data)]

\* A sequence of items gives as long a sequence of data.
LEMMA ValueIs ==
  ASSUME NEW f \in [Item -> Datum], NEW q \in Seq(Item)
  PROVE  /\ Value(q, f) \in Seq(Datum) /\ Len(Value(q, f)) = Len(q) /\ Len(q) \in Nat
         /\ \A i \in 1..Len(q) : Value(q, f)[i] = f[q[i]] /\ q[i] \in Item
<1>1. \A i \in 1..Len(q) : q[i] \in Item
  OBVIOUS
<1>2. Len(q) \in Nat /\ Value(q, f) \in [1..Len(q) -> Datum]
  BY <1>1 DEF Value
<1>3. Value(q, f) \in Seq(Datum) /\ Len(Value(q, f)) = Len(q)
  BY <1>2
<1> QED  BY <1>1, <1>2, <1>3 DEF Value

\* Data of other items do not matter.
LEMMA SameValue ==
  ASSUME NEW q, NEW f, NEW g, \A i \in 1..Len(q) : f[q[i]] = g[q[i]]
  PROVE  Value(q, f) = Value(q, g)
BY DEF Value

\* The data follow the items: behind, in front, ...
LEMMA ValueAppend ==
  ASSUME NEW f \in [Item -> Datum], NEW q \in Seq(Item), NEW x \in Item
  PROVE  Value(Append(q, x), f) = Append(Value(q, f), f[x])
<1> DEFINE v == Value(q, f)
           w == Value(Append(q, x), f)
<1>1. Append(q, x) \in Seq(Item) /\ Len(Append(q, x)) = Len(q) + 1
  OBVIOUS
<1>2. \A i \in 1..(Len(q) + 1) : Append(q, x)[i] = IF i = Len(q) + 1 THEN x ELSE q[i]
  OBVIOUS
<1>3. v \in Seq(Datum) /\ Len(v) = Len(q) /\ Len(q) \in Nat /\ \A i \in 1..Len(q) : v[i] = f[q[i]]
  BY ValueIs
<1>4. w \in Seq(Datum) /\ Len(w) = Len(q) + 1 /\ \A i \in 1..(Len(q) + 1) : w[i] = f[Append(q, x)[i]]
  BY <1>1, ValueIs
<1>5. f[x] \in Datum
  OBVIOUS
<1> HIDE DEF v, w
<1>6. /\ Append(v, f[x]) \in Seq(Datum) /\ Len(Append(v, f[x])) = Len(q) + 1
      /\ \A i \in 1..(Len(q) + 1) : Append(v, f[x])[i] = IF i = Len(q) + 1 THEN f[x] ELSE v[i]
  BY <1>3, <1>5
<1>7. ASSUME NEW i \in 1..(Len(q) + 1) PROVE w[i] = Append(v, f[x])[i]
  <2>1. i # Len(q) + 1 => i \in 1..Len(q)
    BY <1>3
  <2> QED  BY <1>2, <1>3, <1>4, <1>6, <2>1
<1>8. w = Append(v, f[x])
  BY <1>4, <1>6, <1>7
<1> QED  BY <1>8 DEF v, w

\* Two sequences of data.
LEMMA DataConcat ==
  ASSUME NEW v \in Seq(Datum), NEW u \in Seq(Datum)
  PROVE  /\ v \o u \in Seq(Datum) /\ Len(v \o u) = Len(v) + Len(u)
         /\ \A i \in 1..(Len(v) + Len(u)) : (v \o u)[i] = IF i <= Len(v) THEN v[i] ELSE u[i - Len(v)]
OBVIOUS

\* ... one list behind the other, ...
LEMMA ValueConcat ==
  ASSUME NEW f \in [Item -> Datum], NEW q \in Seq(Item), NEW r \in Seq(Item)
  PROVE  Value(q \o r, f) = Value(q, f) \o Value(r, f)
<1> DEFINE v == Value(q, f)
           u == Value(r, f)
           w == Value(q \o r, f)
<1>1. q \o r \in Seq(Item) /\ Len(q \o r) = Len(q) + Len(r)
  OBVIOUS
<1>2. \A i \in 1..(Len(q) + Len(r)) : (q \o r)[i] = IF i <= Len(q) THEN q[i] ELSE r[i - Len(q)]
  OBVIOUS
<1>3. /\ v \in Seq(Datum) /\ Len(v) = Len(q) /\ Len(q) \in Nat /\ \A i \in 1..Len(q) : v[i] = f[q[i]]
      /\ u \in Seq(Datum) /\ Len(u) = Len(r) /\ Len(r) \in Nat /\ \A i \in 1..Len(r) : u[i] = f[r[i]]
  BY ValueIs
<1>4. /\ w \in Seq(Datum) /\ Len(w) = Len(q) + Len(r)
      /\ \A i \in 1..(Len(q) + Len(r)) : w[i] = f[(q \o r)[i]]
  BY <1>1, ValueIs
<1> HIDE DEF v, w, u
<1>5. /\ v \o u \in Seq(Datum) /\ Len(v \o u) = Len(q) + Len(r)
      /\ \A i \in 1..(Len(q) + Len(r)) : (v \o u)[i] = IF i <= Len(q) THEN v[i] ELSE u[i - Len(q)]
  <2>1. v \in Seq(Datum) /\ u \in Seq(Datum) /\ Len(v) = Len(q) /\ Len(u) = Len(r)
    BY <1>3
  <2>2. /\ v \o u \in Seq(Datum) /\ Len(v \o u) = Len(v) + Len(u)
        /\ \A i \in 1..(Len(v) + Len(u)) : (v \o u)[i] = IF i <= Len(v) THEN v[i] ELSE u[i - Len(v)]
    BY <2>1, DataConcat, Zenon
  <2> QED  BY <2>1, <2>2, Zenon
<1>6. ASSUME NEW i \in 1..(Len(q) + Len(r)) PROVE w[i] = (v \o u)[i]
  <2>1. w[i] = f[(q \o r)[i]]
    BY <1>4
  <2>2. CASE i <= Len(q)
    <3>1. i \in 1..Len(q)
      BY <1>3, <2>2
    <3>2. (q \o r)[i] = q[i] /\ (v \o u)[i] = v[i]
      BY <1>2, <1>5, <2>2, Zenon
    <3> QED  BY <1>3, <2>1, <3>1, <3>2, Zenon
  <2>3. CASE ~(i <= Len(q))
    <3>1. i - Len(q) \in 1..Len(r)
      BY <1>3, <2>3
    <3>2. (q \o r)[i] = r[i - Len(q)] /\ (v \o u)[i] = u[i - Len(q)]
      BY <1>2, <1>5, <2>3, Zenon
    <3> QED  BY <1>3, <2>1, <3>1, <3>2, Zenon
  <2> QED  BY <2>2, <2>3
<1>7. w = v \o u
  BY <1>4, <1>5, <1>6, SMTT(30)
<1> QED  BY <1>7 DEF v, w, u

\* ... with one item in front, ...
LEMMA ValuePrepend ==
  ASSUME NEW f \in [Item -> Datum], NEW q \in Seq(Item), NEW x \in Item
  PROVE  Value(<<x>> \o q, f) = <<f[x]>> \o Value(q, f)
<1>1. <<x>> \in Seq(Item) /\ Len(<<x>>) = 1 /\ <<x>>[1] = x
  OBVIOUS
<1>2. Value(<<x>>, f) = <<f[x]>>
  <2>1. Value(<<x>>, f) = [i \in 1..1 |-> f[<<x>>[i]]]
    BY <1>1 DEF Value
  <2>2. \A i \in 1..1 : f[<<x>>[i]] = f[x]
    BY <1>1
  <2>3. Value(<<x>>, f) = [i \in 1..1 |-> f[x]]
    BY <2>1, <2>2
  <2> QED  BY <2>3
<1> QED  BY <1>1, <1>2, ValueConcat

\* ... and the part of a list.
LEMMA ValuePart ==
  ASSUME NEW f \in [Item -> Datum], NEW q \in Seq(Item), NEW m \in 1..(Len(q) + 1), NEW n \in 0..Len(q)
  PROVE  Value(SubSeq(q, m, n), f) = SubSeq(Value(q, f), m, n)
<1> DEFINE v == Value(q, f)
           p == SubSeq(q, m, n)
           w == Value(p, f)
<1>1. v \in Seq(Datum) /\ Len(v) = Len(q) /\ Len(q) \in Nat /\ \A i \in 1..Len(q) : v[i] = f[q[i]]
  BY ValueIs
<1> DEFINE L == IF m <= n THEN n - m + 1 ELSE 0
<1>2. p \in Seq(Item) /\ Len(p) = L /\ \A i \in 1..L : p[i] = q[m + i - 1]
  BY <1>1
<1> HIDE DEF p
<1>3. w \in Seq(Datum) /\ Len(w) = L /\ \A i \in 1..L : w[i] = f[p[i]]
  BY <1>2, ValueIs
<1> HIDE DEF v, w
<1>4. /\ SubSeq(v, m, n) \in Seq(Datum) /\ Len(SubSeq(v, m, n)) = L
      /\ \A i \in 1..L : SubSeq(v, m, n)[i] = v[m + i - 1]
  BY <1>1
<1>5. ASSUME NEW i \in 1..L PROVE w[i] = SubSeq(v, m, n)[i]
  <2>1. m + i - 1 \in 1..Len(q)
    BY <1>1
  <2> QED  BY <1>1, <1>2, <1>3, <1>4, <2>1
<1>6. w = SubSeq(v, m, n)
  <2> HIDE DEF L
  <2>1. \A i \in 1..L : w[i] = SubSeq(v, m, n)[i]
    BY <1>5
  <2> QED  BY <1>3, <1>4, <2>1
<1> QED  BY <1>6 DEF v, w, p

\* Contents is what the chains hold.
HoldsTold == \A s : HomesAre(s) => Contents = Held(s)

\* It is, by what Chain reads.
LEMMA ContentsAre == HoldsTold
<1> SUFFICES ASSUME NEW s, HomesAre(s) PROVE Contents = Held(s)
  BY DEF HoldsTold
<1>1. \A l \in Lists : Chain(head[l]) = C(s, l)
  BY ChainReads
<1> QED  BY <1>1 DEF Contents, Held, Value

\* And so it is in the next state.
LEMMA ContentsAreNext == HoldsTold'
BY ContentsAre, PTL

\* A call changes nothing but the chains and iterators of the lists S ...
Untouched(s, t, S) ==
  \A k \in Lists \ S :
    /\ C(t, k) = C(s, k) /\ tail'[k] = tail[k]
    /\ iter'[k] = iter[k] /\ iter_idx'[k] = iter_idx[k]
    /\ (k \in live' <=> k \in live) /\ (k \in walking' => k \in walking)

\* ... and leaves those as the invariant wants them.
Settled(t, S) ==
  \A k \in S :
    /\ tail[k] = LastOf(C(t, k)) /\ (k \notin live => C(t, k) = <<>>)
    /\ (k \in Stacks => iter[k] = HeadField) /\ (k \notin Stacks => WalkOf(k, C(t, k)))

\* Then the invariant holds afterwards.
LEMMA OnlyChanges ==
  ASSUME NEW s, IInvOf(s), Idle, Idle', NEW t, HomesAre(t)', NEW S \in SUBSET Lists,
         Untouched(s, t, S), Settled(t, S)', Walkers'
  PROVE  IInvOf(t)'
<1>1. Tails(t)'
  <2>1. \A k \in Lists : tail[k] = LastOf(C(s, k))
    BY DEF IInvOf, Tails
  <2>2. \A k \in Lists : tail'[k] = LastOf(C(t, k))
    <3> SUFFICES ASSUME NEW k \in Lists PROVE tail'[k] = LastOf(C(t, k))
      OBVIOUS
    <3>1. CASE k \in S
      BY <3>1 DEF Settled
    <3>2. CASE k \notin S
      BY <2>1, <3>2 DEF Untouched
    <3> QED  BY <3>1, <3>2
  <2> QED  BY <2>2 DEF Tails
<1>2. \A k \in Lists \ Stacks : WalkOf(k, C(t, k))'
  <2> SUFFICES ASSUME NEW k \in Lists \ Stacks PROVE WalkOf(k, C(t, k))'
    OBVIOUS
  <2>1. CASE k \in S
    BY <2>1 DEF Settled
  <2>2. CASE k \notin S
    <3>1. WalkOf(k, C(s, k))
      BY DEF IInvOf, Walks
    <3>2. /\ C(t, k) = C(s, k) /\ iter'[k] = iter[k] /\ iter_idx'[k] = iter_idx[k]
          /\ (k \in walking' => k \in walking)
      BY <2>2 DEF Untouched
    <3> QED  BY <3>1, <3>2, Zenon DEF WalkOf
  <2> QED  BY <2>1, <2>2
<1>3. \A k \in Lists \ live' : C(t, k) = <<>>
  <2> SUFFICES ASSUME NEW k \in Lists \ live' PROVE C(t, k) = <<>>
    OBVIOUS
  <2>1. \A j \in Lists \ live : C(s, j) = <<>>
    BY DEF IInvOf, Walks
  <2>2. CASE k \in S
    BY <2>2 DEF Settled
  <2>3. CASE k \notin S
    BY <2>1, <2>3 DEF Untouched
  <2> QED  BY <2>2, <2>3
<1>4. \A k \in Stacks : iter'[k] = HeadField
  <2> SUFFICES ASSUME NEW k \in Stacks PROVE iter'[k] = HeadField
    OBVIOUS
  <2>1. k \in Lists
    BY ListAssumption
  <2>2. iter[k] = HeadField
    BY DEF IInvOf, Walks
  <2> QED  BY <2>1, <2>2 DEF Untouched, Settled
<1>5. Walks(t)'
  BY <1>2, <1>3, <1>4 DEF Walks
<1>6. Scans(t)'
  BY DEF Scans
<1> QED  BY <1>1, <1>5, <1>6 DEF IInvOf

\* A call changes neither the chains nor the data of other lists than S.
Kept(s, t, S) ==
  \A k \in Lists \ S :
    C(t, k) = C(s, k) /\ \A i \in 1..Len(C(s, k)) : data'[C(s, k)[i]] = data[C(s, k)[i]]

\* Then they hold what they held.
LEMMA OthersHold ==
  ASSUME NEW s, HomesAre(s), NEW t, HomesAre(t)', NEW S \in SUBSET Lists, Kept(s, t, S)
  PROVE  \A k \in Lists \ S : Held(t)'[k] = Held(s)[k]
<1> SUFFICES ASSUME NEW k \in Lists \ S PROVE Held(t)'[k] = Held(s)[k]
  OBVIOUS
<1>1. Value(C(s, k), data') = Value(C(s, k), data)
  BY SameValue DEF Kept
<1>2. Held(t)'[k] = Value(C(t, k), data')
  BY DEF Held
<1>3. Held(s)[k] = Value(C(s, k), data)
  BY DEF Held
<1> QED  BY <1>1, <1>2, <1>3 DEF Kept

\* Items of different lists are different.
LEMMA ItemsApart ==
  ASSUME NEW s, HomesAre(s), NEW l \in Lists, NEW k \in Lists,
         NEW i \in 1..Len(C(s, l)), NEW j \in 1..Len(C(s, k)), C(s, l)[i] = C(s, k)[j]
  PROVE  l = k /\ i = j
<1>1. ChainOf(l) = ChainOf(k) /\ i = j
  <2> PICK a, b : a = ChainOf(l) /\ b = ChainOf(k)
    OBVIOUS
  <2>1. a \in Key /\ b \in Key /\ C(s, l) = s[a] /\ C(s, k) = s[b]
    BY Keys DEF C
  <2>2. Apart(s, heap)
    BY DEF HomesAre, Linked
  <2>3. i \in 1..Len(s[a]) /\ j \in 1..Len(s[b]) /\ s[a][i] = s[b][j]
    BY <2>1
  <2>4. a = b /\ i = j
    BY <2>1, <2>2, <2>3 DEF Apart
  <2> QED  BY <2>4
<1> QED  BY <1>1, Keys

\* What the lists hold when one of them was changed ...
LEMMA OneHolds ==
  ASSUME NEW s, HomesAre(s), NEW t, HomesAre(t)', NEW l \in Lists, Kept(s, t, {l})
  PROVE  Held(t)' = [Held(s) EXCEPT ![l] = Value(C(t, l), data')]
<1>1. \A k \in Lists \ {l} : Held(t)'[k] = Held(s)[k]
  BY OthersHold
<1>2. Held(t)'[l] = Value(C(t, l), data')
  BY DEF Held
<1>3. Held(t)' = [k \in Lists |-> Held(t)'[k]]
  BY DEF Held
<1>4. Held(s) = [k \in Lists |-> Held(s)[k]]
  BY DEF Held
<1>5. PICK u, v : u = Held(t)' /\ v = Held(s)
  OBVIOUS
<1> QED  BY <1>1, <1>2, <1>3, <1>4, <1>5

\* ... and when two were.
LEMMA TwoHold ==
  ASSUME NEW s, HomesAre(s), NEW t, HomesAre(t)', NEW l \in Lists, NEW c \in Lists, l # c, Kept(s, t, {l, c})
  PROVE  Held(t)' = [Held(s) EXCEPT ![l] = Value(C(t, l), data'), ![c] = Value(C(t, c), data')]
<1>1. \A k \in Lists \ {l, c} : Held(t)'[k] = Held(s)[k]
  BY OthersHold
<1>2. Held(t)'[l] = Value(C(t, l), data') /\ Held(t)'[c] = Value(C(t, c), data')
  BY DEF Held
<1>3. Held(t)' = [k \in Lists |-> Held(t)'[k]]
  BY DEF Held
<1>4. Held(s) = [k \in Lists |-> Held(s)[k]]
  BY DEF Held
<1>5. PICK u, v : u = Held(t)' /\ v = Held(s)
  OBVIOUS
<1> QED  BY <1>1, <1>2, <1>3, <1>4, <1>5

-----------------------------------------------------------------------------
(* The calls.                                                               *)

\* The data of a call's new item are those of no other item.
LEMMA NewItemApart ==
  ASSUME NEW s, HomesAre(s), NEW i \in Item, NEW d, data' = [data EXCEPT ![i] = d],
         \A k \in Lists : i \notin Members(C(s, k))
  PROVE  /\ \A k \in Lists : \A j \in 1..Len(C(s, k)) : data'[C(s, k)[j]] = data[C(s, k)[j]]
         /\ data'[i] = d
<1>1. data \in [Item -> Data \cup {NULL}]
  BY DEF HomesAre
<1>2. \A k \in Lists : \A j \in 1..Len(C(s, k)) : C(s, k)[j] \in Item /\ C(s, k)[j] # i
  BY HomeIs DEF Members
<1> QED  BY <1>1, <1>2

\* list_append.
LEMMA AppendStep ==
  ASSUME NEW s, IInvOf(s), NEW l \in live \ Stacks, NEW d \in Data, Append_(l, d)
  PROVE  \E t : IInvOf(t)' /\ Held(t)' = [Held(s) EXCEPT ![l] = Append(Held(s)[l], d)]
<1> DEFINE c == C(s, l)
<1>1. HomesAre(s) /\ l \in Lists /\ l \notin Stacks /\ WalkOf(l, c) /\ tail[l] = LastOf(c) /\ Idle
  BY DEF IInvOf, Walks, Walkers, Tails, Append_
<1>2. PICK t, i : /\ HomesAre(t)' /\ C(t, l) = Append(c, i) /\ Else(s, t, l)
                  /\ i \in Item /\ data' = [data EXCEPT ![i] = d] /\ tail' = [tail EXCEPT ![l] = i]
                  /\ \A k \in Lists : i \notin Members(C(s, k))
  BY <1>1, AppendHomes
<1>3. c \in Seq(Item) /\ Len(c) \in Nat /\ (head[l] = NULL <=> c = <<>>)
  BY <1>1, HomeIs
<1>4. /\ data \in [Item -> Datum] /\ data' \in [Item -> Datum] /\ tail \in [Lists -> Pointer]
      /\ iter \in [Lists -> Pointer \cup {HeadField}] /\ iter_idx \in [Lists -> Int]
  BY <1>1, <1>2 DEF HomesAre, Datum, IInvOf, Walks, Walkers
<1>5. /\ iter' = [iter EXCEPT ![l] = IF c = <<>> THEN HeadField ELSE @]
      /\ iter_idx' = iter_idx /\ live' = live /\ scan' = scan /\ walking' = walking
  BY <1>3 DEF Append_
<1> HIDE DEF c
<1>6. /\ Len(C(t, l)) = Len(c) + 1 /\ LastOf(C(t, l)) = i /\ C(t, l) # <<>>
      /\ \A j \in 1..Len(c) : C(t, l)[j] = c[j]
  BY <1>2, <1>3 DEF LastOf
<1>7. WalkOf(l, C(t, l))'
  <2>1. /\ iter_idx[l] \in -1..Len(c)
        /\ iter_idx[l] >= 1 => iter[l] = c[iter_idx[l]] /\ iter_idx[l] \in 1..Len(c) /\ c # <<>>
        /\ iter_idx[l] < 1 => iter[l] = HeadField \/ (iter[l] = NULL /\ c = <<>>)
        /\ l \in walking => iter_idx[l] >= 0
    BY <1>1, <1>3 DEF WalkOf
  <2>2. iter'[l] = (IF c = <<>> THEN HeadField ELSE iter[l]) /\ iter_idx'[l] = iter_idx[l]
    BY <1>1, <1>4, <1>5
  <2>3. iter_idx'[l] >= 1 => iter'[l] = C(t, l)[iter_idx'[l]]
    BY <1>6, <2>1, <2>2
  <2>4. iter_idx'[l] < 1 => iter'[l] = HeadField
    BY <2>1, <2>2
  <2>5. iter_idx'[l] \in -1..Len(C(t, l))
    BY <1>3, <1>6, <2>1, <2>2
  <2>6. l \in walking' => iter_idx'[l] >= 0
    BY <1>5, <2>1, <2>2
  <2> QED  BY <1>6, <2>3, <2>4, <2>5, <2>6 DEF WalkOf
<1>8. IInvOf(t)'
  <2>1. Walkers' /\ Idle' /\ l \in live'
    BY <1>1, <1>4, <1>5 DEF IInvOf, Walks, Walkers, Idle
  <2>2. Untouched(s, t, {l})
    BY <1>2, <1>4, <1>5 DEF Else, Untouched
  <2>3. tail'[l] = LastOf(C(t, l))
    BY <1>1, <1>2, <1>4, <1>6
  <2>4. Settled(t, {l})'
    BY <1>1, <1>7, <2>1, <2>3 DEF Settled
  <2>5. {l} \in SUBSET Lists
    BY <1>1
  <2> QED  BY <1>1, <1>2, <2>1, <2>2, <2>4, <2>5, OnlyChanges
<1>9. Held(t)' = [Held(s) EXCEPT ![l] = Append(Held(s)[l], d)]
  <2>1. /\ \A k \in Lists : \A j \in 1..Len(C(s, k)) : data'[C(s, k)[j]] = data[C(s, k)[j]]
        /\ data'[i] = d
    BY <1>1, <1>2, NewItemApart
  <2>2. Value(C(t, l), data') = Append(Value(c, data'), d)
    <3>1. Value(Append(c, i), data') = Append(Value(c, data'), data'[i])
      BY <1>2, <1>3, <1>4, ValueAppend, Zenon
    <3> QED  BY <1>2, <2>1, <3>1
  <2>3. Value(c, data') = Held(s)[l]
    <3>1. Value(c, data') = Value(c, data)
      BY <1>1, <2>1, SameValue DEF c
    <3> QED  BY <1>1, <3>1 DEF Held, c
  <2>4. Held(t)' = [Held(s) EXCEPT ![l] = Value(C(t, l), data')]
    <3>1. Kept(s, t, {l})
      BY <1>2, <2>1 DEF Kept, Else
    <3>2. HomesAre(s) /\ HomesAre(t)' /\ l \in Lists
      BY <1>1, <1>2
    <3> QED  BY <3>1, <3>2, OneHolds, Zenon
  <2> QED  BY <2>2, <2>3, <2>4
<1> QED  BY <1>8, <1>9

\* list_push.
LEMMA PushStep ==
  ASSUME NEW s, IInvOf(s), NEW l \in Stacks, NEW d \in Data, Push(l, d)
  PROVE  \E t : IInvOf(t)' /\ Held(t)' = [Held(s) EXCEPT ![l] = <<d>> \o Held(s)[l]]
<1> DEFINE c == C(s, l)
<1>1. HomesAre(s) /\ l \in Lists /\ l \in live /\ iter[l] = HeadField /\ tail[l] = LastOf(c) /\ Idle
  BY ListAssumption DEF IInvOf, Walks, Walkers, Tails, Push
<1>2. PICK t, i : /\ HomesAre(t)' /\ C(t, l) = InFront(i, c) /\ Else(s, t, l)
                  /\ i \in Item /\ data' = [data EXCEPT ![i] = d]
                  /\ tail' = [tail EXCEPT ![l] = IF c = <<>> THEN i ELSE @]
                  /\ \A k \in Lists : i \notin Members(C(s, k))
  BY <1>1, PushHomes
<1>3. c \in Seq(Item) /\ Len(c) \in Nat
  BY <1>1, HomeIs
<1>4. /\ data \in [Item -> Datum] /\ data' \in [Item -> Datum] /\ tail \in [Lists -> Pointer]
      /\ iter \in [Lists -> Pointer \cup {HeadField}] /\ iter_idx \in [Lists -> Int]
  BY <1>1, <1>2 DEF HomesAre, Datum, IInvOf, Walks, Walkers
<1>5. /\ iter' = iter /\ iter_idx' \in [Lists -> Int] /\ \A k \in Lists \ {l} : iter_idx'[k] = iter_idx[k]
      /\ live' = live /\ scan' = scan /\ walking' = walking
  <2>1. /\ iter' = [iter EXCEPT ![l] = IF size[l] = 0 THEN HeadField ELSE @]
        /\ iter_idx' = [iter_idx EXCEPT ![l] = IF size[l] = 0 THEN 1 ELSE IF @ >= 0 THEN @ + 1 ELSE @]
        /\ live' = live /\ scan' = scan /\ walking' = walking
    BY DEF Push
  <2>2. (IF size[l] = 0 THEN 1 ELSE IF iter_idx[l] >= 0 THEN iter_idx[l] + 1 ELSE iter_idx[l]) \in Int
    BY <1>1, <1>4
  <2> QED  BY <1>1, <1>4, <2>1, <2>2
<1> HIDE DEF c
<1>6. LastOf(C(t, l)) = IF c = <<>> THEN i ELSE LastOf(c)
  <2>1. /\ C(t, l) # <<>> /\ Len(C(t, l)) = Len(c) + 1
        /\ C(t, l)[Len(c) + 1] = IF c = <<>> THEN i ELSE c[Len(c)]
    BY <1>2, <1>3 DEF InFront
  <2> QED  BY <2>1 DEF LastOf
<1>7. IInvOf(t)'
  <2>1. Walkers' /\ Idle' /\ l \in live'
    BY <1>1, <1>4, <1>5 DEF IInvOf, Walks, Walkers, Idle
  <2>2. Untouched(s, t, {l})
    BY <1>2, <1>4, <1>5 DEF Else, Untouched
  <2>3. tail'[l] = LastOf(C(t, l))
    BY <1>1, <1>2, <1>4, <1>6
  <2>4. Settled(t, {l})'
    BY <1>1, <1>5, <2>1, <2>3 DEF Settled
  <2>5. {l} \in SUBSET Lists
    BY <1>1
  <2> QED  BY <1>1, <1>2, <2>1, <2>2, <2>4, <2>5, OnlyChanges
<1>8. Held(t)' = [Held(s) EXCEPT ![l] = <<d>> \o Held(s)[l]]
  <2>1. /\ \A k \in Lists : \A j \in 1..Len(C(s, k)) : data'[C(s, k)[j]] = data[C(s, k)[j]]
        /\ data'[i] = d
    BY <1>1, <1>2, NewItemApart
  <2>2. Value(C(t, l), data') = <<d>> \o Value(c, data')
    <3>1. Value(<<i>> \o c, data') = <<data'[i]>> \o Value(c, data')
      BY <1>2, <1>3, <1>4, ValuePrepend, Zenon
    <3> QED  BY <1>2, <2>1, <3>1 DEF InFront
  <2>3. Value(c, data') = Held(s)[l]
    <3>1. Value(c, data') = Value(c, data)
      BY <1>1, <2>1, SameValue DEF c
    <3> QED  BY <1>1, <3>1 DEF Held, c
  <2>4. Held(t)' = [Held(s) EXCEPT ![l] = Value(C(t, l), data')]
    <3>1. Kept(s, t, {l})
      BY <1>2, <2>1 DEF Kept, Else
    <3>2. HomesAre(s) /\ HomesAre(t)' /\ l \in Lists
      BY <1>1, <1>2
    <3> QED  BY <3>1, <3>2, OneHolds, Zenon
  <2> QED  BY <2>2, <2>3, <2>4
<1> QED  BY <1>7, <1>8

\* list_shift.
LEMMA ShiftStep ==
  ASSUME NEW s, IInvOf(s), NEW l \in Stacks, Shift(l)
  PROVE  \E t : /\ IInvOf(t)' /\ Held(t)' = [Held(s) EXCEPT ![l] = Tail(Held(s)[l])]
                /\ Held(s)[l] # <<>> /\ ret' = Head(Held(s)[l])
<1> DEFINE c == C(s, l)
<1>1. HomesAre(s) /\ l \in Lists /\ l \in live /\ iter[l] = HeadField /\ tail[l] = LastOf(c) /\ Idle
  BY ListAssumption DEF IInvOf, Walks, Walkers, Tails, Shift
<1>2. PICK t : /\ HomesAre(t)' /\ c # <<>> /\ C(t, l) = Tail(c) /\ Else(s, t, l)
               /\ data' = [data EXCEPT ![c[1]] = NULL] /\ ret' = data[c[1]]
               /\ tail' = [tail EXCEPT ![l] = IF @ = c[1] THEN NULL ELSE @]
  BY <1>1, ShiftHomes
<1>3. c \in Seq(Item) /\ Len(c) \in Nat /\ \A j \in 1..Len(c) : c[j] \in Item
  BY <1>1, HomeIs
<1>4. /\ data \in [Item -> Datum] /\ data' \in [Item -> Datum] /\ tail \in [Lists -> Pointer]
      /\ iter \in [Lists -> Pointer \cup {HeadField}] /\ iter_idx \in [Lists -> Int]
  BY <1>1, <1>2 DEF HomesAre, Datum, IInvOf, Walks, Walkers
<1>5. /\ iter' = iter /\ iter_idx' \in [Lists -> Int] /\ \A k \in Lists \ {l} : iter_idx'[k] = iter_idx[k]
      /\ live' = live /\ scan' = scan /\ walking' = walking
  <2>1. /\ iter' = iter /\ iter_idx' = [iter_idx EXCEPT ![l] = @ - 1]
        /\ live' = live /\ scan' = scan /\ walking' = walking
    BY DEF Shift
  <2> QED  BY <1>1, <1>4, <2>1
<1>6. \A k \in Lists : \A j \in 1..Len(C(s, k)) : C(s, k)[j] \in Item /\ (C(s, k)[j] = c[1] => k = l /\ j = 1)
  <2> SUFFICES ASSUME NEW k \in Lists, NEW j \in 1..Len(C(s, k))
               PROVE  C(s, k)[j] \in Item /\ (C(s, k)[j] = c[1] => k = l /\ j = 1)
    OBVIOUS
  <2>1. 1 \in 1..Len(c)
    BY <1>2, <1>3
  <2> QED  BY <1>1, <2>1, HomeIs, ItemsApart
<1>7. Tail(c) \in Seq(Item) /\ Len(Tail(c)) = Len(c) - 1 /\ \A j \in 1..(Len(c) - 1) : Tail(c)[j] = c[j + 1]
  BY <1>2, <1>3, RestIs
<1> DEFINE Once == \A j \in 1..Len(c) : c[j] = c[1] => j = 1
<1>12. Once
  BY <1>1, <1>6
<1> HIDE DEF c
<1>8. LastOf(Tail(c)) = IF LastOf(c) = c[1] THEN NULL ELSE LastOf(c)
  <2>1. c[Len(c)] = c[1] <=> Len(c) = 1
    <3>1. Len(c) \in 1..Len(c) /\ (Len(c) = 1 => c[Len(c)] = c[1])
      BY <1>2, <1>3
    <3> QED  BY <1>12, <3>1
  <2>4. PICK r : r = Tail(c)
    OBVIOUS
  <2>2. CASE Len(c) = 1
    <3>1. r = <<>>
      BY <1>7, <2>2, <2>4
    <3> QED  BY <1>2, <2>1, <2>2, <2>4, <3>1 DEF LastOf
  <2>3. CASE Len(c) # 1
    <3>1. r \in Seq(Item) /\ Len(r) = Len(c) - 1 /\ \A j \in 1..(Len(c) - 1) : r[j] = c[j + 1]
      BY <1>7, <2>4
    <3>2. Len(r) \in 1..(Len(c) - 1) /\ r # <<>> /\ Len(r) + 1 = Len(c)
      BY <1>2, <1>3, <2>3, <3>1
    <3>3. r[Len(r)] = c[Len(c)]
      BY <3>1, <3>2
    <3> QED  BY <1>2, <2>1, <2>3, <2>4, <3>2, <3>3 DEF LastOf
  <2> QED  BY <2>2, <2>3
<1>9. IInvOf(t)'
  <2>1. Walkers' /\ Idle' /\ l \in live'
    BY <1>1, <1>4, <1>5 DEF IInvOf, Walks, Walkers, Idle
  <2>2. Untouched(s, t, {l})
    BY <1>2, <1>4, <1>5 DEF Else, Untouched
  <2>3. tail'[l] = LastOf(C(t, l))
    BY <1>1, <1>2, <1>4, <1>8
  <2>4. Settled(t, {l})'
    BY <1>1, <1>5, <2>1, <2>3 DEF Settled
  <2>5. {l} \in SUBSET Lists
    BY <1>1
  <2> QED  BY <1>1, <1>2, <2>1, <2>2, <2>4, <2>5, OnlyChanges
<1>10. Held(t)' = [Held(s) EXCEPT ![l] = Tail(Held(s)[l])]
  <2>1. \A k \in Lists \ {l} : \A j \in 1..Len(C(s, k)) : data'[C(s, k)[j]] = data[C(s, k)[j]]
    BY <1>2, <1>4, <1>6
  <2>2. Value(Tail(c), data') = Value(Tail(c), data)
    <3>1. \A j \in 1..Len(Tail(c)) : data'[Tail(c)[j]] = data[Tail(c)[j]]
      <4> SUFFICES ASSUME NEW j \in 1..Len(Tail(c)) PROVE data'[Tail(c)[j]] = data[Tail(c)[j]]
        OBVIOUS
      <4>1. j + 1 \in 1..Len(c) /\ j + 1 # 1 /\ Tail(c)[j] = c[j + 1]
        BY <1>3, <1>7
      <4>2. c[j + 1] # c[1] /\ c[j + 1] \in Item
        BY <1>1, <1>6, <4>1 DEF c
      <4> QED  BY <1>2, <1>4, <4>1, <4>2
    <3> QED  BY <3>1, SameValue
  <2>3. Value(Tail(c), data) = Tail(Value(c, data))
    <3>1. Tail(c) = SubSeq(c, 2, Len(c)) /\ 2 \in 1..(Len(c) + 1) /\ Len(c) \in 0..Len(c)
      BY <1>2, <1>3
    <3>2. Value(SubSeq(c, 2, Len(c)), data) = SubSeq(Value(c, data), 2, Len(c))
      BY <1>3, <1>4, <3>1, ValuePart
    <3>3. Value(c, data) \in Seq(Datum) /\ Len(Value(c, data)) = Len(c)
      BY <1>3, <1>4, ValueIs
    <3>4. Tail(Value(c, data)) = SubSeq(Value(c, data), 2, Len(c))
      BY <3>3
    <3> QED  BY <3>1, <3>2, <3>4
  <2>4. Held(t)' = [Held(s) EXCEPT ![l] = Value(C(t, l), data')]
    <3>1. Kept(s, t, {l})
      BY <1>2, <2>1 DEF Kept, Else
    <3>2. HomesAre(s) /\ HomesAre(t)' /\ l \in Lists
      BY <1>1, <1>2
    <3> QED  BY <3>1, <3>2, OneHolds, Zenon
  <2>5. Held(s)[l] = Value(c, data)
    BY <1>1 DEF Held, c
  <2> QED  BY <1>2, <2>2, <2>3, <2>4, <2>5
<1>11. Held(s)[l] # <<>> /\ ret' = Head(Held(s)[l])
  <2>1. Held(s)[l] = Value(c, data)
    BY <1>1 DEF Held, c
  <2>2. /\ Value(c, data) \in Seq(Datum) /\ Len(Value(c, data)) = Len(c)
        /\ \A j \in 1..Len(c) : Value(c, data)[j] = data[c[j]]
    BY <1>3, <1>4, ValueIs
  <2>3. 1 \in 1..Len(c)
    BY <1>2, <1>3
  <2> QED  BY <1>2, <2>1, <2>2, <2>3
<1> QED  BY <1>9, <1>10, <1>11

\* No items, no data.
LEMMA ValueNone ==
  ASSUME NEW f
  PROVE  Value(<<>>, f) = <<>>
BY DEF Value

\* list_clear.
LEMMA ClearStep ==
  ASSUME NEW s, IInvOf(s), NEW l \in live \ Stacks, Clear(l)
  PROVE  \E t : IInvOf(t)' /\ Held(t)' = [Held(s) EXCEPT ![l] = <<>>]
<1> DEFINE c == C(s, l)
<1>1. HomesAre(s) /\ l \in Lists /\ l \notin Stacks /\ Idle
  BY DEF IInvOf, Walks, Walkers, Clear
<1>2. PICK t : /\ HomesAre(t)' /\ C(t, l) = <<>> /\ Else(s, t, l)
               /\ data' = [i \in Item |-> IF i \in Members(c) THEN NULL ELSE data[i]]
               /\ tail' = [tail EXCEPT ![l] = NULL]
  BY <1>1, ClearHomes
<1>3. /\ tail \in [Lists -> Pointer]
      /\ iter \in [Lists -> Pointer \cup {HeadField}] /\ iter_idx \in [Lists -> Int]
  BY <1>1 DEF HomesAre, IInvOf, Walks, Walkers
<1>4. /\ iter' = [iter EXCEPT ![l] = HeadField] /\ iter_idx' = [iter_idx EXCEPT ![l] = -1]
      /\ live' = live /\ scan' = scan /\ walking' = walking \ {l}
  BY DEF Clear
<1>5. IInvOf(t)'
  <2>1. Walkers' /\ Idle' /\ l \in live'
    BY <1>1, <1>3, <1>4 DEF IInvOf, Walks, Walkers, Idle
  <2>2. Untouched(s, t, {l})
    BY <1>2, <1>3, <1>4 DEF Else, Untouched
  <2>3. tail'[l] = NULL /\ iter'[l] = HeadField /\ iter_idx'[l] = -1 /\ l \notin walking'
    BY <1>1, <1>2, <1>3, <1>4
  <2>4. WalkOf(l, <<>>)' /\ LastOf(<<>>) = NULL
    BY <2>3 DEF WalkOf, LastOf
  <2>5. Settled(t, {l})'
    BY <1>1, <1>2, <2>1, <2>3, <2>4 DEF Settled
  <2>6. {l} \in SUBSET Lists
    BY <1>1
  <2> QED  BY <1>1, <1>2, <2>1, <2>2, <2>5, <2>6, OnlyChanges
<1>6. Held(t)' = [Held(s) EXCEPT ![l] = <<>>]
  <2>1. \A k \in Lists \ {l} : \A j \in 1..Len(C(s, k)) : data'[C(s, k)[j]] = data[C(s, k)[j]]
    <3> SUFFICES ASSUME NEW k \in Lists \ {l}, NEW j \in 1..Len(C(s, k))
                 PROVE  data'[C(s, k)[j]] = data[C(s, k)[j]]
      OBVIOUS
    <3>1. C(s, k)[j] \in Item
      BY <1>1, HomeIs
    <3>2. C(s, k)[j] \notin Members(c)
      BY <1>1, ItemsApart DEF Members
    <3> QED  BY <1>2, <3>1, <3>2
  <2>2. Kept(s, t, {l})
    BY <1>2, <2>1 DEF Kept, Else
  <2>3. HomesAre(s) /\ HomesAre(t)' /\ l \in Lists
    BY <1>1, <1>2
  <2>4. Held(t)' = [Held(s) EXCEPT ![l] = Value(C(t, l), data')]
    BY <2>2, <2>3, OneHolds, Zenon
  <2> QED  BY <1>2, <2>4, ValueNone
<1> QED  BY <1>5, <1>6

\* list_free.
LEMMA FreeStep ==
  ASSUME NEW s, IInvOf(s), NEW l \in live \ (Embedded \cup Stacks), Free(l)
  PROVE  \E t : IInvOf(t)' /\ Held(t)' = [Held(s) EXCEPT ![l] = <<>>]
<1>1. HomesAre(s) /\ l \in Lists /\ l \notin Stacks /\ Idle
  BY DEF IInvOf, Walks, Walkers, Free
<1>2. PICK t : /\ HomesAre(t)' /\ C(t, l) = <<>> /\ Else(s, t, l)
               /\ \A k \in Lists \ {l} : \A i \in 1..Len(C(s, k)) : data'[C(s, k)[i]] = data[C(s, k)[i]]
               /\ tail' = [tail EXCEPT ![l] = NULL]
  BY <1>1, FreeHomes
<1>3. /\ tail \in [Lists -> Pointer]
      /\ iter \in [Lists -> Pointer \cup {HeadField}] /\ iter_idx \in [Lists -> Int]
  BY <1>1 DEF HomesAre, IInvOf, Walks, Walkers
<1>4. /\ iter' = [iter EXCEPT ![l] = HeadField] /\ iter_idx' = [iter_idx EXCEPT ![l] = -1]
      /\ live' = live \ {l} /\ scan' = scan /\ walking' = walking \ {l}
  BY DEF Free
<1>5. IInvOf(t)'
  <2>1. Walkers' /\ Idle'
    BY <1>1, <1>3, <1>4 DEF IInvOf, Walks, Walkers, Idle
  <2>2. Untouched(s, t, {l})
    BY <1>2, <1>3, <1>4 DEF Else, Untouched
  <2>3. tail'[l] = NULL /\ iter'[l] = HeadField /\ iter_idx'[l] = -1 /\ l \notin walking'
    BY <1>1, <1>2, <1>3, <1>4
  <2>4. WalkOf(l, <<>>)' /\ LastOf(<<>>) = NULL
    BY <2>3 DEF WalkOf, LastOf
  <2>5. Settled(t, {l})'
    BY <1>1, <1>2, <2>3, <2>4 DEF Settled
  <2>6. {l} \in SUBSET Lists
    BY <1>1
  <2> QED  BY <1>1, <1>2, <2>1, <2>2, <2>5, <2>6, OnlyChanges
<1>6. Held(t)' = [Held(s) EXCEPT ![l] = <<>>]
  <2>1. Kept(s, t, {l})
    BY <1>2 DEF Kept, Else
  <2>2. HomesAre(s) /\ HomesAre(t)' /\ l \in Lists
    BY <1>1, <1>2
  <2>3. Held(t)' = [Held(s) EXCEPT ![l] = Value(C(t, l), data')]
    BY <2>1, <2>2, OneHolds, Zenon
  <2> QED  BY <1>2, <2>3, ValueNone
<1> QED  BY <1>5, <1>6

-----------------------------------------------------------------------------
(* Calls with two lists.                                                    *)

\* Where no link changes, the items stay where they are.
LEMMA SameHomes ==
  ASSUME NEW s, HomesAre(s), UNCHANGED <<chains, pools, items>>
  PROVE  HomesAre(s)'
BY DEF HomesAre, chains, pools, items

\* The two parts of a cut sequence.
Front(q, m) == SubSeq(q, 1, m)
Back(q, m) == SubSeq(q, m + 1, Len(q))

\* Their ends.
LEMMA CutIs ==
  ASSUME NEW q \in Seq(Item), NEW m \in 1..Len(q)
  PROVE  /\ Front(q, m) \in Seq(Item) /\ Back(q, m) \in Seq(Item)
         /\ Len(Front(q, m)) = m /\ Len(Back(q, m)) = Len(q) - m
         /\ First(Front(q, m)) = First(q) /\ First(Back(q, m)) = Following(q, m)
         /\ LastOf(Front(q, m)) = q[m]
         /\ LastOf(Back(q, m)) = IF m = Len(q) THEN NULL ELSE LastOf(q)
         /\ m = Len(q) => Front(q, m) = q /\ Back(q, m) = <<>>
<1>1. PICK f, b : f = Front(q, m) /\ b = Back(q, m)
  OBVIOUS
<1>2. /\ f \in Seq(Item) /\ b \in Seq(Item) /\ Len(f) = m /\ Len(b) = Len(q) - m
      /\ \A i \in 1..m : f[i] = q[i]
      /\ \A i \in 1..(Len(q) - m) : b[i] = q[m + i]
  BY <1>1, PartsAre DEF Front, Back
<1>3. Len(q) \in Nat /\ q # <<>>
  OBVIOUS
<1>4. f # <<>> /\ f[1] = q[1] /\ f[Len(f)] = q[m]
  <2>1. 1 \in 1..m /\ m \in 1..m
    OBVIOUS
  <2> QED  BY <1>2, <2>1
<1>5. CASE m = Len(q)
  <2>1. b = <<>>
    BY <1>2, <1>5
  <2>2. f = q
    BY <1>2, <1>5
  <2> QED  BY <1>1, <1>2, <1>3, <1>4, <1>5, <2>1, <2>2 DEF First, LastOf, Following
<1>6. CASE m # Len(q)
  <2>1. 1 \in 1..(Len(q) - m) /\ Len(q) - m \in 1..(Len(q) - m) /\ m < Len(q) /\ m + (Len(q) - m) = Len(q)
    BY <1>3, <1>6
  <2>2. b # <<>> /\ b[1] = q[m + 1] /\ b[Len(b)] = q[Len(q)]
    <3>1. b[1] = q[m + 1] /\ b[Len(q) - m] = q[m + (Len(q) - m)]
      BY <1>2, <2>1
    <3>2. b # <<>>
      BY <1>2, <2>1
    <3> QED  BY <1>2, <2>1, <3>1, <3>2
  <2> QED  BY <1>1, <1>2, <1>3, <1>4, <1>6, <2>1, <2>2 DEF First, LastOf, Following
<1> QED  BY <1>5, <1>6

\* How many items list_chop moves.
Chopped(q, k) == IF k < Len(q) THEN k ELSE Len(q)

\* list_chop: the chain is cut.
LEMMA ChopHomes ==
  ASSUME NEW s, HomesAre(s), NEW l \in Lists, NEW c \in Lists, l # c, C(s, c) = <<>>,
         NEW k \in Nat, Chop(l, c, k), tail[l] = LastOf(C(s, l)), NEW m, m = Chopped(C(s, l), k)
  PROVE  \E t : /\ HomesAre(t)' /\ m \in 1..Len(C(s, l)) /\ C(s, l) # <<>>
                /\ C(t, c) = Front(C(s, l), m) /\ C(t, l) = Back(C(s, l), m)
                /\ \A j \in Lists \ {l, c} : C(t, j) = C(s, j) /\ tail'[j] = tail[j]
                /\ tail'[c] = LastOf(C(t, c)) /\ tail'[l] = LastOf(C(t, l))
<1> DEFINE a == ChainOf(l)
           b == ChainOf(c)
           q == C(s, l)
<1>1. /\ head \in [Lists -> Pointer] /\ tail \in [Lists -> Pointer] /\ size \in [Lists -> Nat]
      /\ pool \in [Lists -> Pointer] /\ pool_size \in [Lists -> Nat] /\ next \in [Item -> Pointer]
      /\ data \in [Item -> Data \cup {NULL}] /\ Linked(s, heap, next) /\ s \in [Key -> Seq(Item)]
      /\ \A j \in Lists : /\ head[j] = First(C(s, j)) /\ size[j] = Len(C(s, j))
                          /\ pool[j] = First(Q(s, j)) /\ pool_size[j] = Len(Q(s, j))
  BY DEF HomesAre, Linked
<1>2. q \in Seq(Item) /\ Len(q) \in Nat /\ q # <<>> /\ k >= 1 /\ \A j \in 1..Len(q) : q[j] \in Item
  BY HomeIs DEF Chop
<1>3. a \in Key /\ b \in Key /\ a # b /\ s[a] = q /\ s[b] = <<>>
  BY Keys DEF C
<1>4. m \in 1..Len(q) /\ (m = Len(q) <=> k >= Len(q)) /\ (k < Len(q) => m = k)
  <2>1. Len(q) >= 1
    BY <1>2
  <2> QED  BY <1>2, <2>1 DEF Chopped
<1>5. m # Len(q) => StepsFrom(l, HeadField, k) = q[m]
  <2> SUFFICES ASSUME m # Len(q) PROVE StepsFrom(l, HeadField, k) = q[m]
    OBVIOUS
  <2>1. k < Len(q) /\ m = k
    BY <1>2, <1>4
  <2>2. StepsFrom(l, Place(q, 0), k) = Place(q, 0 + k)
    <3>1. 0 + k <= Len(q) /\ 0 \in Nat
      BY <2>1
    <3> QED  BY <3>1, StepsIs
  <2> QED  BY <1>2, <2>1, <2>2 DEF Place
<1>6. /\ head' = [head EXCEPT ![c] = head[l], ![l] = IF m = Len(q) THEN NULL ELSE next[q[m]]]
      /\ tail' = [tail EXCEPT ![c] = IF m = Len(q) THEN tail[l] ELSE q[m], ![l] = IF m = Len(q) THEN NULL ELSE tail[l]]
      /\ size' = [size EXCEPT ![c] = m, ![l] = Len(q) - m]
      /\ next' = IF m = Len(q) THEN next ELSE [next EXCEPT ![q[m]] = NULL]
      /\ pool' = pool /\ pool_size' = pool_size /\ data' = data /\ heap' = heap
  <2>1. size[l] = Len(q)
    BY <1>1
  <2>2. CASE m = Len(q)
    <3>1. k >= size[l]
      BY <1>4, <2>1, <2>2
    <3> HIDE DEF q
    <3>2. size' = [size EXCEPT ![c] = Len(q), ![l] = 0]
      BY <2>1, <3>1 DEF Chop
    <3>3. Len(q) - m = 0
      BY <1>2, <2>2
    <3> QED  BY <2>2, <3>1, <3>2, <3>3 DEF Chop, pools
  <2>3. CASE m # Len(q)
    <3>1. ~(k >= size[l]) /\ m = k /\ StepsFrom(l, HeadField, k) = q[m]
      BY <1>2, <1>4, <1>5, <2>1, <2>3
    <3> HIDE DEF q
    <3>2. size' = [size EXCEPT ![c] = k, ![l] = size[l] - k]
      BY <1>1, <3>1 DEF Chop
    <3> QED  BY <2>1, <2>3, <3>1, <3>2 DEF Chop, pools
  <2> QED  BY <2>2, <2>3
<1> HIDE DEF q
<1> DEFINE w == [s EXCEPT ![a] = Back(q, m), ![b] = Front(q, m)]
<1>7. PICK t : t = w
  OBVIOUS
<1>8. Linked(t, heap', next')
  <2>1. CASE m = Len(q)
    <3>1. Linked([s EXCEPT ![b] = s[b] \o s[a], ![a] = <<>>], heap, Joined(next, s[b], s[a]))
      BY <1>1, <1>3, Join
    <3>2. s[b] \o s[a] = q /\ Joined(next, s[b], s[a]) = next
      BY <1>2, <1>3 DEF Joined
    <3>3. Front(q, m) = q /\ Back(q, m) = <<>>
      BY <1>2, <1>4, <2>1, CutIs
    <3>4. [s EXCEPT ![b] = q, ![a] = <<>>] = w
      BY <1>1, <1>3, <3>3
    <3>5. Linked(w, heap, next)
      BY <3>1, <3>2, <3>4
    <3> QED  BY <1>6, <1>7, <2>1, <3>5
  <2>2. CASE m # Len(q)
    <3>1. m \in 1..Len(s[a])
      BY <1>3, <1>4
    <3>2. Linked([s EXCEPT ![a] = SubSeq(s[a], m + 1, Len(s[a])), ![b] = SubSeq(s[a], 1, m)],
                 heap, [next EXCEPT ![s[a][m]] = NULL])
      BY <1>1, <1>3, <3>1, Split
    <3>3. Linked(w, heap, [next EXCEPT ![q[m]] = NULL])
      BY <1>3, <3>2 DEF Front, Back
    <3> QED  BY <1>6, <1>7, <2>2, <3>3
  <2> QED  BY <2>1, <2>2
<1>9. /\ C(t, l) = Back(q, m) /\ C(t, c) = Front(q, m)
      /\ \A j \in Lists \ {l, c} : C(t, j) = C(s, j)
      /\ \A j \in Lists : Q(t, j) = Q(s, j)
  BY <1>1, <1>3, <1>7, Keys DEF C, Q
<1>10. next[q[m]] = Following(q, m)
  BY <1>1, <1>3, <1>4 DEF Linked, Strung
<1>11. /\ Len(Front(q, m)) = m /\ Len(Back(q, m)) = Len(q) - m
       /\ First(Front(q, m)) = First(q) /\ First(Back(q, m)) = Following(q, m)
       /\ LastOf(Front(q, m)) = q[m]
       /\ LastOf(Back(q, m)) = IF m = Len(q) THEN NULL ELSE LastOf(q)
  BY <1>2, <1>4, CutIs
<1>12. m = Len(q) => Following(q, m) = NULL /\ LastOf(q) = q[m]
  BY <1>2, <1>4 DEF Following, LastOf
<1>13. q[m] \in Item /\ next[q[m]] \in Pointer /\ m \in Nat /\ Len(q) - m \in Nat /\ NULL \in Pointer
  <2>1. q[m] \in Item
    BY <1>2, <1>4
  <2> QED  BY <1>1, <1>2, <1>4, <2>1 DEF Pointer
<1>14. /\ head'[c] = First(q) /\ head'[l] = Following(q, m) /\ \A j \in Lists \ {l, c} : head'[j] = head[j]
       /\ tail'[c] = q[m] /\ tail'[l] = (IF m = Len(q) THEN NULL ELSE LastOf(q))
       /\ \A j \in Lists \ {l, c} : tail'[j] = tail[j]
       /\ size'[c] = m /\ size'[l] = Len(q) - m /\ \A j \in Lists \ {l, c} : size'[j] = size[j]
  <2>1. head[l] = First(q) /\ tail[l] = LastOf(q)
    BY <1>1 DEF q
  <2> QED  BY <1>1, <1>6, <1>10, <1>12, <2>1
<1>15. HomesAre(t)'
  <2>1. /\ head' \in [Lists -> Pointer] /\ tail' \in [Lists -> Pointer] /\ size' \in [Lists -> Nat]
        /\ pool' \in [Lists -> Pointer] /\ pool_size' \in [Lists -> Nat] /\ data' \in [Item -> Data \cup {NULL}]
    BY <1>1, <1>6, <1>13 DEF Pointer
  <2>2. \A j \in Lists : head'[j] = First(C(t, j)) /\ size'[j] = Len(C(t, j))
    BY <1>1, <1>9, <1>11, <1>14
  <2>3. \A j \in Lists : pool'[j] = First(Q(t, j)) /\ pool_size'[j] = Len(Q(t, j))
    BY <1>1, <1>6, <1>9
  <2> QED  BY <1>8, <2>1, <2>2, <2>3 DEF HomesAre
<1> QED  BY <1>2, <1>4, <1>9, <1>11, <1>14, <1>15 DEF q

\* list_transfer: the chains become one.
LEMMA TransferHomes ==
  ASSUME NEW s, HomesAre(s), NEW l \in Lists, NEW c \in Lists, l # c, Transfer(l, c), iter[c] = HeadField,
         tail[l] = LastOf(C(s, l)), tail[c] = LastOf(C(s, c))
  PROVE  \E t : /\ HomesAre(t)' /\ C(t, l) = C(s, l) \o C(s, c) /\ C(t, c) = <<>>
                /\ \A j \in Lists \ {l, c} : C(t, j) = C(s, j) /\ tail'[j] = tail[j]
                /\ tail'[c] = LastOf(C(t, c)) /\ tail'[l] = LastOf(C(t, l))
<1> DEFINE a == ChainOf(l)
           b == ChainOf(c)
           p == C(s, l)
           q == C(s, c)
<1>1. /\ head \in [Lists -> Pointer] /\ tail \in [Lists -> Pointer] /\ size \in [Lists -> Nat]
      /\ pool \in [Lists -> Pointer] /\ pool_size \in [Lists -> Nat] /\ next \in [Item -> Pointer]
      /\ data \in [Item -> Data \cup {NULL}] /\ Linked(s, heap, next) /\ s \in [Key -> Seq(Item)]
      /\ \A j \in Lists : /\ head[j] = First(C(s, j)) /\ size[j] = Len(C(s, j))
                          /\ pool[j] = First(Q(s, j)) /\ pool_size[j] = Len(Q(s, j))
  BY DEF HomesAre, Linked
<1>2. /\ p \in Seq(Item) /\ Len(p) \in Nat /\ (head[l] = NULL <=> p = <<>>) /\ head[l] = First(p)
      /\ q \in Seq(Item) /\ Len(q) \in Nat /\ (head[c] = NULL <=> q = <<>>) /\ head[c] = First(q)
      /\ \A j \in 1..Len(p) : p[j] \in Item
      /\ \A j \in 1..Len(q) : q[j] \in Item
  BY HomeIs
<1>3. a \in Key /\ b \in Key /\ a # b /\ s[a] = p /\ s[b] = q /\ tail[l] = LastOf(p) /\ tail[c] = LastOf(q)
  BY Keys DEF C
<1> HIDE DEF p, q
<1>4. CASE q = <<>>
  <2>1. UNCHANGED <<chains, pools, items>>
    BY <1>2, <1>4 DEF Transfer, items
  <2>2. HomesAre(s)'
    BY <2>1, SameHomes
  <2>3. p \o q = p /\ LastOf(q) = NULL
    BY <1>2, <1>4 DEF LastOf
  <2>4. tail' = tail
    BY <2>1 DEF chains
  <2> QED  BY <1>3, <1>4, <2>2, <2>3, <2>4 DEF p, q
<1>5. CASE q # <<>>
  <2>1. /\ head' = [head EXCEPT ![l] = IF @ = NULL THEN head[c] ELSE @, ![c] = NULL]
        /\ tail' = [tail EXCEPT ![l] = tail[c], ![c] = NULL]
        /\ next' = [i \in Item |-> IF i = HeadField THEN NULL
                                   ELSE IF head[l] # NULL /\ i = tail[l] THEN head[c] ELSE next[i]]
        /\ size' = [size EXCEPT ![l] = @ + size[c], ![c] = 0]
        /\ pool' = pool /\ pool_size' = pool_size /\ data' = data /\ heap' = heap
    BY <1>2, <1>5 DEF Transfer, pools
  <2>2. next' = Joined(next, p, q)
    <3>1. HeadField \notin Item
      BY ListAssumption DEF HeadField, Item
    <3>2. CASE p = <<>>
      BY <1>1, <1>2, <2>1, <3>1, <3>2 DEF Joined
    <3>3. CASE p # <<>>
      BY <1>1, <1>2, <1>3, <2>1, <3>1, <3>3 DEF Joined
    <3> QED  BY <3>2, <3>3
  <2> DEFINE w == [s EXCEPT ![a] = p \o q, ![b] = <<>>]
  <2>3. PICK t : t = w
    OBVIOUS
  <2>4. Linked(t, heap', next')
    <3>1. Linked([s EXCEPT ![a] = s[a] \o s[b], ![b] = <<>>], heap, Joined(next, s[a], s[b]))
      BY <1>1, <1>3, Join
    <3> QED  BY <1>3, <2>1, <2>2, <2>3, <3>1
  <2>5. /\ C(t, l) = p \o q /\ C(t, c) = <<>>
        /\ \A j \in Lists \ {l, c} : C(t, j) = C(s, j)
        /\ \A j \in Lists : Q(t, j) = Q(s, j)
    BY <1>1, <1>3, <2>3, Keys DEF C, Q
  <2>6. PICK r : r = p \o q
    OBVIOUS
  <2>7. /\ r \in Seq(Item) /\ Len(r) = Len(p) + Len(q) /\ r # <<>>
        /\ \A i \in 1..(Len(p) + Len(q)) : r[i] = IF i <= Len(p) THEN p[i] ELSE q[i - Len(p)]
    <3>1. /\ r \in Seq(Item) /\ Len(r) = Len(p) + Len(q)
          /\ \A i \in 1..(Len(p) + Len(q)) : r[i] = IF i <= Len(p) THEN p[i] ELSE q[i - Len(p)]
      BY <1>2, <2>6, ConcatIs, Zenon
    <3>2. Len(r) # 0
      BY <1>2, <1>5, <3>1
    <3> QED  BY <3>1, <3>2
  <2>8. First(r) = IF p = <<>> THEN First(q) ELSE First(p)
    <3>1. 1 \in 1..(Len(p) + Len(q)) /\ (p = <<>> => Len(p) = 0) /\ (p # <<>> => 1 <= Len(p))
      BY <1>2, <1>5
    <3> QED  BY <1>5, <2>7, <3>1 DEF First
  <2>9. LastOf(r) = LastOf(q)
    <3>1. /\ Len(p) + Len(q) \in 1..(Len(p) + Len(q)) /\ ~(Len(p) + Len(q) <= Len(p))
          /\ (Len(p) + Len(q)) - Len(p) = Len(q)
      BY <1>2, <1>5
    <3> QED  BY <1>5, <2>7, <3>1 DEF LastOf
  <2>10. /\ head'[l] = First(r) /\ head'[c] = NULL /\ \A j \in Lists \ {l, c} : head'[j] = head[j]
         /\ tail'[l] = LastOf(q) /\ tail'[c] = NULL /\ \A j \in Lists \ {l, c} : tail'[j] = tail[j]
         /\ size'[l] = Len(p) + Len(q) /\ size'[c] = 0 /\ \A j \in Lists \ {l, c} : size'[j] = size[j]
    <3>1. size[l] = Len(p) /\ size[c] = Len(q)
      BY <1>1 DEF p, q
    <3> QED  BY <1>1, <1>2, <1>3, <2>1, <2>8, <3>1
  <2>11. HomesAre(t)'
    <3>1. /\ head' \in [Lists -> Pointer] /\ tail' \in [Lists -> Pointer] /\ size' \in [Lists -> Nat]
          /\ pool' \in [Lists -> Pointer] /\ pool_size' \in [Lists -> Nat] /\ data' \in [Item -> Data \cup {NULL}]
      <4>1. NULL \in Pointer /\ head[c] \in Pointer /\ tail[c] \in Pointer /\ size[l] + size[c] \in Nat
        BY <1>1 DEF Pointer
      <4>2. head' \in [Lists -> Pointer] /\ tail' \in [Lists -> Pointer]
        BY <1>1, <2>1, <4>1
      <4>3. size' \in [Lists -> Nat]
        BY <1>1, <2>1, <4>1
      <4> QED  BY <1>1, <2>1, <4>2, <4>3
    <3>2. \A j \in Lists : head'[j] = First(C(t, j)) /\ size'[j] = Len(C(t, j))
      <4>1. First(<<>>) = NULL /\ Len(<<>>) = 0
        BY DEF First
      <4>2. \A j \in Lists \ {l, c} : head'[j] = First(C(t, j)) /\ size'[j] = Len(C(t, j))
        BY <1>1, <2>5, <2>10
      <4>3. head'[c] = First(C(t, c)) /\ size'[c] = Len(C(t, c))
        BY <2>5, <2>10, <4>1
      <4>4. head'[l] = First(C(t, l)) /\ size'[l] = Len(C(t, l))
        BY <2>5, <2>6, <2>7, <2>10
      <4> QED  BY <4>2, <4>3, <4>4
    <3>3. \A j \in Lists : pool'[j] = First(Q(t, j)) /\ pool_size'[j] = Len(Q(t, j))
      BY <1>1, <2>1, <2>5
    <3> QED  BY <2>4, <3>1, <3>2, <3>3 DEF HomesAre
  <2>12. tail'[l] = LastOf(C(t, l)) /\ tail'[c] = LastOf(C(t, c))
    <3>1. LastOf(<<>>) = NULL
      BY DEF LastOf
    <3> QED  BY <2>5, <2>6, <2>9, <2>10, <3>1
  <2> QED  BY <2>5, <2>10, <2>11, <2>12 DEF p, q
<1> QED  BY <1>4, <1>5

\* list_chop.
LEMMA ChopStep ==
  ASSUME NEW s, IInvOf(s), NEW l \in Stacks, NEW c \in Lists \ Stacks, NEW k \in Nat, Chop(l, c, k)
  PROVE  \E t, m : /\ IInvOf(t)' /\ m \in 1..Len(Held(s)[l]) /\ Held(s)[l] # <<>>
                   /\ Held(t)' = [Held(s) EXCEPT ![l] = Back(Held(s)[l], m), ![c] = Front(Held(s)[l], m)]
<1> DEFINE q == C(s, l)
           m == Chopped(q, k)
<1>1. /\ HomesAre(s) /\ l \in Lists /\ l \in live /\ iter[l] = HeadField /\ tail[l] = LastOf(q) /\ Idle
      /\ c \notin live /\ C(s, c) = <<>> /\ l # c /\ c \notin walking
  BY ListAssumption DEF IInvOf, Walks, Walkers, Tails, Chop
<1>2. PICK t : /\ HomesAre(t)' /\ m \in 1..Len(q) /\ q # <<>>
               /\ C(t, c) = Front(q, m) /\ C(t, l) = Back(q, m)
               /\ \A j \in Lists \ {l, c} : C(t, j) = C(s, j) /\ tail'[j] = tail[j]
               /\ tail'[c] = LastOf(C(t, c)) /\ tail'[l] = LastOf(C(t, l))
  BY <1>1, ChopHomes
<1>3. q \in Seq(Item) /\ Len(q) \in Nat
  BY <1>1, HomeIs
<1>4. /\ data \in [Item -> Datum]
      /\ iter \in [Lists -> Pointer \cup {HeadField}] /\ iter_idx \in [Lists -> Int]
  BY <1>1 DEF HomesAre, Datum, IInvOf, Walks, Walkers
<1>5. /\ iter' = [iter EXCEPT ![c] = HeadField] /\ iter_idx' = [iter_idx EXCEPT ![c] = -1]
      /\ live' = live \cup {c} /\ scan' = scan /\ walking' = walking /\ data' = data
  BY DEF Chop
<1> HIDE DEF q, m
<1>6. IInvOf(t)'
  <2>1. Walkers' /\ Idle' /\ l \in live' /\ c \in live'
    BY <1>1, <1>4, <1>5 DEF IInvOf, Walks, Walkers, Idle
  <2>2. Untouched(s, t, {l, c})
    BY <1>1, <1>2, <1>4, <1>5 DEF Untouched
  <2>3. iter'[l] = HeadField /\ iter'[c] = HeadField /\ iter_idx'[c] = -1 /\ c \notin walking'
    BY <1>1, <1>4, <1>5
  <2>4. WalkOf(c, C(t, c))'
    <3>1. Len(C(t, c)) \in Nat
      BY <1>2, HomeIs, PartsAre, <1>3 DEF Front
    <3> QED  BY <2>3, <3>1 DEF WalkOf
  <2>5. Settled(t, {l, c})'
    BY <1>1, <1>2, <2>1, <2>3, <2>4 DEF Settled
  <2>6. {l, c} \in SUBSET Lists
    BY <1>1
  <2> QED  BY <1>1, <1>2, <2>1, <2>2, <2>5, <2>6, OnlyChanges
<1>7. Held(s)[l] = Value(q, data) /\ Len(Value(q, data)) = Len(q)
  <2>1. Held(s)[l] = Value(q, data)
    BY <1>1 DEF Held, q
  <2> QED  BY <1>3, <1>4, <2>1, ValueIs
<1>8. m \in 1..Len(Held(s)[l]) /\ Held(s)[l] # <<>>
  <2>1. Len(q) # 0
    BY <1>2
  <2>2. Len(<<>>) = 0
    OBVIOUS
  <2> QED  BY <1>2, <1>7, <2>1, <2>2
<1>9. Held(t)' = [Held(s) EXCEPT ![l] = Back(Held(s)[l], m), ![c] = Front(Held(s)[l], m)]
  <2>1. Kept(s, t, {l, c})
    BY <1>2, <1>5 DEF Kept
  <2>2. HomesAre(s) /\ HomesAre(t)' /\ l \in Lists /\ c \in Lists /\ l # c
    BY <1>1, <1>2
  <2>3. Held(t)' = [Held(s) EXCEPT ![l] = Value(C(t, l), data'), ![c] = Value(C(t, c), data')]
    BY <2>1, <2>2, TwoHold
  <2>4. Value(Front(q, m), data) = Front(Value(q, data), m)
    <3>1. 1 \in 1..(Len(q) + 1) /\ m \in 0..Len(q)
      BY <1>2, <1>3
    <3> QED  BY <1>3, <1>4, <3>1, ValuePart DEF Front
  <2>5. Value(Back(q, m), data) = Back(Value(q, data), m)
    <3>1. m + 1 \in 1..(Len(q) + 1) /\ Len(q) \in 0..Len(q)
      BY <1>2, <1>3
    <3>2. Value(SubSeq(q, m + 1, Len(q)), data) = SubSeq(Value(q, data), m + 1, Len(q))
      BY <1>3, <1>4, <3>1, ValuePart
    <3> QED  BY <1>7, <3>2 DEF Back
  <2> QED  BY <1>2, <1>5, <1>7, <2>3, <2>4, <2>5
<1> QED  BY <1>6, <1>8, <1>9

\* list_transfer.
LEMMA TransferStep ==
  ASSUME NEW s, IInvOf(s), NEW l \in live \ Stacks, NEW c \in live \ Stacks, l # c,
         iter[l] # NULL, iter[c] = HeadField, Transfer(l, c)
  PROVE  \E t : /\ IInvOf(t)'
                /\ Held(t)' = [Held(s) EXCEPT ![l] = Held(s)[l] \o Held(s)[c], ![c] = <<>>]
<1> DEFINE p == C(s, l)
           q == C(s, c)
<1>1. /\ HomesAre(s) /\ l \in Lists /\ c \in Lists /\ l \notin Stacks /\ c \notin Stacks /\ Idle
      /\ tail[l] = LastOf(p) /\ tail[c] = LastOf(q) /\ WalkOf(l, p) /\ WalkOf(c, q)
  BY DEF IInvOf, Walks, Walkers, Tails, Transfer
<1>2. PICK t : /\ HomesAre(t)' /\ C(t, l) = p \o q /\ C(t, c) = <<>>
               /\ \A j \in Lists \ {l, c} : C(t, j) = C(s, j) /\ tail'[j] = tail[j]
               /\ tail'[c] = LastOf(C(t, c)) /\ tail'[l] = LastOf(C(t, l))
  BY <1>1, TransferHomes
<1>3. /\ p \in Seq(Item) /\ Len(p) \in Nat /\ q \in Seq(Item) /\ Len(q) \in Nat
      /\ (head[c] = NULL <=> q = <<>>)
  BY <1>1, HomeIs
<1>4. /\ data \in [Item -> Datum]
      /\ iter \in [Lists -> Pointer \cup {HeadField}] /\ iter_idx \in [Lists -> Int]
  BY <1>1 DEF HomesAre, Datum, IInvOf, Walks, Walkers
<1>5. /\ iter' = iter /\ iter_idx' = (IF q = <<>> THEN iter_idx ELSE [iter_idx EXCEPT ![c] = -1])
      /\ live' = live /\ scan' = scan /\ walking' = walking \ {l, c} /\ data' = data
  BY <1>3 DEF Transfer, iterator
<1> HIDE DEF p, q
<1>6. WalkOf(l, C(t, l))'
  <2>1. PICK r : r = p \o q
    OBVIOUS
  <2>2. Len(r) = Len(p) + Len(q) /\ \A i \in 1..Len(p) : r[i] = p[i]
    <3>1. /\ Len(r) = Len(p) + Len(q)
          /\ \A i \in 1..(Len(p) + Len(q)) : r[i] = IF i <= Len(p) THEN p[i] ELSE q[i - Len(p)]
      BY <1>3, <2>1, ConcatIs, Zenon
    <3> QED  BY <1>3, <3>1
  <2>3. iter'[l] = iter[l] /\ iter_idx'[l] = iter_idx[l] /\ l \notin walking'
    BY <1>1, <1>4, <1>5
  <2>4. /\ iter_idx[l] \in -1..Len(p)
        /\ iter_idx[l] >= 1 => iter[l] = p[iter_idx[l]]
        /\ iter_idx[l] < 1 => iter[l] = HeadField
    BY <1>1 DEF WalkOf
  <2>5. iter_idx[l] \in -1..Len(r)
    BY <1>3, <2>2, <2>4
  <2>6. iter_idx[l] >= 1 => iter[l] = r[iter_idx[l]]
    BY <1>3, <2>2, <2>4
  <2> QED  BY <1>2, <2>1, <2>3, <2>4, <2>5, <2>6 DEF WalkOf
<1>7. WalkOf(c, C(t, c))'
  <2>1. iter'[c] = HeadField /\ c \notin walking'
    BY <1>1, <1>5
  <2>2. iter_idx'[c] \in -1..0
    <3>1. CASE q = <<>>
      BY <1>1, <1>5, <3>1 DEF WalkOf
    <3>2. CASE q # <<>>
      BY <1>1, <1>4, <1>5, <3>2
    <3> QED  BY <3>1, <3>2
  <2>3. iter_idx'[c] \in -1..Len(<<>>) /\ ~(iter_idx'[c] >= 1)
    BY <2>2
  <2> QED  BY <1>2, <2>1, <2>3 DEF WalkOf
<1>8. IInvOf(t)'
  <2>1. Walkers' /\ Idle' /\ l \in live' /\ c \in live'
    BY <1>1, <1>4, <1>5 DEF IInvOf, Walks, Walkers, Idle
  <2>2. Untouched(s, t, {l, c})
    BY <1>1, <1>2, <1>4, <1>5 DEF Untouched
  <2>3. Settled(t, {l, c})'
    BY <1>1, <1>2, <1>6, <1>7, <2>1 DEF Settled
  <2>4. {l, c} \in SUBSET Lists
    BY <1>1
  <2> QED  BY <1>1, <1>2, <2>1, <2>2, <2>3, <2>4, OnlyChanges
<1>9. Held(t)' = [Held(s) EXCEPT ![l] = Held(s)[l] \o Held(s)[c], ![c] = <<>>]
  <2>1. Kept(s, t, {l, c})
    BY <1>2, <1>5 DEF Kept
  <2>2. HomesAre(s) /\ HomesAre(t)' /\ l \in Lists /\ c \in Lists /\ l # c
    BY <1>1, <1>2
  <2>3. Held(t)' = [Held(s) EXCEPT ![l] = Value(C(t, l), data'), ![c] = Value(C(t, c), data')]
    BY <2>1, <2>2, TwoHold
  <2>4. Value(p \o q, data) = Value(p, data) \o Value(q, data)
    BY <1>3, <1>4, ValueConcat
  <2>5. Held(s)[l] = Value(p, data) /\ Held(s)[c] = Value(q, data)
    BY <1>1 DEF Held, p, q
  <2>6. Value(C(t, l), data') = Held(s)[l] \o Held(s)[c] /\ Value(C(t, c), data') = <<>>
    BY <1>2, <1>5, <2>4, <2>5, ValueNone
  <2> QED  BY <2>3, <2>6
<1> QED  BY <1>8, <1>9

-----------------------------------------------------------------------------
(* list_transfer_on_match.                                                  *)

\* The first and the last item that stay when the k-th one goes.
LEMMA WithoutEnds ==
  ASSUME NEW q \in Seq(Item), NEW k \in 1..Len(q)
  PROVE  /\ First(Without(q, k)) = IF k = 1 THEN Following(q, 1) ELSE First(q)
         /\ k # Len(q) => Without(q, k) # <<>> /\ LastOf(Without(q, k)) = LastOf(q)
<1>1. PICK r : r = Without(q, k)
  OBVIOUS
<1>2. /\ r \in Seq(Item) /\ Len(r) = Len(q) - 1
      /\ \A i \in 1..(Len(q) - 1) : r[i] = IF i < k THEN q[i] ELSE q[i + 1]
  BY <1>1, WithoutIs
<1>3. Len(q) \in Nat /\ q # <<>> /\ k \in 1..Len(q)
  OBVIOUS
<1>4. CASE Len(q) = 1
  <2>1. r = <<>> /\ k = 1
    BY <1>2, <1>3, <1>4
  <2> QED  BY <1>1, <1>4, <2>1 DEF First, Following
<1>5. CASE Len(q) # 1
  <2>1. r # <<>> /\ 1 \in 1..(Len(q) - 1) /\ Len(q) - 1 \in 1..(Len(q) - 1)
    BY <1>2, <1>3, <1>5
  <2>2. r[1] = IF k = 1 THEN q[2] ELSE q[1]
    BY <1>2, <1>3, <2>1
  <2>3. k # Len(q) => r[Len(r)] = q[Len(q)]
    <3> SUFFICES ASSUME k # Len(q) PROVE r[Len(r)] = q[Len(q)]
      OBVIOUS
    <3>1. ~(Len(q) - 1 < k) /\ (Len(q) - 1) + 1 = Len(q)
      BY <1>3
    <3> QED  BY <1>2, <2>1, <3>1
  <2>4. 1 < Len(q)
    BY <1>3, <1>5
  <2> QED  BY <1>1, <1>3, <2>1, <2>2, <2>3, <2>4 DEF First, LastOf, Following
<1> QED  BY <1>4, <1>5

\* An item that matches: a copy goes behind the one chain, the item leaves the other.
LEMMA MatchHomes ==
  ASSUME NEW s, HomesAre(s), NEW l \in Lists, NEW c \in Lists, l # c, scan.dst = l, scan.src = c,
         NEW k \in 1..Len(C(s, c)), scan.at = Place(C(s, c), k - 1), tail[l] = LastOf(C(s, l)), MoveMatch
  PROVE  \E t, i : /\ HomesAre(t)' /\ C(t, l) = Append(C(s, l), i) /\ C(t, c) = Without(C(s, c), k)
                   /\ \A j \in Lists \ {l, c} : C(t, j) = C(s, j)
                   /\ i \in Item /\ \A j \in Lists : i \notin Members(C(s, j))
                   /\ data[C(s, c)[k]] \in Matching
                   /\ data' \in [Item -> Data \cup {NULL}] /\ data'[i] = data[C(s, c)[k]]
                   /\ \A x \in Item \ {i, C(s, c)[k]} : data'[x] = data[x]
                   /\ tail' = [tail EXCEPT ![l] = i] /\ C(s, c)[k] \in heap' /\ heap \ {i} \subseteq heap'
<1> DEFINE i == NewItem(l)
           a == ChainOf(l)
           b == ChainOf(c)
           p == C(s, l)
           q == C(s, c)
           old == q[k]
<1>1. /\ head \in [Lists -> Pointer] /\ tail \in [Lists -> Pointer] /\ size \in [Lists -> Nat]
      /\ pool \in [Lists -> Pointer] /\ pool_size \in [Lists -> Nat] /\ next \in [Item -> Pointer]
      /\ data \in [Item -> Data \cup {NULL}] /\ Linked(s, heap, next)
      /\ \A j \in Lists : head[j] = First(C(s, j)) /\ size[j] = Len(C(s, j))
  BY DEF HomesAre, Linked
<1>2. /\ p \in Seq(Item) /\ Len(p) \in Nat /\ (head[l] = NULL <=> p = <<>>) /\ head[l] = First(p) /\ size[l] = Len(p)
      /\ q \in Seq(Item) /\ Len(q) \in Nat /\ head[c] = First(q) /\ size[c] = Len(q)
      /\ \A j \in 1..Len(p) : p[j] \in Item
      /\ \A j \in 1..Len(q) : q[j] \in Item
  BY HomeIs
<1>3. k - 1 \in 0..Len(q) /\ k \in 1..Len(q) /\ (k - 1) + 1 = k /\ (k # 1 => k - 1 \in 1..Len(q))
  BY <1>2
<1>4. old \in Item /\ next[old] = Following(q, k) /\ Scanned = old /\ (scan.at = HeadField <=> k = 1)
  <2>1. next[old] = Following(q, k)
    BY <1>1, Keys DEF Linked, Strung, C
  <2>2. Deref(c, Place(q, k - 1)) = Following(q, k - 1) /\ (Place(q, k - 1) = HeadField <=> k - 1 = 0)
    BY <1>3, PlaceIs
  <2>3. Following(q, k - 1) = q[k]
    BY <1>2, <1>3 DEF Following
  <2>4. k - 1 = 0 <=> k = 1
    OBVIOUS
  <2> HIDE DEF q
  <2> QED  BY <1>2, <1>3, <2>1, <2>2, <2>3, <2>4 DEF Scanned, q
<1>5. Obtainable(l) /\ data[old] \in Matching
  BY <1>4 DEF MoveMatch
<1>6. PICK u, G :
        /\ Linked(u, G, next) /\ i \in G /\ G \ {i} = LessHeap(l)
        /\ \A j \in Lists : /\ C(u, j) = C(s, j)
                            /\ LessPool(l)[j] = First(Q(u, j)) /\ LessSize(l)[j] = Len(Q(u, j))
        /\ LessPool(l) \in [Lists -> Pointer] /\ LessSize(l) \in [Lists -> Nat]
  BY <1>5, TakeIs
<1>7. i \in Item /\ \A j \in Lists : i \notin Members(C(s, j))
  BY <1>6, FreeIs
<1>8. a \in Key /\ b \in Key /\ a # b /\ u[a] = p /\ u[b] = q /\ u \in [Key -> Seq(Item)]
  BY <1>6, Keys DEF C, Linked
<1>9. \A j \in 1..Len(p), m \in 1..Len(q) : p[j] # q[m]
  BY ItemsApart
<1>10. \A j, m \in 1..Len(q) : q[j] = q[m] => j = m
  BY ItemsApart
<1>11. /\ \A j \in 1..Len(p) : p[j] # i
       /\ \A j \in 1..Len(q) : q[j] # i
  BY <1>7 DEF Members
<1> DEFINE unlinked == IF k = 1 THEN next ELSE [next EXCEPT ![q[k - 1]] = next[old]]
           nxt == [unlinked EXCEPT ![old] = NULL]
<1>12. /\ next' = IF p = <<>> THEN [nxt EXCEPT ![i] = NULL] ELSE [nxt EXCEPT ![i] = NULL, ![LastOf(p)] = i]
       /\ data' = [[data EXCEPT ![old] = NULL] EXCEPT ![i] = data[old]] /\ tail' = [tail EXCEPT ![l] = i]
       /\ head' = [head EXCEPT ![l] = IF @ = NULL THEN i ELSE @, ![c] = IF k = 1 THEN next[old] ELSE @]
       /\ size' = [size EXCEPT ![l] = @ + 1, ![c] = @ - 1]
  <2>1. k # 1 => scan.at = q[k - 1]
    BY <1>3 DEF Place
  <2> HIDE DEF q, p, i, old
  <2>2. /\ Link(l, i, data[old], nxt, [data EXCEPT ![old] = NULL])
        /\ tail' = [tail EXCEPT ![l] = i]
        /\ head' = [head EXCEPT ![l] = IF @ = NULL THEN i ELSE @, ![c] = IF k = 1 THEN next[old] ELSE @]
        /\ size' = [size EXCEPT ![l] = @ + 1, ![c] = @ - 1]
    BY <1>4, <2>1 DEF MoveMatch, i
  <2>3. tail[l] = LastOf(p)
    BY DEF p
  <2> HIDE DEF nxt
  <2> QED  BY <1>2, <2>2, <2>3 DEF Link
<1>13. pool' = LessPool(l) /\ pool_size' = LessSize(l) /\ heap' = LessHeap(l) \cup {old}
  <2> HIDE DEF q, p, old
  <2> QED  BY <1>4 DEF MoveMatch, LessPool, LessSize, LessHeap, pools, NewItem
<1> HIDE DEF p, q, i, old, unlinked
<1> DEFINE v == [u EXCEPT ![a] = Append(p, i)]
           n == Extended(next, p, i)
           w == [v EXCEPT ![b] = Without(q, k)]
<1>14. Linked(v, LessHeap(l), n)
  <2>1. Linked([u EXCEPT ![a] = Append(u[a], i)], G \ {i}, Extended(next, u[a], i))
    BY <1>6, <1>8, InsertLast
  <2> QED  BY <1>6, <1>8, <2>1
<1>15. v[b] = q /\ v \in [Key -> Seq(Item)]
  <2>1. v \in [Key -> Seq(Item)]
    BY <1>14 DEF Linked
  <2> QED  BY <1>8, <2>1
<1> HIDE DEF v, n
<1>16. Linked(w, LessHeap(l) \cup {old}, Unlinked(n, q, k))
  <2>1. Linked([v EXCEPT ![b] = Without(v[b], k)], LessHeap(l) \cup {v[b][k]}, Unlinked(n, v[b], k))
    BY <1>3, <1>8, <1>14, <1>15, Unlink
  <2> QED  BY <1>15, <2>1 DEF old
<1>17. p # <<>> => LastOf(p) \in Item /\ LastOf(p) # i /\ LastOf(p) # old /\ (k # 1 => LastOf(p) # q[k - 1])
  <2>1. p # <<>> => Len(p) \in 1..Len(p)
    BY <1>2
  <2> QED  BY <1>2, <1>3, <1>9, <1>11, <2>1 DEF LastOf, old
<1>18. i # old /\ (k # 1 => q[k - 1] # i /\ q[k - 1] # old /\ q[k - 1] \in Item)
  BY <1>2, <1>3, <1>10, <1>11 DEF old
<1>19. next' \in [Item -> Pointer]
  <2>1. next[old] \in Pointer /\ NULL \in Pointer /\ i \in Pointer
    BY <1>1, <1>4, <1>7 DEF Pointer
  <2>2. unlinked \in [Item -> Pointer]
    BY <1>1, <1>4, <1>18, <2>1 DEF unlinked
  <2>3. nxt \in [Item -> Pointer]
    BY <1>4, <2>1, <2>2
  <2> HIDE DEF nxt
  <2> QED  BY <1>7, <1>12, <1>17, <2>1, <2>3
<1>20. \A x \in Item \ (LessHeap(l) \cup {old}) : next'[x] = Unlinked(n, q, k)[x]
  <2> SUFFICES ASSUME NEW x \in Item, x # old PROVE next'[x] = Unlinked(n, q, k)[x]
    OBVIOUS
  <2>1. n \in [Item -> Pointer]
    BY <1>14 DEF Linked
  <2>2. n[old] = next[old]
    BY <1>1, <1>4, <1>7, <1>17, <1>18 DEF n, Extended
  <2>3. Unlinked(n, q, k)[x] = IF k # 1 /\ x = q[k - 1] THEN next[old] ELSE n[x]
    BY <1>18, <2>1, <2>2 DEF Unlinked, old
  <2>4. n[x] = IF p # <<>> /\ x = LastOf(p) THEN i ELSE IF x = i THEN NULL ELSE next[x]
    BY <1>1, <1>7, <1>17 DEF n, Extended
  <2>5. nxt \in [Item -> Pointer \cup {NULL}] /\ nxt[x] = IF k # 1 /\ x = q[k - 1] THEN next[old] ELSE next[x]
    <3>1. unlinked \in [Item -> Pointer]
      BY <1>1, <1>4, <1>18 DEF unlinked
    <3>2. unlinked[x] = IF k # 1 /\ x = q[k - 1] THEN next[old] ELSE next[x]
      BY <1>1, <1>18 DEF unlinked
    <3> QED  BY <1>4, <3>1, <3>2
  <2> HIDE DEF nxt
  <2>6. next'[x] = IF p # <<>> /\ x = LastOf(p) THEN i ELSE IF x = i THEN NULL ELSE nxt[x]
    <3>1. CASE p = <<>>
      BY <1>7, <1>12, <2>5, <3>1
    <3>2. CASE p # <<>>
      BY <1>7, <1>12, <1>17, <2>5, <3>2
    <3> QED  BY <3>1, <3>2
  <2> QED  BY <1>17, <1>18, <2>3, <2>4, <2>5, <2>6
<1>21. PICK t : t = w
  OBVIOUS
<1>22. Linked(t, heap', next')
  <2> HIDE DEF w
  <2> QED  BY <1>13, <1>16, <1>19, <1>20, <1>21, FreeLinks
<1>23. /\ C(t, l) = Append(p, i) /\ C(t, c) = Without(q, k)
       /\ \A j \in Lists \ {l, c} : C(t, j) = C(s, j)
       /\ \A j \in Lists : Q(t, j) = Q(u, j)
  BY <1>6, <1>8, <1>15, <1>21, Keys DEF C, Q, v
<1>24. /\ Len(Append(p, i)) = Len(p) + 1 /\ First(Append(p, i)) = IF p = <<>> THEN i ELSE First(p)
  <2>1. PICK r : r = Append(p, i)
    OBVIOUS
  <2>2. /\ r \in Seq(Item) /\ Len(r) = Len(p) + 1 /\ r[1] = (IF p = <<>> THEN i ELSE p[1]) /\ r # <<>>
    BY <1>2, <1>7, <2>1
  <2> QED  BY <2>1, <2>2 DEF First
<1>25. Len(Without(q, k)) = Len(q) - 1 /\ First(Without(q, k)) = IF k = 1 THEN next[old] ELSE First(q)
  BY <1>2, <1>3, <1>4, WithoutIs, WithoutEnds
<1>26. /\ head'[l] = First(Append(p, i)) /\ head'[c] = First(Without(q, k))
       /\ \A j \in Lists \ {l, c} : head'[j] = head[j]
       /\ size'[l] = Len(p) + 1 /\ size'[c] = Len(q) - 1 /\ \A j \in Lists \ {l, c} : size'[j] = size[j]
  BY <1>1, <1>2, <1>12, <1>24, <1>25
<1>27. /\ data' \in [Item -> Data \cup {NULL}] /\ data'[i] = data[old]
       /\ \A x \in Item \ {i, old} : data'[x] = data[x]
  <2>1. [data EXCEPT ![old] = NULL] \in [Item -> Data \cup {NULL}]
    BY <1>1
  <2>2. \A x \in Item \ {old} : [data EXCEPT ![old] = NULL][x] = data[x]
    BY <1>1
  <2>3. data[old] \in Data \cup {NULL}
    BY <1>1, <1>4
  <2> QED  BY <1>7, <1>12, <2>1, <2>2, <2>3
<1>28. HomesAre(t)'
  <2>1. next[old] \in Pointer /\ i \in Pointer /\ Len(q) - 1 \in Nat /\ Len(p) + 1 \in Nat
    BY <1>1, <1>2, <1>3, <1>4, <1>7 DEF Pointer
  <2>2. head' \in [Lists -> Pointer] /\ tail' \in [Lists -> Pointer]
    BY <1>1, <1>12, <2>1
  <2>3. size' \in [Lists -> Nat]
    BY <1>1, <1>2, <1>12, <2>1
  <2>4. data' \in [Item -> Data \cup {NULL}]
    BY <1>27
  <2>5. \A j \in Lists : head'[j] = First(C(t, j)) /\ size'[j] = Len(C(t, j))
    <3> SUFFICES ASSUME NEW j \in Lists PROVE head'[j] = First(C(t, j)) /\ size'[j] = Len(C(t, j))
      OBVIOUS
    <3>1. CASE j = l
      BY <1>23, <1>24, <1>26, <3>1
    <3>2. CASE j = c
      BY <1>23, <1>25, <1>26, <3>2
    <3>3. CASE j \notin {l, c}
      <4>1. head[j] = First(C(s, j)) /\ size[j] = Len(C(s, j))
        BY <1>1
      <4> QED  BY <1>23, <1>26, <3>3, <4>1
    <3> QED  BY <3>1, <3>2, <3>3
  <2>6. /\ pool' \in [Lists -> Pointer] /\ pool_size' \in [Lists -> Nat]
        /\ \A j \in Lists : pool'[j] = First(Q(t, j)) /\ pool_size'[j] = Len(Q(t, j))
    BY <1>6, <1>13, <1>23
  <2> QED  BY <1>22, <2>2, <2>3, <2>4, <2>5, <2>6 DEF HomesAre
<1>29. old \in heap' /\ heap \ {i} \subseteq heap'
  BY <1>13 DEF LessHeap, i
<1> QED  BY <1>5, <1>7, <1>12, <1>23, <1>27, <1>28, <1>29 DEF p, q, old

\* Iterators stay where they are.
LEMMA SameWalks ==
  ASSUME NEW s, Walks(s), UNCHANGED <<iterator, live, walking>>
  PROVE  Walks(s)'
BY DEF Walks, Walkers, WalkOf, iterator

\* Lists that do not change hold what they held.
LEMMA SameHeld ==
  ASSUME NEW s, UNCHANGED data
  PROVE  Held(s)' = Held(s)
BY DEF Held

\* The search begins.
LEMMA BeginStep ==
  ASSUME NEW s, IInvOf(s), NEW l \in live \ Stacks, NEW c \in live \ Stacks, l # c,
         l \notin walking, c \notin walking, iter[c] = HeadField, BeginMatch(l, c)
  PROVE  IInvOf(s)' /\ Held(s)' = Held(s)
<1>1. /\ HomesAre(s) /\ Idle /\ Walks(s) /\ l \in Lists /\ c \in Lists
      /\ \A k \in Lists : tail[k] = LastOf(C(s, k))
  BY DEF IInvOf, Tails, Walks, Walkers, BeginMatch
<1>2. /\ scan' = [dst |-> l, src |-> c, at |-> HeadField]
      /\ UNCHANGED <<chains, pools, items>> /\ UNCHANGED <<iterator, live, walking>>
  BY DEF BeginMatch
<1>3. HomesAre(s)' /\ Walks(s)' /\ Held(s)' = Held(s)
  BY <1>1, <1>2, SameHomes, SameWalks, SameHeld DEF items
<1>4. tail' = tail /\ data' = data /\ iter' = iter /\ live' = live /\ walking' = walking
  BY <1>2 DEF chains, items, iterator
<1>5. Tails(s)'
  BY <1>1, <1>4 DEF Tails
<1>6. Scans(s)'
  <2>1. /\ scan'.dst = l /\ scan'.src = c /\ scan'.at = HeadField
        /\ scan' \in [dst : live' \ Stacks, src : live' \ Stacks, at : Item \cup {NULL, HeadField}]
    BY <1>2, <1>4
  <2>2. Passed(C(s, c), 0)' /\ 0 \in 0..Len(C(s, c))
    BY <1>1, <2>1, HomeIs DEF Passed, Place
  <2>3. TailOrFreed(C(s, c), 0)'
    BY <1>1, <1>4, <2>1 DEF TailOrFreed
  <2>4. (\E k \in 0..Len(C(s, scan.src)) :
           Passed(C(s, scan.src), k) /\ TailOrFreed(C(s, scan.src), k))'
    BY <2>1, <2>2, <2>3
  <2>5. (/\ scan.dst # scan.src /\ scan.dst \notin walking /\ scan.src \notin walking
         /\ iter[scan.src] = HeadField)'
    BY <1>4, <2>1
  <2> QED  BY <2>1, <2>4, <2>5 DEF Scans
<1> QED  BY <1>3, <1>5, <1>6 DEF IInvOf

\* What is known while the search goes on.
LEMMA Searching ==
  ASSUME NEW s, IInvOf(s), Busy
  PROVE  /\ HomesAre(s) /\ Walks(s)
         /\ scan \in [dst : live \ Stacks, src : live \ Stacks, at : Item \cup {NULL, HeadField}]
         /\ scan.dst \in Lists \ Stacks /\ scan.src \in Lists \ Stacks
         /\ scan.dst # scan.src /\ scan.dst \notin walking /\ scan.src \notin walking
         /\ iter[scan.src] = HeadField
         /\ \A l \in Lists \ {scan.src} : tail[l] = LastOf(C(s, l))
         /\ \E k \in 0..Len(C(s, scan.src)) :
              /\ Passed(C(s, scan.src), k) /\ TailOrFreed(C(s, scan.src), k)
              /\ Scanned = Following(C(s, scan.src), k)
<1>1. /\ HomesAre(s) /\ Walks(s) /\ live \subseteq Lists
      /\ scan \in [dst : live \ Stacks, src : live \ Stacks, at : Item \cup {NULL, HeadField}]
      /\ scan.dst # scan.src /\ scan.dst \notin walking /\ scan.src \notin walking
      /\ iter[scan.src] = HeadField
      /\ \A l \in Lists \ {scan.src} : tail[l] = LastOf(C(s, l))
  BY DEF IInvOf, Scans, Tails, Walks, Walkers, Busy
<1>2. scan.dst \in Lists \ Stacks /\ scan.src \in Lists \ Stacks
  BY <1>1
<1>3. PICK k \in 0..Len(C(s, scan.src)) : Passed(C(s, scan.src), k) /\ TailOrFreed(C(s, scan.src), k)
  BY DEF IInvOf, Scans, Busy
<1>4. Scanned = Following(C(s, scan.src), k)
  <2>1. Deref(scan.src, Place(C(s, scan.src), k)) = Following(C(s, scan.src), k)
    BY <1>1, <1>2, PlaceIs
  <2> QED  BY <1>3, <2>1 DEF Passed, Scanned
<1> QED  BY <1>1, <1>2, <1>3, <1>4

\* The search passes an item.
LEMMA PassStep ==
  ASSUME NEW s, IInvOf(s), PassItem
  PROVE  IInvOf(s)' /\ Held(s)' = Held(s) /\ scan.dst \in live /\ scan.dst \notin walking
<1> PICK c, q : c = scan.src /\ q = C(s, c)
  OBVIOUS
<1>1. Busy /\ ~Idle /\ Scanned # NULL /\ data[Scanned] \notin Matching
  BY DEF PassItem, Scanning, Busy
<1>2. /\ HomesAre(s) /\ Walks(s)
      /\ scan \in [dst : live \ Stacks, src : live \ Stacks, at : Item \cup {NULL, HeadField}]
      /\ scan.dst \in Lists \ Stacks /\ c \in Lists \ Stacks
      /\ scan.dst # c /\ scan.dst \notin walking /\ c \notin walking
      /\ iter[c] = HeadField
      /\ \A l \in Lists \ {c} : tail[l] = LastOf(C(s, l))
  BY <1>1, Searching
<1>3. PICK k \in 0..Len(q) : Passed(q, k) /\ TailOrFreed(q, k) /\ Scanned = Following(q, k)
  BY <1>1, Searching
<1>4. q \in Seq(Item) /\ Len(q) \in Nat /\ \A i \in 1..Len(q) : q[i] \in Item
  BY <1>2, HomeIs
<1>5. k + 1 \in 1..Len(q) /\ Scanned = q[k + 1] /\ Scanned \in Item
  <2>1. k < Len(q) /\ Scanned = q[k + 1]
    BY <1>1, <1>3 DEF Following
  <2>2. k + 1 \in 1..Len(q)
    BY <1>4, <2>1
  <2> QED  BY <1>4, <2>1, <2>2
<1>6. /\ scan' = [scan EXCEPT !.at = Scanned]
      /\ UNCHANGED <<chains, pools, items>> /\ UNCHANGED <<iterator, live, walking>>
  BY DEF PassItem
<1>7. HomesAre(s)' /\ Walks(s)' /\ Held(s)' = Held(s)
  BY <1>2, <1>6, SameHomes, SameWalks, SameHeld DEF items
<1>8. /\ tail' = tail /\ data' = data /\ iter' = iter /\ live' = live /\ walking' = walking
      /\ heap' = heap
  BY <1>6 DEF chains, items, iterator
<1>9. /\ scan'.dst = scan.dst /\ scan'.src = c /\ scan'.at = Scanned
      /\ scan' \in [dst : live' \ Stacks, src : live' \ Stacks, at : Item \cup {NULL, HeadField}]
  BY <1>2, <1>5, <1>6, <1>8
<1>10. Tails(s)'
  <2>1. ~Idle'
    <3>1. 0 \notin Item
      BY DEF Item
    <3> QED  BY <1>5, <1>9, <3>1 DEF Idle, NoScan, NULL
  <2> QED  BY <1>2, <1>8, <1>9, <2>1 DEF Tails
<1>11. Scans(s)'
  <2>1. Passed(q, k + 1)'
    <3>1. \A i \in 1..(k + 1) : data[q[i]] \notin Matching
      <4>1. \A i \in 1..(k + 1) : i \in 1..k \/ i = k + 1
        OBVIOUS
      <4> QED  BY <1>1, <1>3, <1>5, <4>1 DEF Passed
    <3>2. k + 1 # 0
      BY <1>5
    <3> QED  BY <1>5, <1>8, <1>9, <3>1, <3>2 DEF Passed, Place
  <2>2. TailOrFreed(q, k + 1)'
    <3>1. tail[c] = LastOf(q)
      BY <1>2, <1>3, <1>5 DEF TailOrFreed
    <3> QED  BY <1>8, <1>9, <3>1 DEF TailOrFreed
  <2>3. (\E j \in 0..Len(C(s, scan.src)) : Passed(C(s, scan.src), j) /\ TailOrFreed(C(s, scan.src), j))'
    <3>1. k + 1 \in 0..Len(q)
      BY <1>5
    <3> QED  BY <1>9, <2>1, <2>2, <3>1
  <2>4. (/\ scan.dst # scan.src /\ scan.dst \notin walking /\ scan.src \notin walking
         /\ iter[scan.src] = HeadField)'
    BY <1>2, <1>8, <1>9
  <2> QED  BY <1>9, <2>3, <2>4 DEF Scans
<1> QED  BY <1>2, <1>7, <1>10, <1>11 DEF IInvOf

\* The search ends with the tail right, or with no call to follow.
LEMMA EndStep ==
  ASSUME NEW s, IInvOf(s), EndMatch
  PROVE  IInvOf(s)' /\ Held(s)' = Held(s) /\ scan.dst \in live /\ scan.dst \notin walking
<1> PICK c, q : c = scan.src /\ q = C(s, c)
  OBVIOUS
<1>1. Busy /\ ~Idle /\ Scanned = NULL
  BY DEF EndMatch, Busy
<1>2. /\ HomesAre(s) /\ Walks(s)
      /\ scan \in [dst : live \ Stacks, src : live \ Stacks, at : Item \cup {NULL, HeadField}]
      /\ scan.dst \in Lists \ Stacks /\ c \in Lists \ Stacks
      /\ scan.dst # c /\ scan.dst \notin walking /\ c \notin walking
      /\ iter[c] = HeadField
      /\ \A l \in Lists \ {c} : tail[l] = LastOf(C(s, l))
  BY <1>1, Searching
<1>3. PICK k \in 0..Len(q) : Passed(q, k) /\ TailOrFreed(q, k) /\ Scanned = Following(q, k)
  BY <1>1, Searching
<1>4. /\ q \in Seq(Item) /\ Len(q) \in Nat /\ \A i \in 1..Len(q) : q[i] \in Item
      /\ size[c] = Len(q) /\ head[c] = First(q) /\ (size[c] = 0 <=> q = <<>>)
  BY <1>2, HomeIs
<1>5. HeadField \notin Item /\ NULL \notin Item
  BY ListAssumption DEF HeadField, NULL, Item
<1>6. k = Len(q)
  <2>1. ~(k < Len(q))
    <3> SUFFICES ASSUME k < Len(q) PROVE FALSE
      OBVIOUS
    <3>1. k + 1 \in 1..Len(q) /\ Following(q, k) = q[k + 1]
      BY <1>4 DEF Following
    <3> QED  BY <1>1, <1>3, <1>4, <1>5, <3>1
  <2> QED  BY <1>4, <2>1
<1>7. /\ tail \in [Lists -> Pointer] /\ iter \in [Lists -> Pointer \cup {HeadField}]
      /\ iter_idx \in [Lists -> Int] /\ next \in [Item -> Pointer]
  BY <1>2 DEF HomesAre, Linked, Walks, Walkers
<1>8. TailAfterMatch(c) \in Pointer /\ (~TailFreed(c) => TailAfterMatch(c) = LastOf(q))
  <2>1. CASE Len(q) = 0
    BY <1>4, <2>1 DEF TailAfterMatch, LastOf, Pointer
  <2>2. CASE Len(q) = 1
    <3>1. q # <<>> /\ First(q) = q[1] /\ LastOf(q) = q[1] /\ q[1] \in Item
      BY <1>4, <2>2 DEF First, LastOf
    <3> QED  BY <1>4, <2>2, <3>1 DEF TailAfterMatch, Pointer
  <2>3. CASE Len(q) # 0 /\ Len(q) # 1
    <3>1. size[c] > 1 /\ TailAfterMatch(c) = tail[c] /\ tail[c] \in Pointer
      <4>1. size[c] \in Nat /\ size[c] # 0 /\ size[c] # 1
        BY <1>4, <2>3
      <4>2. tail[c] \in Pointer
        BY <1>2, <1>7
      <4>3. \A n \in Nat : n # 0 /\ n # 1 => n > 1
        OBVIOUS
      <4> QED  BY <4>1, <4>2, <4>3 DEF TailAfterMatch
    <3>2. ~TailFreed(c) => tail[c] = LastOf(q)
      BY <1>2, <1>3, <3>1 DEF TailFreed, TailOrFreed
    <3> QED  BY <3>1, <3>2
  <2> QED  BY <2>1, <2>2, <2>3
<1>9. /\ tail' = [tail EXCEPT ![c] = TailAfterMatch(c)] /\ next' = next
      /\ scan' = IF TailFreed(c) THEN [scan EXCEPT !.at = NULL] ELSE NoScan
      /\ iter_idx' = [iter_idx EXCEPT ![c] = IF size[c] = 0 THEN -1 ELSE IF size[c] = 1 THEN 0 ELSE @]
      /\ head' = head /\ size' = size /\ iter' = iter /\ pool' = pool /\ pool_size' = pool_size
      /\ data' = data /\ heap' = heap /\ live' = live /\ walking' = walking
  <2>1. next' = [i \in Item |-> next[i]]
    BY <1>2, <1>5 DEF EndMatch
  <2>2. next' = next
    BY <1>7, <2>1
  <2> QED  BY <2>2 DEF EndMatch, pools
<1>10. HomesAre(s)'
  <2>1. tail' \in [Lists -> Pointer]
    BY <1>7, <1>8, <1>9
  <2> QED  BY <1>2, <1>9, <2>1 DEF HomesAre
<1>11. Tails(s)' /\ Scans(s)'
  <2>1. \A l \in Lists \ {c} : tail'[l] = LastOf(C(s, l))
    BY <1>2, <1>7, <1>9
  <2>2. CASE TailFreed(c)
    <3>1. /\ scan' \in [dst : live' \ Stacks, src : live' \ Stacks, at : Item \cup {NULL, HeadField}]
          /\ scan'.at = NULL /\ scan'.src = c /\ scan'.dst = scan.dst
      BY <1>2, <1>9, <2>2
    <3>2. scan'.src # NoScan.src \/ scan'.dst # NoScan.dst
      BY <1>2, <3>1 DEF NoScan
    <3>3. ~Idle' /\ ~Busy'
      BY <3>1, <3>2 DEF Idle, Busy
    <3>4. Tails(s)'
      BY <2>1, <3>1, <3>3 DEF Tails
    <3>5. (/\ scan.dst # scan.src /\ scan.dst \notin walking /\ scan.src \notin walking
           /\ iter[scan.src] = HeadField)'
      BY <1>2, <1>9, <3>1
    <3>6. Scans(s)'
      BY <3>1, <3>3, <3>5 DEF Scans
    <3> QED  BY <3>4, <3>6
  <2>3. CASE ~TailFreed(c)
    <3>1. Idle'
      BY <1>9, <2>3 DEF Idle
    <3>2. tail'[c] = LastOf(q)
      BY <1>2, <1>7, <1>8, <1>9, <2>3
    <3> QED  BY <2>1, <3>1, <3>2 DEF Tails, Scans
  <2> QED  BY <2>2, <2>3
<1>12. Walks(s)'
  <2>1. /\ iter_idx' \in [Lists -> Int] /\ \A l \in Lists \ {c} : iter_idx'[l] = iter_idx[l]
        /\ iter_idx'[c] = IF Len(q) = 0 THEN -1 ELSE IF Len(q) = 1 THEN 0 ELSE iter_idx[c]
    BY <1>2, <1>4, <1>7, <1>9
  <2>2. WalkOf(c, q)'
    <3>1. WalkOf(c, q)
      BY <1>2 DEF Walks
    <3>2. iter'[c] = HeadField /\ c \notin walking'
      BY <1>2, <1>9
    <3>3. iter_idx'[c] \in -1..Len(q) /\ (iter_idx'[c] >= 1 => HeadField = q[iter_idx'[c]])
      <4>1. iter_idx[c] \in -1..Len(q) /\ (iter_idx[c] >= 1 => HeadField = q[iter_idx[c]])
        BY <1>2, <3>1 DEF WalkOf
      <4> QED  BY <1>4, <2>1, <4>1
    <3> QED  BY <3>2, <3>3 DEF WalkOf
  <2>3. \A l \in Lists \ Stacks : WalkOf(l, C(s, l))'
    <3> SUFFICES ASSUME NEW l \in Lists \ Stacks, l # c PROVE WalkOf(l, C(s, l))'
      BY <2>2
    <3>1. WalkOf(l, C(s, l)) /\ iter_idx'[l] = iter_idx[l] /\ iter' = iter /\ walking' = walking
      BY <1>2, <1>9, <2>1 DEF Walks
    <3> QED  BY <3>1, Zenon DEF WalkOf
  <2> QED  BY <1>2, <1>9, <2>1, <2>3 DEF Walks, Walkers
<1>13. Held(s)' = Held(s)
  BY <1>9, SameHeld
<1> QED  BY <1>2, <1>10, <1>11, <1>12, <1>13 DEF IInvOf

\* The search moves an item.
LEMMA MatchStep ==
  ASSUME NEW s, IInvOf(s), MoveMatch
  PROVE  \E t, k : /\ IInvOf(t)' /\ scan.dst \in live /\ scan.src \in live \ {scan.dst}
                   /\ k \in 1..Len(Held(s)[scan.src]) /\ Held(s)[scan.src][k] \in Matching
                   /\ \A j \in 1..(k - 1) : Held(s)[scan.src][j] \notin Matching
                   /\ Held(t)' = [Held(s) EXCEPT ![scan.dst] = Append(Held(s)[scan.dst], Held(s)[scan.src][k]),
                                                 ![scan.src] = Without(Held(s)[scan.src], k)]
<1> PICK l, c, p, q : l = scan.dst /\ c = scan.src /\ p = C(s, l) /\ q = C(s, c)
  OBVIOUS
<1>1. Busy /\ ~Idle /\ Scanned # NULL /\ data[Scanned] \in Matching
  BY DEF MoveMatch, Scanning, Busy
<1>2. /\ HomesAre(s) /\ Walks(s)
      /\ scan \in [dst : live \ Stacks, src : live \ Stacks, at : Item \cup {NULL, HeadField}]
      /\ l \in Lists \ Stacks /\ c \in Lists \ Stacks
      /\ l # c /\ l \notin walking /\ c \notin walking
      /\ iter[c] = HeadField
      /\ \A j \in Lists \ {c} : tail[j] = LastOf(C(s, j))
  BY <1>1, Searching
<1>3. PICK m \in 0..Len(q) : Passed(q, m) /\ TailOrFreed(q, m) /\ Scanned = Following(q, m)
  BY <1>1, Searching
<1>4. /\ q \in Seq(Item) /\ Len(q) \in Nat /\ \A i \in 1..Len(q) : q[i] \in Item
      /\ p \in Seq(Item) /\ Len(p) \in Nat /\ (head[l] = NULL <=> p = <<>>)
  BY <1>2, HomeIs
<1>5. PICK k : k = m + 1
  OBVIOUS
<1>6. k \in 1..Len(q) /\ k - 1 = m /\ Scanned = q[k]
  <2>1. m < Len(q) /\ Scanned = q[m + 1]
    BY <1>1, <1>3 DEF Following
  <2> QED  BY <1>4, <1>5, <2>1
<1>7. PICK t, i : /\ HomesAre(t)' /\ C(t, l) = Append(p, i) /\ C(t, c) = Without(q, k)
                  /\ \A j \in Lists \ {l, c} : C(t, j) = C(s, j)
                  /\ i \in Item /\ \A j \in Lists : i \notin Members(C(s, j))
                  /\ data[q[k]] \in Matching
                  /\ data' \in [Item -> Data \cup {NULL}] /\ data'[i] = data[q[k]]
                  /\ \A x \in Item \ {i, q[k]} : data'[x] = data[x]
                  /\ tail' = [tail EXCEPT ![l] = i] /\ q[k] \in heap' /\ heap \ {i} \subseteq heap'
  <2>1. scan.at = Place(q, k - 1) /\ tail[l] = LastOf(p)
    BY <1>2, <1>3, <1>6 DEF Passed
  <2> QED  BY <1>2, <1>6, <2>1, MatchHomes
<1>8. /\ data \in [Item -> Datum] /\ data' \in [Item -> Datum] /\ tail \in [Lists -> Pointer]
      /\ iter \in [Lists -> Pointer \cup {HeadField}] /\ iter_idx \in [Lists -> Int]
  BY <1>2, <1>7 DEF HomesAre, Datum, Walks, Walkers
<1>9. /\ iter' = [iter EXCEPT ![l] = IF p = <<>> THEN HeadField ELSE @]
      /\ iter_idx' = iter_idx /\ live' = live /\ scan' = scan /\ walking' = walking
  BY <1>4 DEF MoveMatch
<1>10. /\ \A j \in Lists \ {c} : \A n \in 1..Len(C(s, j)) : data'[C(s, j)[n]] = data[C(s, j)[n]]
       /\ \A n \in 1..Len(q) : n # k => data'[q[n]] = data[q[n]]
       /\ data'[i] = data[q[k]]
  <2>1. HomesAre(s) /\ c \in Lists /\ k \in 1..Len(C(s, c))
    BY <1>2, <1>6
  <2>2. ASSUME NEW j \in Lists, NEW n \in 1..Len(C(s, j)), j # c \/ n # k
        PROVE  data'[C(s, j)[n]] = data[C(s, j)[n]]
    <3>1. C(s, j)[n] \in Item
      BY <2>1, HomeIs
    <3>2. C(s, j)[n] # i
      BY <1>7 DEF Members
    <3>3. C(s, j)[n] # q[k]
      BY <2>1, <2>2, ItemsApart
    <3> QED  BY <1>7, <3>1, <3>2, <3>3
  <2>3. \A n \in 1..Len(q) : n # k => data'[q[n]] = data[q[n]]
    BY <2>1, <2>2
  <2> QED  BY <1>7, <2>2, <2>3
<1>11. PICK r, o : r = Append(p, i) /\ o = Without(q, k)
  OBVIOUS
<1>12. /\ r \in Seq(Item) /\ Len(r) = Len(p) + 1 /\ r[Len(p) + 1] = i /\ r # <<>>
       /\ \A j \in 1..Len(p) : r[j] = p[j]
  <2>1. i \in Item
    BY <1>7
  <2>2. /\ r \in Seq(Item) /\ Len(r) = Len(p) + 1 /\ r[Len(p) + 1] = i
        /\ \A j \in 1..Len(p) : r[j] = p[j]
    BY <1>4, <1>11, <2>1
  <2>3. r # <<>>
    BY <1>4, <2>2
  <2> QED  BY <2>2, <2>3
<1>13. /\ o \in Seq(Item) /\ Len(o) = Len(q) - 1
       /\ \A j \in 1..(Len(q) - 1) : o[j] = IF j < k THEN q[j] ELSE q[j + 1]
       /\ k # Len(q) => o # <<>> /\ LastOf(o) = LastOf(q)
  <2>1. q \in Seq(Item) /\ k \in 1..Len(q)
    BY <1>4, <1>6
  <2>2. /\ o \in Seq(Item) /\ Len(o) = Len(q) - 1
        /\ \A j \in 1..(Len(q) - 1) : o[j] = IF j < k THEN q[j] ELSE q[j + 1]
    BY <1>11, <2>1, WithoutIs
  <2>3. k # Len(q) => o # <<>> /\ LastOf(o) = LastOf(q)
    BY <1>11, <2>1, WithoutEnds
  <2> QED  BY <2>2, <2>3
<1>14. Tails(t)'
  <2>1. \A j \in Lists \ {c} : tail'[j] = LastOf(C(t, j))
    <3>1. tail'[l] = i /\ LastOf(r) = i
      BY <1>2, <1>7, <1>8, <1>12 DEF LastOf
    <3>2. \A j \in Lists \ {l, c} : tail'[j] = LastOf(C(t, j))
      BY <1>2, <1>7, <1>8
    <3> QED  BY <1>7, <1>11, <3>1, <3>2
  <2>2. ~Idle'
    BY <1>1, <1>9 DEF Idle
  <2> QED  BY <1>9, <2>1, <2>2 DEF Tails
<1>15. Walks(t)'
  <2>1. /\ iter' \in [Lists -> Pointer \cup {HeadField}] /\ \A j \in Lists \ {l} : iter'[j] = iter[j]
        /\ iter'[l] = IF p = <<>> THEN HeadField ELSE iter[l]
    BY <1>2, <1>8, <1>9
  <2>2. WalkOf(l, r)'
    <3>1. /\ iter_idx[l] \in -1..Len(p)
          /\ iter_idx[l] >= 1 => iter[l] = p[iter_idx[l]]
          /\ iter_idx[l] < 1 => iter[l] = HeadField \/ (iter[l] = NULL /\ p = <<>>)
      BY <1>2 DEF Walks, WalkOf
    <3>2. iter_idx[l] \in -1..Len(r)
      BY <1>4, <1>12, <3>1
    <3>3. iter_idx[l] >= 1 => iter_idx[l] \in 1..Len(p) /\ p # <<>>
      BY <1>4, <3>1
    <3>4. iter_idx[l] >= 1 => iter'[l] = r[iter_idx[l]]
      BY <1>12, <2>1, <3>1, <3>3
    <3>5. iter_idx[l] < 1 => iter'[l] = HeadField
      BY <2>1, <3>1
    <3> QED  BY <1>2, <1>9, <3>2, <3>4, <3>5 DEF WalkOf
  <2>3. WalkOf(c, o)'
    <3>1. iter_idx[c] \in -1..Len(q) /\ (iter_idx[c] >= 1 => HeadField = q[iter_idx[c]])
      BY <1>2 DEF Walks, WalkOf
    <3>2. HeadField \notin Item
      BY ListAssumption DEF HeadField, Item
    <3>3. ~(iter_idx[c] >= 1)
      <4>1. iter_idx[c] >= 1 => iter_idx[c] \in 1..Len(q)
        BY <1>4, <3>1
      <4> QED  BY <1>4, <3>1, <3>2, <4>1
    <3>4. iter_idx[c] \in -1..Len(o)
      BY <1>4, <1>6, <1>13, <3>1, <3>3
    <3> QED  BY <1>2, <1>9, <2>1, <3>3, <3>4 DEF WalkOf
  <2>4. \A j \in Lists \ Stacks : WalkOf(j, C(t, j))'
    <3> SUFFICES ASSUME NEW j \in Lists \ Stacks PROVE WalkOf(j, C(t, j))'
      OBVIOUS
    <3>1. CASE j \in {l, c}
      BY <1>7, <1>11, <2>2, <2>3, <3>1
    <3>2. CASE j \notin {l, c}
      <4>1. /\ WalkOf(j, C(s, j)) /\ C(t, j) = C(s, j)
            /\ iter_idx'[j] = iter_idx[j] /\ iter'[j] = iter[j] /\ walking' = walking
        BY <1>2, <1>7, <1>9, <2>1, <3>2 DEF Walks
      <4> QED  BY <4>1, Zenon DEF WalkOf
    <3> QED  BY <3>1, <3>2
  <2>5. \A j \in Lists \ live' : C(t, j) = <<>>
    BY <1>2, <1>7, <1>9 DEF Walks
  <2>6. \A j \in Stacks : iter'[j] = HeadField
    BY <1>2, <2>1, ListAssumption DEF Walks
  <2> QED  BY <1>2, <1>9, <2>1, <2>4, <2>5, <2>6 DEF Walks, Walkers
<1>16. Scans(t)'
  <2>1. Passed(o, m)'
    <3>1. \A j \in 1..m : data'[o[j]] \notin Matching
      <4> SUFFICES ASSUME NEW j \in 1..m PROVE data'[o[j]] \notin Matching
        OBVIOUS
      <4>1. j \in 1..(Len(q) - 1) /\ j < k /\ j \in 1..Len(q)
        BY <1>4, <1>6
      <4>2. o[j] = q[j] /\ data'[q[j]] = data[q[j]] /\ data[q[j]] \notin Matching
        BY <1>2, <1>3, <1>6, <1>10, <1>13, <4>1 DEF Passed
      <4> QED  BY <4>2
    <3>2. Place(o, m) = Place(q, m)
      <4>1. m # 0 => m \in 1..(Len(q) - 1) /\ m < k
        BY <1>4, <1>6
      <4> QED  BY <1>13, <4>1 DEF Place
    <3> QED  BY <1>3, <1>9, <3>1, <3>2 DEF Passed
  <2>2. m \in 0..Len(o)
    BY <1>4, <1>6, <1>13
  <2>3. TailOrFreed(o, m)'
    <3>1. tail[c] = LastOf(q) /\ tail'[c] = tail[c]
      BY <1>2, <1>3, <1>4, <1>6, <1>7, <1>8 DEF TailOrFreed
    <3>2. CASE k = Len(q)
      <4>1. m = Len(o) /\ LastOf(q) = q[k] /\ q[k] \in heap'
        BY <1>4, <1>6, <1>7, <1>13, <3>2 DEF LastOf
      <4> QED  BY <1>9, <3>1, <4>1 DEF TailOrFreed
    <3>3. CASE k # Len(q)
      BY <1>9, <1>13, <3>1, <3>3 DEF TailOrFreed
    <3> QED  BY <3>2, <3>3
  <2>4. (\E j \in 0..Len(C(t, scan.src)) : Passed(C(t, scan.src), j) /\ TailOrFreed(C(t, scan.src), j))'
    BY <1>7, <1>9, <1>11, <2>1, <2>2, <2>3
  <2>5. (/\ scan.dst # scan.src /\ scan.dst \notin walking /\ scan.src \notin walking
         /\ iter[scan.src] = HeadField)'
    BY <1>2, <1>8, <1>9
  <2>6. (scan \in [dst : live \ Stacks, src : live \ Stacks, at : Item \cup {NULL, HeadField}])'
    BY <1>2, <1>9
  <2> QED  BY <2>4, <2>5, <2>6 DEF Scans
<1>17. IInvOf(t)'
  BY <1>7, <1>14, <1>15, <1>16 DEF IInvOf
<1>18. /\ Held(s)[c] = Value(q, data) /\ Held(s)[l] = Value(p, data)
       /\ Value(q, data) \in Seq(Datum) /\ Len(Value(q, data)) = Len(q)
       /\ \A j \in 1..Len(q) : Value(q, data)[j] = data[q[j]]
  <2>1. Held(s)[c] = Value(q, data) /\ Held(s)[l] = Value(p, data)
    BY <1>2 DEF Held
  <2> QED  BY <1>4, <1>8, <2>1, ValueIs
<1>19. /\ k \in 1..Len(Held(s)[c]) /\ Held(s)[c][k] \in Matching
       /\ \A j \in 1..(k - 1) : Held(s)[c][j] \notin Matching
  <2>1. \A j \in 1..(k - 1) : j \in 1..Len(q) /\ j \in 1..m
    BY <1>4, <1>6
  <2>2. k \in 1..Len(Held(s)[c])
    BY <1>6, <1>18
  <2>3. Held(s)[c][k] = data[q[k]]
    BY <1>6, <1>18
  <2>4. data[q[k]] \in Matching
    BY <1>7
  <2>5. ASSUME NEW j \in 1..(k - 1) PROVE Held(s)[c][j] \notin Matching
    <3>1. j \in 1..Len(q) /\ j \in 1..m
      BY <2>1
    <3>2. data[q[j]] \notin Matching
      BY <1>3, <3>1 DEF Passed
    <3> QED  BY <1>18, <3>1, <3>2
  <2> QED  BY <2>2, <2>3, <2>4, <2>5
<1>20. Value(r, data') = Append(Held(s)[l], Held(s)[c][k])
  <2>1. Value(Append(p, i), data') = Append(Value(p, data'), data'[i])
    <3>1. p \in Seq(Item) /\ i \in Item /\ data' \in [Item -> Datum]
      BY <1>4, <1>7, <1>8
    <3> QED  BY <3>1, ValueAppend, Zenon
  <2>2. Value(p, data') = Value(p, data)
    BY <1>2, <1>10, SameValue
  <2> QED  BY <1>6, <1>10, <1>11, <1>18, <2>1, <2>2
<1>21. Value(o, data') = Without(Held(s)[c], k)
  <2>1. Value(o, data') = [j \in 1..(Len(q) - 1) |-> data'[o[j]]]
    BY <1>13 DEF Value
  <2>2. Without(Held(s)[c], k) = [j \in 1..(Len(q) - 1) |-> IF j < k THEN Value(q, data)[j] ELSE Value(q, data)[j + 1]]
    BY <1>18 DEF Without
  <2>3. ASSUME NEW j \in 1..(Len(q) - 1)
        PROVE  data'[o[j]] = IF j < k THEN Value(q, data)[j] ELSE Value(q, data)[j + 1]
    <3>1. j \in 1..Len(q) /\ j + 1 \in 1..Len(q) /\ (j < k => j # k) /\ (~(j < k) => j + 1 # k)
      BY <1>4, <1>6
    <3>2. \A n \in 1..Len(q) : n # k => data'[q[n]] = Value(q, data)[n]
      BY <1>2, <1>10, <1>18
    <3> QED  BY <1>13, <3>1, <3>2
  <2> QED  BY <2>1, <2>2, <2>3
<1>22. Held(t)' = [Held(s) EXCEPT ![l] = Append(Held(s)[l], Held(s)[c][k]), ![c] = Without(Held(s)[c], k)]
  <2>1. Kept(s, t, {l, c})
    BY <1>7, <1>10 DEF Kept
  <2>2. HomesAre(s) /\ HomesAre(t)' /\ l \in Lists /\ c \in Lists /\ l # c
    BY <1>2, <1>7
  <2>3. Held(t)' = [Held(s) EXCEPT ![l] = Value(C(t, l), data'), ![c] = Value(C(t, c), data')]
    BY <2>1, <2>2, TwoHold
  <2> QED  BY <1>7, <1>11, <1>20, <1>21, <2>3
<1>23. scan.dst \in live /\ scan.src \in live \ {scan.dst}
  BY <1>2
<1> QED  BY <1>17, <1>19, <1>22, <1>23

\* new_list.
LEMMA CreateStep ==
  ASSUME NEW s, IInvOf(s), NEW l \in Lists \ (Embedded \cup Stacks), Create(l)
  PROVE  IInvOf(s)' /\ Held(s)' = Held(s)
<1>1. /\ HomesAre(s) /\ Walks(s) /\ Walkers /\ Idle /\ l \notin live
      /\ C(s, l) = <<>> /\ tail[l] = LastOf(C(s, l))
  BY DEF IInvOf, Tails, Walks, Create
<1>2. /\ live' = live \cup {l} /\ iter' = [iter EXCEPT ![l] = HeadField]
      /\ iter_idx' = [iter_idx EXCEPT ![l] = -1] /\ scan' = scan /\ walking' = walking
      /\ UNCHANGED <<chains, pools, items>> /\ tail' = tail /\ data' = data
  BY DEF Create, chains, items
<1>3. /\ iter' \in [Lists -> Pointer \cup {HeadField}] /\ iter_idx' \in [Lists -> Int]
      /\ iter'[l] = HeadField /\ iter_idx'[l] = -1
      /\ \A k \in Lists \ {l} : iter'[k] = iter[k] /\ iter_idx'[k] = iter_idx[k]
  BY <1>1, <1>2 DEF Walkers
<1>4. HomesAre(s)' /\ Held(s)' = Held(s)
  BY <1>1, <1>2, SameHomes, SameHeld
<1>5. Idle'
  BY <1>1, <1>2 DEF Idle
<1>6. Untouched(s, s, {l})
  BY <1>2, <1>3 DEF Untouched
<1>7. WalkOf(l, C(s, l))'
  <2>1. l \notin walking'
    BY <1>1, <1>2 DEF Walkers
  <2> QED  BY <1>1, <1>3, <2>1 DEF WalkOf
<1>8. Settled(s, {l})'
  BY <1>1, <1>2, <1>3, <1>7 DEF Settled
<1>9. Walkers'
  BY <1>1, <1>2, <1>3 DEF Walkers
<1>10. IInvOf(s)'
  BY <1>1, <1>4, <1>5, <1>6, <1>8, <1>9, OnlyChanges
<1> QED  BY <1>4, <1>10

\* list_set_iterator.
LEMMA SetIteratorStep ==
  ASSUME NEW s, IInvOf(s), NEW l \in live \ Stacks, NEW k \in Nat, SetIterator(l, k)
  PROVE  /\ IInvOf(s)' /\ Held(s)' = Held(s)
         /\ IF k < Len(Held(s)[l])
            THEN walking' = walking \cup {l} /\ iter_idx' = [iter_idx EXCEPT ![l] = k]
            ELSE walking' = walking /\ iter_idx' = iter_idx
<1> PICK c : c = C(s, l)
  OBVIOUS
<1>1. /\ HomesAre(s) /\ Walks(s) /\ Walkers /\ Idle /\ l \in Lists /\ l \notin Stacks
      /\ WalkOf(l, c) /\ tail[l] = LastOf(c)
  BY DEF IInvOf, Tails, Walks, Walkers, SetIterator
<1>2. /\ c \in Seq(Item) /\ Len(c) \in Nat /\ size[l] = Len(c) /\ (head[l] = NULL <=> c = <<>>)
      /\ \A i \in 1..Len(c) : c[i] \in Item
  BY <1>1, HomeIs
<1>3. Len(Held(s)[l]) = Len(c)
  BY <1>1, <1>2 DEF Held, Value
<1>4. /\ UNCHANGED <<chains, pools, items>> /\ live' = live /\ scan' = scan
      /\ tail' = tail /\ data' = data
  BY DEF SetIterator, chains, items
<1>5. HomesAre(s)' /\ Held(s)' = Held(s)
  BY <1>1, <1>4, SameHomes, SameHeld
<1>6. Idle'
  BY <1>1, <1>4 DEF Idle
<1>7. CASE ~(k < Len(c))
  <2>1. UNCHANGED <<iterator, walking>>
    BY <1>2, <1>7 DEF SetIterator
  <2>2. walking' = walking /\ iter_idx' = iter_idx
    BY <2>1 DEF iterator
  <2>3. Walks(s)' /\ Tails(s)' /\ Scans(s)'
    BY <1>1, <1>4, <1>6, <2>1, SameWalks DEF IInvOf, Tails, Scans
  <2> QED  BY <1>3, <1>5, <1>7, <2>2, <2>3 DEF IInvOf
<1>8. CASE k < Len(c)
  <2>1. c # <<>> /\ walking' = walking \cup {l}
    BY <1>2, <1>8 DEF SetIterator
  <2>2. /\ iter_idx[l] \in -1..Len(c) /\ (iter_idx[l] >= 1 => iter[l] = c[iter_idx[l]])
        /\ (iter_idx[l] < 1 => iter[l] = HeadField)
    BY <1>1, <2>1 DEF WalkOf
  <2>3. iter' = [iter EXCEPT ![l] = Place(c, k)] /\ iter_idx' = [iter_idx EXCEPT ![l] = k]
    <3>1. CASE iter_idx[l] = k
      <4>1. iter' = iter /\ iter_idx' = iter_idx
        BY <1>2, <1>8, <3>1 DEF SetIterator, iterator
      <4>2. iter[l] = Place(c, k)
        BY <2>2, <3>1 DEF Place
      <4> QED  BY <1>1, <3>1, <4>1, <4>2 DEF Walkers
    <3>2. CASE iter_idx[l] # k
      <4> PICK p : p = IF Restart(l, k) THEN 0 ELSE iter_idx[l]
        OBVIOUS
      <4>1. p \in Nat /\ p <= k
        BY <2>2 DEF Restart
      <4>2. (IF Restart(l, k) THEN HeadField ELSE iter[l]) = Place(c, p)
        BY <2>2 DEF Restart, Place
      <4>3. /\ iter' = [iter EXCEPT ![l] = StepsFrom(l, Place(c, p), StepCount(p, k))]
            /\ iter_idx' = [iter_idx EXCEPT ![l] = k]
        <5>1. ~(head[l] = NULL \/ k >= size[l])
          BY <1>2, <1>8, <2>1
        <5> QED  BY <3>2, <4>2, <5>1, Zenon DEF SetIterator
      <4>4. k - p \in Nat /\ p + (k - p) = k
        BY <4>1
      <4>5. StepsFrom(l, Place(c, p), k - p) = Place(c, k)
        <5>1. p + (k - p) <= Len(C(s, l))
          BY <1>2, <1>8, <4>4
        <5> QED  BY <1>1, <4>1, <4>4, <5>1, StepsIs
      <4> QED  BY <4>3, <4>5 DEF StepCount
    <3> QED  BY <3>1, <3>2
  <2>4. Place(c, k) \in Pointer \cup {HeadField} /\ (k = 0 => Place(c, k) = HeadField) /\ (k >= 1 => Place(c, k) = c[k])
    <3>1. k >= 1 => k \in 1..Len(c)
      BY <1>2, <1>8
    <3> QED  BY <1>2, <3>1 DEF Place, Pointer
  <2>5. /\ iter' \in [Lists -> Pointer \cup {HeadField}] /\ iter_idx' \in [Lists -> Int]
        /\ iter'[l] = Place(c, k) /\ iter_idx'[l] = k
        /\ \A j \in Lists \ {l} : iter'[j] = iter[j] /\ iter_idx'[j] = iter_idx[j]
    BY <1>1, <2>3, <2>4 DEF Walkers
  <2>6. Untouched(s, s, {l})
    BY <1>4, <2>1, <2>5 DEF Untouched
  <2>7. WalkOf(l, c)'
    BY <1>2, <1>8, <2>1, <2>4, <2>5 DEF WalkOf
  <2>8. Settled(s, {l})'
    BY <1>1, <1>4, <2>7 DEF Settled
  <2>9. Walkers'
    BY <1>1, <1>4, <2>1, <2>5 DEF Walkers
  <2>10. IInvOf(s)'
    BY <1>1, <1>5, <1>6, <2>6, <2>8, <2>9, OnlyChanges
  <2> QED  BY <1>3, <1>5, <1>8, <2>1, <2>3, <2>10
<1> QED  BY <1>7, <1>8

\* list_get_next.
LEMMA GetNextStep ==
  ASSUME NEW s, IInvOf(s), NEW l \in live \ Stacks, l \in walking \/ iter_idx[l] < 0, GetNext(l)
  PROVE  /\ IInvOf(s)' /\ Held(s)' = Held(s) /\ live' = live /\ walking' = walking
         /\ IF l \in walking /\ iter_idx[l] < Len(Held(s)[l])
            THEN /\ ret' = Held(s)[l][iter_idx[l] + 1]
                 /\ iter_idx' = [iter_idx EXCEPT ![l] = iter_idx[l] + 1]
            ELSE ret' = NULL /\ iter_idx' = iter_idx
<1> PICK c, x : c = C(s, l) /\ x = iter_idx[l]
  OBVIOUS
<1>1. /\ HomesAre(s) /\ Walks(s) /\ Walkers /\ Idle /\ l \in Lists /\ l \notin Stacks
      /\ WalkOf(l, c) /\ tail[l] = LastOf(c)
  BY DEF IInvOf, Tails, Walks, Walkers, GetNext
<1>2. /\ c \in Seq(Item) /\ Len(c) \in Nat /\ size[l] = Len(c) /\ (head[l] = NULL <=> c = <<>>)
      /\ head[l] = First(c) /\ \A i \in 1..Len(c) : c[i] \in Item
  BY <1>1, HomeIs
<1>3. Held(s)[l] = Value(c, data)
  BY <1>1 DEF Held
<1>4. Len(Value(c, data)) = Len(c) /\ \A i \in 1..Len(c) : Value(c, data)[i] = data[c[i]]
  BY <1>2 DEF Value
<1>5. /\ UNCHANGED <<chains, pools, items>> /\ live' = live /\ scan' = scan
      /\ tail' = tail /\ data' = data /\ walking' = walking
  BY DEF GetNext, chains, items
<1>6. HomesAre(s)' /\ Held(s)' = Held(s)
  BY <1>1, <1>5, SameHomes, SameHeld
<1>7. Idle'
  BY <1>1, <1>5 DEF Idle
<1>8. /\ x \in -1..Len(c) /\ (x >= 1 => iter[l] = c[x])
      /\ (l \in walking => x >= 0 /\ c # <<>>)
  BY <1>1 DEF WalkOf
<1>9. CASE ~(l \in walking /\ x < Len(c))
  <2>1. head[l] = NULL \/ iter_idx[l] >= size[l] \/ iter_idx[l] < 0
    BY <1>2, <1>8, <1>9
  <2>2. ret' = NULL /\ UNCHANGED iterator
    BY <2>1 DEF GetNext
  <2>3. UNCHANGED <<iterator, live, walking>> /\ iter_idx' = iter_idx
    BY <1>5, <2>2 DEF iterator
  <2>4. Walks(s)' /\ Tails(s)' /\ Scans(s)'
    BY <1>1, <1>5, <1>7, <2>3, SameWalks DEF IInvOf, Tails, Scans
  <2> QED  BY <1>3, <1>4, <1>5, <1>6, <1>9, <2>2, <2>3, <2>4 DEF IInvOf
<1>10. CASE l \in walking /\ x < Len(c)
  <2>1. c # <<>> /\ x \in 0..Len(c) /\ x + 1 \in 1..Len(c)
    BY <1>2, <1>8, <1>10
  <2>2. (IF x = 0 THEN head[l] ELSE Deref(l, iter[l])) = c[x + 1]
    <3>1. CASE x = 0
      BY <1>2, <2>1, <3>1 DEF First
    <3>2. CASE x # 0
      <4>1. iter[l] = Place(c, x)
        BY <1>8, <2>1, <3>2 DEF Place
      <4>2. Deref(l, Place(c, x)) = Following(c, x)
        BY <1>1, <2>1, PlaceIs
      <4> QED  BY <1>10, <3>2, <4>1, <4>2 DEF Following
    <3> QED  BY <3>1, <3>2
  <2>3. /\ ret' = data[c[x + 1]] /\ iter' = [iter EXCEPT ![l] = c[x + 1]]
        /\ iter_idx' = [iter_idx EXCEPT ![l] = iter_idx[l] + 1]
    <3>1. ~(head[l] = NULL \/ iter_idx[l] >= size[l] \/ iter_idx[l] < 0)
      BY <1>2, <1>10, <2>1
    <3>2. LET i == IF iter_idx[l] = 0 THEN head[l] ELSE Deref(l, iter[l])
          IN /\ ret' = data[i]
             /\ iter' = [iter EXCEPT ![l] = i]
             /\ iter_idx' = [iter_idx EXCEPT ![l] = @ + 1]
      BY <3>1, Zenon DEF GetNext
    <3> QED  BY <2>2, <3>2
  <2>4. c[x + 1] \in Pointer
    BY <1>2, <2>1 DEF Pointer
  <2>5. /\ iter' \in [Lists -> Pointer \cup {HeadField}] /\ iter_idx' \in [Lists -> Int]
        /\ iter'[l] = c[x + 1] /\ iter_idx'[l] = x + 1
        /\ \A j \in Lists \ {l} : iter'[j] = iter[j] /\ iter_idx'[j] = iter_idx[j]
    BY <1>1, <2>1, <2>3, <2>4 DEF Walkers
  <2>6. Untouched(s, s, {l})
    BY <1>5, <2>5 DEF Untouched
  <2>7. WalkOf(l, c)'
    BY <1>2, <2>1, <2>5 DEF WalkOf
  <2>8. Settled(s, {l})'
    BY <1>1, <1>5, <2>7 DEF Settled
  <2>9. Walkers'
    BY <1>1, <1>5, <2>5 DEF Walkers
  <2>10. IInvOf(s)'
    BY <1>1, <1>6, <1>7, <2>6, <2>8, <2>9, OnlyChanges
  <2>11. ret' = Held(s)[l][iter_idx[l] + 1]
    BY <1>3, <1>4, <2>1, <2>3
  <2> QED  BY <1>3, <1>4, <1>5, <1>6, <1>10, <2>3, <2>10, <2>11
<1> QED  BY <1>9, <1>10

\* The first state: no list has items.
LEMMA InitHolds ==
  ASSUME Init
  PROVE  IInv
<1> PICK s : s = [k \in Key |-> <<>>]
  OBVIOUS
<1>1. /\ head = [l \in Lists |-> NULL] /\ tail = [l \in Lists |-> NULL]
      /\ size = [l \in Lists |-> 0] /\ pool = [l \in Lists |-> NULL] /\ pool_size = [l \in Lists |-> 0]
      /\ iter = [l \in Lists |-> IF l \in Embedded THEN NULL ELSE HeadField]
      /\ iter_idx = [l \in Lists |-> IF l \in Embedded THEN 0 ELSE -1]
      /\ next = [i \in Item |-> NULL] /\ data = [i \in Item |-> NULL] /\ heap = Item
      /\ live = Embedded \cup Stacks /\ scan = NoScan /\ walking = {}
  BY DEF Init
<1>2. \A l \in Lists : C(s, l) = <<>> /\ Q(s, l) = <<>>
  BY Keys DEF C, Q
<1>3. HomesAre(s)
  <2>1. \A k \in Key : s[k] = <<>>
    OBVIOUS
  <2>2. Linked(s, heap, next)
    BY <1>1, <2>1 DEF Linked, Strung, Apart, Pointer
  <2>3. First(<<>>) = NULL /\ Len(<<>>) = 0
    BY DEF First
  <2> QED  BY <1>1, <1>2, <2>2, <2>3 DEF HomesAre, Pointer
<1>4. Tails(s)
  BY <1>1, <1>2 DEF Tails, LastOf
<1>5. Walks(s)
  <2>1. Walkers
    BY <1>1, ListAssumption DEF Walkers, Pointer
  <2>2. \A l \in Stacks : iter[l] = HeadField
    BY <1>1, ListAssumption
  <2>3. \A l \in Lists : WalkOf(l, C(s, l))
    BY <1>1, <1>2 DEF WalkOf
  <2> QED  BY <1>2, <2>1, <2>2, <2>3 DEF Walks
<1>6. Scans(s)
  BY <1>1 DEF Scans, Idle
<1>7. s = Read
  BY <1>3, HomesTold DEF Told
<1> QED  BY <1>3, <1>4, <1>5, <1>6, <1>7 DEF IInv, IInvOf

-----------------------------------------------------------------------------
(* The lists are sequences with a cursor.                                   *)

\* The invariant without its reading of the chains.
Ind == \E s : IInvOf(s)

\* It is the invariant.
LEMMA IndIs == Ind <=> IInv
<1>1. ASSUME NEW s, IInvOf(s) PROVE IInvOf(Read)
  <2>1. s = Read
    BY <1>1, HomesTold DEF IInvOf, Told
  <2> QED  BY <1>1, <2>1
<1> QED  BY <1>1 DEF Ind, IInv

\* What a call finds ...
LEMMA Before ==
  ASSUME NEW s, IInvOf(s)
  PROVE  /\ HomesAre(s) /\ Contents = Held(s) /\ Walkers /\ live \subseteq Lists
         /\ \A l \in live : l \in Lists
         /\ \A l \in Stacks : l \notin walking
         /\ \A l \in Lists : l \notin live => l \notin walking
<1>1. HomesAre(s) /\ Walkers
  BY DEF IInvOf, Walks
<1>2. Contents = Held(s)
  BY <1>1, ContentsAre DEF HoldsTold
<1> QED  BY <1>1, <1>2 DEF Walkers

\* ... and what it leaves.
LEMMA After ==
  ASSUME NEW t, IInvOf(t)'
  PROVE  Ind' /\ Contents' = Held(t)'
<1>1. Ind'
  BY DEF Ind
<1>2. HomesAre(t)'
  BY DEF IInvOf
<1>3. Contents' = Held(t)'
  BY <1>2, ContentsAreNext DEF HoldsTold
<1> QED  BY <1>1, <1>3

\* A call ends the walks of the lists S ...
LEMMA CursorEnds ==
  ASSUME NEW S, walking' = walking \ S, \A k \in walking \ S : iter_idx'[k] = iter_idx[k]
  PROVE  Cursor' = [l \in Lists |-> IF l \in S THEN -1 ELSE Cursor[l]]
BY DEF Cursor

\* ... or none.
LEMMA CursorStays ==
  ASSUME walking' = walking, \A k \in walking : iter_idx'[k] = iter_idx[k]
  PROVE  Cursor' = Cursor
BY DEF Cursor

\* A call that changes no list and answers nothing is the end of no walk.
LEMMA NothingNext ==
  ASSUME NEW l \in Lists, l \in live, l \notin walking,
         Contents' = Contents, Cursor' = Cursor, live' = live, ret' = NULL
  PROVE  Abstract!Next
<1>1. Cursor[l] = -1
  BY DEF Cursor
<1>2. Abstract!GetNext(l)
  BY <1>1 DEF Abstract!GetNext, Abstract!Unset
<1> QED  BY <1>2, Zenon DEF Abstract!Next

\* A pair of lists, in either order.
LEMMA TwoChanges ==
  ASSUME NEW f, NEW l, NEW c, l # c, NEW a, NEW b
  PROVE  [f EXCEPT ![l] = a, ![c] = b] = [f EXCEPT ![c] = b, ![l] = a]
OBVIOUS

\* What stacks do.
LEMMA StackCallsHold ==
  ASSUME NEW s, IInvOf(s), NEW l \in Stacks, StackCalls(l)
  PROVE  Ind' /\ Abstract!Next
<1>1. /\ HomesAre(s) /\ Contents = Held(s) /\ Walkers
      /\ l \in Lists /\ l \in live /\ l \notin walking
      /\ \A c \in Lists : c \notin live => c \notin walking
  BY Before, ListAssumption DEF Walkers
<1>2. Cursor[l] = -1 /\ Cursor = [k \in Lists |-> Cursor[k]]
  BY <1>1 DEF Cursor
<1>3. ASSUME NEW d \in Data, Push(l, d) PROVE Ind' /\ Abstract!Next
  <2>1. PICK t : IInvOf(t)' /\ Held(t)' = [Held(s) EXCEPT ![l] = <<d>> \o Held(s)[l]]
    BY <1>3, PushStep
  <2>2. Ind' /\ Contents' = [Contents EXCEPT ![l] = <<d>> \o Contents[l]]
    BY <1>1, <2>1, After
  <2>3. walking' = walking /\ live' = live /\ ret' = NULL
        /\ \A k \in Lists \ {l} : iter_idx'[k] = iter_idx[k]
    BY <1>1, <1>3 DEF Push, Walkers
  <2>4. Cursor' = [k \in Lists |-> IF k \in {l} THEN -1 ELSE Cursor[k]]
    <3>1. walking' = walking \ {l} /\ \A k \in walking \ {l} : iter_idx'[k] = iter_idx[k]
      BY <1>1, <2>3 DEF Walkers
    <3> QED  BY <3>1, CursorEnds
  <2>5. Abstract!Push(l, d)
    BY <2>2, <2>3, <2>4 DEF Abstract!Push, Abstract!Became, Abstract!EndWalk, Abstract!Unset
  <2> QED  BY <1>1, <2>2, <2>5, Zenon DEF Abstract!Next
<1>4. ASSUME Shift(l) PROVE Ind' /\ Abstract!Next
  <2>1. PICK t : /\ IInvOf(t)' /\ Held(t)' = [Held(s) EXCEPT ![l] = Tail(Held(s)[l])]
                 /\ Held(s)[l] # <<>> /\ ret' = Head(Held(s)[l])
    BY <1>4, ShiftStep
  <2>2. /\ Ind' /\ Contents' = [Contents EXCEPT ![l] = Tail(Contents[l])]
        /\ Contents[l] # <<>> /\ ret' = Head(Contents[l])
    BY <1>1, <2>1, After
  <2>3. walking' = walking /\ live' = live /\ \A k \in Lists \ {l} : iter_idx'[k] = iter_idx[k]
    BY <1>1, <1>4 DEF Shift, Walkers
  <2>4. Cursor' = [k \in Lists |-> IF k \in {l} THEN -1 ELSE Cursor[k]]
    <3>1. walking' = walking \ {l} /\ \A k \in walking \ {l} : iter_idx'[k] = iter_idx[k]
      BY <1>1, <2>3 DEF Walkers
    <3> QED  BY <3>1, CursorEnds
  <2>5. Abstract!Shift(l)
    BY <2>2, <2>3, <2>4 DEF Abstract!Shift, Abstract!Became, Abstract!EndWalk, Abstract!Unset
  <2> QED  BY <1>1, <2>2, <2>5, Zenon DEF Abstract!Next
<1>5. ASSUME NEW c \in Lists \ Stacks, NEW k \in Nat, Chop(l, c, k) PROVE Ind' /\ Abstract!Next
  <2>1. PICK t, m : /\ IInvOf(t)' /\ m \in 1..Len(Held(s)[l]) /\ Held(s)[l] # <<>>
                    /\ Held(t)' = [Held(s) EXCEPT ![l] = Back(Held(s)[l], m), ![c] = Front(Held(s)[l], m)]
    BY <1>5, ChopStep
  <2>2. Ind' /\ Contents' = [Contents EXCEPT ![l] = Back(Contents[l], m), ![c] = Front(Contents[l], m)]
    BY <1>1, <2>1, After
  <2>3. Contents' = [Contents EXCEPT ![c] = SubSeq(Contents[l], 1, m),
                                     ![l] = SubSeq(Contents[l], m + 1, Len(Contents[l]))]
    <3>1. c # l
      OBVIOUS
    <3>2. Contents' = [Contents EXCEPT ![c] = Front(Contents[l], m), ![l] = Back(Contents[l], m)]
      BY <2>2, <3>1, TwoChanges
    <3> QED  BY <3>2 DEF Front, Back
  <2>4. m \in 1..Len(Contents[l]) /\ Contents[l] # <<>> /\ Len(Contents[l]) \in Nat
    <3>1. Len(Contents[l]) = Len(C(s, l)) /\ Len(C(s, l)) \in Nat
      <4>1. Len(C(s, l)) \in Nat
        BY <1>1, HomeIs
      <4> QED  BY <1>1, <4>1 DEF Held, Value
    <3> QED  BY <1>1, <2>1, <3>1
  <2>5. (IF m < Len(Contents[l]) THEN m ELSE Len(Contents[l])) = m /\ m > 0
    BY <2>4
  <2>6. /\ c \notin live /\ live' = live \cup {c} /\ walking' = walking /\ ret' = NULL
        /\ \A j \in Lists \ {c} : iter_idx'[j] = iter_idx[j]
    BY <1>1, <1>5 DEF Chop, Walkers
  <2>7. Cursor' = [j \in Lists |-> IF j \in {l, c} THEN -1 ELSE Cursor[j]]
    <3>1. walking' = walking \ {l, c} /\ \A j \in walking \ {l, c} : iter_idx'[j] = iter_idx[j]
      BY <1>1, <2>6 DEF Walkers
    <3> QED  BY <3>1, CursorEnds
  <2>8. Abstract!Chop(l, c, m)
    BY <2>3, <2>4, <2>5, <2>6, <2>7 DEF Abstract!Chop, Abstract!EndWalk, Abstract!Unset
  <2> QED  BY <1>1, <2>2, <2>4, <2>8, Zenon DEF Abstract!Next
<1>6. \A k \in 1..(size[l] + 1) : k \in Nat
  OBVIOUS
<1> QED  BY <1>3, <1>4, <1>5, <1>6 DEF StackCalls

\* A list that did not change.
LEMMA SameContents ==
  ASSUME NEW s, IInvOf(s), IInvOf(s)', Held(s)' = Held(s)
  PROVE  Ind' /\ Contents' = Contents
<1>1. Contents = Held(s)
  BY Before
<1>2. Ind' /\ Contents' = Held(s)'
  BY After
<1> QED  BY <1>1, <1>2

\* What other lists do on their own ...
LEMMA ListCallsHold ==
  ASSUME NEW s, IInvOf(s), NEW l \in live \ Stacks,
         \/ \E d \in Data : Append_(l, d)
         \/ (l \in walking \/ iter_idx[l] < 0) /\ GetNext(l)
         \/ \E k \in 0..size[l] : SetIterator(l, k)
         \/ l \notin Embedded /\ (Clear(l) \/ Free(l))
  PROVE  Ind' /\ Abstract!Next
<1>1. HomesAre(s) /\ Contents = Held(s) /\ Walkers /\ l \in Lists /\ l \in live
  BY Before
<1>2. Cursor[l] = IF l \in walking THEN iter_idx[l] ELSE -1
  BY <1>1 DEF Cursor
<1>3. Len(Contents[l]) = Len(C(s, l)) /\ Len(C(s, l)) \in Nat /\ size[l] = Len(C(s, l))
  <2>1. Len(C(s, l)) \in Nat /\ size[l] = Len(C(s, l))
    BY <1>1, HomeIs
  <2> QED  BY <1>1, <2>1 DEF Held, Value
<1>4. ASSUME NEW d \in Data, Append_(l, d) PROVE Ind' /\ Abstract!Next
  <2>1. PICK t : IInvOf(t)' /\ Held(t)' = [Held(s) EXCEPT ![l] = Append(Held(s)[l], d)]
    BY <1>4, AppendStep
  <2>2. Ind' /\ Contents' = [Contents EXCEPT ![l] = Append(Contents[l], d)]
    BY <1>1, <2>1, After
  <2>3. walking' = walking /\ iter_idx' = iter_idx /\ live' = live /\ ret' = NULL
    BY <1>4 DEF Append_
  <2>4. Cursor' = Cursor
    BY <2>3, CursorStays
  <2>5. Abstract!Append_(l, d)
    BY <2>2, <2>3, <2>4 DEF Abstract!Append_, Abstract!Became
  <2> QED  BY <1>1, <2>2, <2>5, Zenon DEF Abstract!Next
<1>5. ASSUME l \in walking \/ iter_idx[l] < 0, GetNext(l) PROVE Ind' /\ Abstract!Next
  <2>1. /\ IInvOf(s)' /\ Held(s)' = Held(s) /\ live' = live /\ walking' = walking
        /\ IF l \in walking /\ iter_idx[l] < Len(Held(s)[l])
           THEN /\ ret' = Held(s)[l][iter_idx[l] + 1]
                /\ iter_idx' = [iter_idx EXCEPT ![l] = iter_idx[l] + 1]
           ELSE ret' = NULL /\ iter_idx' = iter_idx
    BY <1>5, GetNextStep
  <2>2. Ind' /\ Contents' = Contents
    BY <2>1, SameContents
  <2>3. l \in walking => iter_idx[l] >= 0 /\ iter_idx[l] \in Int
    BY <1>1 DEF IInvOf, Walks, Walkers, WalkOf
  <2>4. CASE l \in walking /\ iter_idx[l] < Len(Contents[l])
    <3>1. ret' = Contents[l][Cursor[l] + 1] /\ iter_idx' = [iter_idx EXCEPT ![l] = iter_idx[l] + 1]
      BY <1>1, <1>2, <2>1, <2>4
    <3>2. Cursor' = [Cursor EXCEPT ![l] = Cursor[l] + 1]
      BY <1>1, <1>2, <2>1, <2>4, <3>1 DEF Cursor, Walkers
    <3>3. Cursor[l] # -1 /\ Cursor[l] < Len(Contents[l])
      BY <1>2, <2>3, <2>4
    <3>4. Abstract!GetNext(l)
      BY <2>1, <2>2, <3>1, <3>2, <3>3 DEF Abstract!GetNext, Abstract!Unset
    <3> QED  BY <1>1, <2>2, <3>4, Zenon DEF Abstract!Next
  <2>5. CASE ~(l \in walking /\ iter_idx[l] < Len(Contents[l]))
    <3>1. ret' = NULL /\ iter_idx' = iter_idx
      BY <1>1, <2>1, <2>5
    <3>2. Cursor' = Cursor
      BY <2>1, <3>1, CursorStays
    <3>3. ~(Cursor[l] # -1 /\ Cursor[l] < Len(Contents[l]))
      BY <1>2, <2>5
    <3>4. Abstract!GetNext(l)
      BY <2>1, <2>2, <3>1, <3>2, <3>3 DEF Abstract!GetNext, Abstract!Unset
    <3> QED  BY <1>1, <2>2, <3>4, Zenon DEF Abstract!Next
  <2> QED  BY <2>4, <2>5
<1>6. ASSUME NEW k \in 0..size[l], SetIterator(l, k) PROVE Ind' /\ Abstract!Next
  <2>1. k \in Nat /\ k \in 0..Len(Contents[l])
    BY <1>3
  <2>2. /\ IInvOf(s)' /\ Held(s)' = Held(s)
        /\ IF k < Len(Held(s)[l])
           THEN walking' = walking \cup {l} /\ iter_idx' = [iter_idx EXCEPT ![l] = k]
           ELSE walking' = walking /\ iter_idx' = iter_idx
    BY <1>6, <2>1, SetIteratorStep
  <2>3. Ind' /\ Contents' = Contents
    BY <2>2, SameContents
  <2>4. live' = live /\ ret' = NULL
    BY <1>6 DEF SetIterator
  <2>5. Cursor' = IF k < Len(Contents[l]) THEN [Cursor EXCEPT ![l] = k] ELSE Cursor
    <3>1. CASE k < Len(Contents[l])
      <4>1. walking' = walking \cup {l} /\ iter_idx' = [iter_idx EXCEPT ![l] = k]
        BY <1>1, <2>2, <3>1
      <4> QED  BY <1>1, <3>1, <4>1 DEF Cursor, Walkers
    <3>2. CASE ~(k < Len(Contents[l]))
      <4>1. walking' = walking /\ iter_idx' = iter_idx
        BY <1>1, <2>2, <3>2
      <4>2. Cursor' = Cursor
        BY <4>1, CursorStays
      <4> QED  BY <3>2, <4>2
    <3> QED  BY <3>1, <3>2
  <2>6. Abstract!SetIterator(l, k)
    BY <2>3, <2>4, <2>5 DEF Abstract!SetIterator
  <2> QED  BY <1>1, <2>1, <2>3, <2>6, Zenon DEF Abstract!Next
<1>7. ASSUME Clear(l) PROVE Ind' /\ Abstract!Next
  <2>1. PICK t : IInvOf(t)' /\ Held(t)' = [Held(s) EXCEPT ![l] = <<>>]
    BY <1>7, ClearStep
  <2>2. Ind' /\ Contents' = [Contents EXCEPT ![l] = <<>>]
    BY <1>1, <2>1, After
  <2>3. /\ walking' = walking \ {l} /\ live' = live /\ ret' = NULL
        /\ \A k \in Lists \ {l} : iter_idx'[k] = iter_idx[k]
    BY <1>1, <1>7 DEF Clear, Walkers
  <2>4. Cursor' = [k \in Lists |-> IF k \in {l} THEN -1 ELSE Cursor[k]]
    <3>1. \A k \in walking \ {l} : iter_idx'[k] = iter_idx[k]
      BY <1>1, <2>3 DEF Walkers
    <3> QED  BY <2>3, <3>1, CursorEnds
  <2>5. Abstract!Clear(l)
    BY <2>2, <2>3, <2>4 DEF Abstract!Clear, Abstract!Became, Abstract!EndWalk, Abstract!Unset
  <2> QED  BY <1>1, <2>2, <2>5, Zenon DEF Abstract!Next
<1>8. ASSUME l \notin Embedded, Free(l) PROVE Ind' /\ Abstract!Next
  <2>1. PICK t : IInvOf(t)' /\ Held(t)' = [Held(s) EXCEPT ![l] = <<>>]
    BY <1>8, FreeStep
  <2>2. Ind' /\ Contents' = [Contents EXCEPT ![l] = <<>>]
    BY <1>1, <2>1, After
  <2>3. /\ walking' = walking \ {l} /\ live' = live \ {l} /\ ret' = NULL
        /\ \A k \in Lists \ {l} : iter_idx'[k] = iter_idx[k]
    BY <1>1, <1>8 DEF Free, Walkers
  <2>4. Cursor' = [k \in Lists |-> IF k \in {l} THEN -1 ELSE Cursor[k]]
    <3>1. \A k \in walking \ {l} : iter_idx'[k] = iter_idx[k]
      BY <1>1, <2>3 DEF Walkers
    <3> QED  BY <2>3, <3>1, CursorEnds
  <2>5. Abstract!Free(l)
    BY <2>2, <2>3, <2>4 DEF Abstract!Free, Abstract!Became, Abstract!EndWalk, Abstract!Unset
  <2> QED  BY <1>1, <2>2, <2>5, Zenon DEF Abstract!Next
<1> QED  BY <1>4, <1>5, <1>6, <1>7, <1>8

\* ... and with another one.
LEMMA PairCallsHold ==
  ASSUME NEW s, IInvOf(s), NEW l \in live \ Stacks, NEW c \in live \ (Stacks \cup {l}), Fresh(c),
         \/ iter[l] # NULL /\ Transfer(l, c)
         \/ l \notin walking /\ BeginMatch(l, c)
  PROVE  Ind' /\ Abstract!Next
<1>1. /\ HomesAre(s) /\ Contents = Held(s) /\ Walkers
      /\ l \in Lists /\ l \in live /\ c \in live \ Stacks /\ c \in live \ {l} /\ c \in Lists /\ l # c
      /\ iter[c] = HeadField /\ c \notin walking
  BY Before DEF Fresh
<1>2. ASSUME iter[l] # NULL, Transfer(l, c) PROVE Ind' /\ Abstract!Next
  <2>1. PICK t : /\ IInvOf(t)'
                 /\ Held(t)' = [Held(s) EXCEPT ![l] = Held(s)[l] \o Held(s)[c], ![c] = <<>>]
    BY <1>1, <1>2, TransferStep
  <2>2. Ind' /\ Contents' = [Contents EXCEPT ![l] = Contents[l] \o Contents[c], ![c] = <<>>]
    BY <1>1, <2>1, After
  <2>3. /\ walking' = walking \ {l, c} /\ live' = live /\ ret' = NULL
        /\ \A k \in Lists \ {l, c} : iter_idx'[k] = iter_idx[k]
    BY <1>1, <1>2 DEF Transfer, Walkers, iterator
  <2>4. Cursor' = [k \in Lists |-> IF k \in {l, c} THEN -1 ELSE Cursor[k]]
    <3>1. \A k \in walking \ {l, c} : iter_idx'[k] = iter_idx[k]
      BY <1>1, <2>3 DEF Walkers
    <3> QED  BY <2>3, <3>1, CursorEnds
  <2>5. Abstract!Transfer(l, c)
    BY <2>2, <2>3, <2>4 DEF Abstract!Transfer, Abstract!EndWalk, Abstract!Unset
  <2> QED  BY <1>1, <2>2, <2>5, Zenon DEF Abstract!Next
<1>3. ASSUME l \notin walking, BeginMatch(l, c) PROVE Ind' /\ Abstract!Next
  <2>1. IInvOf(s)' /\ Held(s)' = Held(s)
    BY <1>1, <1>3, BeginStep
  <2>2. Ind' /\ Contents' = Contents
    BY <2>1, SameContents
  <2>3. walking' = walking /\ iter_idx' = iter_idx /\ live' = live /\ ret' = NULL
    BY <1>3 DEF BeginMatch, iterator
  <2>4. Cursor' = Cursor
    BY <2>3, CursorStays
  <2> QED  BY <1>1, <1>3, <2>2, <2>3, <2>4, NothingNext
<1> QED  BY <1>2, <1>3

\* What a list holds is a sequence of data.
LEMMA HeldIs ==
  ASSUME NEW s, HomesAre(s), NEW l \in Lists
  PROVE  /\ Held(s)[l] \in Seq(Datum) /\ Len(Held(s)[l]) = Len(C(s, l))
         /\ \A i \in 1..Len(C(s, l)) : Held(s)[l][i] = data[C(s, l)[i]]
<1>1. data \in [Item -> Datum] /\ C(s, l) \in Seq(Item)
  BY HomeIs DEF HomesAre, Datum
<1>2. Held(s)[l] = Value(C(s, l), data)
  BY DEF Held
<1> QED  BY <1>1, <1>2, ValueIs

\* A sequence of data without one of them.
LEMMA WithoutData ==
  ASSUME NEW v \in Seq(Datum), NEW k \in 1..Len(v)
  PROVE  Without(v, k) \in Seq(Datum) /\ Len(Without(v, k)) = Len(v) - 1
<1>1. Len(v) \in Nat /\ Len(v) - 1 \in Nat
  OBVIOUS
<1>2. \A i \in 1..(Len(v) - 1) : i \in 1..Len(v) /\ i + 1 \in 1..Len(v)
  BY <1>1
<1>3. \A i \in 1..Len(v) : v[i] \in Datum
  OBVIOUS
<1>4. Without(v, k) \in [1..(Len(v) - 1) -> Datum]
  BY <1>2, <1>3 DEF Without
<1> QED  BY <1>1, <1>4

\* Sequences that agree everywhere are the same.
LEMMA SameData ==
  ASSUME NEW v \in Seq(Datum), NEW w \in Seq(Datum), Len(v) = Len(w), \A i \in 1..Len(v) : v[i] = w[i]
  PROVE  v = w
OBVIOUS

\* Without is what RemoveAt does.
LEMMA Removed ==
  ASSUME NEW v \in Seq(Datum), NEW k \in 1..Len(v)
  PROVE  Without(v, k) = SubSeq(v, 1, k - 1) \o SubSeq(v, k + 1, Len(v))
<1> PICK a, b : a = SubSeq(v, 1, k - 1) /\ b = SubSeq(v, k + 1, Len(v))
  OBVIOUS
<1>1. /\ a \in Seq(Datum) /\ Len(a) = k - 1 /\ \A i \in 1..(k - 1) : a[i] = v[i]
      /\ b \in Seq(Datum) /\ Len(b) = Len(v) - k /\ \A i \in 1..(Len(v) - k) : b[i] = v[k + i]
  OBVIOUS
<1>2. /\ a \o b \in Seq(Datum) /\ Len(a \o b) = Len(v) - 1
      /\ \A i \in 1..(Len(v) - 1) : (a \o b)[i] = IF i <= k - 1 THEN a[i] ELSE b[i - (k - 1)]
  <2>1. /\ a \o b \in Seq(Datum) /\ Len(a \o b) = Len(a) + Len(b)
        /\ \A i \in 1..(Len(a) + Len(b)) : (a \o b)[i] = IF i <= Len(a) THEN a[i] ELSE b[i - Len(a)]
    BY <1>1, DataConcat, Zenon
  <2>2. Len(a) + Len(b) = Len(v) - 1
    <3>1. Len(v) \in Nat /\ (k - 1) + (Len(v) - k) = Len(v) - 1
      OBVIOUS
    <3> QED  BY <1>1, <3>1
  <2> QED  BY <1>1, <2>1, <2>2
<1>3. ASSUME NEW i \in 1..(Len(v) - 1)
      PROVE  (a \o b)[i] = IF i < k THEN v[i] ELSE v[i + 1]
  <2>1. CASE i < k
    <3>1. i \in 1..(k - 1) /\ i <= k - 1
      BY <2>1
    <3> QED  BY <1>1, <1>2, <2>1, <3>1
  <2>2. CASE ~(i < k)
    <3>1. ~(i <= k - 1) /\ i - (k - 1) \in 1..(Len(v) - k) /\ k + (i - (k - 1)) = i + 1
      BY <2>2
    <3> QED  BY <1>1, <1>2, <2>2, <3>1
  <2> QED  BY <2>1, <2>2
<1>4. Without(v, k) \in Seq(Datum) /\ Len(Without(v, k)) = Len(v) - 1
  BY WithoutData
<1>5. \A i \in 1..(Len(v) - 1) : Without(v, k)[i] = (a \o b)[i]
  BY <1>3 DEF Without
<1>6. a \o b = Without(v, k)
  <2> HIDE DEF Without
  <2>1. /\ a \o b \in Seq(Datum) /\ Without(v, k) \in Seq(Datum)
        /\ Len(a \o b) = Len(Without(v, k))
        /\ \A i \in 1..Len(a \o b) : (a \o b)[i] = Without(v, k)[i]
    BY <1>2, <1>4, <1>5
  <2> QED  BY <2>1, SameData, Zenon
<1> QED  BY <1>6

\* The loop of list_transfer_on_match.
LEMMA SearchHolds ==
  ASSUME NEW s, IInvOf(s), MoveMatch \/ PassItem \/ EndMatch
  PROVE  Ind' /\ Abstract!Next
<1>1. HomesAre(s) /\ Contents = Held(s) /\ Walkers /\ live \subseteq Lists
  BY Before
<1>2. ASSUME MoveMatch PROVE Ind' /\ Abstract!Next
  <2>1. PICK t, k :
             /\ IInvOf(t)' /\ scan.dst \in live /\ scan.src \in live \ {scan.dst}
             /\ k \in 1..Len(Held(s)[scan.src]) /\ Held(s)[scan.src][k] \in Matching
             /\ \A j \in 1..(k - 1) : Held(s)[scan.src][j] \notin Matching
             /\ Held(t)' = [Held(s) EXCEPT ![scan.dst] = Append(Held(s)[scan.dst], Held(s)[scan.src][k]),
                                           ![scan.src] = Without(Held(s)[scan.src], k)]
    BY <1>2, MatchStep
  <2> PICK l, c : l = scan.dst /\ c = scan.src
    OBVIOUS
  <2>2. /\ Ind' /\ l \in live /\ c \in live \ {l} /\ l \in Lists /\ c \in Lists
        /\ k \in 1..Len(Contents[c]) /\ Contents[c][k] \in Matching
        /\ \A j \in 1..(k - 1) : Contents[c][j] \notin Matching
    BY <1>1, <2>1, After
  <2>3. Contents' = [Contents EXCEPT ![l] = Append(Contents[l], Contents[c][k]), ![c] = Without(Contents[c], k)]
    BY <1>1, <2>1, After
  <2>4. Without(Contents[c], k) = SubSeq(Contents[c], 1, k - 1) \o SubSeq(Contents[c], k + 1, Len(Contents[c]))
    <3>1. Contents[c] \in Seq(Datum)
      BY <1>1, <2>2, HeldIs
    <3> QED  BY <2>2, <3>1, Removed
  <2>5. walking' = walking /\ iter_idx' = iter_idx /\ live' = live /\ ret' = NULL
    BY <1>2 DEF MoveMatch
  <2>6. Cursor' = Cursor
    BY <2>5, CursorStays
  <2>7. Abstract!MoveMatch(l, c, k)
    BY <2>2, <2>3, <2>4, <2>5, <2>6 DEF Abstract!MoveMatch, Abstract!RemoveAt
  <2> QED  BY <2>2, <2>7, Zenon DEF Abstract!Next
<1>3. ASSUME PassItem PROVE Ind' /\ Abstract!Next
  <2>1. IInvOf(s)' /\ Held(s)' = Held(s) /\ scan.dst \in live /\ scan.dst \notin walking
    BY <1>3, PassStep
  <2>2. Ind' /\ Contents' = Contents
    BY <2>1, SameContents
  <2>3. walking' = walking /\ iter_idx' = iter_idx /\ live' = live /\ ret' = NULL
    BY <1>3 DEF PassItem, iterator
  <2>4. Cursor' = Cursor
    BY <2>3, CursorStays
  <2>5. scan.dst \in Lists
    BY <1>1, <2>1
  <2> QED  BY <2>1, <2>2, <2>3, <2>4, <2>5, NothingNext
<1>4. ASSUME EndMatch PROVE Ind' /\ Abstract!Next
  <2>1. IInvOf(s)' /\ Held(s)' = Held(s) /\ scan.dst \in live /\ scan.dst \notin walking
    BY <1>4, EndStep
  <2>2. Ind' /\ Contents' = Contents
    BY <2>1, SameContents
  <2>3. walking' = walking /\ live' = live /\ ret' = NULL /\ \A k \in walking : iter_idx'[k] = iter_idx[k]
    <3>1. scan.src \notin walking
      <4>1. Busy
        BY <1>4 DEF EndMatch
      <4> QED  BY <4>1, Searching
    <3> QED  BY <1>1, <1>4, <3>1 DEF EndMatch, Walkers
  <2>4. Cursor' = Cursor
    BY <2>3, CursorStays
  <2>5. scan.dst \in Lists
    BY <1>1, <2>1
  <2> QED  BY <2>1, <2>2, <2>3, <2>4, <2>5, NothingNext
<1> QED  BY <1>2, <1>3, <1>4

\* Every step keeps the invariant and is a step of the sequences.
LEMMA StepHolds ==
  ASSUME Ind, Next, ~UNCHANGED vars
  PROVE  Ind' /\ Abstract!Next
<1>1. PICK s : IInvOf(s)
  BY DEF Ind
<1>2. HomesAre(s) /\ Contents = Held(s) /\ Walkers /\ \A l \in live : l \in Lists
  BY <1>1, Before
<1>3. ASSUME NEW l \in Stacks, StackCalls(l) PROVE Ind' /\ Abstract!Next
  BY <1>1, <1>3, StackCallsHold
<1>4. ASSUME NEW l \in live \ Stacks, ListCalls(l) PROVE Ind' /\ Abstract!Next
  <2>1. ASSUME NEW c \in live \ (Stacks \cup {l}), Fresh(c),
               \/ iter[l] # NULL /\ Transfer(l, c)
               \/ l \notin walking /\ BeginMatch(l, c)
        PROVE  Ind' /\ Abstract!Next
    BY <1>1, <2>1, PairCallsHold
  <2>2. CASE \/ \E d \in Data : Append_(l, d)
             \/ (l \in walking \/ iter_idx[l] < 0) /\ GetNext(l)
             \/ \E k \in 0..size[l] : SetIterator(l, k)
             \/ l \notin Embedded /\ (Clear(l) \/ Free(l))
    BY <1>1, <2>2, ListCallsHold
  <2> QED  BY <1>4, <2>1, <2>2 DEF ListCalls
<1>5. ASSUME NEW l \in Lists \ (Embedded \cup Stacks), Create(l) PROVE Ind' /\ Abstract!Next
  <2>1. IInvOf(s)' /\ Held(s)' = Held(s)
    BY <1>1, <1>5, CreateStep
  <2>2. Ind' /\ Contents' = Contents
    BY <1>1, <2>1, SameContents
  <2>3. /\ l \notin live /\ live' = live \cup {l} /\ walking' = walking /\ ret' = NULL
        /\ \A k \in walking : iter_idx'[k] = iter_idx[k]
    BY <1>2, <1>5 DEF Create, Walkers
  <2>4. Cursor' = Cursor
    BY <2>3, CursorStays
  <2>5. Abstract!Create(l)
    BY <2>2, <2>3, <2>4 DEF Abstract!Create
  <2> QED  BY <2>2, <2>5, Zenon DEF Abstract!Next
<1>6. CASE MoveMatch \/ PassItem \/ EndMatch
  BY <1>1, <1>6, SearchHolds
<1> QED  BY <1>3, <1>4, <1>5, <1>6 DEF Next, Astray

\* So is a step that changes nothing.
LEMMA StutterHolds ==
  ASSUME Ind, UNCHANGED vars
  PROVE  Ind' /\ UNCHANGED Abstract!vars
<1>1. PICK s : IInvOf(s)
  BY DEF Ind
<1>2. /\ UNCHANGED <<chains, pools, items>> /\ UNCHANGED <<iterator, live, walking>>
      /\ tail' = tail /\ data' = data /\ heap' = heap /\ iter' = iter /\ iter_idx' = iter_idx
      /\ scan' = scan /\ live' = live /\ walking' = walking /\ ret' = ret
  BY DEF vars, chains, iterator, items
<1>3. HomesAre(s)' /\ Walks(s)' /\ Held(s)' = Held(s)
  BY <1>1, <1>2, SameHomes, SameWalks, SameHeld DEF IInvOf
<1>4. Tails(s)'
  BY <1>1, <1>2 DEF IInvOf, Tails, Idle
<1>5. Scans(s)'
  <2>1. Scans(s)
    BY <1>1 DEF IInvOf
  <2> QED  BY <1>2, <2>1 DEF Scans, Idle, Busy, Passed, TailOrFreed
<1>6. Ind' /\ Contents' = Contents
  BY <1>1, <1>3, <1>4, <1>5, SameContents DEF IInvOf
<1>7. Cursor' = Cursor
  BY <1>2, CursorStays
<1> QED  BY <1>2, <1>6, <1>7 DEF Abstract!vars

-----------------------------------------------------------------------------
(* Theorems.                                                                *)

\* Through all calls of slist.c and stack.h the chains and pools stay strung
\* on the items, the tails and iterators where the invariant says; no call
\* follows a list_transfer_on_match that leaves tail on a freed item (Astray).
THEOREM InvariantHolds == Spec => []IInv
<1>1. Init => Ind
  BY InitHolds, IndIs
<1>2. Ind /\ [Next]_vars => Ind'
  BY StepHolds, StutterHolds
<1>3. Ind => IInv
  BY IndIs
<1> QED  BY <1>1, <1>2, <1>3, PTL DEF Spec

\* Every field of every list has its type; no counter is more than the items
\* there are.
THEOREM TypesHold == Spec => []TypeOK
<1>1. IInv => TypeOK
  <2> SUFFICES ASSUME IInv PROVE TypeOK
    OBVIOUS
  <2>1. PICK s : IInvOf(s)
    BY DEF IInv
  <2>2. HomesAre(s) /\ Walkers
    BY <2>1, Before
  <2>3. \A l \in Lists : size[l] \in 0..MaxItems /\ pool_size[l] \in 0..MaxItems
    <3> SUFFICES ASSUME NEW l \in Lists PROVE size[l] \in 0..MaxItems /\ pool_size[l] \in 0..MaxItems
      OBVIOUS
    <3>1. /\ size[l] \in Nat /\ size[l] <= MaxItems /\ pool_size[l] \in Nat /\ pool_size[l] <= MaxItems
      BY <2>2, HomeIs
    <3> QED  BY <3>1, ListAssumption
  <2> QED  BY <2>2, <2>3 DEF TypeOK, HomesAre, Linked, Walkers, Pointer
<1> QED  BY <1>1, InvariantHolds, PTL

\* new_list_item, release_to_pool, list_clear, list_free, list_chop,
\* list_transfer and list_transfer_on_match lose no item and share none: each
\* allocated item is on exactly one chain or pool, and both counters count.
\* tail is the last item but for one list: the source of a
\* list_transfer_on_match that is running or that ended with tail on the freed
\* item it moved last (slist.c:57 sets tail anew only when one item stays).
THEOREM EveryItemHasOneHome == Spec => []ItemsHaveOneHome
<1>1. IInv => ItemsHaveOneHome
  <2> SUFFICES ASSUME IInv PROVE ItemsHaveOneHome
    OBVIOUS
  <2>1. PICK s : IInvOf(s)
    BY DEF IInv
  <2>2. HomesAre(s) /\ Linked(s, heap, next)
    BY <2>1, Before DEF HomesAre
  <2>3. \A l \in Lists : /\ Chain(head[l]) = C(s, l) /\ Chain(pool[l]) = Q(s, l)
                         /\ C(s, l) = s[ChainOf(l)] /\ Q(s, l) = s[PoolOf(l)]
    BY <2>2, ChainReads DEF C, Q
  <2>4. \A l \in Lists : Len(Chain(head[l])) = size[l] /\ Len(Chain(pool[l])) = pool_size[l]
    BY <2>2, <2>3, HomeIs
  <2>5. \A l \in Lists : (Members(Chain(head[l])) \cup Members(Chain(pool[l]))) \cap heap = {}
    <3> SUFFICES ASSUME NEW l \in Lists
                 PROVE  (Members(Chain(head[l])) \cup Members(Chain(pool[l]))) \cap heap = {}
      OBVIOUS
    <3>1. /\ \A i \in 1..Len(C(s, l)) : C(s, l)[i] \notin heap
          /\ \A i \in 1..Len(Q(s, l)) : Q(s, l)[i] \notin heap
      BY <2>2, HomeIs
    <3> QED  BY <2>3, <3>1 DEF Members
  <2>6. ASSUME NEW i \in Item \ heap
        PROVE  Cardinality({l \in Lists : i \in Members(Chain(head[l]))})
               + Cardinality({l \in Lists : i \in Members(Chain(pool[l]))}) = 1
    <3> DEFINE A == {l \in Lists : i \in Members(Chain(head[l]))}
               B == {l \in Lists : i \in Members(Chain(pool[l]))}
    <3>1. PICK a \in Key : \E n \in 1..Len(s[a]) : s[a][n] = i
      BY <2>2 DEF Linked, Apart
    <3>2. \A b \in Key : i \in Members(s[b]) <=> b = a
      <4>1. \A b \in Key : \A n \in 1..Len(s[a]), m \in 1..Len(s[b]) : s[a][n] = s[b][m] => a = b
        BY <2>2 DEF Linked, Apart
      <4> QED  BY <3>1, <4>1 DEF Members
    <3>3. PICK l \in Lists : a = ChainOf(l) \/ a = PoolOf(l)
      BY Keys
    <3>4. CASE a = ChainOf(l)
      <4>1. A = {l}
        BY <2>3, <3>2, <3>4, Keys
      <4>2. B = {}
        BY <2>3, <3>2, <3>4, Keys
      <4> HIDE DEF A, B
      <4>3. Cardinality(A) = 1 /\ Cardinality(B) = 0
        BY <4>1, <4>2, FS_Singleton, FS_EmptySet
      <4>4. Cardinality(A) + Cardinality(B) = 1
        BY <4>3
      <4> QED  BY <4>4 DEF A, B
    <3>5. CASE a = PoolOf(l)
      <4>1. A = {}
        BY <2>3, <3>2, <3>5, Keys
      <4>2. B = {l}
        BY <2>3, <3>2, <3>5, Keys
      <4> HIDE DEF A, B
      <4>3. Cardinality(A) = 0 /\ Cardinality(B) = 1
        BY <4>1, <4>2, FS_Singleton, FS_EmptySet
      <4>4. Cardinality(A) + Cardinality(B) = 1
        BY <4>3
      <4> QED  BY <4>4 DEF A, B
    <3> QED  BY <3>3, <3>4, <3>5
  <2>7. \A l \in Lists : Idle \/ l # scan.src =>
          tail[l] = IF size[l] = 0 THEN NULL ELSE Chain(head[l])[size[l]]
    <3> SUFFICES ASSUME NEW l \in Lists, Idle \/ l # scan.src
                 PROVE  tail[l] = IF size[l] = 0 THEN NULL ELSE Chain(head[l])[size[l]]
      OBVIOUS
    <3>1. tail[l] = LastOf(C(s, l))
      BY <2>1 DEF IInvOf, Tails
    <3>2. size[l] = Len(C(s, l)) /\ (size[l] = 0 <=> C(s, l) = <<>>)
      BY <2>2, HomeIs
    <3> QED  BY <2>3, <3>1, <3>2 DEF LastOf
  <2> QED  BY <2>4, <2>5, <2>6, <2>7 DEF ItemsHaveOneHome
<1> QED  BY <1>1, InvariantHolds, PTL

\* What list_get_at finds by the head, by the tail or by stepping, what
\* list_get_tail and list_search find, is what the list holds there.
THEOREM ShortcutsAgree == Spec => []QueriesAgree
<1>1. IInv => QueriesAgree
  <2> SUFFICES ASSUME IInv, Idle, NEW l \in live
               PROVE  /\ \A k \in 0..size[l] :
                           list_get_at(l, k) = IF k < Len(Contents[l]) THEN Contents[l][k + 1] ELSE NULL
                      /\ list_get_tail(l) = IF Contents[l] = <<>> THEN NULL ELSE Contents[l][Len(Contents[l])]
                      /\ \A d \in Data : (list_search(l, d) # NULL) <=> d \in Members(Contents[l])
    BY DEF QueriesAgree
  <2>1. PICK s : IInvOf(s)
    BY DEF IInv
  <2>2. HomesAre(s) /\ Contents = Held(s) /\ l \in Lists
    BY <2>1, Before
  <2> PICK c, v : c = C(s, l) /\ v = Contents[l]
    OBVIOUS
  <2>3. /\ c \in Seq(Item) /\ Len(c) \in Nat /\ size[l] = Len(c) /\ head[l] = First(c)
        /\ (head[l] = NULL <=> c = <<>>) /\ (size[l] = 0 <=> c = <<>>)
        /\ \A i \in 1..Len(c) : c[i] \in Item
    BY <2>2, HomeIs
  <2>4. v \in Seq(Datum) /\ Len(v) = Len(c) /\ \A i \in 1..Len(c) : v[i] = data[c[i]]
    BY <2>2, HeldIs
  <2>5. tail[l] = LastOf(c)
    BY <2>1, <2>2 DEF IInvOf, Tails
  <2>6. NULL \notin Item /\ NULL \notin Data
    BY ListAssumption DEF NULL, Item
  <2>7. ASSUME NEW k \in 0..size[l]
        PROVE  list_get_at(l, k) = IF k < Len(v) THEN v[k + 1] ELSE NULL
    <3>1. CASE head[l] = NULL \/ k >= size[l]
      <4>1. ~(k < Len(v))
        BY <2>3, <2>4, <3>1
      <4> QED  BY <3>1, <4>1 DEF list_get_at
    <3>2. CASE ~(head[l] = NULL \/ k >= size[l])
      <4>1. c # <<>> /\ k < Len(v) /\ k + 1 \in 1..Len(c) /\ v[k + 1] = data[c[k + 1]]
        BY <2>3, <2>4, <3>2
      <4>2. CASE k = 0
        <5>1. head[l] = c[k + 1]
          BY <2>3, <4>1, <4>2 DEF First
        <5> QED  BY <3>2, <4>1, <4>2, <5>1 DEF list_get_at
      <4>3. CASE k # 0 /\ k = size[l] - 1
        <5>1. k + 1 = Len(c)
          BY <2>3, <4>3
        <5>2. tail[l] = c[k + 1]
          BY <2>5, <4>1, <5>1 DEF LastOf
        <5> QED  BY <3>2, <4>1, <4>3, <5>2 DEF list_get_at
      <4>4. CASE k # 0 /\ k # size[l] - 1
        <5>1. StepsFrom(l, Place(c, 0), k + 1) = Place(c, 0 + (k + 1))
          <6>1. 0 \in Nat /\ k + 1 \in Nat /\ 0 + (k + 1) <= Len(C(s, l))
            BY <2>3, <4>1
          <6> QED  BY <2>2, <6>1, StepsIs
        <5>2. Place(c, 0) = HeadField /\ Place(c, 0 + (k + 1)) = c[k + 1]
          <6>1. 0 + (k + 1) = k + 1 /\ k + 1 # 0
            BY <2>3
          <6> QED  BY <6>1 DEF Place
        <5> QED  BY <3>2, <4>1, <4>4, <5>1, <5>2 DEF list_get_at
      <4> QED  BY <4>2, <4>3, <4>4
    <3> QED  BY <3>1, <3>2
  <2>8. list_get_tail(l) = IF v = <<>> THEN NULL ELSE v[Len(v)]
    <3>1. v = <<>> <=> c = <<>>
      BY <2>3, <2>4
    <3>2. CASE c = <<>>
      BY <2>5, <3>1, <3>2 DEF LastOf, list_get_tail
    <3>3. CASE c # <<>>
      <4>1. Len(c) \in 1..Len(c)
        BY <2>3, <3>3
      <4>2. tail[l] = c[Len(c)] /\ tail[l] # NULL
        BY <2>3, <2>5, <2>6, <3>3, <4>1 DEF LastOf
      <4> QED  BY <2>4, <3>1, <3>3, <4>1, <4>2 DEF list_get_tail
    <3> QED  BY <3>2, <3>3
  <2>9. ASSUME NEW d \in Data PROVE (list_search(l, d) # NULL) <=> d \in Members(v)
    <3>1. Chain(head[l]) = c
      BY <2>2, ChainReads
    <3>2. list_search(l, d) = IF \E n \in 1..Len(c) : data[c[n]] = d THEN d ELSE NULL
      BY <3>1 DEF list_search, Members
    <3>3. d \in Members(v) <=> \E n \in 1..Len(c) : data[c[n]] = d
      BY <2>4 DEF Members
    <3> QED  BY <2>6, <3>2, <3>3
  <2> QED  BY <2>7, <2>8, <2>9
<1> QED  BY <1>1, InvariantHolds, PTL

\* Whatever is called, in whatever order, until a list_transfer_on_match leaves
\* tail on a freed item (Astray): links, pools, counters and iterator behave
\* like sequences with a cursor (ListSpec).
THEOREM SequencesImplemented == Spec => ListsAreSequences
<1>1. Init => Ind
  BY InitHolds, IndIs
<1>2. Init => Abstract!Init
  <2> SUFFICES ASSUME Init PROVE Abstract!Init
    OBVIOUS
  <2>1. IInv
    BY InitHolds
  <2>2. PICK s : IInvOf(s)
    BY <2>1 DEF IInv
  <2>3. HomesAre(s) /\ Contents = Held(s)
    BY <2>2, Before
  <2>4. \A l \in Lists : head[l] = NULL
    BY DEF Init
  <2>5. \A l \in Lists : C(s, l) = <<>>
    BY <2>3, <2>4, HomeIs
  <2>6. Contents = [l \in Lists |-> <<>>]
    <3>1. \A l \in Lists : Value(C(s, l), data) = <<>>
      BY <2>5 DEF Value
    <3> QED  BY <2>3, <3>1 DEF Held
  <2>7. Cursor = [l \in Lists |-> -1] /\ live \subseteq Lists /\ ret = NULL
    BY ListAssumption DEF Init, Cursor
  <2> QED  BY <2>6, <2>7 DEF Abstract!Init, Abstract!Unset
<1>3. Ind /\ [Next]_vars => Ind'
  BY StepHolds, StutterHolds
<1>4. Ind /\ [Next]_vars => [Abstract!Next]_(Abstract!vars)
  BY StepHolds, StutterHolds
<1> QED  BY <1>1, <1>2, <1>3, <1>4, PTL DEF Spec, ListsAreSequences, Abstract!Spec

=============================================================================
