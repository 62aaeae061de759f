----------------------------- MODULE Induction -----------------------------
(***************************************************************************)
(* Induction and recursion on the natural numbers, with sets and functions *)
(* in place of the operator parameters of the library's theorems: a set of *)
(* numbers that contains 0 and successors is Nat, and a function given by  *)
(* recursion along a measure exists.                                       *)
(***************************************************************************)
EXTENDS Integers, FiniteSets, FiniteSetTheorems, WellFoundedInduction, TLAPS

\* A set of numbers has a least one: the initial segments of its members are
\* finite sets, among which the library finds a minimal one.
LEMMA LeastNumber ==
  ASSUME NEW S \in SUBSET Nat, S # {}
  PROVE  \E n \in S : \A k \in S : n <= k
<1> DEFINE R == StrictSubsetOrdering(Nat)
           F == FiniteSubsetsOf(Nat)
           Up == {0..n : n \in S}
<1>1. IsWellFoundedOn(R, F)
  BY FS_StrictSubsetOrderingWellFounded
<1>2. Up \subseteq F
  <2> SUFFICES ASSUME NEW n \in S PROVE 0..n \in F
    OBVIOUS
  <2>1. IsFiniteSet(0..n)
    BY FS_Interval
  <2> QED  BY <2>1 DEF FiniteSubsetsOf
<1>3. Up # {}
  OBVIOUS
<1>4. \A X, Y \in F : X \subseteq Y /\ X # Y => <<X, Y>> \in R
  BY DEF StrictSubsetOrdering, FiniteSubsetsOf
<1>5. PICK X \in Up : \A Y \in Up : ~(<<Y, X>> \in R)
  <2> HIDE DEF R, F, Up
  <2> QED  BY <1>1, <1>2, <1>3, WFMin
<1>6. PICK n \in S : X = 0..n
  BY <1>5
<1>7. ASSUME NEW k \in S, k < n PROVE FALSE
  <2>1. 0..k \in Up /\ 0..k \in F /\ X \in F
    BY <1>2, <1>5
  <2>2. 0..k \subseteq X /\ 0..k # X
    <3>1. n \in X /\ n \notin 0..k
      BY <1>6, <1>7
    <3> QED  BY <3>1, <1>6, <1>7
  <2> QED  BY <2>1, <2>2, <1>4, <1>5
<1> QED  BY <1>7

\* A set of numbers with an upper bound has a greatest one.
LEMMA GreatestNumber ==
  ASSUME NEW S \in SUBSET Int, S # {}, NEW b \in Int, \A k \in S : k <= b
  PROVE  \E n \in S : \A k \in S : k <= n
<1> DEFINE T == {b - k : k \in S}
<1>1. \A k \in S : b - k \in Nat /\ b - k \in T
  OBVIOUS
<1>2. T \in SUBSET Nat /\ T # {}
  BY <1>1
<1>3. PICK d \in T : \A e \in T : d <= e
  BY <1>2, LeastNumber
<1>4. PICK n \in S : d = b - n
  BY <1>3
<1>5. ASSUME NEW k \in S PROVE k <= n
  <2>1. b - n <= b - k
    BY <1>1, <1>3, <1>4
  <2> QED  BY <2>1
<1> QED  BY <1>5

\* And one with a lower bound has a least one.
LEMMA LeastInteger ==
  ASSUME NEW S \in SUBSET Int, S # {}, NEW b \in Int, \A k \in S : b <= k
  PROVE  \E n \in S : \A k \in S : n <= k
<1> DEFINE T == {k - b : k \in S}
<1>1. \A k \in S : k - b \in Nat /\ k - b \in T
  OBVIOUS
<1>2. T \in SUBSET Nat /\ T # {}
  BY <1>1
<1>3. PICK d \in T : \A e \in T : d <= e
  BY <1>2, LeastNumber
<1>4. PICK n \in S : d = n - b
  BY <1>3
<1>5. ASSUME NEW k \in S PROVE n <= k
  <2>1. n - b <= k - b
    BY <1>1, <1>3, <1>4
  <2>2. n \in Int /\ k \in Int
    OBVIOUS
  <2> QED  BY <2>1, <2>2
<1> QED  BY <1>5

\* Induction.
LEMMA SetInduction ==
  ASSUME NEW S \in SUBSET Nat, 0 \in S, \A n \in S : n + 1 \in S
  PROVE  \A n \in Nat : n \in S
<1> SUFFICES ASSUME Nat \ S # {} PROVE FALSE  OBVIOUS
<1>1. PICK n \in Nat \ S : \A k \in Nat \ S : n <= k
  BY LeastNumber
<1>2. n # 0 /\ n - 1 \in Nat /\ n - 1 \in S
  BY <1>1
<1> QED  BY <1>1, <1>2

\* Induction that may use all smaller numbers.
LEMMA StrongInduction ==
  ASSUME NEW S, \A n \in Nat : (\A k \in 0..(n - 1) : k \in S) => n \in S
  PROVE  \A n \in Nat : n \in S
<1> SUFFICES ASSUME Nat \ S # {} PROVE FALSE  OBVIOUS
<1>1. PICK n \in Nat \ S : \A k \in Nat \ S : n <= k
  BY LeastNumber
<1>2. \A k \in 0..(n - 1) : k \in S
  BY <1>1
<1> QED  BY <1>1, <1>2

\* H says what a function on D with values in S, given by recursion along the
\* measure mu, is at one argument: it looks at arguments of smaller measure only.
Recursive(D, S, mu, H) ==
  /\ S # {} /\ mu \in [D -> Nat] /\ H \in [D \X [D -> S] -> S]
  /\ \A d \in D, g, h \in [D -> S] :
       (\A e \in D : mu[e] < mu[d] => g[e] = h[e]) => H[<<d, g>>] = H[<<d, h>>]

\* f is such a function.
Follows(f, D, H) == \A d \in D : f[d] = H[<<d, f>>]

\* There is one.
LEMMA Recursion ==
  ASSUME NEW D, NEW S, NEW mu, NEW H, Recursive(D, S, mu, H)
  PROVE  \E f \in [D -> S] : Follows(f, D, H)
<1> USE DEF Recursive
<1> DEFINE Approx(g, n) == \A d \in D : mu[d] < n => g[d] = H[<<d, g>>]
           G(n) == CHOOSE g \in [D -> S] : Approx(g, n)
           f == [d \in D |-> G(mu[d] + 1)[d]]
<1>1. \A n \in Nat : \E g \in [D -> S] : Approx(g, n)
  <2> DEFINE P == {n \in Nat : \E g \in [D -> S] : Approx(g, n)}
  <2>1. 0 \in P
    <3>1. PICK s \in S : TRUE
      OBVIOUS
    <3>2. [d \in D |-> s] \in [D -> S] /\ Approx([d \in D |-> s], 0)
      OBVIOUS
    <3> QED  BY <3>2
  <2>2. ASSUME NEW n \in Nat, n \in P PROVE n + 1 \in P
    <3>1. PICK g \in [D -> S] : Approx(g, n)
      BY <2>2
    <3> DEFINE h == [d \in D |-> IF mu[d] = n THEN H[<<d, g>>] ELSE g[d]]
    <3>2. h \in [D -> S]
      OBVIOUS
    <3>3. ASSUME NEW d \in D, mu[d] < n + 1 PROVE h[d] = H[<<d, h>>]
      <4>1. \A e \in D : mu[e] < mu[d] => g[e] = h[e]
        BY <3>3
      <4>2. H[<<d, g>>] = H[<<d, h>>]
        BY <4>1, <3>2
      <4>3. mu[d] = n \/ mu[d] < n
        <5>1. mu[d] \in Nat
          OBVIOUS
        <5>2. \A a, b \in Nat : a < b + 1 => a = b \/ a < b
          BY SMTT(30)
        <5> HIDE DEF h, P, f, G, Approx
        <5> QED  BY <3>3, <5>1, <5>2
      <4>4. mu[d] < n => g[d] = H[<<d, g>>]
        BY <3>1, <3>3
      <4>5. h[d] = IF mu[d] = n THEN H[<<d, g>>] ELSE g[d]
        BY <3>3
      <4>6. CASE mu[d] = n
        <5>1. h[d] = H[<<d, g>>]
          BY <4>5, <4>6
        <5> HIDE DEF h
        <5> QED  BY <4>2, <5>1
      <4>7. CASE mu[d] < n
        <5>1. h[d] = g[d]
          BY <4>5, <4>7, <4>3
        <5> HIDE DEF h
        <5> QED  BY <4>2, <4>4, <4>7, <5>1
      <4> HIDE DEF h
      <4> QED  BY <4>3, <4>6, <4>7
    <3>4. Approx(h, n + 1)
      BY <3>3
    <3>5. n + 1 \in Nat
      OBVIOUS
    <3> HIDE DEF h, Approx
    <3> QED  BY <3>2, <3>4, <3>5
  <2> HIDE DEF P
  <2>3. \A n \in Nat : n \in P
    BY <2>1, <2>2, SetInduction DEF P
  <2> QED  BY <2>3 DEF P
<1>2. ASSUME NEW n \in Nat, NEW k \in Nat, NEW g \in [D -> S], NEW h \in [D -> S],
             Approx(g, n), Approx(h, k), NEW d \in D, mu[d] < n, mu[d] < k
      PROVE  g[d] = h[d]
  <2> DEFINE Q == {i \in Nat : \A e \in D : mu[e] = i /\ i < n /\ i < k => g[e] = h[e]}
  <2>1. ASSUME NEW i \in Nat, \A l \in 0..(i - 1) : l \in Q PROVE i \in Q
    <3> SUFFICES ASSUME NEW e \in D, mu[e] = i, i < n, i < k PROVE g[e] = h[e]
      OBVIOUS
    <3>1. \A c \in D : mu[c] < mu[e] => g[c] = h[c]
      <4> SUFFICES ASSUME NEW c \in D, mu[c] < mu[e] PROVE g[c] = h[c]
        OBVIOUS
      <4>1. mu[c] \in 0..(i - 1) /\ mu[c] \in Q
        BY <2>1
      <4> QED  BY <4>1
    <3>2. H[<<e, g>>] = H[<<e, h>>]
      BY <3>1
    <3> QED  BY <3>2, <1>2
  <2> HIDE DEF Q
  <2>2. \A i \in Nat : i \in Q
    BY <2>1, StrongInduction
  <2> QED  BY <2>2, <1>2 DEF Q
<1>3. \A n \in Nat : G(n) \in [D -> S] /\ Approx(G(n), n)
  <2> HIDE DEF Approx
  <2> QED  BY <1>1, Zenon
<1>4. f \in [D -> S]
  <2> SUFFICES ASSUME NEW d \in D PROVE G(mu[d] + 1)[d] \in S
    OBVIOUS
  <2>1. mu[d] + 1 \in Nat
    OBVIOUS
  <2>2. G(mu[d] + 1) \in [D -> S]
    BY <1>3, <2>1
  <2> HIDE DEF G
  <2> QED  BY <2>2
<1>5. ASSUME NEW d \in D PROVE f[d] = H[<<d, f>>]
  <2>1. \A e \in D : mu[e] + 1 \in Nat /\ mu[e] < mu[e] + 1 /\ (mu[e] < mu[d] => mu[e] < mu[d] + 1)
    OBVIOUS
  <2>2. \A e \in D : f[e] = G(mu[e] + 1)[e]
    OBVIOUS
  <2>3. \A e \in D : G(mu[e] + 1) \in [D -> S] /\ Approx(G(mu[e] + 1), mu[e] + 1)
    <3> HIDE DEF G, Approx
    <3> QED  BY <1>3, <2>1
  <2> HIDE DEF G, f
  <2>4. G(mu[d] + 1)[d] = H[<<d, G(mu[d] + 1)>>]
    BY <2>1, <2>3
  <2>5. ASSUME NEW e \in D, mu[e] < mu[d] PROVE G(mu[d] + 1)[e] = f[e]
    <3>1. mu[d] + 1 \in Nat /\ mu[e] + 1 \in Nat /\ mu[e] < mu[d] + 1 /\ mu[e] < mu[e] + 1
      BY <2>1, <2>5
    <3>2. G(mu[d] + 1) \in [D -> S] /\ Approx(G(mu[d] + 1), mu[d] + 1)
      BY <2>3
    <3>3. G(mu[e] + 1) \in [D -> S] /\ Approx(G(mu[e] + 1), mu[e] + 1)
      BY <2>3
    <3> HIDE DEF Approx
    <3>4. G(mu[d] + 1)[e] = G(mu[e] + 1)[e]
      BY <3>1, <3>2, <3>3, <1>2
    <3> QED  BY <2>2, <3>4
  <2>6. H[<<d, G(mu[d] + 1)>>] = H[<<d, f>>]
    BY <2>3, <2>5, <1>4
  <2>7. f[d] = G(mu[d] + 1)[d]
    BY <2>2
  <2> QED  BY <2>4, <2>6, <2>7
<1> HIDE DEF f
<1> QED  BY <1>4, <1>5 DEF Follows
=============================================================================
