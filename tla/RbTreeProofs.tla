---------------------------- MODULE RbTreeProofs ----------------------------
(***************************************************************************)
(* Proofs about RbTree: types, order and balance of the trees, and what    *)
(* becomes of their nodes.                                                 *)
(***************************************************************************)
EXTENDS RbTree, Induction

-----------------------------------------------------------------------------
(* Loops that follow a pointer.                                             *)

\* NULL is no node, and there are finitely many.
LEMMA NodeFacts ==
  NULL \notin Node /\ Node \subseteq Nat /\ IsFiniteSet(Node) /\ \A n \in Node : n # NULL
<1>1. MaxNodes \in Nat
  BY TreeAssumption
<1>2. IsFiniteSet(1..MaxNodes)
  BY <1>1, FS_Interval
<1> QED  BY <1>1, <1>2 DEF Node, NULL

\* A loop on the arguments D goes on from those in go, to next, and otherwise
\* gives val; mu becomes smaller.
Looping(D, go, next, mu) ==
  /\ go \subseteq D /\ mu \in [D -> Nat]
  /\ \A x \in go : next[x] \in D /\ mu[next[x]] < mu[x]

\* The function such a loop computes.
IsLoop(f, D, go, next, val) == f = [x \in D |-> IF x \in go THEN f[next[x]] ELSE val[x]]

\* There is one.
LEMMA LoopExists ==
  ASSUME NEW D, NEW go, NEW next, NEW mu, NEW val, Looping(D, go, next, mu)
  PROVE  \E f : IsLoop(f, D, go, next, val)
<1> DEFINE V == {val[x] : x \in D} \cup {NULL}
           H == [a \in D \X [D -> V] |-> IF a[1] \in go THEN a[2][next[a[1]]] ELSE val[a[1]]]
<1>1. V # {} /\ \A x \in D : val[x] \in V
  OBVIOUS
<1> HIDE DEF V
<1>2. ASSUME NEW d \in D, NEW g \in [D -> V]
      PROVE  H[<<d, g>>] = IF d \in go THEN g[next[d]] ELSE val[d]
  OBVIOUS
<1>3. H \in [D \X [D -> V] -> V]
  <2> SUFFICES ASSUME NEW d \in D, NEW g \in [D -> V]
               PROVE  (IF d \in go THEN g[next[d]] ELSE val[d]) \in V
    OBVIOUS
  <2> QED  BY <1>1 DEF Looping
<1> HIDE DEF H
<1>4. Recursive(D, V, mu, H)
  <2>1. ASSUME NEW d \in D, NEW g \in [D -> V], NEW h \in [D -> V],
               \A e \in D : mu[e] < mu[d] => g[e] = h[e]
        PROVE  H[<<d, g>>] = H[<<d, h>>]
    <3>1. d \in go => g[next[d]] = h[next[d]]
      BY <2>1 DEF Looping
    <3> QED  BY <1>2, <3>1
  <2> QED  BY <1>1, <1>3, <2>1 DEF Recursive, Looping
<1>5. PICK f \in [D -> V] : \A d \in D : f[d] = H[<<d, f>>]
  BY <1>4, Recursion DEF Follows
<1>6. \A x \in D : f[x] = IF x \in go THEN f[next[x]] ELSE val[x]
  BY <1>2, <1>5
<1>7. f = [x \in D |-> IF x \in go THEN f[next[x]] ELSE val[x]]
  BY <1>6
<1> QED  BY <1>7 DEF IsLoop

\* W is not left on the way, and where it ends the value is good.
Keeps(D, go, next, val, W, Good) ==
  /\ W \subseteq D
  /\ \A x \in W : x \in go => next[x] \in W
  /\ \A x \in W : x \notin go => val[x] \in Good

\* Then the result is good.
LEMMA LoopEnds ==
  ASSUME NEW D, NEW go, NEW next, NEW mu, NEW val, Looping(D, go, next, mu),
         NEW f, IsLoop(f, D, go, next, val),
         NEW W, NEW Good, Keeps(D, go, next, val, W, Good)
  PROVE  \A x \in W : f[x] \in Good
<1> DEFINE P == {i \in Nat : \A x \in W : mu[x] = i => f[x] \in Good}
<1>1. \A x \in D : f[x] = IF x \in go THEN f[next[x]] ELSE val[x]
  BY DEF IsLoop
<1> USE DEF Keeps
<1>2. ASSUME NEW i \in Nat, \A k \in 0..(i - 1) : k \in P PROVE i \in P
  <2> SUFFICES ASSUME NEW x \in W, mu[x] = i PROVE f[x] \in Good
    OBVIOUS
  <2>1. CASE x \in go
    <3>1. next[x] \in W /\ mu[next[x]] \in Nat /\ mu[next[x]] < i
      BY <2>1 DEF Looping
    <3>2. mu[next[x]] \in 0..(i - 1)
      BY <3>1
    <3>3. f[next[x]] \in Good
      BY <1>2, <3>1, <3>2
    <3> QED  BY <1>1, <2>1, <3>3
  <2>2. CASE x \notin go
    BY <1>1, <2>2
  <2> QED  BY <2>1, <2>2
<1> HIDE DEF P
<1>3. \A i \in Nat : i \in P
  BY <1>2, StrongInduction
<1>4. \A x \in W : mu[x] \in Nat
  BY DEF Looping
<1> QED  BY <1>3, <1>4 DEF P

-----------------------------------------------------------------------------
(* Trees.  A witness g gives every node a place, and the interval of places  *)
(* of the nodes below it.  The places need not be next to one another, so   *)
(* a node can be taken out without a change to the others.                  *)

\* The pointers L to the left and R to the right divide the intervals.
Shape(L, R, g) ==
  /\ g.B \in Int
  /\ \A n \in Node :
       /\ g.pos[n] \in Int /\ g.lo[n] \in Int /\ g.hi[n] \in Int
       /\ -g.B <= g.lo[n] /\ g.lo[n] <= g.pos[n] /\ g.pos[n] <= g.hi[n] /\ g.hi[n] <= g.B
       /\ L[n] = NULL \/ (/\ L[n] \in Node /\ g.lo[L[n]] = g.lo[n]
                          /\ g.hi[L[n]] = g.pos[n] - 1)
       /\ R[n] = NULL \/ (/\ R[n] \in Node /\ g.lo[R[n]] = g.pos[n] + 1
                          /\ g.hi[R[n]] = g.hi[n])

\* The place of m is in the interval of n.
Within(g, m, n) == g.lo[n] <= g.pos[m] /\ g.pos[m] <= g.hi[n]

\* A child of n in S has n as its parent, and no other node points into S.
Child(C, P, S, n) == C[n] \in S => n \in S /\ P[C[n]] = n

\* The nodes S hang together below r.
Tree(L, R, P, g, r, S) ==
  /\ S \subseteq Node /\ r \in S \cup {NULL} /\ (r = NULL => S = {})
  /\ \A n \in Node : Child(L, P, S, n) /\ Child(R, P, S, n)
  /\ \A n \in S :
       /\ L[n] \in S \cup {NULL} /\ R[n] \in S \cup {NULL}
       /\ n = r => P[n] = NULL
       /\ n # r => P[n] \in S /\ (L[P[n]] = n \/ R[P[n]] = n)
       /\ Within(g, n, r)
  /\ \A m \in S, n \in S :
       /\ m # n => g.pos[m] # g.pos[n]
       /\ g.lo[n] <= g.pos[m] /\ g.pos[m] < g.pos[n] => L[n] # NULL
       /\ g.pos[n] < g.pos[m] /\ g.pos[m] <= g.hi[n] => R[n] # NULL

\* Intervals become smaller on the way down.
LEMMA Downwards ==
  ASSUME NEW L, NEW R, NEW g, Shape(L, R, g)
  PROVE  /\ Looping(Node, {n \in Node : L[n] # NULL}, L, [n \in Node |-> g.hi[n] - g.lo[n]])
         /\ Looping(Node, {n \in Node : R[n] # NULL}, R, [n \in Node |-> g.hi[n] - g.lo[n]])
<1>1. [n \in Node |-> g.hi[n] - g.lo[n]] \in [Node -> Nat]
  BY DEF Shape
<1> QED  BY <1>1 DEF Shape, Looping

\* The nodes with places in the interval of a node are below it: their intervals
\* are parts of it.
LEMMA Nested ==
  ASSUME NEW L, NEW R, NEW P, NEW g, NEW r, NEW S, Shape(L, R, g), Tree(L, R, P, g, r, S),
         NEW m \in S, NEW n \in S, Within(g, m, n)
  PROVE  g.lo[n] <= g.lo[m] /\ g.hi[m] <= g.hi[n]
<1> DEFINE w(x) == g.hi[x] - g.lo[x]
           Q == {i \in Nat : \A x \in S : w(x) = i /\ Within(g, m, x)
                                => g.lo[x] <= g.lo[m] /\ g.hi[m] <= g.hi[x]}
<1>1. ASSUME NEW i \in Nat, \A k \in 0..(i - 1) : k \in Q PROVE i \in Q
  <2> SUFFICES ASSUME NEW x \in S, w(x) = i, Within(g, m, x)
               PROVE  g.lo[x] <= g.lo[m] /\ g.hi[m] <= g.hi[x]
    OBVIOUS
  <2>0. m \in Node /\ x \in Node
    BY DEF Tree
  <2>1. CASE g.pos[m] < g.pos[x]
    <3>1. L[x] \in S /\ L[x] # NULL
      BY <2>1 DEF Tree, Within
    <3>2. L[x] \in Node /\ g.lo[L[x]] = g.lo[x] /\ g.hi[L[x]] = g.pos[x] - 1
      BY <2>0, <3>1 DEF Shape
    <3>3. w(L[x]) \in 0..(i - 1) /\ Within(g, m, L[x])
      BY <2>0, <2>1, <3>2 DEF Shape, Within
    <3>4. g.lo[L[x]] <= g.lo[m] /\ g.hi[m] <= g.hi[L[x]]
      BY <1>1, <3>1, <3>3
    <3> QED  BY <2>0, <3>2, <3>4 DEF Shape
  <2>2. CASE g.pos[m] > g.pos[x]
    <3>1. R[x] \in S /\ R[x] # NULL
      BY <2>0, <2>2 DEF Tree, Within, Shape
    <3>2. R[x] \in Node /\ g.lo[R[x]] = g.pos[x] + 1 /\ g.hi[R[x]] = g.hi[x]
      BY <2>0, <3>1 DEF Shape
    <3>3. w(R[x]) \in 0..(i - 1) /\ Within(g, m, R[x])
      BY <2>0, <2>2, <3>2 DEF Shape, Within
    <3>4. g.lo[R[x]] <= g.lo[m] /\ g.hi[m] <= g.hi[R[x]]
      BY <1>1, <3>1, <3>3
    <3> QED  BY <2>0, <3>2, <3>4 DEF Shape
  <2>3. CASE m = x
    BY <2>0, <2>3 DEF Shape
  <2>4. g.pos[m] \in Int /\ g.pos[x] \in Int /\ (m # x => g.pos[m] # g.pos[x])
    BY <2>0 DEF Shape, Tree
  <2> QED  BY <2>1, <2>2, <2>3, <2>4
<1> HIDE DEF Q
<1>2. \A i \in Nat : i \in Q
  BY <1>1, StrongInduction
<1>3. w(n) \in Nat
  BY DEF Shape, Tree
<1> QED  BY <1>2, <1>3 DEF Q

\* T has the nodes S, and r as its root.
Rooted(T, g, r, S) == Shape(T.left, T.right, g) /\ Tree(T.left, T.right, T.parent, g, r, S)

\* y is the first of the nodes of S at n and below.
IsFirst(T, g, S, n, y) ==
  /\ y \in S /\ T.left[y] = NULL
  /\ g.lo[y] = g.lo[n] /\ Within(g, y, n)
  /\ y = n \/ T.left[T.parent[y]] = y
  /\ \A m \in S : g.lo[n] <= g.pos[m] => g.pos[y] <= g.pos[m]

\* rbtree_min gives it.
LEMMA MinIs ==
  ASSUME NEW T, NEW g, NEW r, NEW S, Rooted(T, g, r, S), NEW n \in S
  PROVE  IsFirst(T, g, S, n, Min(T, n))
<1> USE DEF Rooted
<1> DEFINE L == T.left
           go == {x \in Node : L[x] # NULL}
           down == CHOOSE d : d = [x \in Node |-> IF T.left[x] = NULL THEN x ELSE d[T.left[x]]]
           mu == [x \in Node |-> g.hi[x] - g.lo[x]]
           id == [x \in Node |-> x]
           W == {x \in S : /\ g.lo[x] = g.lo[n] /\ g.hi[x] <= g.hi[n]
                           /\ x = n \/ L[T.parent[x]] = x}
           Good == {x \in W : L[x] = NULL}
<1>1. Looping(Node, go, L, mu)
  BY Downwards
<1>2. \E d : d = [x \in Node |-> IF T.left[x] = NULL THEN x ELSE d[T.left[x]]]
  <2>1. PICK f : IsLoop(f, Node, go, L, id)
    BY <1>1, LoopExists
  <2>2. f = [x \in Node |-> IF T.left[x] = NULL THEN x ELSE f[T.left[x]]]
    BY <2>1 DEF IsLoop
  <2> QED  BY <2>2
<1>3. down = [x \in Node |-> IF T.left[x] = NULL THEN x ELSE down[T.left[x]]]
  BY <1>2
<1>4. Min(T, n) = down[n]
  BY NodeFacts DEF Min, Tree
<1> HIDE DEF down
<1>5. IsLoop(down, Node, go, L, id)
  <2>1. \A x \in Node : down[x] = IF x \in go THEN down[L[x]] ELSE id[x]
    BY <1>3
  <2>2. down = [x \in Node |-> IF x \in go THEN down[L[x]] ELSE id[x]]
    BY <1>3, <2>1
  <2> QED  BY <2>2 DEF IsLoop
<1>6. ASSUME NEW x \in W, x \in go PROVE L[x] \in W
  <2>1. x \in S /\ x \in Node /\ L[x] \in S /\ L[x] \in Node /\ T.parent[L[x]] = x
    BY <1>6 DEF Tree, Child
  <2>2. g.lo[L[x]] = g.lo[x] /\ g.hi[L[x]] = g.pos[x] - 1
    BY <1>6, <2>1 DEF Shape
  <2> QED  BY <1>6, <2>1, <2>2 DEF Shape, Tree
<1>7. \A x \in W : x \notin go => id[x] \in Good
  BY DEF Tree
<1>8. n \in W
  BY DEF Shape, Tree
<1>9. W \subseteq Node
  BY DEF Tree
<1>10. down[n] \in Good
  <2> HIDE DEF W, Good, go, mu, id
  <2>1. Keeps(Node, go, L, id, W, Good)
    BY <1>6, <1>7, <1>9 DEF Keeps
  <2>2. \A x \in W : down[x] \in Good
    BY <1>1, <1>5, <2>1, LoopEnds
  <2> QED  BY <1>8, <2>2
<1> PICK y \in Good : y = Min(T, n)
  BY <1>4, <1>10
<1>11. y \in S /\ y \in Node /\ n \in Node /\ L[y] = NULL /\ g.lo[y] = g.lo[n] /\ g.hi[y] <= g.hi[n]
       /\ (y = n \/ L[T.parent[y]] = y)
  BY DEF Tree
<1>12. Within(g, y, n)
  BY <1>11 DEF Shape, Within
<1>13. \A m \in S : g.lo[n] <= g.pos[m] => g.pos[y] <= g.pos[m]
  BY <1>11 DEF Shape, Tree
<1> QED  BY <1>11, <1>12, <1>13 DEF IsFirst

\* Every node before p has lost its left child.
FirstLeft(L, g, p, S) == p \in S /\ \A m \in S : g.pos[m] <= g.pos[p] => L[m] = NULL

\* z has no left child, and no node of the subtree of n before z has one.
IsNext(T, g, S, n, z) ==
  /\ z \in S /\ Within(g, z, n) /\ T.left[z] = NULL
  /\ \A m \in S : g.lo[n] <= g.pos[m] /\ g.pos[m] <= g.pos[z] => T.left[m] = NULL
  /\ T.right[z] = NULL \/ (z # n /\ T.left[T.parent[z]] = z)

\* reset_pool_ptr gives such a node, and it is a leaf or a left child.
LEMMA SlideIs ==
  ASSUME NEW T, NEW g, NEW r, NEW S, Rooted(T, g, r, S), NEW n \in S
  PROVE  IsNext(T, g, S, n, reset_pool_ptr(T, n))
<1> USE DEF Rooted
<1> DEFINE L == T.left
           R == T.right
           go == {x \in Node : L[x] = NULL /\ R[x] # NULL}
           slide == CHOOSE f : f = [x \in Node |-> IF T.left[x] = NULL /\ T.right[x] # NULL
                                                   THEN f[T.right[x]] ELSE x]
           mu == [x \in Node |-> g.hi[x] - g.lo[x]]
           id == [x \in Node |-> x]
           W == {x \in S : /\ g.lo[n] <= g.lo[x] /\ g.hi[x] <= g.hi[n]
                           /\ x = n \/ g.pos[n] < g.lo[x]
                           /\ \A m \in S : g.lo[n] <= g.pos[m] /\ g.pos[m] < g.lo[x] => L[m] = NULL}
           Good == {x \in W : L[x] # NULL \/ R[x] = NULL}
<1>1. Looping(Node, go, R, mu)
  <2>1. Looping(Node, {x \in Node : R[x] # NULL}, R, mu)
    BY ZenonT(30), Downwards
  <2> QED  BY <2>1 DEF Looping
<1>2. \E f : f = [x \in Node |-> IF T.left[x] = NULL /\ T.right[x] # NULL THEN f[T.right[x]] ELSE x]
  <2>1. PICK f : IsLoop(f, Node, go, R, id)
    BY <1>1, LoopExists
  <2>2. f = [x \in Node |-> IF T.left[x] = NULL /\ T.right[x] # NULL THEN f[T.right[x]] ELSE x]
    BY <2>1 DEF IsLoop
  <2> QED  BY <2>2
<1>3. slide = [x \in Node |-> IF T.left[x] = NULL /\ T.right[x] # NULL THEN slide[T.right[x]] ELSE x]
  BY <1>2
<1>4. reset_pool_ptr(T, n) = Min(T, slide[n])
  BY NodeFacts DEF reset_pool_ptr, Tree
<1> HIDE DEF slide
<1>5. IsLoop(slide, Node, go, R, id)
  <2>1. \A x \in Node : slide[x] = IF x \in go THEN slide[R[x]] ELSE id[x]
    BY <1>3
  <2>2. slide = [x \in Node |-> IF x \in go THEN slide[R[x]] ELSE id[x]]
    BY <1>3, <2>1
  <2> QED  BY <2>2 DEF IsLoop
<1>6. ASSUME NEW x \in W, x \in go PROVE R[x] \in W
  <2>1. x \in S /\ x \in Node /\ L[x] = NULL /\ R[x] \in S /\ R[x] \in Node /\ n \in Node
    BY <1>6 DEF Tree
  <2>2. g.lo[R[x]] = g.pos[x] + 1 /\ g.hi[R[x]] = g.hi[x]
    BY <1>6, <2>1 DEF Shape
  <2>3. ASSUME NEW m \in S, g.lo[n] <= g.pos[m], g.pos[m] < g.lo[R[x]] PROVE L[m] = NULL
    <3>1. CASE g.pos[m] < g.lo[x]
      BY <1>6, <2>3, <3>1
    <3>2. CASE g.lo[x] <= g.pos[m]
      <4>1. g.pos[m] <= g.pos[x]
        BY <2>1, <2>2, <2>3 DEF Shape, Tree
      <4>2. m = x \/ g.pos[m] < g.pos[x]
        <5> HIDE DEF W, Good, mu, go
        <5>1. m \in Node /\ (m # x => g.pos[m] # g.pos[x])
          BY <2>1 DEF Tree
        <5>2. g.pos[m] \in Int /\ g.pos[x] \in Int
          BY <2>1, <5>1 DEF Shape
        <5> QED  BY <4>1, <5>1, <5>2
      <4>3. m # x /\ L[x] = NULL => ~(g.lo[x] <= g.pos[m] /\ g.pos[m] < g.pos[x])
        BY <2>1 DEF Tree
      <4> HIDE DEF W
      <4> QED  BY <2>1, <3>2, <4>2, <4>3
    <3> QED  BY <2>1, <3>1, <3>2 DEF Shape, Tree
  <2>4. g.lo[n] <= g.lo[R[x]] /\ g.hi[R[x]] <= g.hi[n] /\ g.pos[n] < g.lo[R[x]]
    BY <1>6, <2>1, <2>2 DEF Shape
  <2> QED  BY <2>1, <2>3, <2>4
<1>7. \A x \in W : x \notin go => id[x] \in Good
  BY DEF Tree
<1>8. n \in W
  BY DEF Shape, Tree
<1>9. W \subseteq Node
  BY DEF Tree
<1>10. slide[n] \in Good
  <2> HIDE DEF W, Good, go, mu, id
  <2>1. Keeps(Node, go, R, id, W, Good)
    BY <1>6, <1>7, <1>9 DEF Keeps
  <2>2. \A x \in W : slide[x] \in Good
    BY <1>1, <1>5, <2>1, LoopEnds
  <2> QED  BY <1>8, <2>2
<1> PICK y \in Good : y = slide[n]
  BY <1>10
<1>11. y \in S /\ g.lo[n] <= g.lo[y] /\ g.hi[y] <= g.hi[n] /\ (L[y] # NULL \/ R[y] = NULL)
       /\ (y = n \/ g.pos[n] < g.lo[y])
       /\ \A m \in S : g.lo[n] <= g.pos[m] /\ g.pos[m] < g.lo[y] => L[m] = NULL
  OBVIOUS
<1>12. PICK z : z = Min(T, y) /\ IsFirst(T, g, S, y, z)
  BY <1>11, MinIs
<1> HIDE DEF Good, W
<1> USE DEF IsFirst
<1>13. z = reset_pool_ptr(T, n) /\ z \in S
  BY <1>4, <1>12
<1>14. z \in Node /\ y \in Node /\ n \in Node
  BY <1>11, <1>13 DEF Tree
<1>15. Within(g, z, n)
  BY <1>11, <1>12, <1>14 DEF Within, Shape
<1>16. ASSUME NEW m \in S, g.lo[n] <= g.pos[m], g.pos[m] <= g.pos[z] PROVE L[m] = NULL
  <2>1. CASE g.pos[m] < g.lo[y]
    BY <1>11, <1>16, <2>1
  <2>2. CASE g.lo[y] <= g.pos[m]
    <3>1. g.pos[z] <= g.pos[m]
      BY <1>12, <2>2
    <3>2. m = z
      <4>1. m \in Node /\ (m # z => g.pos[m] # g.pos[z])
        BY <1>13 DEF Tree
      <4>2. g.pos[m] \in Int /\ g.pos[z] \in Int
        BY <1>14, <4>1 DEF Shape
      <4> QED  BY <1>16, <3>1, <4>1, <4>2
    <3> QED  BY <1>12, <3>2
  <2>3. g.pos[m] \in Int /\ g.lo[y] \in Int
    BY <1>14 DEF Shape, Tree
  <2> QED  BY <2>1, <2>2, <2>3
<1>17. R[z] = NULL \/ (z # n /\ L[T.parent[z]] = z)
  <2>1. CASE z = y
    BY <1>11, <1>12, <2>1
  <2>2. CASE z # y
    <3>1. L[T.parent[z]] = z
      BY <1>12, <2>2
    <3>2. g.lo[y] <= g.pos[z] /\ g.pos[z] \in Int /\ g.pos[n] \in Int /\ g.lo[y] \in Int
      BY <1>12, <1>14 DEF Within, Shape
    <3>3. z # n
      BY <1>11, <2>2, <3>2
    <3> QED  BY <3>1, <3>3
  <2> QED  BY <2>1, <2>2
<1>18. L[z] = NULL
  BY <1>12
<1>19. IsNext(T, g, S, n, z)
  BY <1>13, <1>15, <1>16, <1>17, <1>18 DEF IsNext
<1> QED  BY <1>13, <1>19

\* y is the node behind n, or NULL if n is the last.
IsSuccessor(g, S, n, y) ==
  IF y = NULL THEN \A m \in S : g.pos[m] <= g.pos[n]
  ELSE y \in S /\ g.pos[n] < g.pos[y] /\ \A m \in S : g.pos[n] < g.pos[m] => g.pos[y] <= g.pos[m]

\* rbtree_successor gives it.
LEMMA SuccessorIs ==
  ASSUME NEW T, NEW g, NEW r, NEW S, Rooted(T, g, r, S), NEW n \in S,
         T.parent \in [Node -> Node \cup {NULL}]
  PROVE  IsSuccessor(g, S, n, Successor(T, n))
<1> USE DEF Rooted
<1> DEFINE L == T.left
           R == T.right
           P == T.parent
           go == {x \in Node : P[x] # NULL /\ x = R[P[x]]}
           up == CHOOSE f : f = [x \in Node |-> IF T.parent[x] # NULL /\ x = T.right[T.parent[x]]
                                                THEN f[T.parent[x]] ELSE T.parent[x]]
           mu == [x \in Node |-> g.B + g.lo[x]]
           W == {x \in S : g.hi[x] = g.hi[n]}
           Good == {p \in S : g.pos[p] = g.hi[n] + 1} \cup {p \in {NULL} : g.hi[r] = g.hi[n]}
<1>0. n \in Node /\ S \subseteq Node
  BY DEF Tree
<1>1. Looping(Node, go, P, mu)
  <2>1. mu \in [Node -> Nat]
    BY DEF Shape
  <2>2. ASSUME NEW x \in go PROVE P[x] \in Node /\ g.lo[P[x]] < g.lo[x]
    <3>1. P[x] \in Node /\ R[P[x]] = x /\ R[P[x]] # NULL
      BY NodeFacts
    <3>2. g.lo[R[P[x]]] = g.pos[P[x]] + 1
      BY <3>1 DEF Shape
    <3> QED  BY <3>1, <3>2 DEF Shape
  <2>3. ASSUME NEW x \in go PROVE mu[P[x]] < mu[x]
    <3>1. x \in Node /\ P[x] \in Node
      BY <2>2
    <3>2. g.B \in Int /\ g.lo[x] \in Int /\ g.lo[P[x]] \in Int
      BY <3>1 DEF Shape
    <3>3. mu[P[x]] = g.B + g.lo[P[x]] /\ mu[x] = g.B + g.lo[x]
      BY <3>1
    <3> QED  BY <2>2, <3>2, <3>3
  <2> QED  BY <2>1, <2>2, <2>3 DEF Looping
<1>2. \E f : f = [x \in Node |-> IF T.parent[x] # NULL /\ x = T.right[T.parent[x]]
                                 THEN f[T.parent[x]] ELSE T.parent[x]]
  <2>1. PICK f : IsLoop(f, Node, go, P, P)
    BY <1>1, LoopExists
  <2>2. f = [x \in Node |-> IF T.parent[x] # NULL /\ x = T.right[T.parent[x]]
                            THEN f[T.parent[x]] ELSE T.parent[x]]
    BY <2>1 DEF IsLoop
  <2> QED  BY <2>2
<1>3. up = [x \in Node |-> IF T.parent[x] # NULL /\ x = T.right[T.parent[x]]
                           THEN up[T.parent[x]] ELSE T.parent[x]]
  BY <1>2
<1>4. Successor(T, n) = IF R[n] # NULL THEN Min(T, R[n]) ELSE up[n]
  BY DEF Successor
<1> HIDE DEF up
<1>5. IsLoop(up, Node, go, P, P)
  <2>1. \A x \in Node : up[x] = IF x \in go THEN up[P[x]] ELSE P[x]
    BY <1>3
  <2>2. up = [x \in Node |-> IF x \in go THEN up[P[x]] ELSE P[x]]
    BY <1>3, <2>1
  <2> QED  BY <2>2 DEF IsLoop
<1>6. ASSUME NEW x \in W, x \in go PROVE P[x] \in W
  <2>1. x \in S /\ x # r /\ P[x] \in S /\ P[x] \in Node /\ R[P[x]] = x
    BY <1>6 DEF Tree
  <2>2. g.hi[R[P[x]]] = g.hi[P[x]]
    BY ZenonT(30), <1>0, <2>1, NodeFacts DEF Shape
  <2> QED  BY <2>1, <2>2
<1>7. ASSUME NEW x \in W, x \notin go PROVE P[x] \in Good
  <2>1. CASE x = r
    BY <2>1 DEF Tree
  <2>2. CASE x # r
    <3>1. P[x] \in S /\ P[x] \in Node /\ L[P[x]] = x /\ x \in Node
      BY <1>7, <2>2, NodeFacts DEF Tree
    <3>2. g.hi[L[P[x]]] = g.pos[P[x]] - 1
      BY <3>1, NodeFacts DEF Shape
    <3> QED  BY <1>0, <3>1, <3>2 DEF Shape
  <2> QED  BY <2>1, <2>2
<1>8. up[n] \in Good
  <2> HIDE DEF W, Good, go, mu, P
  <2>1. Keeps(Node, go, P, P, W, Good)
    <3>1. W \subseteq Node
      BY <1>0 DEF W
    <3> QED  BY <1>6, <1>7, <3>1 DEF Keeps
  <2>2. \A x \in W : up[x] \in Good
    BY <1>1, <1>5, <2>1, LoopEnds
  <2>3. n \in W
    BY DEF W
  <2> QED  BY <2>2, <2>3
<1>9. CASE R[n] # NULL
  <2>1. R[n] \in S /\ R[n] \in Node /\ g.lo[R[n]] = g.pos[n] + 1
    BY <1>0, <1>9 DEF Shape, Tree
  <2>2. PICK y : y = Min(T, R[n]) /\ IsFirst(T, g, S, R[n], y)
    BY <2>1, MinIs
  <2>3. y \in S /\ y \in Node /\ g.lo[y] = g.pos[n] + 1
        /\ \A m \in S : g.pos[n] + 1 <= g.pos[m] => g.pos[y] <= g.pos[m]
    BY <1>0, <2>1, <2>2 DEF IsFirst
  <2>4. g.pos[n] < g.pos[y] /\ \A m \in S : g.pos[n] < g.pos[m] => g.pos[y] <= g.pos[m]
    BY <1>0, <2>3 DEF Shape
  <2>5. IsSuccessor(g, S, n, y)
    BY <2>3, <2>4, NodeFacts DEF IsSuccessor
  <2> QED  BY <1>4, <1>9, <2>2, <2>5
<1>10. CASE R[n] = NULL
  <2> PICK y \in Good : y = up[n]
    BY <1>8
  <2>1. \A m \in S : g.pos[m] <= g.pos[n] \/ g.pos[m] > g.hi[n]
    BY <1>0, <1>10 DEF Shape, Tree
  <2>2. CASE y = NULL
    <3>1. g.hi[r] = g.hi[n]
      BY <1>0, <2>2, NodeFacts
    <3>2. \A m \in S : g.pos[m] <= g.hi[r]
      BY DEF Tree, Within
    <3>3. \A m \in S : g.pos[m] <= g.pos[n]
      BY <1>0, <2>1, <3>1, <3>2 DEF Shape
    <3>4. IsSuccessor(g, S, n, y)
      BY <2>2, <3>3 DEF IsSuccessor
    <3> QED  BY <1>4, <1>10, <3>4
  <2>3. CASE y # NULL
    <3>1. y \in S /\ g.pos[y] = g.hi[n] + 1
      BY <2>3
    <3>2. g.pos[n] < g.pos[y] /\ \A m \in S : g.pos[n] < g.pos[m] => g.pos[y] <= g.pos[m]
      BY <1>0, <2>1, <3>1 DEF Shape
    <3>3. IsSuccessor(g, S, n, y)
      BY <2>3, <3>1, <3>2 DEF IsSuccessor
    <3> QED  BY <1>4, <1>10, <3>3
  <2> QED  BY <2>2, <2>3
<1> QED  BY <1>9, <1>10

\* The keys ascend with the places.
Sorted(T, g, S) ==
  /\ \A n \in S : T.key[n] \in Int
  /\ \A m \in S, n \in S : g.pos[m] < g.pos[n] => T.key[m] <= T.key[n]

\* rbtree_search finds a node with the key if there is one.
LEMMA SearchIs ==
  ASSUME NEW T, NEW g, NEW r, NEW S, Rooted(T, g, r, S), Sorted(T, g, S), r = T.root,
         NEW k \in Int
  PROVE  IF \E m \in S : T.key[m] = k THEN Search(T, k) \in S /\ T.key[Search(T, k)] = k
         ELSE Search(T, k) = NULL
<1> USE DEF Rooted
<1> DEFINE L == T.left
           R == T.right
           D == Node \cup {NULL}
           go == {x \in Node : T.key[x] # k}
           next == [x \in Node |-> IF k < T.key[x] THEN T.left[x] ELSE T.right[x]]
           from == CHOOSE f : f = [x \in Node \cup {NULL} |->
                     IF x = NULL THEN NULL
                     ELSE IF T.key[x] = k THEN x
                     ELSE f[IF k < T.key[x] THEN T.left[x] ELSE T.right[x]]]
           mu == [x \in Node \cup {NULL} |-> IF x = NULL THEN 0 ELSE g.hi[x] - g.lo[x] + 1]
           id == [x \in Node \cup {NULL} |-> x]
           W == {x \in S \cup {NULL} : \A m \in S : T.key[m] = k => x # NULL /\ Within(g, m, x)}
           Good == {y \in S : T.key[y] = k} \cup {y \in {NULL} : \A m \in S : T.key[m] # k}
<1>0. S \subseteq Node /\ NULL \notin Node
  BY NodeFacts DEF Tree
<1>1. Looping(D, go, next, mu)
  <2>1. mu \in [D -> Nat]
    BY DEF Shape
  <2>2. ASSUME NEW x \in go PROVE next[x] \in D /\ mu[next[x]] < mu[x]
    <3>1. next[x] \in {L[x], R[x]} /\ x # NULL /\ x \in Node
      BY <1>0
    <3>2. CASE next[x] = NULL
      BY <1>0, <3>1, <3>2 DEF Shape
    <3>3. CASE next[x] # NULL
      <4> HIDE DEF next
      <4>1. next[x] \in Node /\ g.hi[next[x]] - g.lo[next[x]] < g.hi[x] - g.lo[x]
        BY <3>1, <3>3 DEF Shape
      <4>2. mu[next[x]] = g.hi[next[x]] - g.lo[next[x]] + 1 /\ mu[x] = g.hi[x] - g.lo[x] + 1
        BY <1>0, <3>1, <3>3, <4>1
      <4> HIDE DEF mu
      <4> QED  BY <3>1, <4>1, <4>2 DEF Shape
    <3> QED  BY <3>2, <3>3
  <2> QED  BY <2>1, <2>2 DEF Looping
<1>2. \E f : f = [x \in Node \cup {NULL} |->
                     IF x = NULL THEN NULL
                     ELSE IF T.key[x] = k THEN x
                     ELSE f[IF k < T.key[x] THEN T.left[x] ELSE T.right[x]]]
  <2>1. PICK f : IsLoop(f, D, go, next, id)
    <3> HIDE DEF D, go, next, mu, id
    <3> QED  BY <1>1, LoopExists
  <2>2. \A x \in D : f[x] = IF x \in go THEN f[next[x]] ELSE id[x]
    BY <2>1 DEF IsLoop
  <2>3. \A x \in Node \cup {NULL} :
          f[x] = IF x = NULL THEN NULL
                 ELSE IF T.key[x] = k THEN x
                 ELSE f[IF k < T.key[x] THEN T.left[x] ELSE T.right[x]]
    BY <1>0, <2>2
  <2>4. f = [x \in Node \cup {NULL} |-> f[x]]
    BY <2>1 DEF IsLoop
  <2>5. f = [x \in Node \cup {NULL} |->
               IF x = NULL THEN NULL
               ELSE IF T.key[x] = k THEN x
               ELSE f[IF k < T.key[x] THEN T.left[x] ELSE T.right[x]]]
    BY SMTT(30), <2>3, <2>4
  <2> QED  BY <2>5
<1>3. from = [x \in Node \cup {NULL} |->
               IF x = NULL THEN NULL
               ELSE IF T.key[x] = k THEN x
               ELSE from[IF k < T.key[x] THEN T.left[x] ELSE T.right[x]]]
  BY Zenon, <1>2
<1>4. Search(T, k) = from[r]
  BY DEF Search
<1> HIDE DEF from
<1>5. IsLoop(from, D, go, next, id)
  <2>1. \A x \in D : from[x] = IF x \in go THEN from[next[x]] ELSE id[x]
    BY <1>0, <1>3
  <2>2. from = [x \in D |-> from[x]]
    BY <1>3
  <2>3. from = [x \in D |-> IF x \in go THEN from[next[x]] ELSE id[x]]
    BY <2>1, <2>2
  <2> QED  BY <2>3 DEF IsLoop
<1>6. ASSUME NEW x \in W, x \in go PROVE next[x] \in W
  <2>1. x \in S /\ x \in Node /\ next[x] = IF k < T.key[x] THEN L[x] ELSE R[x]
    BY <1>0, <1>6
  <2>2. next[x] \in S \cup {NULL}
    BY <2>1 DEF Tree
  <2>3. ASSUME NEW m \in S, T.key[m] = k PROVE next[x] # NULL /\ Within(g, m, next[x])
    <3>1. Within(g, m, x) /\ m # x /\ m \in Node /\ g.pos[m] # g.pos[x]
      BY <1>0, <1>6, <2>1, <2>3 DEF Tree
    <3>2. CASE k < T.key[x]
      <4>1. g.pos[m] < g.pos[x]
        BY <2>1, <2>3, <3>1, <3>2 DEF Sorted, Shape
      <4>2. L[x] # NULL
        BY <2>1, <3>1, <4>1 DEF Tree, Within
      <4> QED  BY <2>1, <3>1, <3>2, <4>1, <4>2 DEF Shape, Within
    <3>3. CASE ~(k < T.key[x])
      <4>1. g.pos[x] < g.pos[m]
        BY <1>6, <2>1, <2>3, <3>1, <3>3 DEF Sorted, Shape
      <4>2. R[x] # NULL
        BY <2>1, <3>1, <4>1 DEF Tree, Within
      <4> QED  BY <2>1, <3>1, <3>3, <4>1, <4>2 DEF Shape, Within
    <3> QED  BY <3>2, <3>3
  <2> QED  BY <2>2, <2>3
<1>7. ASSUME NEW x \in W, x \notin go PROVE id[x] \in Good
  BY <1>0, <1>7
<1>8. r \in W
  BY <1>0 DEF Tree
<1>9. from[r] \in Good
  <2>1. W \subseteq D
    BY <1>0
  <2> HIDE DEF W, Good, go, mu, next, id, D
  <2>2. Keeps(D, go, next, id, W, Good)
    BY <1>6, <1>7, <2>1 DEF Keeps
  <2>3. \A x \in W : from[x] \in Good
    BY <1>1, <1>5, <2>2, LoopEnds
  <2> QED  BY <1>8, <2>3
<1> PICK y \in Good : y = Search(T, k)
  BY <1>4, <1>9
<1> QED  BY <1>0

\* A node for k belongs directly behind c, or directly in front of it; there c
\* has no child.
IsPlace(T, g, S, k, c) ==
  /\ c \in S
  /\ IF T.key[c] < k
     THEN /\ T.right[c] = NULL
          /\ \A m \in S : T.key[m] < k <=> g.pos[m] <= g.pos[c]
     ELSE /\ T.left[c] = NULL
          /\ \A m \in S : T.key[m] < k <=> g.pos[m] < g.pos[c]

\* rbtree_insert finds such a c.
LEMMA PlaceIs ==
  ASSUME NEW T, NEW g, NEW r, NEW S, Rooted(T, g, r, S), Sorted(T, g, S), r = T.root, r # NULL,
         NEW k \in Int
  PROVE  IsPlace(T, g, S, k, Place(T, k))
<1> USE DEF Rooted
<1> DEFINE L == T.left
           R == T.right
           next == [x \in Node |-> IF T.key[x] < k THEN T.right[x] ELSE T.left[x]]
           go == {x \in Node : next[x] # NULL}
           from == CHOOSE f : f = [x \in Node |->
                     IF (IF T.key[x] < k THEN T.right[x] ELSE T.left[x]) = NULL THEN x
                     ELSE f[IF T.key[x] < k THEN T.right[x] ELSE T.left[x]]]
           mu == [x \in Node |-> g.hi[x] - g.lo[x]]
           id == [x \in Node |-> x]
           W == {x \in S : \A m \in S : /\ g.pos[m] < g.lo[x] => T.key[m] < k
                                        /\ g.hi[x] < g.pos[m] => ~(T.key[m] < k)}
           Good == {c \in W : next[c] = NULL}
<1>0. S \subseteq Node /\ NULL \notin Node
  BY NodeFacts DEF Tree
<1>1. Looping(Node, go, next, mu)
  <2>1. mu \in [Node -> Nat]
    BY DEF Shape
  <2>2. ASSUME NEW x \in go PROVE next[x] \in Node /\ mu[next[x]] < mu[x]
    <3>1. next[x] \in {L[x], R[x]} /\ x \in Node /\ next[x] # NULL
      OBVIOUS
    <3> HIDE DEF next
    <3>2. next[x] \in Node /\ g.hi[next[x]] - g.lo[next[x]] < g.hi[x] - g.lo[x]
      BY <3>1 DEF Shape
    <3> QED  BY <3>1, <3>2
  <2> QED  BY <2>1, <2>2 DEF Looping
<1>2. \E f : f = [x \in Node |->
                     IF (IF T.key[x] < k THEN T.right[x] ELSE T.left[x]) = NULL THEN x
                     ELSE f[IF T.key[x] < k THEN T.right[x] ELSE T.left[x]]]
  <2>1. PICK f : IsLoop(f, Node, go, next, id)
    <3> HIDE DEF go, next, mu, id
    <3> QED  BY <1>1, LoopExists
  <2>2. \A x \in Node : f[x] = IF x \in go THEN f[next[x]] ELSE id[x]
    BY <2>1 DEF IsLoop
  <2>3. \A x \in Node :
          f[x] = IF (IF T.key[x] < k THEN T.right[x] ELSE T.left[x]) = NULL THEN x
                 ELSE f[IF T.key[x] < k THEN T.right[x] ELSE T.left[x]]
    BY <2>2
  <2>4. f = [x \in Node |-> f[x]]
    BY SMTT(30), <2>1 DEF IsLoop
  <2> QED  BY <2>3, <2>4
<1>3. from = [x \in Node |->
                IF (IF T.key[x] < k THEN T.right[x] ELSE T.left[x]) = NULL THEN x
                ELSE from[IF T.key[x] < k THEN T.right[x] ELSE T.left[x]]]
  BY Zenon, <1>2
<1>4. Place(T, k) = from[r]
  BY DEF Place
<1> HIDE DEF from
<1>5. IsLoop(from, Node, go, next, id)
  <2>1. \A x \in Node : from[x] = IF x \in go THEN from[next[x]] ELSE id[x]
    BY <1>3
  <2>2. from = [x \in Node |-> from[x]]
    BY <1>3
  <2>3. from = [x \in Node |-> IF x \in go THEN from[next[x]] ELSE id[x]]
    BY <2>1, <2>2
  <2> QED  BY <2>3 DEF IsLoop
<1>6. ASSUME NEW x \in W, x \in go PROVE next[x] \in W
  <2>1. x \in S /\ x \in Node /\ next[x] = (IF T.key[x] < k THEN R[x] ELSE L[x]) /\ next[x] # NULL
    BY <1>0, <1>6
  <2>2. next[x] \in S
    BY <2>1 DEF Tree
  <2>3. ASSUME NEW m \in S PROVE /\ g.pos[m] < g.lo[next[x]] => T.key[m] < k
                                 /\ g.hi[next[x]] < g.pos[m] => ~(T.key[m] < k)
    <3>1. m \in Node /\ (m # x => g.pos[m] # g.pos[x]) /\ T.key[m] \in Int /\ T.key[x] \in Int
          /\ (g.pos[m] < g.lo[x] => T.key[m] < k) /\ (g.hi[x] < g.pos[m] => ~(T.key[m] < k))
      BY <1>0, <1>6, <2>1 DEF Tree, Sorted
    <3>2. (g.pos[m] < g.pos[x] => T.key[m] <= T.key[x]) /\ (g.pos[x] < g.pos[m] => T.key[x] <= T.key[m])
      BY <2>1 DEF Sorted
    <3>3. CASE T.key[x] < k
      BY <2>1, <3>1, <3>2, <3>3 DEF Shape
    <3>4. CASE ~(T.key[x] < k)
      BY <2>1, <3>1, <3>2, <3>4 DEF Shape
    <3> QED  BY <3>3, <3>4
  <2> QED  BY <2>2, <2>3
<1>7. ASSUME NEW x \in W, x \notin go PROVE id[x] \in Good
  BY <1>0, <1>7
<1>8. r \in W
  <2>1. r \in S /\ \A m \in S : Within(g, m, r)
    BY DEF Tree
  <2> QED  BY <1>0, <2>1 DEF Within, Shape
<1>9. from[r] \in Good
  <2>1. W \subseteq Node
    BY <1>0
  <2> HIDE DEF W, Good, go, mu, next, id
  <2>2. Keeps(Node, go, next, id, W, Good)
    BY <1>6, <1>7, <2>1 DEF Keeps
  <2>3. \A x \in W : from[x] \in Good
    BY <1>1, <1>5, <2>2, LoopEnds
  <2> QED  BY <1>8, <2>3
<1> PICK c \in Good : c = Place(T, k)
  BY <1>4, <1>9
<1>10. c \in S /\ c \in Node /\ T.key[c] \in Int
       /\ (IF T.key[c] < k THEN R[c] ELSE L[c]) = NULL
       /\ \A m \in S : /\ g.pos[m] < g.lo[c] => T.key[m] < k
                       /\ g.hi[c] < g.pos[m] => ~(T.key[m] < k)
  BY <1>0 DEF Sorted
<1> HIDE DEF Good, W
<1>11. ASSUME NEW m \in S
       PROVE  IF T.key[c] < k THEN T.key[m] < k <=> g.pos[m] <= g.pos[c]
              ELSE T.key[m] < k <=> g.pos[m] < g.pos[c]
  <2>1. /\ m \in Node /\ T.key[m] \in Int /\ (m # c => g.pos[m] # g.pos[c])
        /\ g.pos[m] < g.pos[c] => T.key[m] <= T.key[c]
        /\ g.pos[c] < g.pos[m] => T.key[c] <= T.key[m]
        /\ g.lo[c] <= g.pos[m] /\ g.pos[m] < g.pos[c] => L[c] # NULL
        /\ g.pos[c] < g.pos[m] /\ g.pos[m] <= g.hi[c] => R[c] # NULL
    BY <1>0, <1>10 DEF Tree, Sorted
  <2>2. /\ g.pos[m] \in Int /\ g.pos[c] \in Int /\ g.lo[c] \in Int /\ g.hi[c] \in Int
        /\ g.lo[c] <= g.pos[c] /\ g.pos[c] <= g.hi[c]
    BY <1>10, <2>1 DEF Shape
  <2>3. /\ g.pos[m] < g.lo[c] => T.key[m] < k
        /\ g.hi[c] < g.pos[m] => ~(T.key[m] < k)
    BY <1>10
  <2>4. CASE T.key[c] < k
    BY <1>10, <2>1, <2>2, <2>3, <2>4
  <2>5. CASE ~(T.key[c] < k)
    BY <1>10, <2>1, <2>2, <2>3, <2>5
  <2> QED  BY <2>4, <2>5
<1>12. IsPlace(T, g, S, k, c)
  BY <1>10, <1>11 DEF IsPlace
<1> QED  BY <1>12

\* The nodes of S at n and below.
Subtree(g, S, n) == {m \in S : Within(g, m, n)}

\* A node, and those below its children.
LEMMA SubtreeParts ==
  ASSUME NEW L, NEW R, NEW P, NEW g, NEW r, NEW S, Shape(L, R, g), Tree(L, R, P, g, r, S),
         NEW n \in S
  PROVE  Subtree(g, S, n) = {n} \cup (IF L[n] = NULL THEN {} ELSE Subtree(g, S, L[n]))
                                \cup (IF R[n] = NULL THEN {} ELSE Subtree(g, S, R[n]))
<1>1. n \in Node /\ S \subseteq Node
  BY DEF Tree
<1>2. /\ L[n] = NULL \/ (/\ L[n] \in Node /\ g.lo[L[n]] = g.lo[n] /\ g.hi[L[n]] = g.pos[n] - 1)
      /\ R[n] = NULL \/ (/\ R[n] \in Node /\ g.lo[R[n]] = g.pos[n] + 1 /\ g.hi[R[n]] = g.hi[n])
  BY <1>1 DEF Shape
<1>3. Within(g, n, n)
  BY <1>1 DEF Shape, Within
<1>4. ASSUME NEW m \in S, m # n
      PROVE  Within(g, m, n) <=> \/ L[n] # NULL /\ Within(g, m, L[n])
                                 \/ R[n] # NULL /\ Within(g, m, R[n])
  <2>1. /\ g.pos[m] # g.pos[n]
        /\ g.lo[n] <= g.pos[m] /\ g.pos[m] < g.pos[n] => L[n] # NULL
        /\ g.pos[n] < g.pos[m] /\ g.pos[m] <= g.hi[n] => R[n] # NULL
    BY <1>4 DEF Tree
  <2>2. /\ g.pos[m] \in Int /\ g.pos[n] \in Int /\ g.lo[n] \in Int /\ g.hi[n] \in Int
        /\ g.lo[n] <= g.pos[n] /\ g.pos[n] <= g.hi[n]
    BY <1>1 DEF Shape
  <2> QED  BY <1>2, <2>1, <2>2 DEF Within
<1> QED  BY <1>3, <1>4 DEF Subtree

\* Below gives exactly these.
LEMMA BelowIs ==
  ASSUME NEW T, NEW g, NEW r, NEW S, Rooted(T, g, r, S)
  PROVE  Below(T, NULL) = {} /\ \A n \in S : Below(T, n) = Subtree(g, S, n)
<1> USE DEF Rooted
<1> DEFINE L == T.left
           R == T.right
           D == Node \cup {NULL}
           V == SUBSET Node
           mu == [x \in Node \cup {NULL} |-> IF x = NULL THEN 0 ELSE g.hi[x] - g.lo[x] + 1]
           H == [a \in D \X [D -> V] |->
                   IF a[1] = NULL THEN {} ELSE {a[1]} \cup a[2][L[a[1]]] \cup a[2][R[a[1]]]]
           under == CHOOSE f : f = [n \in Node \cup {NULL} |->
                      IF n = NULL THEN {} ELSE {n} \cup f[T.left[n]] \cup f[T.right[n]]]
<1>0. S \subseteq Node /\ NULL \notin Node
  BY NodeFacts DEF Tree
<1>1. mu \in [D -> Nat] /\ mu[NULL] = 0 /\ \A x \in Node : mu[x] = g.hi[x] - g.lo[x] + 1
  BY <1>0 DEF Shape
<1>2. ASSUME NEW x \in Node
      PROVE  L[x] \in D /\ R[x] \in D /\ mu[L[x]] < mu[x] /\ mu[R[x]] < mu[x]
  <2>1. L[x] \in D /\ R[x] \in D
    BY DEF Shape
  <2>2. 0 < mu[x] /\ (L[x] # NULL => mu[L[x]] < mu[x]) /\ (R[x] # NULL => mu[R[x]] < mu[x])
    <3> HIDE DEF mu
    <3> QED  BY <1>1 DEF Shape
  <2> HIDE DEF mu
  <2> QED  BY <1>1, <2>1, <2>2
<1>3. ASSUME NEW d \in D, NEW h \in [D -> V]
      PROVE  H[<<d, h>>] = IF d = NULL THEN {} ELSE {d} \cup h[L[d]] \cup h[R[d]]
  OBVIOUS
<1>4. H \in [D \X [D -> V] -> V]
  <2> SUFFICES ASSUME NEW d \in D, NEW h \in [D -> V]
               PROVE  (IF d = NULL THEN {} ELSE {d} \cup h[L[d]] \cup h[R[d]]) \in V
    OBVIOUS
  <2>1. CASE d = NULL
    BY <2>1
  <2>2. CASE d # NULL
    <3>1. L[d] \in D /\ R[d] \in D /\ d \in Node
      BY <1>2, <2>2
    <3>2. h[L[d]] \in V /\ h[R[d]] \in V
      BY <3>1
    <3> QED  BY <2>2, <3>1, <3>2
  <2> QED  BY <2>1, <2>2
<1>5. \E f : f = [n \in Node \cup {NULL} |->
                    IF n = NULL THEN {} ELSE {n} \cup f[T.left[n]] \cup f[T.right[n]]]
  <2> HIDE DEF H, mu
  <2>1. ASSUME NEW d \in D, NEW h \in [D -> V], NEW i \in [D -> V],
               \A e \in D : mu[e] < mu[d] => h[e] = i[e]
        PROVE  H[<<d, h>>] = H[<<d, i>>]
    <3>1. CASE d = NULL
      BY <1>3, <3>1
    <3>2. CASE d # NULL
      <4>1. h[L[d]] = i[L[d]] /\ h[R[d]] = i[R[d]]
        BY <1>2, <2>1, <3>2
      <4> QED  BY <1>3, <3>2, <4>1
    <3> QED  BY <3>1, <3>2
  <2>2. Recursive(D, V, mu, H)
    <3> HIDE DEF D
    <3> QED  BY <1>1, <1>4, <2>1 DEF Recursive
  <2>3. PICK f \in [D -> V] : \A d \in D : f[d] = H[<<d, f>>]
    BY <2>2, Recursion DEF Follows
  <2>4. \A n \in D : f[n] = IF n = NULL THEN {} ELSE {n} \cup f[L[n]] \cup f[R[n]]
    BY <1>3, <2>3
  <2>5. f = [n \in D |-> f[n]]
    BY <2>3
  <2>6. f = [n \in D |-> IF n = NULL THEN {} ELSE {n} \cup f[L[n]] \cup f[R[n]]]
    BY <2>4, <2>5
  <2> QED  BY <2>6
<1>6. under = [n \in Node \cup {NULL} |->
                 IF n = NULL THEN {} ELSE {n} \cup under[T.left[n]] \cup under[T.right[n]]]
  BY <1>5
<1>7. \A n : Below(T, n) = under[n]
  BY DEF Below
<1> HIDE DEF under, mu, H
<1>8. under[NULL] = {} /\ \A n \in Node : under[n] = {n} \cup under[L[n]] \cup under[R[n]]
  BY <1>0, <1>6
<1> DEFINE Q == {i \in Nat : \A n \in S : mu[n] = i => under[n] = Subtree(g, S, n)}
<1>9. ASSUME NEW i \in Nat, \A k \in 0..(i - 1) : k \in Q PROVE i \in Q
  <2> SUFFICES ASSUME NEW n \in S, mu[n] = i PROVE under[n] = Subtree(g, S, n)
    OBVIOUS
  <2>1. /\ L[n] \in S \cup {NULL} /\ R[n] \in S \cup {NULL} /\ n \in Node
        /\ mu[L[n]] \in Nat /\ mu[R[n]] \in Nat /\ mu[L[n]] < i /\ mu[R[n]] < i
    BY <1>0, <1>1, <1>2 DEF Tree
  <2>2. mu[L[n]] \in 0..(i - 1) /\ mu[R[n]] \in 0..(i - 1)
    BY <2>1
  <2>3. under[L[n]] = IF L[n] = NULL THEN {} ELSE Subtree(g, S, L[n])
    BY <1>8, <1>9, <2>1, <2>2
  <2>4. under[R[n]] = IF R[n] = NULL THEN {} ELSE Subtree(g, S, R[n])
    BY <1>8, <1>9, <2>1, <2>2
  <2>5. Subtree(g, S, n) = {n} \cup (IF L[n] = NULL THEN {} ELSE Subtree(g, S, L[n]))
                               \cup (IF R[n] = NULL THEN {} ELSE Subtree(g, S, R[n]))
    BY SubtreeParts
  <2> QED  BY <1>8, <2>1, <2>3, <2>4, <2>5
<1> HIDE DEF Q
<1>10. \A i \in Nat : i \in Q
  BY <1>9, StrongInduction
<1>11. \A n \in S : under[n] = Subtree(g, S, n)
  BY <1>0, <1>1, <1>10 DEF Q
<1> QED  BY <1>7, <1>8, <1>11

\* Below the root are all nodes.
LEMMA BelowRoot ==
  ASSUME NEW T, NEW g, NEW r, NEW S, Rooted(T, g, r, S)
  PROVE  Below(T, r) = S
<1>1. r = NULL => S = {}
  BY DEF Rooted, Tree
<1>2. r # NULL => r \in S /\ Subtree(g, S, r) = S
  BY DEF Rooted, Tree, Subtree
<1> QED  BY <1>1, <1>2, BelowIs

-----------------------------------------------------------------------------
(* What changes to the pointers do to trees.                                *)

\* No other node points into S.
Apart(L, R, S) == \A n \in Node \ S : L[n] \notin S /\ R[n] \notin S

\* On S the fields and the places are the same.
SameOn(L, R, P, g, L2, R2, P2, h, S) ==
  \A n \in S : /\ L2[n] = L[n] /\ R2[n] = R[n] /\ P2[n] = P[n]
               /\ h.pos[n] = g.pos[n] /\ h.lo[n] = g.lo[n] /\ h.hi[n] = g.hi[n]

\* Such a change leaves the tree as it is.
LEMMA Untouched ==
  ASSUME NEW L, NEW R, NEW P, NEW g, NEW L2, NEW R2, NEW P2, NEW h, NEW r, NEW S,
         Tree(L, R, P, g, r, S), SameOn(L, R, P, g, L2, R2, P2, h, S), Apart(L2, R2, S)
  PROVE  Tree(L2, R2, P2, h, r, S)
<1> USE DEF Tree, SameOn
<1>1. \A n \in Node : Child(L2, P2, S, n) /\ Child(R2, P2, S, n)
  BY DEF Child, Apart
<1>2. \A n \in S : /\ L2[n] \in S \cup {NULL} /\ R2[n] \in S \cup {NULL}
                   /\ n = r => P2[n] = NULL
                   /\ n # r => P2[n] \in S /\ (L2[P2[n]] = n \/ R2[P2[n]] = n)
  OBVIOUS
<1>3. \A n \in S : Within(h, n, r)
  BY DEF Within
<1>4. \A m \in S, n \in S :
        /\ m # n => h.pos[m] # h.pos[n]
        /\ h.lo[n] <= h.pos[m] /\ h.pos[m] < h.pos[n] => L2[n] # NULL
        /\ h.pos[n] < h.pos[m] /\ h.pos[m] <= h.hi[n] => R2[n] # NULL
  OBVIOUS
<1> QED  BY <1>1, <1>2, <1>3, <1>4

\* Pointers that are cleared do not disturb the intervals.
LEMMA ShapeCut ==
  ASSUME NEW L, NEW R, NEW g, NEW L2, NEW R2, Shape(L, R, g),
         \A n \in Node : L2[n] \in {L[n], NULL} /\ R2[n] \in {R[n], NULL}
  PROVE  Shape(L2, R2, g)
<1>1. ASSUME NEW n \in Node
      PROVE  /\ L2[n] = NULL \/ (/\ L2[n] \in Node /\ g.lo[L2[n]] = g.lo[n]
                                 /\ g.hi[L2[n]] = g.pos[n] - 1)
             /\ R2[n] = NULL \/ (/\ R2[n] \in Node /\ g.lo[R2[n]] = g.pos[n] + 1
                                 /\ g.hi[R2[n]] = g.hi[n])
  BY DEF Shape
<1> QED  BY <1>1 DEF Shape

\* A node without pointers to it or from it.
LEMMA Single ==
  ASSUME NEW L, NEW R, NEW P, NEW g, NEW n \in Node, Shape(L, R, g), Apart(L, R, {n}),
         L[n] = NULL, R[n] = NULL, P[n] = NULL
  PROVE  Tree(L, R, P, g, n, {n})
<1>1. n # NULL
  BY NodeFacts
<1>2. Within(g, n, n)
  BY DEF Within, Shape
<1>3. g.pos[n] \in Int
  BY DEF Shape
<1> QED  BY <1>1, <1>2, <1>3 DEF Tree, Apart, Child

\* From a node below n, other than n, the way up does not leave the interval of n.
LEMMA ParentWithin ==
  ASSUME NEW L, NEW R, NEW P, NEW g, NEW r, NEW S, Shape(L, R, g), Tree(L, R, P, g, r, S),
         NEW m \in S, NEW n \in S, m # n, Within(g, m, n)
  PROVE  Within(g, P[m], n)
<1> DEFINE w(x) == g.hi[x] - g.lo[x]
           Q == {i \in Nat : \A x \in S : w(x) = i /\ m # x /\ Within(g, m, x) => Within(g, P[m], x)}
<1>0. ASSUME NEW x \in S PROVE g.lo[r] <= g.lo[x] /\ g.hi[x] <= g.hi[r]
  <2>1. r \in S /\ Within(g, x, r)
    BY DEF Tree
  <2> QED  BY <2>1, Nested
<1>1. ASSUME NEW i \in Nat, \A k \in 0..(i - 1) : k \in Q PROVE i \in Q
  <2> SUFFICES ASSUME NEW x \in S, w(x) = i, m # x, Within(g, m, x) PROVE Within(g, P[m], x)
    OBVIOUS
  <2>0. m \in Node /\ x \in Node
    BY DEF Tree
  <2>1. Within(g, x, x)
    BY <2>0 DEF Shape, Within
  <2>2. CASE g.pos[m] < g.pos[x]
    <3>1. L[x] \in S /\ L[x] # NULL
      BY <2>2 DEF Tree, Within
    <3>2. L[x] \in Node /\ g.lo[L[x]] = g.lo[x] /\ g.hi[L[x]] = g.pos[x] - 1
      BY <2>0, <3>1 DEF Shape
    <3>3. w(L[x]) \in 0..(i - 1) /\ Within(g, m, L[x])
      BY <2>0, <2>2, <3>2 DEF Shape, Within
    <3>4. CASE m = L[x]
      BY <2>0, <2>1, <3>1, <3>4 DEF Tree, Child
    <3>5. CASE m # L[x]
      <4>1. Within(g, P[m], L[x])
        BY <1>1, <3>1, <3>3, <3>5
      <4>2. P[m] \in Node
        <5>1. CASE m = r
          <6>1. g.lo[L[x]] <= g.lo[m] /\ g.hi[m] <= g.hi[L[x]]
            BY <3>1, <3>3, Nested
          <6>2. g.lo[m] <= g.lo[x] /\ g.hi[x] <= g.hi[m]
            BY <1>0, <5>1
          <6> QED  BY <2>0, <3>2, <6>1, <6>2 DEF Shape
        <5> QED  BY <5>1 DEF Tree
      <4> QED  BY <2>0, <3>2, <4>1, <4>2 DEF Shape, Within
    <3> QED  BY <3>4, <3>5
  <2>3. CASE g.pos[m] > g.pos[x]
    <3>1. R[x] \in S /\ R[x] # NULL
      BY <2>0, <2>3 DEF Tree, Within, Shape
    <3>2. R[x] \in Node /\ g.lo[R[x]] = g.pos[x] + 1 /\ g.hi[R[x]] = g.hi[x]
      BY <2>0, <3>1 DEF Shape
    <3>3. w(R[x]) \in 0..(i - 1) /\ Within(g, m, R[x])
      BY <2>0, <2>3, <3>2 DEF Shape, Within
    <3>4. CASE m = R[x]
      BY <2>0, <2>1, <3>1, <3>4 DEF Tree, Child
    <3>5. CASE m # R[x]
      <4>1. Within(g, P[m], R[x])
        BY <1>1, <3>1, <3>3, <3>5
      <4>2. P[m] \in Node
        <5>1. CASE m = r
          <6>1. g.lo[R[x]] <= g.lo[m] /\ g.hi[m] <= g.hi[R[x]]
            BY <3>1, <3>3, Nested
          <6>2. g.lo[m] <= g.lo[x] /\ g.hi[x] <= g.hi[m]
            BY <1>0, <5>1
          <6> QED  BY <2>0, <3>2, <6>1, <6>2 DEF Shape
        <5> QED  BY <5>1 DEF Tree
      <4> QED  BY <2>0, <3>2, <4>1, <4>2 DEF Shape, Within
    <3> QED  BY <3>4, <3>5
  <2>4. g.pos[m] \in Int /\ g.pos[x] \in Int /\ g.pos[m] # g.pos[x]
    BY <2>0 DEF Shape, Tree
  <2> QED  BY <2>2, <2>3, <2>4
<1> HIDE DEF Q
<1>2. \A i \in Nat : i \in Q
  BY <1>1, StrongInduction
<1>3. w(n) \in Nat
  BY DEF Shape, Tree
<1> QED  BY <1>2, <1>3 DEF Q

\* Fields and places of S2 after the nodes at n and below are cut off.
IsCut(L, R, P, L2, R2, P2, n, S2) ==
  /\ \A m \in S2 : /\ L2[m] = IF L[m] = n THEN NULL ELSE L[m]
                   /\ R2[m] = IF R[m] = n THEN NULL ELSE R[m]
                   /\ P2[m] = P[m]
  /\ Apart(L2, R2, S2)

\* The rest is a tree.
LEMMA Detached ==
  ASSUME NEW L, NEW R, NEW P, NEW g, NEW r, NEW S, Shape(L, R, g), Tree(L, R, P, g, r, S),
         NEW n \in S, n # r, NEW L2, NEW R2, NEW P2,
         IsCut(L, R, P, L2, R2, P2, n, S \ Subtree(g, S, n))
  PROVE  Tree(L2, R2, P2, g, r, S \ Subtree(g, S, n)) /\ P[n] \in S \ Subtree(g, S, n)
<1> DEFINE S2 == S \ Subtree(g, S, n)
<1>0. S \subseteq Node /\ n \in Node /\ r \in S /\ n # NULL /\ NULL \notin Node
  BY NodeFacts DEF Tree
<1>1. \A m \in S2 : m \in S /\ m \in Node /\ ~Within(g, m, n)
  BY <1>0 DEF Subtree
<1>2. \A m \in S : Within(g, m, n) \/ m \in S2
  BY DEF Subtree
<1> DEFINE u == P[n]
<1>3. u \in S /\ u \in Node /\ (L[u] = n \/ R[u] = n)
  BY <1>0 DEF Tree
<1>4. /\ L[u] = n => g.lo[n] = g.lo[u] /\ g.hi[n] = g.pos[u] - 1
      /\ R[u] = n => g.lo[n] = g.pos[u] + 1 /\ g.hi[n] = g.hi[u]
  BY <1>0, <1>3 DEF Shape
<1>5. u \in S2
  BY <1>0, <1>2, <1>3, <1>4 DEF Shape, Within
<1>6. r \in S2
  <2> SUFFICES ASSUME Within(g, r, n) PROVE FALSE
    BY <1>0, <1>2
  <2>1. g.lo[n] <= g.lo[r] /\ g.hi[r] <= g.hi[n]
    BY <1>0, Nested
  <2>2. Within(g, u, r)
    BY <1>3 DEF Tree
  <2> QED  BY <1>0, <1>1, <1>3, <1>5, <2>1, <2>2 DEF Within, Shape
<1>7. ASSUME NEW m \in S, m # n, Within(g, m, n) PROVE P[m] \notin S2
  BY <1>1, <1>7, ParentWithin
<1>8. ASSUME NEW m \in S2 PROVE L2[m] \in S2 \cup {NULL} /\ R2[m] \in S2 \cup {NULL}
  <2>1. m \in S /\ L[m] \in S \cup {NULL} /\ R[m] \in S \cup {NULL}
    BY <1>1 DEF Tree
  <2>2. L[m] \in S => P[L[m]] = m
    BY <1>1 DEF Tree, Child
  <2>3. R[m] \in S => P[R[m]] = m
    BY <1>1 DEF Tree, Child
  <2> HIDE DEF S2
  <2>4. L[m] \in S /\ L[m] # n => L[m] \in S2
    BY <1>2, <1>7, <2>2
  <2>5. R[m] \in S /\ R[m] # n => R[m] \in S2
    BY <1>2, <1>7, <2>3
  <2> USE DEF S2
  <2> QED  BY <2>1, <2>4, <2>5 DEF IsCut
<1>9. ASSUME NEW m \in S2, m # r PROVE P2[m] \in S2 /\ (L2[P2[m]] = m \/ R2[P2[m]] = m)
  <2>1. P[m] \in S /\ P[m] \in Node /\ (L[P[m]] = m \/ R[P[m]] = m) /\ m \in Node /\ m # NULL
    BY <1>0, <1>1, <1>9 DEF Tree
  <2>2. Within(g, m, P[m])
    <3>1. /\ L[P[m]] = m => g.lo[m] = g.lo[P[m]] /\ g.hi[m] = g.pos[P[m]] - 1
          /\ R[P[m]] = m => g.lo[m] = g.pos[P[m]] + 1 /\ g.hi[m] = g.hi[P[m]]
      BY <2>1 DEF Shape
    <3> QED  BY <2>1, <3>1 DEF Shape, Within
  <2>3. P[m] \in S2
    <3> SUFFICES ASSUME Within(g, P[m], n) PROVE FALSE
      BY <1>2, <2>1
    <3>1. g.lo[n] <= g.lo[P[m]] /\ g.hi[P[m]] <= g.hi[n]
      BY <2>1, Nested
    <3> QED  BY <1>0, <1>1, <2>1, <2>2, <3>1 DEF Within, Shape
  <2>4. m # n /\ P2[m] = P[m]
    <3>1. Within(g, n, n)
      BY <1>0 DEF Within, Shape
    <3> QED  BY <1>1, <3>1 DEF IsCut
  <2> QED  BY <2>1, <2>3, <2>4 DEF IsCut
<1>10. ASSUME NEW m \in S2, NEW k \in S2
       PROVE  /\ m # k => g.pos[m] # g.pos[k]
              /\ g.lo[k] <= g.pos[m] /\ g.pos[m] < g.pos[k] => L2[k] # NULL
              /\ g.pos[k] < g.pos[m] /\ g.pos[m] <= g.hi[k] => R2[k] # NULL
  <2>1. m \in S /\ k \in S /\ m \in Node /\ k \in Node /\ ~Within(g, m, n)
    BY <1>1
  <2>2. /\ m # k => g.pos[m] # g.pos[k]
        /\ g.lo[k] <= g.pos[m] /\ g.pos[m] < g.pos[k] => L[k] # NULL
        /\ g.pos[k] < g.pos[m] /\ g.pos[m] <= g.hi[k] => R[k] # NULL
    BY <2>1 DEF Tree
  <2>3. ASSUME g.lo[k] <= g.pos[m], g.pos[m] < g.pos[k], L[k] = n PROVE FALSE
    <3>1. g.lo[n] = g.lo[k] /\ g.hi[n] = g.pos[k] - 1
      BY <1>0, <2>1, <2>3 DEF Shape
    <3>2. g.pos[m] \in Int /\ g.pos[k] \in Int
      BY <2>1 DEF Shape
    <3> QED  BY <2>1, <2>3, <3>1, <3>2 DEF Within
  <2>4. ASSUME g.pos[k] < g.pos[m], g.pos[m] <= g.hi[k], R[k] = n PROVE FALSE
    <3>1. g.lo[n] = g.pos[k] + 1 /\ g.hi[n] = g.hi[k]
      BY <1>0, <2>1, <2>4 DEF Shape
    <3>2. g.pos[m] \in Int /\ g.pos[k] \in Int
      BY <2>1 DEF Shape
    <3> QED  BY <2>1, <2>4, <3>1, <3>2 DEF Within
  <2>5. L2[k] = IF L[k] = n THEN NULL ELSE L[k]
    BY DEF IsCut
  <2>6. R2[k] = IF R[k] = n THEN NULL ELSE R[k]
    BY DEF IsCut
  <2> QED  BY <2>2, <2>3, <2>4, <2>5, <2>6
<1>11. ASSUME NEW m \in Node PROVE Child(L2, P2, S2, m) /\ Child(R2, P2, S2, m)
  <2>1. CASE m \in S2
    <3>1. L2[m] \in S2 => L2[m] = L[m] /\ P2[L2[m]] = P[L[m]] /\ L[m] \in S
      BY <1>0, <1>1, <2>1 DEF IsCut
    <3>2. R2[m] \in S2 => R2[m] = R[m] /\ P2[R2[m]] = P[R[m]] /\ R[m] \in S
      BY <1>0, <1>1, <2>1 DEF IsCut
    <3>3. (L[m] \in S => P[L[m]] = m) /\ (R[m] \in S => P[R[m]] = m)
      BY DEF Tree, Child
    <3> QED  BY <2>1, <3>1, <3>2, <3>3 DEF Child
  <2>2. CASE m \notin S2
    BY <2>2 DEF IsCut, Apart, Child
  <2> QED  BY <2>1, <2>2
<1>12. \A m \in S2 : Within(g, m, r) /\ (m = r => P2[m] = NULL)
  BY <1>1 DEF Tree, IsCut
<1> HIDE DEF u
<1>13. Tree(L2, R2, P2, g, r, S2)
  <2>1. S2 \subseteq Node /\ r \in S2 \cup {NULL} /\ (r = NULL => S2 = {})
    BY <1>0, <1>6
  <2> HIDE DEF S2
  <2> QED  BY <2>1, <1>8, <1>9, <1>10, <1>11, <1>12 DEF Tree
<1> QED  BY <1>5, <1>13 DEF u

\* Without its root, a tree whose root has no left child is the one on the right.
LEMMA RootDropped ==
  ASSUME NEW L, NEW R, NEW P, NEW g, NEW r, NEW S, Shape(L, R, g), Tree(L, R, P, g, r, S),
         r # NULL, L[r] = NULL, NEW L2, NEW R2, NEW P2,
         \A m \in S \ {r} : L2[m] = L[m] /\ R2[m] = R[m] /\ P2[m] = IF m = R[r] THEN NULL ELSE P[m],
         Apart(L2, R2, S \ {r})
  PROVE  Tree(L2, R2, P2, g, R[r], S \ {r})
<1> DEFINE S2 == S \ {r}
           q == R[r]
<1>0. S \subseteq Node /\ r \in S /\ r \in Node /\ NULL \notin Node /\ q \in S \cup {NULL}
  BY NodeFacts DEF Tree
<1>1. q # r /\ (q # NULL => q \in S2 /\ g.lo[q] = g.pos[r] + 1 /\ g.hi[q] = g.hi[r])
  BY <1>0 DEF Shape
<1>2. ASSUME NEW m \in S2 PROVE q # NULL /\ Within(g, m, q)
  <2>1. /\ m \in S /\ Within(g, m, r) /\ g.pos[m] # g.pos[r]
        /\ (g.lo[r] <= g.pos[m] /\ g.pos[m] < g.pos[r] => L[r] # NULL)
        /\ (g.pos[r] < g.pos[m] /\ g.pos[m] <= g.hi[r] => q # NULL)
    BY <1>0 DEF Tree
  <2>2. g.pos[m] \in Int /\ g.pos[r] \in Int
    BY <1>0 DEF Shape
  <2> QED  BY <1>1, <2>1, <2>2 DEF Within
<1>3. ASSUME NEW m \in S2 PROVE L[m] # r /\ R[m] # r
  <2>1. L[m] = r => P[r] = m
    BY <1>0 DEF Tree, Child
  <2>2. R[m] = r => P[r] = m
    BY <1>0 DEF Tree, Child
  <2> QED  BY <1>0, <2>1, <2>2 DEF Tree
<1>4. ASSUME NEW m \in S2
      PROVE  /\ L2[m] \in S2 \cup {NULL} /\ R2[m] \in S2 \cup {NULL}
             /\ m = q => P2[m] = NULL
             /\ m # q => P2[m] \in S2 /\ (L2[P2[m]] = m \/ R2[P2[m]] = m)
  <2>1. /\ m \in S /\ m # r /\ L[m] \in S \cup {NULL} /\ R[m] \in S \cup {NULL} /\ m # NULL
        /\ P[m] \in S /\ (L[P[m]] = m \/ R[P[m]] = m)
        /\ L2[m] = L[m] /\ R2[m] = R[m] /\ P2[m] = IF m = q THEN NULL ELSE P[m]
    BY <1>0 DEF Tree
  <2>2. m # q => P[m] # r
    BY <2>1
  <2> QED  BY <1>3, <2>1, <2>2
<1>5. ASSUME NEW m \in Node PROVE Child(L2, P2, S2, m) /\ Child(R2, P2, S2, m)
  <2>1. CASE m \in S2
    <3>1. Child(L, P, S, m) /\ Child(R, P, S, m) /\ Child(R, P, S, r)
      BY <1>0 DEF Tree
    <3>2. L2[m] = L[m] /\ R2[m] = R[m] /\ m # r
      BY <2>1
    <3>3. L2[m] \in S2 => L2[m] # q
      BY <1>0, <3>1, <3>2 DEF Child
    <3>4. R2[m] \in S2 => R2[m] # q
      BY <1>0, <3>1, <3>2 DEF Child
    <3> QED  BY <2>1, <3>1, <3>2, <3>3, <3>4 DEF Child
  <2>2. CASE m \notin S2
    BY <2>2 DEF Apart, Child
  <2> QED  BY <2>1, <2>2
<1>6. ASSUME NEW m \in S2, NEW k \in S2
      PROVE  /\ m # k => g.pos[m] # g.pos[k]
             /\ g.lo[k] <= g.pos[m] /\ g.pos[m] < g.pos[k] => L2[k] # NULL
             /\ g.pos[k] < g.pos[m] /\ g.pos[m] <= g.hi[k] => R2[k] # NULL
  BY DEF Tree
<1>7. S2 \subseteq Node /\ q \in S2 \cup {NULL} /\ (q = NULL => S2 = {})
  BY <1>0, <1>1, <1>2
<1> HIDE DEF S2, q
<1>8. Tree(L2, R2, P2, g, q, S2)
  BY <1>2, <1>4, <1>5, <1>6, <1>7 DEF Tree
<1> QED  BY <1>8 DEF S2, q

\* The places of the mirror image.
Mirrored(g) ==
  [B |-> g.B, pos |-> [n \in Node |-> -g.pos[n]],
   lo |-> [n \in Node |-> -g.hi[n]], hi |-> [n \in Node |-> -g.lo[n]]]

\* What is said of left children holds of right ones, the other way round.
LEMMA MirrorImage ==
  ASSUME NEW L, NEW R, NEW P, NEW g, NEW r, NEW S, Shape(L, R, g)
  PROVE  /\ Shape(R, L, Mirrored(g))
         /\ Tree(L, R, P, g, r, S) => Tree(R, L, P, Mirrored(g), r, S)
<1> DEFINE h == Mirrored(g)
<1>1. /\ h.B = g.B
      /\ \A n \in Node : h.pos[n] = -g.pos[n] /\ h.lo[n] = -g.hi[n] /\ h.hi[n] = -g.lo[n]
  BY DEF Mirrored
<1> HIDE DEF h
<1>2. Shape(R, L, h)
  <2>1. ASSUME NEW n \in Node
        PROVE  /\ h.pos[n] \in Int /\ h.lo[n] \in Int /\ h.hi[n] \in Int
               /\ -h.B <= h.lo[n] /\ h.lo[n] <= h.pos[n] /\ h.pos[n] <= h.hi[n] /\ h.hi[n] <= h.B
    BY <1>1 DEF Shape
  <2>2. ASSUME NEW n \in Node
        PROVE  /\ R[n] = NULL \/ (/\ R[n] \in Node /\ h.lo[R[n]] = h.lo[n]
                                  /\ h.hi[R[n]] = h.pos[n] - 1)
               /\ L[n] = NULL \/ (/\ L[n] \in Node /\ h.lo[L[n]] = h.pos[n] + 1
                                  /\ h.hi[L[n]] = h.hi[n])
    BY <1>1 DEF Shape
  <2>3. h.B \in Int
    BY <1>1 DEF Shape
  <2> QED  BY <2>1, <2>2, <2>3 DEF Shape
<1>3. ASSUME Tree(L, R, P, g, r, S) PROVE Tree(R, L, P, h, r, S)
  <2>0. S \subseteq Node
    BY <1>3 DEF Tree
  <2>1. ASSUME NEW m \in S, NEW n \in Node PROVE Within(g, m, n) <=> Within(h, m, n)
    BY <1>1, <2>0 DEF Shape, Within
  <2>2. ASSUME NEW m \in S, NEW n \in S
        PROVE  /\ m # n => h.pos[m] # h.pos[n]
               /\ h.lo[n] <= h.pos[m] /\ h.pos[m] < h.pos[n] => R[n] # NULL
               /\ h.pos[n] < h.pos[m] /\ h.pos[m] <= h.hi[n] => L[n] # NULL
    <3>1. /\ m # n => g.pos[m] # g.pos[n]
          /\ g.lo[n] <= g.pos[m] /\ g.pos[m] < g.pos[n] => L[n] # NULL
          /\ g.pos[n] < g.pos[m] /\ g.pos[m] <= g.hi[n] => R[n] # NULL
      BY <1>3 DEF Tree
    <3>2. /\ g.pos[m] \in Int /\ g.pos[n] \in Int /\ g.lo[n] \in Int /\ g.hi[n] \in Int
          /\ h.pos[m] = -g.pos[m] /\ h.pos[n] = -g.pos[n] /\ h.lo[n] = -g.hi[n] /\ h.hi[n] = -g.lo[n]
      BY <1>1, <2>0 DEF Shape
    <3> QED  BY <3>1, <3>2
  <2>3. \A n \in S : Within(h, n, r)
    BY <1>3, <2>0, <2>1 DEF Tree
  <2> QED  BY <1>3, <2>2, <2>3 DEF Tree
<1> QED  BY <1>2, <1>3 DEF h

\* The places h after the tree S2 was hung below the node c of S1 on the left:
\* before c, and behind the nodes before c; all else keeps its order.
Before(g, h, S1, S2, c) ==
  /\ \A m \in S1, n \in S1 : h.pos[m] < h.pos[n] <=> g.pos[m] < g.pos[n]
  /\ \A m \in S2, n \in S2 : h.pos[m] < h.pos[n] <=> g.pos[m] < g.pos[n]
  /\ \A m \in S1, n \in S1 : Within(h, m, n) <=> Within(g, m, n)
  /\ \A m \in S2, n \in S2 : Within(h, m, n) <=> Within(g, m, n)
  /\ \A m \in S2, n \in S1 : IF g.pos[c] <= g.pos[n] THEN h.pos[m] < h.pos[n]
                                                     ELSE h.pos[n] < h.pos[m]
  /\ \A n \in Node \ (S1 \cup S2) :
       h.pos[n] = g.pos[n] /\ h.lo[n] = g.lo[n] /\ h.hi[n] = g.hi[n]

\* On the right: behind c, and before the nodes behind c.
Behind(g, h, S1, S2, c) ==
  /\ \A m \in S1, n \in S1 : h.pos[m] < h.pos[n] <=> g.pos[m] < g.pos[n]
  /\ \A m \in S2, n \in S2 : h.pos[m] < h.pos[n] <=> g.pos[m] < g.pos[n]
  /\ \A m \in S2, n \in S1 : IF g.pos[n] <= g.pos[c] THEN h.pos[n] < h.pos[m]
                                                     ELSE h.pos[m] < h.pos[n]
  /\ \A n \in Node \ (S1 \cup S2) :
       h.pos[n] = g.pos[n] /\ h.lo[n] = g.lo[n] /\ h.hi[n] = g.hi[n]

\* Room for the tree S2 below r2 in front of the node c of S1.
Room(g, S1, S2, r2, c) ==
  LET w == g.hi[r2] - g.lo[r2] + 1
      d == g.pos[c] - g.lo[r2]
  IN [B   |-> g.B + w,
      pos |-> [n \in Node |-> IF n \in S2 THEN g.pos[n] + d
                              ELSE IF n \in S1 /\ g.pos[n] >= g.pos[c] THEN g.pos[n] + w
                              ELSE g.pos[n]],
      lo  |-> [n \in Node |-> IF n \in S2
                              THEN IF g.lo[n] = g.lo[r2] THEN g.lo[c] ELSE g.lo[n] + d
                              ELSE IF n \in S1 /\ g.lo[n] > g.pos[c] THEN g.lo[n] + w
                              ELSE g.lo[n]],
      hi  |-> [n \in Node |-> IF n \in S2 THEN g.hi[n] + d
                              ELSE IF n \in S1 /\ g.hi[n] >= g.pos[c] THEN g.hi[n] + w
                              ELSE g.hi[n]]]

\* The pointers after r2 became the left child of c.
HungLeft(L, R, P, L2, R2, P2, r2, c) ==
  \A n \in Node : /\ L2[n] = IF n = c THEN r2 ELSE L[n]
                  /\ R2[n] = R[n]
                  /\ P2[n] = IF n = r2 THEN c ELSE P[n]

\* Two trees become one.
LEMMA GraftLeft ==
  ASSUME NEW L, NEW R, NEW P, NEW g, NEW r1, NEW S1, NEW r2, NEW S2, Shape(L, R, g),
         Tree(L, R, P, g, r1, S1), Tree(L, R, P, g, r2, S2), S1 \cap S2 = {}, r2 # NULL,
         NEW c \in S1, L[c] = NULL, NEW L2, NEW R2, NEW P2, HungLeft(L, R, P, L2, R2, P2, r2, c)
  PROVE  \E h : /\ Shape(L2, R2, h) /\ Tree(L2, R2, P2, h, r1, S1 \cup S2)
                /\ Before(g, h, S1, S2, c)
<1> DEFINE w == g.hi[r2] - g.lo[r2] + 1
           p == g.pos[c]
           d == p - g.lo[r2]
           h == Room(g, S1, S2, r2, c)
           S == S1 \cup S2
<1>0. /\ S1 \subseteq Node /\ S2 \subseteq Node /\ c \in Node /\ r2 \in S2 /\ r2 \in Node
      /\ r1 \in S1 /\ r1 \in Node /\ NULL \notin Node /\ c \notin S2
  BY NodeFacts DEF Tree
<1>1. h.B = g.B + w
  BY DEF Room
<1>2. ASSUME NEW n \in S2
      PROVE  /\ n \in Node /\ h.pos[n] = g.pos[n] + d /\ h.hi[n] = g.hi[n] + d
             /\ h.lo[n] = IF g.lo[n] = g.lo[r2] THEN g.lo[c] ELSE g.lo[n] + d
  BY <1>0 DEF Room
<1>3. ASSUME NEW n \in S1
      PROVE  /\ n \in Node /\ n \notin S2
             /\ h.pos[n] = IF g.pos[n] >= p THEN g.pos[n] + w ELSE g.pos[n]
             /\ h.lo[n] = IF g.lo[n] > p THEN g.lo[n] + w ELSE g.lo[n]
             /\ h.hi[n] = IF g.hi[n] >= p THEN g.hi[n] + w ELSE g.hi[n]
  BY <1>0 DEF Room
<1>4. ASSUME NEW n \in Node \ S
      PROVE  h.pos[n] = g.pos[n] /\ h.lo[n] = g.lo[n] /\ h.hi[n] = g.hi[n]
  BY DEF Room
<1> HIDE DEF h
<1>5. /\ g.B \in Int /\ p \in Int /\ g.lo[r2] \in Int /\ g.hi[r2] \in Int /\ g.lo[c] \in Int /\ g.hi[c] \in Int
      /\ -g.B <= g.lo[c] /\ g.lo[c] <= p /\ p <= g.hi[c] /\ g.hi[c] <= g.B
      /\ g.lo[r2] <= g.hi[r2]
  BY <1>0 DEF Shape
<1>6. w \in Int /\ d \in Int /\ w >= 1 /\ d + g.lo[r2] = p /\ d + g.hi[r2] = p + w - 1
  BY <1>5
<1> HIDE DEF w, p, d
<1>7. ASSUME NEW n \in Node
      PROVE  /\ g.pos[n] \in Int /\ g.lo[n] \in Int /\ g.hi[n] \in Int
             /\ -g.B <= g.lo[n] /\ g.lo[n] <= g.pos[n] /\ g.pos[n] <= g.hi[n] /\ g.hi[n] <= g.B
             /\ L[n] = NULL \/ (L[n] \in Node /\ g.lo[L[n]] = g.lo[n] /\ g.hi[L[n]] = g.pos[n] - 1)
             /\ R[n] = NULL \/ (R[n] \in Node /\ g.lo[R[n]] = g.pos[n] + 1 /\ g.hi[R[n]] = g.hi[n])
  BY DEF Shape
<1>8. ASSUME NEW n \in S2 PROVE g.lo[r2] <= g.lo[n] /\ g.hi[n] <= g.hi[r2]
  <2>1. Within(g, n, r2)
    BY DEF Tree
  <2> QED  BY <1>0, <2>1, Nested
<1>9. ASSUME NEW n \in Node
      PROVE  /\ h.pos[n] \in Int /\ h.lo[n] \in Int /\ h.hi[n] \in Int
             /\ -h.B <= h.lo[n] /\ h.lo[n] <= h.pos[n] /\ h.pos[n] <= h.hi[n] /\ h.hi[n] <= h.B
  <2>1. CASE n \in S2
    BY <1>1, <1>2, <1>5, <1>6, <1>7, <1>8, <2>1
  <2>2. CASE n \in S1
    BY <1>1, <1>3, <1>5, <1>6, <1>7, <2>2
  <2>3. CASE n \notin S
    BY <1>1, <1>4, <1>5, <1>6, <1>7, <2>3
  <2> QED  BY <2>1, <2>2, <2>3
<1>10. ASSUME NEW n \in S1, n # c PROVE g.pos[n] # p
  BY <1>10 DEF Tree, p
<1>11. ASSUME NEW n \in Node PROVE L[n] \in S1 \cup S2 => n \in S1 \cup S2
  BY DEF Tree, Child
<1>12. ASSUME NEW n \in Node PROVE R[n] \in S1 \cup S2 => n \in S1 \cup S2
  BY DEF Tree, Child
<1>13. ASSUME NEW n \in Node
       PROVE  L2[n] = NULL \/ (L2[n] \in Node /\ h.lo[L2[n]] = h.lo[n] /\ h.hi[L2[n]] = h.pos[n] - 1)
  <2>1. CASE n = c
    <3>1. L2[n] = r2
      BY <2>1 DEF HungLeft
    <3>2. h.lo[r2] = g.lo[c] /\ h.hi[r2] = p + w - 1
      BY <1>0, <1>2, <1>5, <1>6
    <3>3. h.lo[c] = g.lo[c] /\ h.pos[c] = p + w
      BY <1>3, <1>5, <1>6 DEF p
    <3> QED  BY <1>0, <1>5, <1>6, <2>1, <3>1, <3>2, <3>3
  <2>2. CASE n \in S1 /\ n # c
    <3>1. L2[n] = L[n] /\ L[n] \in S1 \cup {NULL}
      BY <1>0, <2>2 DEF HungLeft, Tree
    <3> SUFFICES ASSUME L[n] # NULL PROVE h.lo[L[n]] = h.lo[n] /\ h.hi[L[n]] = h.pos[n] - 1
      BY <1>0, <3>1
    <3>2. L[n] \in S1 /\ g.lo[L[n]] = g.lo[n] /\ g.hi[L[n]] = g.pos[n] - 1
      BY <1>7, <3>1
    <3>3. g.pos[n] \in Int /\ g.lo[n] \in Int /\ g.pos[n] # p
      BY <1>7, <1>10, <2>2
    <3> HIDE DEF S
    <3> QED  BY <1>3, <1>5, <1>6, <2>2, <3>2, <3>3
  <2>3. CASE n \in S2
    <3>1. L2[n] = L[n] /\ L[n] \in S2 \cup {NULL}
      BY <1>0, <2>3 DEF HungLeft, Tree
    <3> SUFFICES ASSUME L[n] # NULL PROVE h.lo[L[n]] = h.lo[n] /\ h.hi[L[n]] = h.pos[n] - 1
      BY <1>0, <3>1
    <3>2. L[n] \in S2 /\ g.lo[L[n]] = g.lo[n] /\ g.hi[L[n]] = g.pos[n] - 1
      BY <1>7, <3>1
    <3>3. g.pos[n] \in Int /\ g.lo[n] \in Int
      BY <1>7
    <3> QED  BY <1>2, <1>5, <1>6, <2>3, <3>2, <3>3
  <2>4. CASE n \notin S
    <3>1. L2[n] = L[n] /\ L[n] \notin S
      BY <1>11, <2>4 DEF HungLeft
    <3> SUFFICES ASSUME L[n] # NULL
                 PROVE  L[n] \in Node /\ h.lo[L[n]] = h.lo[n] /\ h.hi[L[n]] = h.pos[n] - 1
      BY <3>1
    <3>2. L[n] \in Node \ S /\ n \in Node \ S /\ g.lo[L[n]] = g.lo[n] /\ g.hi[L[n]] = g.pos[n] - 1
      BY <1>7, <2>4, <3>1
    <3> HIDE DEF S
    <3> QED  BY <1>4, <3>2
  <2> QED  BY <2>1, <2>2, <2>3, <2>4
<1>14. ASSUME NEW n \in Node
       PROVE  R2[n] = NULL \/ (R2[n] \in Node /\ h.lo[R2[n]] = h.pos[n] + 1 /\ h.hi[R2[n]] = h.hi[n])
  <2>0. R2[n] = R[n]
    BY DEF HungLeft
  <2> SUFFICES ASSUME R[n] # NULL
               PROVE  R[n] \in Node /\ h.lo[R[n]] = h.pos[n] + 1 /\ h.hi[R[n]] = h.hi[n]
    BY <2>0
  <2>1. /\ R[n] \in Node /\ g.lo[R[n]] = g.pos[n] + 1 /\ g.hi[R[n]] = g.hi[n]
        /\ g.pos[n] \in Int /\ g.lo[n] \in Int /\ g.hi[n] \in Int
    BY <1>7
  <2>2. CASE n \in S1
    <3>1. R[n] \in S1
      BY <2>2 DEF Tree
    <3> QED  BY <1>3, <1>5, <1>6, <2>1, <2>2, <3>1
  <2>3. CASE n \in S2
    <3>1. R[n] \in S2
      BY <2>3 DEF Tree
    <3>2. g.lo[R[n]] # g.lo[r2]
      BY <1>0, <1>7, <1>8, <2>1, <2>3
    <3> QED  BY <1>2, <1>5, <1>6, <2>1, <2>3, <3>1, <3>2
  <2>4. CASE n \notin S
    <3>1. R[n] \notin S
      BY <1>12, <2>4
    <3> HIDE DEF S
    <3> QED  BY <1>4, <2>1, <2>4, <3>1
  <2> QED  BY <2>2, <2>3, <2>4
<1>15. Shape(L2, R2, h)
  <2>1. h.B \in Int
    BY <1>1, <1>5, <1>6
  <2> QED  BY <2>1, <1>9, <1>13, <1>14 DEF Shape
<1>16. ASSUME NEW m \in S1, NEW n \in S1
       PROVE  /\ h.pos[m] < h.pos[n] <=> g.pos[m] < g.pos[n]
              /\ h.lo[n] <= h.pos[m] <=> g.lo[n] <= g.pos[m]
              /\ h.pos[m] <= h.hi[n] <=> g.pos[m] <= g.hi[n]
  <2>1. /\ g.pos[n] \in Int /\ g.lo[n] \in Int /\ g.hi[n] \in Int /\ g.pos[m] \in Int
    BY <1>3, <1>7
  <2> QED  BY <1>3, <1>5, <1>6, <2>1
<1>17. ASSUME NEW m \in S2, NEW n \in S2
       PROVE  /\ h.pos[m] < h.pos[n] <=> g.pos[m] < g.pos[n]
              /\ h.lo[n] <= h.pos[m] <=> g.lo[n] <= g.pos[m]
              /\ h.pos[m] <= h.hi[n] <=> g.pos[m] <= g.hi[n]
  <2>1. /\ g.pos[n] \in Int /\ g.lo[n] \in Int /\ g.hi[n] \in Int /\ g.pos[m] \in Int
        /\ g.lo[m] \in Int /\ g.lo[m] <= g.pos[m]
    BY <1>2, <1>7
  <2>2. g.lo[r2] <= g.lo[m]
    BY <1>8
  <2>3. g.lo[r2] <= g.pos[m]
    BY <1>5, <2>1, <2>2
  <2> QED  BY <1>2, <1>5, <1>6, <2>1, <2>3
<1>18. ASSUME NEW m \in S2 PROVE p <= h.pos[m] /\ h.pos[m] <= p + w - 1 /\ h.pos[m] \in Int
  BY <1>2, <1>5, <1>6, <1>7, <1>8
<1>19. ASSUME NEW m \in S2, NEW n \in S1
       PROVE  IF p <= g.pos[n] THEN h.pos[m] < h.pos[n] ELSE h.pos[n] < h.pos[m]
  <2>1. g.pos[n] \in Int
    BY <1>3, <1>7
  <2> QED  BY <1>3, <1>5, <1>6, <1>18, <2>1
<1>20. Before(g, h, S1, S2, c)
  <2>1. \A m \in S2, n \in S2 : Within(h, m, n) <=> Within(g, m, n)
    BY <1>17 DEF Within
  <2>2. \A m \in S1, n \in S1 : Within(h, m, n) <=> Within(g, m, n)
    BY <1>16 DEF Within
  <2> QED  BY <1>4, <1>16, <1>17, <1>19, <2>1, <2>2 DEF Before, p
<1>21. ASSUME NEW n \in Node PROVE Child(L2, P2, S, n) /\ Child(R2, P2, S, n)
  <2>1. CASE n = c
    <3>1. L2[n] = r2 /\ P2[r2] = c /\ n \in S
      BY <1>0, <2>1 DEF HungLeft
    <3>2. R2[n] = R[n] /\ (R[n] \in S1 \cup {NULL}) /\ (R[n] \in S1 => P[R[n]] = n)
      BY <1>0, <2>1 DEF HungLeft, Tree, Child
    <3>3. R[n] \in S1 => P2[R[n]] = P[R[n]]
      BY <1>0 DEF HungLeft
    <3> QED  BY <1>0, <2>1, <3>1, <3>2, <3>3 DEF Child
  <2>2. CASE n # c
    <3>1. L2[n] = L[n] /\ R2[n] = R[n]
      BY <2>2 DEF HungLeft
    <3>2. L[n] # r2 /\ R[n] # r2
      <4>1. \A x \in S2 : x = r2 => P[x] = NULL
        BY DEF Tree
      <4>2. (L[n] = r2 => P[r2] = n) /\ (R[n] = r2 => P[r2] = n)
        BY <1>0 DEF Tree, Child
      <4> QED  BY <1>0, <4>1, <4>2
    <3>3. \A x \in S : x # r2 => P2[x] = P[x]
      BY <1>0 DEF HungLeft
    <3>4. /\ Child(L, P, S1, n) /\ Child(L, P, S2, n)
          /\ Child(R, P, S1, n) /\ Child(R, P, S2, n)
      BY DEF Tree
    <3> QED  BY <3>1, <3>2, <3>3, <3>4 DEF Child
  <2> QED  BY <2>1, <2>2
<1>22. ASSUME NEW n \in S
       PROVE  /\ L2[n] \in S \cup {NULL} /\ R2[n] \in S \cup {NULL}
              /\ n = r1 => P2[n] = NULL
              /\ n # r1 => P2[n] \in S /\ (L2[P2[n]] = n \/ R2[P2[n]] = n)
  <2>0. /\ n \in Node /\ L2[n] = IF n = c THEN r2 ELSE L[n]
        /\ R2[n] = R[n] /\ P2[n] = IF n = r2 THEN c ELSE P[n]
    BY <1>0 DEF HungLeft
  <2>1. L2[n] \in S \cup {NULL} /\ R2[n] \in S \cup {NULL}
    BY <1>0, <2>0 DEF Tree
  <2>2. CASE n = r2
    <3>1. L2[c] = r2
      BY <1>0 DEF HungLeft
    <3> QED  BY <1>0, <2>0, <2>1, <2>2, <3>1
  <2>3. CASE n \in S1
    <3>1. P2[n] = P[n]
      BY <1>0, <2>0, <2>3
    <3>2. ASSUME n # r1 PROVE P[n] \in S1 /\ (L2[P[n]] = n \/ R2[P[n]] = n)
      <4>1. P[n] \in S1 /\ P[n] \in Node /\ (L[P[n]] = n \/ R[P[n]] = n) /\ n # NULL
        BY <1>0, <2>3, <3>2 DEF Tree
      <4>2. L2[P[n]] = (IF P[n] = c THEN r2 ELSE L[P[n]]) /\ R2[P[n]] = R[P[n]]
        BY <4>1 DEF HungLeft
      <4> QED  BY <4>1, <4>2
    <3> QED  BY <2>1, <2>3, <3>1, <3>2 DEF Tree
  <2>4. CASE n \in S2 /\ n # r2
    <3>1. P2[n] = P[n] /\ P[n] \in S2 /\ P[n] \in Node /\ P[n] # c /\ (L[P[n]] = n \/ R[P[n]] = n)
          /\ n # r1
      BY <1>0, <2>0, <2>4 DEF Tree
    <3>2. L2[P[n]] = L[P[n]] /\ R2[P[n]] = R[P[n]]
      BY <3>1 DEF HungLeft
    <3> QED  BY <2>1, <3>1, <3>2
  <2> QED  BY <2>2, <2>3, <2>4
<1>23. ASSUME NEW n \in S PROVE Within(h, n, r1)
  <2>0. \A x \in S1 : Within(g, x, r1)
    BY DEF Tree
  <2>1. CASE n \in S1
    BY <1>0, <1>16, <2>0, <2>1 DEF Within
  <2>2. CASE n \in S2
    <3>1. g.lo[r1] <= g.lo[c] /\ p <= g.hi[r1]
      BY <1>0, <2>0, Nested DEF Within, p
    <3>2. h.lo[r1] = g.lo[r1] /\ h.hi[r1] = g.hi[r1] + w
      BY <1>0, <1>3, <1>5, <1>6, <1>7, <3>1
    <3> QED  BY <1>0, <1>5, <1>6, <1>7, <1>18, <2>2, <3>1, <3>2 DEF Within
  <2> QED  BY <2>1, <2>2
<1>24. ASSUME NEW m \in S, NEW n \in S
       PROVE  /\ m # n => h.pos[m] # h.pos[n]
              /\ h.lo[n] <= h.pos[m] /\ h.pos[m] < h.pos[n] => L2[n] # NULL
              /\ h.pos[n] < h.pos[m] /\ h.pos[m] <= h.hi[n] => R2[n] # NULL
  <2>0. /\ m \in Node /\ n \in Node /\ L2[n] = (IF n = c THEN r2 ELSE L[n]) /\ R2[n] = R[n]
        /\ h.pos[m] \in Int /\ h.pos[n] \in Int /\ h.lo[n] \in Int /\ h.hi[n] \in Int
        /\ g.pos[m] \in Int /\ g.pos[n] \in Int /\ g.lo[n] \in Int /\ g.hi[n] \in Int
    BY <1>0, <1>7, <1>9 DEF HungLeft
  <2>1. ASSUME m \in S1, n \in S1
        PROVE  /\ m # n => g.pos[m] # g.pos[n]
               /\ g.lo[n] <= g.pos[m] /\ g.pos[m] < g.pos[n] => L[n] # NULL
               /\ g.pos[n] < g.pos[m] /\ g.pos[m] <= g.hi[n] => R[n] # NULL
    BY <2>1 DEF Tree
  <2>2. ASSUME m \in S2, n \in S2
        PROVE  /\ m # n => g.pos[m] # g.pos[n]
               /\ g.lo[n] <= g.pos[m] /\ g.pos[m] < g.pos[n] => L[n] # NULL
               /\ g.pos[n] < g.pos[m] /\ g.pos[m] <= g.hi[n] => R[n] # NULL
    BY <2>2 DEF Tree
  <2>3. CASE m \in S1 /\ n \in S1
    <3>1. /\ h.pos[m] < h.pos[n] <=> g.pos[m] < g.pos[n]
          /\ h.pos[n] < h.pos[m] <=> g.pos[n] < g.pos[m]
          /\ h.lo[n] <= h.pos[m] <=> g.lo[n] <= g.pos[m]
          /\ h.pos[m] <= h.hi[n] <=> g.pos[m] <= g.hi[n]
      BY <1>16, <2>3
    <3> QED  BY <1>0, <2>0, <2>1, <2>3, <3>1
  <2>4. CASE m \in S2 /\ n \in S2
    <3>1. /\ h.pos[m] < h.pos[n] <=> g.pos[m] < g.pos[n]
          /\ h.pos[n] < h.pos[m] <=> g.pos[n] < g.pos[m]
          /\ h.lo[n] <= h.pos[m] <=> g.lo[n] <= g.pos[m]
          /\ h.pos[m] <= h.hi[n] <=> g.pos[m] <= g.hi[n]
      BY <1>17, <2>4
    <3> QED  BY <1>0, <2>0, <2>2, <2>4, <3>1
  <2>5. CASE m \in S2 /\ n \in S1
    <3>1. n # c => g.pos[n] # p
      BY <1>10, <2>5
    <3>2. p <= h.pos[m] /\ h.pos[m] <= p + w - 1
      BY <1>18, <2>5
    <3>3. ASSUME h.lo[n] <= h.pos[m], h.pos[m] < h.pos[n] PROVE L2[n] # NULL
      <4>1. CASE n = c
        BY <1>0, <2>0, <4>1
      <4>2. CASE n # c
        <5>1. g.lo[n] <= p /\ p < g.pos[n]
          BY <1>3, <1>5, <1>6, <2>0, <2>5, <3>1, <3>2, <3>3, <4>2
        <5>2. L[n] # NULL
          BY <2>5, <5>1 DEF Tree, p
        <5> QED  BY <2>0, <4>2, <5>2
      <4> QED  BY <4>1, <4>2
    <3>4. ASSUME h.pos[n] < h.pos[m], h.pos[m] <= h.hi[n] PROVE R2[n] # NULL
      <4>1. g.pos[n] < p /\ p <= g.hi[n]
        BY <1>3, <1>5, <1>6, <2>0, <2>5, <3>2, <3>4
      <4>2. R[n] # NULL
        BY <2>5, <4>1 DEF Tree, p
      <4> QED  BY <2>0, <4>2
    <3>5. h.pos[m] # h.pos[n]
      BY <1>19, <2>0, <2>5
    <3> QED  BY <3>3, <3>4, <3>5
  <2>6. CASE m \in S1 /\ n \in S2
    <3>1. h.pos[m] # h.pos[n]
      BY <1>19, <2>0, <2>6
    <3>2. CASE g.pos[m] >= p
      <4>1. h.pos[m] >= p + w
        BY <1>3, <1>5, <1>6, <2>0, <2>6, <3>2
      <4>2. h.pos[n] <= p + w - 1 /\ h.hi[n] <= p + w - 1
        BY <1>2, <1>5, <1>6, <1>8, <1>18, <2>0, <2>6
      <4> QED  BY <1>5, <1>6, <2>0, <3>1, <4>1, <4>2
    <3>3. CASE g.pos[m] < p
      <4>1. h.pos[m] = g.pos[m] /\ ~(p <= g.pos[m])
        BY <1>3, <1>5, <2>0, <2>6, <3>3
      <4>2. h.pos[n] >= p
        BY <1>18, <2>6
      <4>3. h.lo[n] <= h.pos[m] => g.lo[c] <= g.pos[m]
        BY <1>2, <1>5, <1>6, <1>8, <2>0, <2>6, <3>3, <4>1
      <4>4. ~(g.lo[c] <= g.pos[m])
        BY <2>6, <3>3 DEF Tree, p
      <4> QED  BY <1>5, <2>0, <3>1, <3>3, <4>1, <4>2, <4>3, <4>4
    <3> QED  BY <1>5, <2>0, <3>2, <3>3
  <2> QED  BY <2>3, <2>4, <2>5, <2>6
<1>25. Tree(L2, R2, P2, h, r1, S)
  <2>1. S \subseteq Node /\ r1 \in S \cup {NULL} /\ (r1 = NULL => S = {})
    BY <1>0
  <2> HIDE DEF S
  <2> QED  BY <2>1, <1>21, <1>22, <1>23, <1>24 DEF Tree
<1> QED  BY <1>15, <1>20, <1>25

\* And so they do when the second is hung on the right.
LEMMA GraftRight ==
  ASSUME NEW L, NEW R, NEW P, NEW g, NEW r1, NEW S1, NEW r2, NEW S2, Shape(L, R, g),
         Tree(L, R, P, g, r1, S1), Tree(L, R, P, g, r2, S2), S1 \cap S2 = {}, r2 # NULL,
         NEW c \in S1, R[c] = NULL, NEW L2, NEW R2, NEW P2, HungLeft(R, L, P, R2, L2, P2, r2, c)
  PROVE  \E h : /\ Shape(L2, R2, h) /\ Tree(L2, R2, P2, h, r1, S1 \cup S2)
                /\ Behind(g, h, S1, S2, c)
<1> DEFINE f == Mirrored(g)
<1>1. Shape(R, L, f) /\ Tree(R, L, P, f, r1, S1) /\ Tree(R, L, P, f, r2, S2)
  BY MirrorImage
<1>2. \A n \in Node : f.pos[n] = -g.pos[n] /\ f.lo[n] = -g.hi[n] /\ f.hi[n] = -g.lo[n]
  BY DEF Mirrored
<1> HIDE DEF f
<1>3. PICK e : Shape(R2, L2, e) /\ Tree(R2, L2, P2, e, r1, S1 \cup S2) /\ Before(f, e, S1, S2, c)
  BY <1>1, GraftLeft
<1> DEFINE h == Mirrored(e)
<1>4. Shape(L2, R2, h) /\ Tree(L2, R2, P2, h, r1, S1 \cup S2)
  BY <1>3, MirrorImage
<1>5. \A n \in Node : h.pos[n] = -e.pos[n] /\ h.lo[n] = -e.hi[n] /\ h.hi[n] = -e.lo[n]
  BY DEF Mirrored
<1> HIDE DEF h
<1>6. \A n \in Node : /\ g.pos[n] \in Int /\ g.lo[n] \in Int /\ g.hi[n] \in Int
                      /\ e.pos[n] \in Int /\ e.lo[n] \in Int /\ e.hi[n] \in Int
  BY <1>3 DEF Shape
<1>7. S1 \subseteq Node /\ S2 \subseteq Node
  BY DEF Tree
<1>8. ASSUME NEW m \in Node, NEW n \in Node, e.pos[n] < e.pos[m] <=> f.pos[n] < f.pos[m]
      PROVE  h.pos[m] < h.pos[n] <=> g.pos[m] < g.pos[n]
  BY <1>2, <1>5, <1>6, <1>8
<1>9. ASSUME NEW m \in S2, NEW n \in S1
      PROVE  IF g.pos[n] <= g.pos[c] THEN h.pos[n] < h.pos[m] ELSE h.pos[m] < h.pos[n]
  <2>1. m \in Node /\ n \in Node /\ c \in Node
    BY <1>7
  <2>2. IF f.pos[c] <= f.pos[n] THEN e.pos[m] < e.pos[n] ELSE e.pos[n] < e.pos[m]
    BY <1>3 DEF Before
  <2> QED  BY <1>2, <1>5, <1>6, <2>1, <2>2
<1>10. ASSUME NEW n \in Node \ (S1 \cup S2)
       PROVE  h.pos[n] = g.pos[n] /\ h.lo[n] = g.lo[n] /\ h.hi[n] = g.hi[n]
  <2>1. e.pos[n] = f.pos[n] /\ e.lo[n] = f.lo[n] /\ e.hi[n] = f.hi[n]
    BY <1>3 DEF Before
  <2> QED  BY <1>2, <1>5, <1>6, <2>1
<1>11. /\ \A m \in S1, n \in S1 : h.pos[m] < h.pos[n] <=> g.pos[m] < g.pos[n]
       /\ \A m \in S2, n \in S2 : h.pos[m] < h.pos[n] <=> g.pos[m] < g.pos[n]
  BY <1>3, <1>7, <1>8 DEF Before
<1> QED  BY <1>4, <1>9, <1>10, <1>11 DEF Behind

\* The places do not change, nor the intervals of nodes outside S.
Steady(g, h, S) ==
  /\ \A n \in Node : h.pos[n] = g.pos[n]
  /\ \A n \in Node \ S : h.lo[n] = g.lo[n] /\ h.hi[n] = g.hi[n]

\* The pointers after the right child of t took its place.
Turned(L, R, P, L2, R2, P2, t) ==
  \A n \in Node :
    /\ L2[n] = IF n = R[t] THEN t ELSE IF L[n] = t THEN R[t] ELSE L[n]
    /\ R2[n] = IF n = t THEN L[R[t]] ELSE IF R[n] = t THEN R[t] ELSE R[n]
    /\ P2[n] = IF n = t THEN R[t] ELSE IF n = R[t] THEN P[t]
               ELSE IF n = L[R[t]] THEN t ELSE P[n]

\* The tree stays a tree, in the same order.
LEMMA TurnLeft ==
  ASSUME NEW L, NEW R, NEW P, NEW g, NEW r, NEW S, Shape(L, R, g), Tree(L, R, P, g, r, S),
         NEW t \in S, R[t] # NULL, NEW L2, NEW R2, NEW P2, Turned(L, R, P, L2, R2, P2, t)
  PROVE  \E h : /\ Shape(L2, R2, h) /\ Tree(L2, R2, P2, h, IF t = r THEN R[t] ELSE r, S)
                /\ Steady(g, h, S)
<1> DEFINE u == R[t]
           q == IF t = r THEN u ELSE r
           h == [B |-> g.B, pos |-> g.pos, lo |-> [n \in Node |-> IF n = u THEN g.lo[t] ELSE g.lo[n]],
                 hi |-> [n \in Node |-> IF n = t THEN g.pos[u] - 1 ELSE g.hi[n]]]
<1>0. /\ S \subseteq Node /\ t \in Node /\ u \in S /\ u \in Node /\ r \in S /\ r \in Node /\ NULL \notin Node
      /\ P[u] = t /\ u # r
  <2>1. S \subseteq Node /\ t \in Node /\ NULL \notin Node /\ r \in S
    BY NodeFacts DEF Tree
  <2>2. u \in S /\ P[u] = t
    BY <2>1 DEF Tree, Child
  <2>3. u = r => P[u] = NULL
    BY <2>2 DEF Tree
  <2> HIDE DEF u
  <2> QED  BY <2>1, <2>2, <2>3
<1>1. ASSUME NEW n \in Node
      PROVE  /\ g.pos[n] \in Int /\ g.lo[n] \in Int /\ g.hi[n] \in Int /\ g.B \in Int
             /\ -g.B <= g.lo[n] /\ g.lo[n] <= g.pos[n] /\ g.pos[n] <= g.hi[n] /\ g.hi[n] <= g.B
             /\ L[n] = NULL \/ (L[n] \in Node /\ g.lo[L[n]] = g.lo[n] /\ g.hi[L[n]] = g.pos[n] - 1)
             /\ R[n] = NULL \/ (R[n] \in Node /\ g.lo[R[n]] = g.pos[n] + 1 /\ g.hi[R[n]] = g.hi[n])
  BY DEF Shape
<1>2. g.lo[u] = g.pos[t] + 1 /\ g.hi[u] = g.hi[t] /\ u # t
  BY <1>0, <1>1
<1>3. ASSUME NEW n \in Node
      PROVE  /\ L[n] \in S => n \in S /\ P[L[n]] = n
             /\ R[n] \in S => n \in S /\ P[R[n]] = n
  BY DEF Tree, Child
<1>4. L[u] # u /\ R[u] # u /\ L[u] # t /\ R[u] # t /\ L[t] # t /\ L[t] # u
  <2>1. g.pos[t] < g.pos[u] /\ g.lo[t] <= g.pos[t] /\ g.hi[u] = g.hi[t]
    BY <1>0, <1>1, <1>2
  <2> QED  BY <1>0, <1>1, <1>2, <1>3, <2>1
<1> HIDE DEF q
<1>5. h.B = g.B /\ h.pos = g.pos
  OBVIOUS
<1>6. ASSUME NEW n \in Node
      PROVE  /\ h.lo[n] = IF n = u THEN g.lo[t] ELSE g.lo[n]
             /\ h.hi[n] = IF n = t THEN g.pos[u] - 1 ELSE g.hi[n]
  OBVIOUS
<1> HIDE DEF h
<1>7. ASSUME NEW n \in Node
      PROVE  /\ L2[n] = IF n = u THEN t ELSE IF L[n] = t THEN u ELSE L[n]
             /\ R2[n] = IF n = t THEN L[u] ELSE IF R[n] = t THEN u ELSE R[n]
             /\ P2[n] = IF n = t THEN u ELSE IF n = u THEN P[t] ELSE IF n = L[u] THEN t ELSE P[n]
  BY DEF Turned
<1> HIDE DEF u
<1>8. ASSUME NEW n \in Node
      PROVE  /\ h.pos[n] \in Int /\ h.lo[n] \in Int /\ h.hi[n] \in Int
             /\ -h.B <= h.lo[n] /\ h.lo[n] <= h.pos[n] /\ h.pos[n] <= h.hi[n] /\ h.hi[n] <= h.B
  BY <1>0, <1>1, <1>2, <1>5, <1>6
<1>9. ASSUME NEW n \in Node
      PROVE  L2[n] = NULL \/ (L2[n] \in Node /\ h.lo[L2[n]] = h.lo[n] /\ h.hi[L2[n]] = h.pos[n] - 1)
  <2>1. CASE n = u
    BY <1>0, <1>2, <1>5, <1>6, <1>7, <2>1
  <2>2. CASE n # u /\ L[n] = t
    <3>1. L2[n] = u /\ n # t
      BY <1>4, <1>7, <2>2
    <3>2. g.lo[t] = g.lo[n] /\ g.hi[t] = g.pos[n] - 1
      BY <1>0, <1>1, <2>2
    <3> QED  BY <1>0, <1>2, <1>5, <1>6, <2>2, <3>1, <3>2
  <2>3. CASE n # u /\ L[n] # t
    <3>1. L2[n] = L[n]
      BY <1>7, <2>3
    <3>2. L[n] # u
      BY <1>0, <1>3, <1>4
    <3>3. n = t => h.lo[n] = g.lo[n] /\ h.pos[n] = g.pos[n]
      BY <1>2, <1>5, <1>6
    <3> QED  BY <1>0, <1>1, <1>2, <1>5, <1>6, <2>3, <3>1, <3>2
  <2> QED  BY <2>1, <2>2, <2>3
<1>10. ASSUME NEW n \in Node
       PROVE  R2[n] = NULL \/ (R2[n] \in Node /\ h.lo[R2[n]] = h.pos[n] + 1 /\ h.hi[R2[n]] = h.hi[n])
  <2>1. CASE n = t
    <3>1. R2[n] = L[u] /\ h.pos[n] = g.pos[t] /\ h.hi[n] = g.pos[u] - 1
      BY <1>0, <1>5, <1>6, <1>7, <2>1
    <3>2. L[u] = NULL \/ (L[u] \in Node /\ g.lo[L[u]] = g.pos[t] + 1 /\ g.hi[L[u]] = g.pos[u] - 1)
      BY <1>0, <1>1, <1>2
    <3>3. L[u] \in Node => h.lo[L[u]] = g.lo[L[u]] /\ h.hi[L[u]] = g.hi[L[u]]
      BY <1>4, <1>6
    <3> QED  BY <3>1, <3>2, <3>3
  <2>2. CASE n # t /\ R[n] = t
    <3>1. R2[n] = u /\ n # u
      BY <1>4, <1>7, <2>2
    <3>2. g.lo[t] = g.pos[n] + 1 /\ g.hi[t] = g.hi[n]
      BY <1>0, <1>1, <2>2
    <3> QED  BY <1>0, <1>2, <1>5, <1>6, <2>2, <3>1, <3>2
  <2>3. CASE n # t /\ R[n] # t
    <3>1. R2[n] = R[n]
      BY <1>7, <2>3
    <3>2. R[n] # u
      BY <1>0, <1>3, <2>3
    <3> QED  BY <1>0, <1>1, <1>2, <1>5, <1>6, <2>3, <3>1, <3>2
  <2> QED  BY <2>1, <2>2, <2>3
<1>11. Shape(L2, R2, h)
  <2>1. h.B \in Int
    BY <1>0, <1>1, <1>5
  <2> QED  BY <2>1, <1>8, <1>9, <1>10 DEF Shape
<1>12. ASSUME NEW n \in Node PROVE Child(L2, P2, S, n) /\ Child(R2, P2, S, n)
  <2>1. L2[n] \in S => n \in S /\ P2[L2[n]] = n
    <3>1. CASE n = u
      BY <1>0, <1>7, <3>1
    <3>2. CASE n # u /\ L[n] = t
      <4>1. n \in S /\ P[t] = n /\ L2[n] = u /\ P2[u] = P[t]
        BY <1>0, <1>2, <1>3, <1>7, <3>2
      <4> QED  BY <4>1
    <3>3. CASE n # u /\ L[n] # t
      <4>1. L2[n] = L[n]
        BY <1>7, <3>3
      <4> SUFFICES ASSUME L[n] \in S PROVE n \in S /\ P2[L[n]] = n
        BY <4>1
      <4>2. n \in S /\ P[L[n]] = n
        BY <1>3
      <4>3. L[n] # L[u] /\ L[n] # u
        BY <1>0, <1>3, <1>4, <3>3, <4>2
      <4> QED  BY <1>0, <1>7, <3>3, <4>2, <4>3
    <3> QED  BY <3>1, <3>2, <3>3
  <2>2. R2[n] \in S => n \in S /\ P2[R2[n]] = n
    <3>1. CASE n = t
      <4>1. R2[n] = L[u] /\ n \in S /\ L[u] # t /\ L[u] # u
        BY <1>4, <1>7, <3>1
      <4> QED  BY <1>0, <1>7, <3>1, <4>1
    <3>2. CASE n # t /\ R[n] = t
      <4>1. n \in S /\ P[t] = n /\ R2[n] = u /\ P2[u] = P[t]
        BY <1>0, <1>2, <1>3, <1>7, <3>2
      <4> QED  BY <4>1
    <3>3. CASE n # t /\ R[n] # t
      <4>1. R2[n] = R[n]
        BY <1>7, <3>3
      <4> SUFFICES ASSUME R[n] \in S PROVE n \in S /\ P2[R[n]] = n
        BY <4>1
      <4>2. n \in S /\ P[R[n]] = n
        BY <1>3
      <4>3. R[n] # u
        BY <1>0, <1>3, <3>3
      <4>4. R[n] # L[u]
        <5>1. L[u] \in S => P[L[u]] = u
          BY <1>0, <1>3
        <5>2. n = u => R[n] # L[u]
          BY <1>0, <1>1, <4>2
        <5> QED  BY <4>2, <5>1, <5>2
      <4> QED  BY <1>0, <1>7, <3>3, <4>2, <4>3, <4>4
    <3> QED  BY <3>1, <3>2, <3>3
  <2> QED  BY <2>1, <2>2 DEF Child
<1>13. ASSUME NEW n \in S
       PROVE  /\ L[n] \in S \cup {NULL} /\ R[n] \in S \cup {NULL} /\ n \in Node
              /\ n = r => P[n] = NULL
              /\ n # r => P[n] \in S /\ P[n] \in Node /\ (L[P[n]] = n \/ R[P[n]] = n)
              /\ Within(g, n, r)
  BY <1>0 DEF Tree
<1>14. ASSUME NEW n \in S PROVE L2[n] \in S \cup {NULL} /\ R2[n] \in S \cup {NULL}
  BY <1>0, <1>7, <1>13
<1>15. r # t => q = r
  BY DEF q
<1>16. r = t => q = u
  BY DEF q
<1>17. ASSUME NEW n \in S PROVE n = q => P2[n] = NULL
  <2> SUFFICES ASSUME n = q PROVE P2[n] = NULL
    OBVIOUS
  <2>1. CASE r = t
    BY <1>0, <1>2, <1>7, <1>13, <1>16, <2>1
  <2>2. CASE r # t
    <3>1. n = r /\ P[r] = NULL /\ r # u
      BY <1>0, <1>13, <1>15, <2>2
    <3>2. r # L[u]
      BY <1>0, <1>3, <3>1
    <3> QED  BY <1>0, <1>7, <2>2, <3>1, <3>2
  <2> QED  BY <2>1, <2>2
<1>18. ASSUME NEW n \in S, n # q PROVE P2[n] \in S /\ (L2[P2[n]] = n \/ R2[P2[n]] = n)
  <2>1. CASE n = t
    BY <1>0, <1>7, <2>1
  <2>2. CASE n = u
    <3>1. t # r
      BY <1>16, <1>18, <2>2
    <3>2. P2[n] = P[t] /\ P[t] \in S /\ P[t] \in Node /\ (L[P[t]] = t \/ R[P[t]] = t)
      BY <1>0, <1>2, <1>7, <1>13, <2>2, <3>1
    <3>3. P[t] # u /\ P[t] # t
      BY <1>0, <1>1, <1>4, <3>2
    <3> QED  BY <1>7, <2>2, <3>2, <3>3
  <2>3. CASE n = L[u] /\ n # t /\ n # u
    <3>1. P2[n] = t /\ R2[t] = n
      BY <1>0, <1>7, <2>3
    <3> QED  BY <3>1
  <2>4. CASE n # L[u] /\ n # t /\ n # u
    <3>1. n # r
      BY <1>15, <1>18, <2>4, <1>16
    <3>2. P2[n] = P[n] /\ P[n] \in S /\ P[n] \in Node /\ (L[P[n]] = n \/ R[P[n]] = n)
      BY <1>0, <1>7, <1>13, <2>4, <3>1
    <3> QED  BY <1>7, <2>4, <3>2 DEF u
  <2> QED  BY <2>1, <2>2, <2>3, <2>4
<1>19. ASSUME NEW n \in S PROVE Within(h, n, q)
  <2>1. CASE r = t
    <3>1. h.lo[q] = g.lo[r] /\ h.hi[q] = g.hi[r]
      BY <1>0, <1>2, <1>6, <1>16, <2>1
    <3> QED  BY <1>5, <1>13, <3>1 DEF Within
  <2>2. CASE r # t
    <3>1. h.lo[q] = g.lo[r] /\ h.hi[q] = g.hi[r]
      BY <1>0, <1>6, <1>15, <2>2
    <3> QED  BY <1>5, <1>13, <3>1 DEF Within
  <2> QED  BY <2>1, <2>2
<1>20. ASSUME NEW m \in S, NEW n \in S
       PROVE  /\ m # n => h.pos[m] # h.pos[n]
              /\ h.lo[n] <= h.pos[m] /\ h.pos[m] < h.pos[n] => L2[n] # NULL
              /\ h.pos[n] < h.pos[m] /\ h.pos[m] <= h.hi[n] => R2[n] # NULL
  <2>0. /\ m \in Node /\ n \in Node /\ g.pos[m] \in Int /\ g.pos[n] \in Int
        /\ h.pos[m] = g.pos[m] /\ h.pos[n] = g.pos[n]
    BY <1>0, <1>1, <1>5
  <2>1. /\ m # n => g.pos[m] # g.pos[n]
        /\ g.lo[n] <= g.pos[m] /\ g.pos[m] < g.pos[n] => L[n] # NULL
        /\ g.pos[n] < g.pos[m] /\ g.pos[m] <= g.hi[n] => R[n] # NULL
    BY DEF Tree
  <2>2. ASSUME h.lo[n] <= h.pos[m], h.pos[m] < h.pos[n] PROVE L2[n] # NULL
    <3>1. CASE n = u
      BY <1>0, <1>7, <3>1
    <3>2. CASE n # u
      <4>1. L[n] # NULL
        BY <1>6, <2>0, <2>1, <2>2, <3>2
      <4> QED  BY <1>0, <1>7, <3>2, <4>1
    <3> QED  BY <3>1, <3>2
  <2>3. ASSUME h.pos[n] < h.pos[m], h.pos[m] <= h.hi[n] PROVE R2[n] # NULL
    <3>1. CASE n = t
      <4>1. g.pos[t] < g.pos[m] /\ g.pos[m] <= g.pos[u] - 1
        BY <1>0, <1>6, <2>0, <2>3, <3>1
      <4>2. g.lo[u] <= g.pos[m] /\ g.pos[m] < g.pos[u]
        BY <1>0, <1>1, <1>2, <2>0, <4>1
      <4>3. L[u] # NULL
        BY <1>0, <4>2 DEF Tree
      <4> QED  BY <1>0, <1>7, <3>1, <4>3
    <3>2. CASE n # t
      <4>1. R[n] # NULL
        BY <1>6, <2>0, <2>1, <2>3, <3>2
      <4> QED  BY <1>0, <1>7, <3>2, <4>1
    <3> QED  BY <3>1, <3>2
  <2> QED  BY <2>0, <2>1, <2>2, <2>3
<1>21. q \in S
  BY <1>0 DEF q
<1>22. Tree(L2, R2, P2, h, q, S)
  <2>1. S \subseteq Node /\ q \in S \cup {NULL} /\ (q = NULL => S = {})
    BY <1>0, <1>21
  <2> QED  BY <2>1, <1>12, <1>14, <1>17, <1>18, <1>19, <1>20 DEF Tree
<1>23. Steady(g, h, S)
  BY <1>0, <1>5, <1>6 DEF Steady
<1> QED  BY <1>11, <1>22, <1>23 DEF q, u

\* And so it does after the mirror image of this.
LEMMA TurnRight ==
  ASSUME NEW L, NEW R, NEW P, NEW g, NEW r, NEW S, Shape(L, R, g), Tree(L, R, P, g, r, S),
         NEW t \in S, L[t] # NULL, NEW L2, NEW R2, NEW P2, Turned(R, L, P, R2, L2, P2, t)
  PROVE  \E h : /\ Shape(L2, R2, h) /\ Tree(L2, R2, P2, h, IF t = r THEN L[t] ELSE r, S)
                /\ Steady(g, h, S)
<1> DEFINE f == Mirrored(g)
           q == IF t = r THEN L[t] ELSE r
<1>1. Shape(R, L, f) /\ Tree(R, L, P, f, r, S)
  BY MirrorImage
<1>2. \A n \in Node : f.pos[n] = -g.pos[n] /\ f.lo[n] = -g.hi[n] /\ f.hi[n] = -g.lo[n]
  BY DEF Mirrored
<1> HIDE DEF f
<1>3. PICK e : Shape(R2, L2, e) /\ Tree(R2, L2, P2, e, q, S) /\ Steady(f, e, S)
  BY <1>1, TurnLeft
<1> HIDE DEF q
<1> DEFINE h == Mirrored(e)
<1>4. Shape(L2, R2, h) /\ Tree(L2, R2, P2, h, q, S)
  BY <1>3, MirrorImage
<1>5. \A n \in Node : h.pos[n] = -e.pos[n] /\ h.lo[n] = -e.hi[n] /\ h.hi[n] = -e.lo[n]
  BY DEF Mirrored
<1> HIDE DEF h
<1>6. \A n \in Node : g.pos[n] \in Int /\ g.lo[n] \in Int /\ g.hi[n] \in Int
  BY DEF Shape
<1>7. Steady(g, h, S)
  <2>1. ASSUME NEW n \in Node PROVE h.pos[n] = g.pos[n]
    <3>1. e.pos[n] = f.pos[n]
      BY <1>3 DEF Steady
    <3> QED  BY <1>2, <1>5, <1>6, <3>1
  <2>2. ASSUME NEW n \in Node \ S PROVE h.lo[n] = g.lo[n] /\ h.hi[n] = g.hi[n]
    <3>1. e.lo[n] = f.lo[n] /\ e.hi[n] = f.hi[n]
      BY <1>3 DEF Steady
    <3> QED  BY <1>2, <1>5, <1>6, <3>1
  <2> QED  BY <2>1, <2>2 DEF Steady
<1> QED  BY <1>4, <1>7 DEF q

-----------------------------------------------------------------------------
(* The operations, field by field.                                          *)

\* The type of the tree record.
Typed(T) ==
  T \in [root : Node \cup {NULL}, key : [Node -> 0..MaxKey], color : [Node -> {RED, BLACK}],
         left : [Node -> Node \cup {NULL}], right : [Node -> Node \cup {NULL}],
         parent : [Node -> Node \cup {NULL}]]

\* Keys and colours are the same.
SameLabels(T, T2) == T2.key = T.key /\ T2.color = T.color

\* left_rotate and right_rotate turn the pointers, and change no key and no colour.
LEMMA RotateIs ==
  ASSUME NEW T, NEW g, NEW S, Typed(T), Rooted(T, g, T.root, S), NEW t \in S
  PROVE  /\ T.right[t] # NULL =>
              LET T2 == Rotate(T, t, "left", "right") IN
              /\ Typed(T2) /\ SameLabels(T, T2)
              /\ Turned(T.left, T.right, T.parent, T2.left, T2.right, T2.parent, t)
              /\ T2.root = IF t = T.root THEN T.right[t] ELSE T.root
         /\ T.left[t] # NULL =>
              LET T2 == Rotate(T, t, "right", "left") IN
              /\ Typed(T2) /\ SameLabels(T, T2)
              /\ Turned(T.right, T.left, T.parent, T2.right, T2.left, T2.parent, t)
              /\ T2.root = IF t = T.root THEN T.left[t] ELSE T.root
<1> USE DEF Rooted
<1> DEFINE up == T.parent[t]
<1>0. t \in Node /\ S \subseteq Node /\ NULL \notin Node /\ T.root \in Node
  BY NodeFacts DEF Tree
<1>1. /\ T = [root |-> T.root, key |-> T.key, color |-> T.color, left |-> T.left,
              right |-> T.right, parent |-> T.parent]
      /\ T.key \in [Node -> 0..MaxKey] /\ T.color \in [Node -> {RED, BLACK}]
      /\ T.left \in [Node -> Node \cup {NULL}] /\ T.right \in [Node -> Node \cup {NULL}]
      /\ T.parent \in [Node -> Node \cup {NULL}]
  BY DEF Typed
<1>2. /\ t = T.root => up = NULL
      /\ t # T.root => up \in S /\ up \in Node /\ (T.left[up] = t \/ T.right[up] = t)
  BY <1>0 DEF Tree
<1>3. \A n \in Node : (T.left[n] = t => n = up) /\ (T.right[n] = t => n = up)
  BY DEF Tree, Child
<1>4. \A n \in Node : (T.left[n] # NULL => T.left[n] # n) /\ (T.right[n] # NULL => T.right[n] # n)
  BY DEF Shape
<1>5. \A n \in Node : T.left[n] # NULL => T.left[n] # T.right[n]
  BY DEF Shape
<1>6. ASSUME T.right[t] # NULL
      PROVE  LET T2 == Rotate(T, t, "left", "right") IN
             /\ Typed(T2) /\ SameLabels(T, T2)
             /\ Turned(T.left, T.right, T.parent, T2.left, T2.right, T2.parent, t)
             /\ T2.root = IF t = T.root THEN T.right[t] ELSE T.root
  <2> DEFINE u == T.right[t]
             mid == T.left[u]
             T2 == Rotate(T, t, "left", "right")
             side == IF up # NULL /\ T.left[up] = t THEN "left" ELSE "right"
             hung == IF up = NULL THEN [T EXCEPT !.root = u] ELSE [T EXCEPT ![side][up] = u]
             par == [n \in Node |-> IF n = t THEN u ELSE IF n = u THEN up
                                    ELSE IF n = mid THEN t ELSE T.parent[n]]
  <2>1. u \in Node /\ u # t /\ u # up /\ up # t /\ T.left[u] # t /\ mid \in Node \cup {NULL}
    <3>1. u \in S /\ u # t /\ T.parent[u] = t
      BY <1>0, <1>4, <1>6 DEF Tree, Child
    <3>2. u # up /\ up # t
      <4>1. g.lo[u] = g.pos[t] + 1 /\ g.hi[u] = g.hi[t]
        BY <1>0, <1>6 DEF Shape
      <4>2. up # NULL => \/ g.lo[t] = g.lo[up] /\ g.hi[t] = g.pos[up] - 1
                         \/ g.lo[t] = g.pos[up] + 1 /\ g.hi[t] = g.hi[up]
        BY <1>0, <1>2 DEF Shape
      <4>3. up # NULL => up \in Node /\ u \in Node
        BY <1>0, <1>2, <3>1
      <4> HIDE DEF u, up
      <4> QED  BY <1>0, <3>1, <4>1, <4>2, <4>3 DEF Shape
    <3> QED  BY <1>0, <1>1, <1>3, <3>1, <3>2
  <2>2. T2 = [hung EXCEPT !["right"][t] = mid, !["left"][u] = t,
                          !.parent = [n \in Node |-> IF n = t THEN u ELSE IF n = u THEN up
                                                     ELSE IF n = mid THEN t ELSE @[n]]]
    BY DEF Rotate
  <2>3. hung = [root |-> IF up = NULL THEN u ELSE T.root, key |-> T.key, color |-> T.color,
                left |-> IF up # NULL /\ T.left[up] = t THEN [T.left EXCEPT ![up] = u] ELSE T.left,
                right |-> IF up # NULL /\ T.left[up] # t THEN [T.right EXCEPT ![up] = u] ELSE T.right,
                parent |-> T.parent]
    <3> HIDE DEF u, up
    <3>1. CASE up = NULL
      BY <1>1, <3>1
    <3>2. CASE up # NULL /\ T.left[up] = t
      BY <1>1, <3>2
    <3>3. CASE up # NULL /\ T.left[up] # t
      BY <1>1, <3>3
    <3> QED  BY <3>1, <3>2, <3>3
  <2> HIDE DEF hung
  <2>4. T2 = [root |-> hung.root, key |-> T.key, color |-> T.color,
              left |-> [hung.left EXCEPT ![u] = t], right |-> [hung.right EXCEPT ![t] = mid],
              parent |-> par]
    <3> HIDE DEF u, up, mid, T2
    <3> QED  BY <2>2, <2>3
  <2> HIDE DEF T2
  <2>5. /\ T2.left = [hung.left EXCEPT ![u] = t] /\ T2.right = [hung.right EXCEPT ![t] = mid]
        /\ T2.root = hung.root /\ T2.key = T.key /\ T2.color = T.color /\ T2.parent = par
    BY <2>4
  <2>6. /\ hung.left \in [Node -> Node \cup {NULL}] /\ hung.right \in [Node -> Node \cup {NULL}]
        /\ hung.root \in Node \cup {NULL}
        /\ \A n \in Node : hung.left[n] = IF up # NULL /\ T.left[up] = t /\ n = up THEN u ELSE T.left[n]
        /\ \A n \in Node : hung.right[n] = IF up # NULL /\ T.left[up] # t /\ n = up THEN u ELSE T.right[n]
    <3> HIDE DEF u, up
    <3> QED  BY <1>0, <1>1, <2>1, <2>3
  <2>7. par \in [Node -> Node \cup {NULL}]
    <3> HIDE DEF u, mid
    <3> QED  BY <1>0, <1>1, <2>1
  <2>8. Typed(T2)
    <3> HIDE DEF u, mid, up, par
    <3> QED  BY <1>0, <1>1, <2>1, <2>4, <2>6, <2>7 DEF Typed
  <2>9. ASSUME NEW n \in Node
        PROVE  /\ T2.left[n] = IF n = u THEN t ELSE IF T.left[n] = t THEN u ELSE T.left[n]
               /\ T2.right[n] = IF n = t THEN mid ELSE IF T.right[n] = t THEN u ELSE T.right[n]
    <3>1. (up # NULL /\ T.left[up] = t /\ n = up) <=> T.left[n] = t
      BY <1>0, <1>3
    <3>2. (up # NULL /\ T.left[up] # t /\ n = up) <=> T.right[n] = t
      BY <1>0, <1>2, <1>3, <1>5
    <3> HIDE DEF u, mid, up
    <3> QED  BY <2>1, <2>5, <2>6, <3>1, <3>2, <1>0
  <2>10. Turned(T.left, T.right, T.parent, T2.left, T2.right, T2.parent, t)
    BY <2>5, <2>9 DEF Turned
  <2>11. T2.root = IF t = T.root THEN u ELSE T.root
    BY <1>0, <1>2, <2>3, <2>5
  <2> QED  BY <2>5, <2>8, <2>10, <2>11 DEF SameLabels, T2
<1>7. ASSUME T.left[t] # NULL
      PROVE  LET T2 == Rotate(T, t, "right", "left") IN
             /\ Typed(T2) /\ SameLabels(T, T2)
             /\ Turned(T.right, T.left, T.parent, T2.right, T2.left, T2.parent, t)
             /\ T2.root = IF t = T.root THEN T.left[t] ELSE T.root
  <2> DEFINE u == T.left[t]
             mid == T.right[u]
             T2 == Rotate(T, t, "right", "left")
             side == IF up # NULL /\ T.right[up] = t THEN "right" ELSE "left"
             hung == IF up = NULL THEN [T EXCEPT !.root = u] ELSE [T EXCEPT ![side][up] = u]
             par == [n \in Node |-> IF n = t THEN u ELSE IF n = u THEN up
                                    ELSE IF n = mid THEN t ELSE T.parent[n]]
  <2>1. u \in Node /\ u # t /\ u # up /\ up # t /\ T.right[u] # t /\ mid \in Node \cup {NULL}
    <3>1. u \in S /\ u # t /\ T.parent[u] = t
      BY <1>0, <1>4, <1>7 DEF Tree, Child
    <3>2. u # up /\ up # t
      <4>1. g.lo[u] = g.lo[t] /\ g.hi[u] = g.pos[t] - 1
        BY <1>0, <1>7 DEF Shape
      <4>2. up # NULL => \/ g.lo[t] = g.lo[up] /\ g.hi[t] = g.pos[up] - 1
                         \/ g.lo[t] = g.pos[up] + 1 /\ g.hi[t] = g.hi[up]
        BY <1>0, <1>2 DEF Shape
      <4>3. up # NULL => up \in Node /\ u \in Node
        BY <1>0, <1>2, <3>1
      <4> HIDE DEF u, up
      <4> QED  BY <1>0, <3>1, <4>1, <4>2, <4>3 DEF Shape
    <3> QED  BY <1>0, <1>1, <1>3, <3>1, <3>2
  <2>2. T2 = [hung EXCEPT !["left"][t] = mid, !["right"][u] = t,
                          !.parent = [n \in Node |-> IF n = t THEN u ELSE IF n = u THEN up
                                                     ELSE IF n = mid THEN t ELSE @[n]]]
    BY DEF Rotate
  <2>3. hung = [root |-> IF up = NULL THEN u ELSE T.root, key |-> T.key, color |-> T.color,
                left |-> IF up # NULL /\ T.right[up] # t THEN [T.left EXCEPT ![up] = u] ELSE T.left,
                right |-> IF up # NULL /\ T.right[up] = t THEN [T.right EXCEPT ![up] = u] ELSE T.right,
                parent |-> T.parent]
    <3> HIDE DEF u, up
    <3>1. CASE up = NULL
      BY <1>1, <3>1
    <3>2. CASE up # NULL /\ T.right[up] = t
      BY <1>1, <3>2
    <3>3. CASE up # NULL /\ T.right[up] # t
      BY <1>1, <3>3
    <3> QED  BY <3>1, <3>2, <3>3
  <2> HIDE DEF hung
  <2>4. T2 = [root |-> hung.root, key |-> T.key, color |-> T.color,
              left |-> [hung.left EXCEPT ![t] = mid], right |-> [hung.right EXCEPT ![u] = t],
              parent |-> par]
    <3> HIDE DEF u, up, mid, T2
    <3> QED  BY <2>2, <2>3
  <2> HIDE DEF T2
  <2>5. /\ T2.left = [hung.left EXCEPT ![t] = mid] /\ T2.right = [hung.right EXCEPT ![u] = t]
        /\ T2.root = hung.root /\ T2.key = T.key /\ T2.color = T.color /\ T2.parent = par
    BY <2>4
  <2>6. /\ hung.left \in [Node -> Node \cup {NULL}] /\ hung.right \in [Node -> Node \cup {NULL}]
        /\ hung.root \in Node \cup {NULL}
        /\ \A n \in Node : hung.left[n] = IF up # NULL /\ T.right[up] # t /\ n = up THEN u ELSE T.left[n]
        /\ \A n \in Node : hung.right[n] = IF up # NULL /\ T.right[up] = t /\ n = up THEN u ELSE T.right[n]
    <3> HIDE DEF u, up
    <3> QED  BY <1>0, <1>1, <2>1, <2>3
  <2>7. par \in [Node -> Node \cup {NULL}]
    <3> HIDE DEF u, mid
    <3> QED  BY <1>0, <1>1, <2>1
  <2>8. Typed(T2)
    <3> HIDE DEF u, mid, up, par
    <3> QED  BY <1>0, <1>1, <2>1, <2>4, <2>6, <2>7 DEF Typed
  <2>9. ASSUME NEW n \in Node
        PROVE  /\ T2.right[n] = IF n = u THEN t ELSE IF T.right[n] = t THEN u ELSE T.right[n]
               /\ T2.left[n] = IF n = t THEN mid ELSE IF T.left[n] = t THEN u ELSE T.left[n]
    <3>1. (up # NULL /\ T.right[up] = t /\ n = up) <=> T.right[n] = t
      BY <1>0, <1>3
    <3>2. (up # NULL /\ T.right[up] # t /\ n = up) <=> T.left[n] = t
      BY <1>0, <1>2, <1>3, <1>5
    <3> HIDE DEF u, mid, up
    <3> QED  BY <2>1, <2>5, <2>6, <3>1, <3>2, <1>0
  <2>10. Turned(T.right, T.left, T.parent, T2.right, T2.left, T2.parent, t)
    BY <2>5, <2>9 DEF Turned
  <2>11. T2.root = IF t = T.root THEN u ELSE T.root
    BY <1>0, <1>2, <2>3, <2>5
  <2> QED  BY <2>5, <2>8, <2>10, <2>11 DEF SameLabels, T2
<1> QED  BY <1>6, <1>7

\* The fields after the new node was hung.
LEMMA HangIs ==
  ASSUME NEW T, Typed(T), NEW n \in Node, NEW k \in Keys, NEW p \in Node \cup {NULL}, p # n
  PROVE  LET T2 == Hang(T, n, k, p) IN
         /\ Typed(T2)
         /\ T2.root = IF p = NULL THEN n ELSE T.root
         /\ T2.key = [T.key EXCEPT ![n] = k]
         /\ T2.color = [T.color EXCEPT ![n] = IF p = NULL THEN BLACK ELSE RED]
         /\ \A x \in Node :
              /\ T2.left[x] = IF x = n THEN NULL
                              ELSE IF x = p /\ ~(T.key[p] < k) THEN n ELSE T.left[x]
              /\ T2.right[x] = IF x = n THEN NULL
                               ELSE IF x = p /\ T.key[p] < k THEN n ELSE T.right[x]
              /\ T2.parent[x] = IF x = n THEN p ELSE T.parent[x]
<1> DEFINE blank == [T EXCEPT !.key[n] = k, !.left[n] = NULL, !.right[n] = NULL, !.parent[n] = p]
           T2 == Hang(T, n, k, p)
<1>0. NULL \notin Node /\ k \in 0..MaxKey
  BY NodeFacts, TreeAssumption DEF Keys
<1>1. /\ T = [root |-> T.root, key |-> T.key, color |-> T.color, left |-> T.left,
              right |-> T.right, parent |-> T.parent]
      /\ T.key \in [Node -> 0..MaxKey] /\ T.color \in [Node -> {RED, BLACK}]
      /\ T.left \in [Node -> Node \cup {NULL}] /\ T.right \in [Node -> Node \cup {NULL}]
      /\ T.parent \in [Node -> Node \cup {NULL}] /\ T.root \in Node \cup {NULL}
  BY DEF Typed
<1>2. blank = [root |-> T.root, key |-> [T.key EXCEPT ![n] = k], color |-> T.color,
               left |-> [T.left EXCEPT ![n] = NULL], right |-> [T.right EXCEPT ![n] = NULL],
               parent |-> [T.parent EXCEPT ![n] = p]]
  <2> DEFINE b1 == [T EXCEPT !.key[n] = k]
             b2 == [b1 EXCEPT !.left[n] = NULL]
             b3 == [b2 EXCEPT !.right[n] = NULL]
  <2>1. b1 = [root |-> T.root, key |-> [T.key EXCEPT ![n] = k], color |-> T.color,
              left |-> T.left, right |-> T.right, parent |-> T.parent]
    BY <1>1
  <2>2. blank = [b3 EXCEPT !.parent[n] = p]
    BY Zenon
  <2> HIDE DEF b1
  <2>3. b2 = [root |-> T.root, key |-> [T.key EXCEPT ![n] = k], color |-> T.color,
              left |-> [T.left EXCEPT ![n] = NULL], right |-> T.right, parent |-> T.parent]
    BY <2>1
  <2> HIDE DEF b2
  <2>4. b3 = [root |-> T.root, key |-> [T.key EXCEPT ![n] = k], color |-> T.color,
              left |-> [T.left EXCEPT ![n] = NULL], right |-> [T.right EXCEPT ![n] = NULL],
              parent |-> T.parent]
    BY <2>3
  <2> HIDE DEF b3
  <2> QED  BY <2>2, <2>4
<1>3. T2 = IF p = NULL THEN [blank EXCEPT !.root = n, !.color[n] = BLACK]
           ELSE IF T.key[p] < k THEN [blank EXCEPT !.right[p] = n, !.color[n] = RED]
           ELSE [blank EXCEPT !.left[p] = n, !.color[n] = RED]
  BY DEF Hang
<1> HIDE DEF blank, T2
<1>4. T2 = [root |-> IF p = NULL THEN n ELSE T.root, key |-> [T.key EXCEPT ![n] = k],
            color |-> [T.color EXCEPT ![n] = IF p = NULL THEN BLACK ELSE RED],
            left |-> IF p # NULL /\ ~(T.key[p] < k) THEN [[T.left EXCEPT ![n] = NULL] EXCEPT ![p] = n]
                     ELSE [T.left EXCEPT ![n] = NULL],
            right |-> IF p # NULL /\ T.key[p] < k THEN [[T.right EXCEPT ![n] = NULL] EXCEPT ![p] = n]
                      ELSE [T.right EXCEPT ![n] = NULL],
            parent |-> [T.parent EXCEPT ![n] = p]]
  <2>1. CASE p = NULL
    BY <1>2, <1>3, <2>1
  <2>2. CASE p # NULL /\ T.key[p] < k
    BY <1>2, <1>3, <2>2
  <2>3. CASE p # NULL /\ ~(T.key[p] < k)
    BY <1>2, <1>3, <2>3
  <2> QED  BY <2>1, <2>2, <2>3
<1>5. /\ T2.root = (IF p = NULL THEN n ELSE T.root) /\ T2.key = [T.key EXCEPT ![n] = k]
      /\ T2.color = [T.color EXCEPT ![n] = IF p = NULL THEN BLACK ELSE RED]
      /\ T2.left = IF p # NULL /\ ~(T.key[p] < k) THEN [[T.left EXCEPT ![n] = NULL] EXCEPT ![p] = n]
                   ELSE [T.left EXCEPT ![n] = NULL]
      /\ T2.right = IF p # NULL /\ T.key[p] < k THEN [[T.right EXCEPT ![n] = NULL] EXCEPT ![p] = n]
                    ELSE [T.right EXCEPT ![n] = NULL]
      /\ T2.parent = [T.parent EXCEPT ![n] = p]
  BY <1>4
<1>6. Typed(T2)
  <2>1. /\ T2.root \in Node \cup {NULL} /\ T2.key \in [Node -> 0..MaxKey]
        /\ T2.color \in [Node -> {RED, BLACK}] /\ T2.parent \in [Node -> Node \cup {NULL}]
    BY <1>0, <1>1, <1>5
  <2>2. T2.left \in [Node -> Node \cup {NULL}] /\ T2.right \in [Node -> Node \cup {NULL}]
    BY <1>0, <1>1, <1>5
  <2>3. T2 = [root |-> T2.root, key |-> T2.key, color |-> T2.color, left |-> T2.left,
              right |-> T2.right, parent |-> T2.parent]
    BY <1>4, <1>5
  <2> QED  BY <2>1, <2>2, <2>3 DEF Typed
<1>7. ASSUME NEW x \in Node
      PROVE  /\ T2.left[x] = IF x = n THEN NULL
                             ELSE IF x = p /\ ~(T.key[p] < k) THEN n ELSE T.left[x]
             /\ T2.right[x] = IF x = n THEN NULL
                              ELSE IF x = p /\ T.key[p] < k THEN n ELSE T.right[x]
             /\ T2.parent[x] = IF x = n THEN p ELSE T.parent[x]
  <2>1. p = NULL => x # p
    BY <1>0
  <2> QED  BY <1>0, <1>1, <1>5, <2>1
<1> QED  BY <1>5, <1>6, <1>7 DEF T2

\* The nodes H that are not allocated are in no tree, and no pointer leads to them.
Loose(T, H, S) == H \subseteq Node \ S /\ \A n \in Node : T.left[n] \notin H /\ T.right[n] \notin H

\* The tree, with the nodes U, and the pool below k, with the nodes K.
Forest(T, g, U, k, K, H) ==
  /\ Typed(T) /\ Rooted(T, g, T.root, U) /\ Rooted(T, g, k, K)
  /\ U \cap K = {} /\ Loose(T, H, U \cup K)

\* The pool is empty, or taken apart at ptr next.
Pooled(T, g, ptr, K) == (ptr = NULL /\ K = {}) \/ FirstLeft(T.left, g, ptr, K)

-----------------------------------------------------------------------------
(* Taking a tree apart from its first node.                                 *)

\* The pointers of a tree, and those after the one to p, which is not the root,
\* was cleared, and possibly those of p.
IsSevered(L, R, P, g, r, S, p, L1, R1, P1) ==
  /\ Shape(L, R, g) /\ Tree(L, R, P, g, r, S) /\ p \in S /\ p # r
  /\ \A x \in Node \ {p} : /\ L1[x] = IF L[x] = p THEN NULL ELSE L[x]
                           /\ R1[x] = IF R[x] = p THEN NULL ELSE R[x]
  /\ L1[p] \in {L[p], NULL} /\ R1[p] \in {R[p], NULL}
  /\ \A x \in S \ {p} : P1[x] = P[x]

\* What remains is a tree, and no pointer to p is left.
LEMMA Severed ==
  ASSUME NEW L, NEW R, NEW P, NEW g, NEW r, NEW S, NEW p, NEW L1, NEW R1, NEW P1,
         IsSevered(L, R, P, g, r, S, p, L1, R1, P1)
  PROVE  /\ Shape(L1, R1, g) /\ Tree(L1, R1, P1, g, r, S \ Subtree(g, S, p))
         /\ P[p] \in S \ Subtree(g, S, p) /\ p \in Subtree(g, S, p)
         /\ \A x \in Node : L1[x] # p /\ R1[x] # p
<1> DEFINE S2 == S \ Subtree(g, S, p)
<1>0. S \subseteq Node /\ p \in Node /\ NULL \notin Node /\ p # NULL
      /\ Shape(L, R, g) /\ Tree(L, R, P, g, r, S) /\ p \in S /\ p # r
  BY NodeFacts DEF Tree, IsSevered
<1>1. p \in Subtree(g, S, p)
  BY <1>0 DEF Subtree, Within, Shape
<1>2. \A x \in Node : L1[x] \in {L[x], NULL} /\ R1[x] \in {R[x], NULL}
  BY DEF IsSevered
<1>3. Shape(L1, R1, g)
  BY <1>0, <1>2, ShapeCut
<1>4. L[p] # p /\ R[p] # p
  BY <1>0 DEF Shape
<1>5. \A x \in Node : L1[x] # p /\ R1[x] # p
  BY <1>0, <1>4 DEF IsSevered
<1>6. ASSUME NEW x \in Subtree(g, S, p) PROVE L[x] \notin S2 /\ R[x] \notin S2
  <2>1. x \in S /\ x \in Node /\ Within(g, x, p)
    BY <1>0 DEF Subtree
  <2>2. g.lo[p] <= g.lo[x] /\ g.hi[x] <= g.hi[p]
    BY <1>0, <2>1, Nested
  <2>3. ASSUME NEW c \in {L[x], R[x]}, c \in S PROVE c \in Subtree(g, S, p)
    <3>1. c \in Node /\ c # NULL /\ g.lo[x] <= g.lo[c] /\ g.hi[c] <= g.hi[x]
      BY <1>0, <2>1, <2>3 DEF Shape
    <3>2. Within(g, c, p)
      BY <1>0, <2>1, <2>2, <3>1 DEF Shape, Within
    <3> QED  BY <2>3, <3>2 DEF Subtree
  <2> QED  BY <2>3
<1>7. ASSUME NEW x \in Node \ S PROVE L[x] \notin S /\ R[x] \notin S
  BY <1>0 DEF Tree, Child
<1>8. Apart(L1, R1, S2)
  <2> SUFFICES ASSUME NEW x \in Node \ S2 PROVE L1[x] \notin S2 /\ R1[x] \notin S2
    BY DEF Apart
  <2>1. L[x] \notin S2 /\ R[x] \notin S2
    BY <1>6, <1>7
  <2> QED  BY <1>0, <1>2, <2>1
<1>9. IsCut(L, R, P, L1, R1, P1, p, S2)
  BY <1>0, <1>1, <1>8 DEF IsCut, IsSevered
<1> QED  BY <1>0, <1>1, <1>3, <1>5, <1>9, Detached

\* When p, the first, is gone, its parent is next.
LEMMA FirstUp ==
  ASSUME NEW L, NEW R, NEW P, NEW g, NEW r, NEW S, NEW p, NEW L1, NEW R1, NEW P1,
         IsSevered(L, R, P, g, r, S, p, L1, R1, P1), FirstLeft(L, g, p, S)
  PROVE  FirstLeft(L1, g, P[p], S \ Subtree(g, S, p))
<1> DEFINE S2 == S \ Subtree(g, S, p)
           u == P[p]
<1>0. S \subseteq Node /\ p \in S /\ p \in Node /\ u \in S /\ u \in Node /\ p # NULL
      /\ (L[u] = p \/ R[u] = p) /\ Shape(L, R, g) /\ Tree(L, R, P, g, r, S)
  BY NodeFacts DEF Tree, IsSevered
<1>1. u \in S2 /\ p \notin S2
  BY <1>0, Severed
<1>2. /\ L[u] = p => g.lo[p] = g.lo[u] /\ g.hi[p] = g.pos[u] - 1
      /\ R[u] = p => g.lo[p] = g.pos[u] + 1
  BY <1>0 DEF Shape
<1>3. ASSUME NEW m \in S2, g.pos[m] <= g.pos[u] PROVE L1[m] = NULL
  <2>1. m \in S /\ m \in Node /\ m # p /\ ~Within(g, m, p)
    BY <1>0, <1>1 DEF Subtree
  <2>2. L1[m] = IF L[m] = p THEN NULL ELSE L[m]
    BY <2>1 DEF IsSevered
  <2>3. g.pos[m] <= g.pos[p] => L[m] = NULL
    BY <2>1 DEF FirstLeft
  <2>4. g.pos[m] \in Int /\ g.pos[p] \in Int /\ g.pos[u] \in Int /\ g.lo[p] \in Int
        /\ g.hi[p] \in Int /\ g.lo[p] <= g.pos[p] /\ g.pos[p] <= g.hi[p]
    BY <1>0, <2>1 DEF Shape
  <2>5. CASE m = u
    <3>1. L[u] = p \/ g.pos[u] <= g.pos[p]
      BY <1>0, <1>2, <2>4
    <3> QED  BY <2>2, <2>3, <2>5, <3>1
  <2>6. CASE m # u
    <3>1. g.pos[m] # g.pos[u]
      BY <1>0, <2>1, <2>6 DEF Tree
    <3>2. g.pos[m] <= g.pos[p]
      BY <1>0, <1>2, <1>3, <2>1, <2>4, <3>1 DEF Within
    <3> QED  BY <2>2, <2>3, <3>2
  <2> QED  BY <2>5, <2>6
<1> QED  BY <1>1, <1>3 DEF FirstLeft

\* From a node without nodes to its left the next is on its right.
LEMMA FirstOn ==
  ASSUME NEW T, NEW g, NEW r, NEW S, Rooted(T, g, r, S), NEW u, FirstLeft(T.left, g, u, S),
         T.right[u] # NULL
  PROVE  /\ FirstLeft(T.left, g, reset_pool_ptr(T, T.right[u]), S)
         /\ FirstLeft(T.left, g, Min(T, T.right[u]), S)
         /\ g.pos[u] < g.pos[reset_pool_ptr(T, T.right[u])] /\ g.pos[u] < g.pos[Min(T, T.right[u])]
<1> DEFINE n == T.right[u]
           L == T.left
<1>0. S \subseteq Node /\ u \in S /\ u \in Node
  BY DEF Rooted, Tree, FirstLeft
<1>1. n \in S /\ n \in Node /\ g.lo[n] = g.pos[u] + 1
  BY <1>0 DEF Rooted, Tree, Shape
<1>2. ASSUME NEW m \in S, g.pos[m] < g.lo[n] PROVE L[m] = NULL
  <2>1. g.pos[m] <= g.pos[u]
    BY <1>0, <1>1, <1>2 DEF Rooted, Shape
  <2> QED  BY <2>1 DEF FirstLeft
<1>3. \A m \in S : g.pos[m] \in Int /\ g.pos[u] \in Int /\ g.lo[n] \in Int
  BY <1>0, <1>1 DEF Rooted, Shape
<1>4. PICK z : z = reset_pool_ptr(T, n) /\ IsNext(T, g, S, n, z)
  BY <1>1, SlideIs
<1>5. PICK y : y = Min(T, n) /\ IsFirst(T, g, S, n, y)
  BY <1>1, MinIs
<1> HIDE DEF n
<1>6. FirstLeft(L, g, z, S) /\ g.pos[u] < g.pos[z]
  <2>1. /\ z \in S /\ g.lo[n] <= g.pos[z]
        /\ \A m \in S : g.lo[n] <= g.pos[m] /\ g.pos[m] <= g.pos[z] => L[m] = NULL
    BY <1>4 DEF IsNext, Within
  <2> QED  BY <1>1, <1>2, <1>3, <2>1 DEF FirstLeft
<1>7. FirstLeft(L, g, y, S) /\ g.pos[u] < g.pos[y]
  <2>1. /\ y \in S /\ g.lo[n] <= g.pos[y] /\ L[y] = NULL
        /\ \A m \in S : g.lo[n] <= g.pos[m] => g.pos[y] <= g.pos[m]
    BY <1>5 DEF IsFirst, Within
  <2>2. \A m \in S : m # y => g.pos[m] # g.pos[y]
    BY <2>1 DEF Rooted, Tree
  <2>3. ASSUME NEW m \in S, g.pos[m] <= g.pos[y] PROVE L[m] = NULL
    <3>1. m = y \/ g.pos[m] < g.lo[n]
      BY <1>3, <2>1, <2>2, <2>3
    <3> QED  BY <1>2, <2>1, <3>1
  <2> QED  BY <1>1, <1>3, <2>1, <2>3 DEF FirstLeft
<1> QED  BY <1>4, <1>5, <1>6, <1>7 DEF n

\* In the whole tree the first is found from the root, or from a node without
\* nodes to its left.
LEMMA FirstOfAll ==
  ASSUME NEW T, NEW g, NEW r, NEW S, Rooted(T, g, r, S), r # NULL
  PROVE  /\ FirstLeft(T.left, g, Min(T, r), S)
         /\ \A m \in S : g.pos[Min(T, r)] <= g.pos[m]
         /\ \A p : FirstLeft(T.left, g, p, S) => FirstLeft(T.left, g, reset_pool_ptr(T, p), S)
<1> DEFINE L == T.left
<1>0. S \subseteq Node /\ r \in S /\ r \in Node
  BY DEF Rooted, Tree
<1>1. PICK y : y = Min(T, r) /\ IsFirst(T, g, S, r, y)
  BY <1>0, MinIs
<1>2. y \in S /\ L[y] = NULL /\ \A m \in S : g.pos[y] <= g.pos[m]
  BY <1>1 DEF IsFirst, Rooted, Tree, Within
<1>3. ASSUME NEW m \in S, g.pos[m] <= g.pos[y] PROVE L[m] = NULL
  <2>1. m # y => g.pos[m] # g.pos[y]
    BY <1>2 DEF Rooted, Tree
  <2>2. g.pos[m] \in Int /\ g.pos[y] \in Int
    BY <1>0, <1>2 DEF Rooted, Shape
  <2> QED  BY <1>2, <1>3, <2>1, <2>2
<1>4. FirstLeft(L, g, y, S)
  BY <1>2, <1>3 DEF FirstLeft
<1>5. ASSUME NEW p, FirstLeft(L, g, p, S) PROVE FirstLeft(L, g, reset_pool_ptr(T, p), S)
  <2>0. p \in S /\ p \in Node
    BY <1>0, <1>5 DEF FirstLeft
  <2>1. PICK z : z = reset_pool_ptr(T, p) /\ IsNext(T, g, S, p, z)
    BY <2>0, SlideIs
  <2>2. z \in S /\ z \in Node
    BY <1>0, <2>1 DEF IsNext
  <2>3. ASSUME NEW m \in S, g.pos[m] <= g.pos[z] PROVE L[m] = NULL
    <3>1. CASE g.lo[p] <= g.pos[m]
      BY <2>1, <2>3, <3>1 DEF IsNext
    <3>2. CASE g.pos[m] < g.lo[p]
      <4>1. g.pos[m] <= g.pos[p]
        BY <1>0, <2>0, <3>2 DEF Rooted, Shape
      <4> QED  BY <1>5, <4>1 DEF FirstLeft
    <3>3. g.pos[m] \in Int /\ g.lo[p] \in Int
      BY <1>0, <2>0 DEF Rooted, Shape
    <3> QED  BY <3>1, <3>2, <3>3
  <2> QED  BY <2>1, <2>2, <2>3 DEF FirstLeft
<1> QED  BY <1>1, <1>2, <1>4, <1>5

\* reset_pool_ptr looks at the children only.
LEMMA ResetSame ==
  ASSUME NEW T, NEW T2, T2.left = T.left, T2.right = T.right, NEW n
  PROVE  reset_pool_ptr(T2, n) = reset_pool_ptr(T, n)
<1>1. \A x : Min(T2, x) = Min(T, x)
  BY DEF Min
<1> QED  BY <1>1 DEF reset_pool_ptr

\* The nodes left in the pool.
Remaining(g, K) ==
  IF pool_ptr = NULL THEN K
  ELSE IF tree.parent[pool_ptr] = NULL THEN K \ {pool_ptr}
  ELSE K \ Subtree(g, K, pool_ptr)

\* A tree record has these fields, of these types.
LEMMA Fields ==
  ASSUME NEW T, Typed(T)
  PROVE  /\ T = [root |-> T.root, key |-> T.key, color |-> T.color, left |-> T.left,
                 right |-> T.right, parent |-> T.parent]
         /\ T.root \in Node \cup {NULL}
         /\ T.key \in [Node -> 0..MaxKey] /\ T.color \in [Node -> {RED, BLACK}]
         /\ T.left \in [Node -> Node \cup {NULL}] /\ T.right \in [Node -> Node \cup {NULL}]
         /\ T.parent \in [Node -> Node \cup {NULL}]
  BY DEF Typed

\* The fields after PoolAfter.
LEMMA PoolAfterIs ==
  ASSUME Typed(tree), pool_ptr \in Node \cup {NULL}
  PROVE  LET p == pool_ptr
             up == tree.parent[p]
             q == PoolAfter
         IN /\ Typed(q.T) /\ q.T.root = tree.root /\ SameLabels(tree, q.T)
            /\ p = NULL => q.T = tree /\ q.root = pool_root /\ q.ptr = NULL
            /\ p # NULL /\ up = NULL =>
                 /\ q.root = tree.right[p] /\ q.ptr = reset_pool_ptr(tree, tree.right[p])
                 /\ q.T.left = tree.left /\ q.T.right = tree.right
                 /\ \A x \in Node : q.T.parent[x] = IF x = tree.right[p] THEN NULL ELSE tree.parent[x]
            /\ p # NULL /\ up # NULL =>
                 /\ q.root = pool_root /\ q.T.parent = tree.parent
                 /\ \A x \in Node : q.T.left[x] = IF x = up /\ p = tree.left[up] THEN NULL ELSE tree.left[x]
                 /\ \A x \in Node : q.T.right[x] = IF x = up /\ p # tree.left[up] THEN NULL ELSE tree.right[x]
                 /\ q.ptr = IF p = tree.left[up] /\ tree.right[up] # NULL
                            THEN reset_pool_ptr(q.T, tree.right[up]) ELSE up
<1> DEFINE p == pool_ptr
           up == tree.parent[p]
           next == tree.right[p]
           bare == IF next = NULL THEN tree ELSE [tree EXCEPT !.parent[next] = NULL]
           cut == [tree EXCEPT !.left[up] = NULL]
           q == PoolAfter
<1>0. NULL \notin Node
  BY NodeFacts
<1>1. /\ tree = [root |-> tree.root, key |-> tree.key, color |-> tree.color, left |-> tree.left,
                 right |-> tree.right, parent |-> tree.parent]
      /\ tree.root \in Node \cup {NULL}
      /\ tree.key \in [Node -> 0..MaxKey] /\ tree.color \in [Node -> {RED, BLACK}]
      /\ tree.left \in [Node -> Node \cup {NULL}] /\ tree.right \in [Node -> Node \cup {NULL}]
      /\ tree.parent \in [Node -> Node \cup {NULL}]
  BY Fields
<1>2. CASE p = NULL
  <2>1. q = [T |-> tree, root |-> pool_root, ptr |-> NULL]
    BY <1>2 DEF PoolAfter
  <2> HIDE DEF q
  <2>2. q.T = tree /\ q.root = pool_root /\ q.ptr = NULL
    BY <2>1
  <2> QED  BY <1>2, <2>2 DEF SameLabels, q
<1>3. CASE p # NULL /\ up = NULL
  <2>1. q = [T |-> bare, root |-> next, ptr |-> reset_pool_ptr(bare, next)]
    BY <1>3 DEF PoolAfter
  <2> HIDE DEF q
  <2>2. next \in Node \cup {NULL} /\ p \in Node
    BY <1>1, <1>3
  <2>3. bare = [root |-> tree.root, key |-> tree.key, color |-> tree.color, left |-> tree.left,
                right |-> tree.right,
                parent |-> IF next = NULL THEN tree.parent ELSE [tree.parent EXCEPT ![next] = NULL]]
    <3> HIDE DEF next
    <3>1. CASE next = NULL
      BY <1>1, <3>1
    <3>2. CASE next # NULL
      BY <1>1, <3>2
    <3> QED  BY <3>1, <3>2
  <2> HIDE DEF bare
  <2>4. /\ bare.left = tree.left /\ bare.right = tree.right /\ bare.root = tree.root
        /\ bare.key = tree.key /\ bare.color = tree.color
        /\ bare.parent = IF next = NULL THEN tree.parent ELSE [tree.parent EXCEPT ![next] = NULL]
    BY <2>3
  <2>5. bare.parent \in [Node -> Node \cup {NULL}]
    BY <1>1, <2>2, <2>4
  <2>6. Typed(bare)
    BY <1>1, <2>3, <2>4, <2>5 DEF Typed
  <2>7. \A x \in Node : bare.parent[x] = IF x = next THEN NULL ELSE tree.parent[x]
    BY <1>0, <1>1, <2>2, <2>4
  <2>8. reset_pool_ptr(bare, next) = reset_pool_ptr(tree, next)
    BY <2>4, ResetSame
  <2>9. q.T = bare /\ q.root = next /\ q.ptr = reset_pool_ptr(bare, next)
    BY <2>1
  <2> QED  BY <1>3, <2>4, <2>6, <2>7, <2>8, <2>9 DEF SameLabels, q
<1>4. CASE p # NULL /\ up # NULL /\ p = tree.left[up]
  <2>1. q = [T |-> cut, root |-> pool_root,
             ptr |-> IF tree.right[up] = NULL THEN up ELSE reset_pool_ptr(cut, tree.right[up])]
    BY <1>4 DEF PoolAfter
  <2> HIDE DEF q
  <2>2. up \in Node /\ p \in Node
    BY <1>1, <1>4
  <2>3. cut = [root |-> tree.root, key |-> tree.key, color |-> tree.color,
               left |-> [tree.left EXCEPT ![up] = NULL], right |-> tree.right, parent |-> tree.parent]
    <3> HIDE DEF up
    <3> QED  BY <1>1
  <2> HIDE DEF cut
  <2>4. /\ cut.left = [tree.left EXCEPT ![up] = NULL] /\ cut.right = tree.right /\ cut.root = tree.root
        /\ cut.key = tree.key /\ cut.color = tree.color /\ cut.parent = tree.parent
    BY <2>3
  <2>5. Typed(cut)
    <3>1. cut.left \in [Node -> Node \cup {NULL}]
      BY <1>1, <2>2, <2>4
    <3> QED  BY <1>1, <2>3, <2>4, <3>1 DEF Typed
  <2>6. \A x \in Node : cut.left[x] = IF x = up THEN NULL ELSE tree.left[x]
    BY <1>1, <2>2, <2>4
  <2>7. q.T = cut /\ q.root = pool_root
        /\ q.ptr = IF tree.right[up] = NULL THEN up ELSE reset_pool_ptr(cut, tree.right[up])
    BY <2>1
  <2> QED  BY <1>4, <2>4, <2>5, <2>6, <2>7 DEF SameLabels, q
<1>5. CASE p # NULL /\ up # NULL /\ p # tree.left[up]
  <2> DEFINE off == [tree EXCEPT !.right[up] = NULL]
  <2>1. q = [T |-> off, root |-> pool_root, ptr |-> up]
    BY <1>5 DEF PoolAfter
  <2> HIDE DEF q
  <2>2. up \in Node /\ p \in Node
    BY <1>1, <1>5
  <2>3. off = [root |-> tree.root, key |-> tree.key, color |-> tree.color, left |-> tree.left,
               right |-> [tree.right EXCEPT ![up] = NULL], parent |-> tree.parent]
    <3> HIDE DEF up
    <3> QED  BY <1>1
  <2> HIDE DEF off
  <2>4. /\ off.right = [tree.right EXCEPT ![up] = NULL] /\ off.left = tree.left /\ off.root = tree.root
        /\ off.key = tree.key /\ off.color = tree.color /\ off.parent = tree.parent
    BY <2>3
  <2>5. Typed(off)
    <3>1. off.right \in [Node -> Node \cup {NULL}]
      BY <1>1, <2>2, <2>4
    <3> QED  BY <1>1, <2>3, <2>4, <3>1 DEF Typed
  <2>6. \A x \in Node : off.right[x] = IF x = up THEN NULL ELSE tree.right[x]
    BY <1>1, <2>2, <2>4
  <2>7. q.T = off /\ q.root = pool_root /\ q.ptr = up
    BY <2>1
  <2> QED  BY <1>5, <2>4, <2>5, <2>6, <2>7 DEF SameLabels, q
<1> QED  BY <1>2, <1>3, <1>4, <1>5

\* Fields after the node n has left the pool or the heap, and its own pointers are clear.
IsBlank(T, n, L2, R2, P2) ==
  \A x \in Node : /\ L2[x] = IF x = n THEN NULL ELSE T.left[x]
                  /\ R2[x] = IF x = n THEN NULL ELSE T.right[x]
                  /\ x # n => P2[x] = T.parent[x]

\* new_rbtree_node: a node that is in no tree, with no pointers to it; the tree
\* and the rest of the pool are trees as before.
LEMMA NodeTaken ==
  ASSUME NEW g, NEW U, NEW K, Forest(tree, g, U, pool_root, K, heap), Pooled(tree, g, pool_ptr, K),
         Obtainable, pool_ptr \in Node \cup {NULL}, NEW L2, NEW R2, NEW P2,
         IsBlank(PoolAfter.T, NewNode, L2, R2, P2)
  PROVE  LET n == NewNode
             q == PoolAfter
             K2 == Remaining(g, K)
         IN /\ n \in Node \ U /\ n \notin K2 /\ K2 \subseteq K /\ n \in heap \cup K
            /\ Shape(L2, R2, g) /\ Tree(L2, R2, P2, g, tree.root, U) /\ Tree(L2, R2, P2, g, q.root, K2)
            /\ (q.ptr = NULL /\ K2 = {}) \/ FirstLeft(L2, g, q.ptr, K2)
            /\ \A x \in Node : L2[x] \notin heap \cup {n} /\ R2[x] \notin heap \cup {n}
            /\ \A x \in U : L2[x] = tree.left[x] /\ R2[x] = tree.right[x] /\ P2[x] = tree.parent[x]
            /\ pool_ptr # NULL /\ tree.parent[pool_ptr] # NULL => Rooted(q.T, g, pool_root, K2)
<1> USE DEF Forest, Rooted
<1> DEFINE n == NewNode
           q == PoolAfter
           K2 == Remaining(g, K)
           L == tree.left
           R == tree.right
           P == tree.parent
<1>0. U \subseteq Node /\ K \subseteq Node /\ NULL \notin Node /\ heap \subseteq Node \ (U \cup K)
  BY NodeFacts DEF Tree, Loose
<1>1. ASSUME NEW x \in Node
      PROVE  /\ L2[x] = IF x = n THEN NULL ELSE q.T.left[x]
             /\ R2[x] = IF x = n THEN NULL ELSE q.T.right[x]
             /\ x # n => P2[x] = q.T.parent[x]
  BY DEF IsBlank
<1>2. ASSUME NEW x \in Node PROVE L[x] \notin heap /\ R[x] \notin heap
  BY DEF Loose
<1>3. ASSUME NEW x \in Node \ U PROVE L[x] \notin U /\ R[x] \notin U
  BY DEF Tree, Child
<1>4. ASSUME NEW x \in Node \ K PROVE L[x] \notin K /\ R[x] \notin K
  BY DEF Tree, Child
<1>5. ASSUME NEW x \in U PROVE L[x] \notin K /\ R[x] \notin K /\ L[x] \in U \cup {NULL} /\ R[x] \in U \cup {NULL}
  BY <1>0 DEF Tree
<1>6. ASSUME NEW x \in K PROVE L[x] \in K \cup {NULL} /\ R[x] \in K \cup {NULL}
  BY DEF Tree
<1>7. CASE pool_ptr = NULL
  <2>1. K = {} /\ K2 = {} /\ pool_root = NULL
    BY <1>0, <1>7, NodeFacts DEF Pooled, FirstLeft, Remaining, Tree
  <2>2. n \in heap
    <3>1. heap \in SUBSET Nat /\ heap # {}
      BY <1>0, <1>7, NodeFacts DEF Obtainable
    <3>2. \E x \in heap : \A m \in heap : x <= m
      BY <3>1, LeastNumber
    <3> QED  BY <1>7, <3>2 DEF NewNode
  <2> HIDE DEF n
  <2>3. q.T = tree /\ q.root = pool_root /\ q.ptr = NULL
    BY <1>7, PoolAfterIs
  <2> HIDE DEF q, K2
  <2>4. \A x \in Node : L2[x] \in {L[x], NULL} /\ R2[x] \in {R[x], NULL}
    BY <1>1, <2>3
  <2>5. Shape(L2, R2, g)
    BY <2>4, ShapeCut
  <2>6. \A x \in U : L2[x] = L[x] /\ R2[x] = R[x] /\ P2[x] = P[x]
    BY <1>0, <1>1, <2>2, <2>3
  <2>7. Apart(L2, R2, U)
    BY <1>0, <1>3, <2>4 DEF Apart
  <2>8. Tree(L2, R2, P2, g, tree.root, U)
    BY <2>6, <2>7, Untouched DEF SameOn
  <2>9. Tree(L2, R2, P2, g, q.root, K2)
    <3>1. Tree(L2, R2, P2, g, NULL, {})
      BY DEF Tree, Child
    <3> QED  BY <2>1, <2>3, <3>1
  <2>10. \A x \in Node : L2[x] \notin heap \cup {n} /\ R2[x] \notin heap \cup {n}
    BY <1>0, <1>2, <2>2, <2>4
  <2> QED  BY <1>0, <1>7, <2>1, <2>2, <2>3, <2>5, <2>6, <2>8, <2>9, <2>10 DEF n, q, K2
<1>8. CASE pool_ptr # NULL
  <2>1. FirstLeft(L, g, pool_ptr, K) /\ n = pool_ptr /\ n \in K /\ n \in Node
    BY <1>0, <1>8 DEF Pooled, FirstLeft, NewNode
  <2> HIDE DEF n
  <2>2. n \notin U /\ n \notin heap /\ pool_root \in K /\ n # NULL /\ pool_root # NULL
    BY <1>0, <2>1 DEF Tree
  <2>3. ASSUME \A x \in Node : L2[x] \in {L[x], NULL} /\ R2[x] \in {R[x], NULL},
               \A x \in Node : x # n => L2[x] # n /\ R2[x] # n,
               \A x \in U : L2[x] = L[x] /\ R2[x] = R[x] /\ P2[x] = P[x]
        PROVE  /\ Shape(L2, R2, g) /\ Tree(L2, R2, P2, g, tree.root, U)
               /\ \A x \in Node : L2[x] \notin heap \cup {n} /\ R2[x] \notin heap \cup {n}
    <3>1. Shape(L2, R2, g)
      BY <2>3, ShapeCut
    <3>2. Apart(L2, R2, U)
      BY <1>0, <1>3, <2>3 DEF Apart
    <3>3. Tree(L2, R2, P2, g, tree.root, U)
      BY <2>3, <3>2, Untouched DEF SameOn
    <3>4. L2[n] = NULL /\ R2[n] = NULL
      BY <1>1, <2>1
    <3> QED  BY <1>0, <1>2, <2>2, <2>3, <3>1, <3>3, <3>4
  <2>4. CASE P[n] = NULL
    <3>1. n = pool_root
      BY <1>0, <2>1, <2>4 DEF Tree
    <3>2. /\ q.root = R[n] /\ q.ptr = reset_pool_ptr(tree, R[n])
          /\ q.T.left = L /\ q.T.right = R
          /\ \A x \in Node : q.T.parent[x] = IF x = R[n] THEN NULL ELSE P[x]
      BY <1>8, <2>1, <2>4, PoolAfterIs
    <3> HIDE DEF q
    <3>3. K2 = K \ {n}
      BY <1>8, <2>1, <2>4 DEF Remaining
    <3>4. \A x \in Node : L2[x] \in {L[x], NULL} /\ R2[x] \in {R[x], NULL}
      BY <1>1, <3>2
    <3>5. ASSUME NEW x \in Node PROVE L[x] # n /\ R[x] # n
      <4>1. L[x] \in K => x \in K /\ P[L[x]] = x
        BY DEF Tree, Child
      <4>2. R[x] \in K => x \in K /\ P[R[x]] = x
        BY DEF Tree, Child
      <4> QED  BY <1>0, <2>1, <2>4, <4>1, <4>2
    <3>6. R[n] \in K \cup {NULL}
      BY <1>6, <2>1
    <3>7. ASSUME NEW x \in U PROVE L2[x] = L[x] /\ R2[x] = R[x] /\ P2[x] = P[x]
      <4>1. x # n /\ x # R[n] /\ x \in Node
        BY <1>0, <2>2, <3>6
      <4> QED  BY <1>1, <3>2, <4>1
    <3>8. \A x \in Node : x # n => L2[x] # n /\ R2[x] # n
      BY <1>1, <3>2, <3>5
    <3>9. Apart(L2, R2, K \ {n})
      <4> SUFFICES ASSUME NEW x \in Node \ (K \ {n}) PROVE L2[x] \notin K \ {n} /\ R2[x] \notin K \ {n}
        BY DEF Apart
      <4>1. CASE x = n
        BY <1>0, <1>1, <4>1
      <4>2. CASE x # n
        BY <1>0, <1>4, <3>4, <4>2
      <4> QED  BY <4>1, <4>2
    <3>10. L[pool_root] = NULL
      <4>1. g.pos[n] <= g.pos[n]
        BY <2>1 DEF Shape
      <4> QED  BY <2>1, <3>1, <4>1 DEF FirstLeft
    <3>11. \A m \in K \ {n} : L2[m] = L[m] /\ R2[m] = R[m] /\ P2[m] = IF m = R[n] THEN NULL ELSE P[m]
      BY <1>0, <1>1, <3>2
    <3>12. Tree(L2, R2, P2, g, R[n], K \ {n})
      BY <2>2, <3>1, <3>9, <3>10, <3>11, RootDropped
    <3>13. (q.ptr = NULL /\ K2 = {}) \/ FirstLeft(L2, g, q.ptr, K2)
      <4>1. CASE R[n] = NULL
        <5>1. q.ptr = NULL
          BY <3>2, <4>1 DEF reset_pool_ptr
        <5> QED  BY <3>3, <3>12, <4>1, <5>1 DEF Tree
      <4>2. CASE R[n] # NULL
        <5>1. FirstLeft(L, g, q.ptr, K) /\ g.pos[n] < g.pos[q.ptr]
          BY <2>1, <3>2, <4>2, FirstOn
        <5>2. q.ptr # n
          BY <2>1, <5>1 DEF Shape
        <5>3. \A m \in K2 : L2[m] = L[m]
          BY <3>3, <3>11
        <5> QED  BY <3>3, <5>1, <5>2, <5>3 DEF FirstLeft
      <4> QED  BY <4>1, <4>2
    <3>14. /\ Shape(L2, R2, g) /\ Tree(L2, R2, P2, g, tree.root, U)
           /\ \A x \in Node : L2[x] \notin heap \cup {n} /\ R2[x] \notin heap \cup {n}
      BY <2>3, <3>4, <3>7, <3>8
    <3> HIDE DEF K2
    <3> QED  BY <2>1, <2>2, <2>4, <3>2, <3>3, <3>7, <3>12, <3>13, <3>14 DEF n, q, K2
  <2>5. CASE P[n] # NULL
    <3> DEFINE u == P[n]
    <3>1. n # pool_root
      BY <1>0, <2>1, <2>5 DEF Tree
    <3>2. u \in K /\ u \in Node /\ (L[u] = n \/ R[u] = n)
      BY <1>0, <2>1, <3>1 DEF Tree
    <3>3. /\ q.root = pool_root /\ q.T.parent = P /\ Typed(q.T)
          /\ \A x \in Node : q.T.left[x] = IF x = u /\ n = L[u] THEN NULL ELSE L[x]
          /\ \A x \in Node : q.T.right[x] = IF x = u /\ n # L[u] THEN NULL ELSE R[x]
          /\ q.ptr = IF n = L[u] /\ R[u] # NULL THEN reset_pool_ptr(q.T, R[u]) ELSE u
      BY <1>8, <2>1, <2>5, PoolAfterIs
    <3> HIDE DEF q
    <3>4. K2 = K \ Subtree(g, K, n)
      BY <1>8, <2>1, <2>5 DEF Remaining
    <3>5. ASSUME NEW x \in Node PROVE (L[x] = n <=> x = u /\ n = L[u]) /\ (R[x] = n <=> x = u /\ n # L[u])
      <4>1. (L[x] = n => x = u) /\ (R[x] = n => x = u)
        BY <2>1 DEF Tree, Child
      <4>2. ~(L[u] = n /\ R[u] = n)
        <5>1. n # NULL
          BY <2>2
        <5> QED  BY <3>2, <5>1 DEF Shape
      <4> QED  BY <3>2, <4>1, <4>2
    <3>6. ASSUME NEW x \in Node
          PROVE  /\ q.T.left[x] = IF L[x] = n THEN NULL ELSE L[x]
                 /\ q.T.right[x] = IF R[x] = n THEN NULL ELSE R[x]
      BY <3>3, <3>5
    <3>7. L[n] # n /\ R[n] # n
      BY <2>1, <2>2 DEF Shape
    <3>8. IsSevered(L, R, P, g, pool_root, K, n, q.T.left, q.T.right, q.T.parent)
      BY <2>1, <3>1, <3>3, <3>6, <3>7 DEF IsSevered
    <3>9. IsSevered(L, R, P, g, pool_root, K, n, L2, R2, P2)
      <4>1. \A x \in Node \ {n} : /\ L2[x] = IF L[x] = n THEN NULL ELSE L[x]
                                  /\ R2[x] = IF R[x] = n THEN NULL ELSE R[x]
        BY <1>1, <3>6
      <4>2. L2[n] = NULL /\ R2[n] = NULL
        BY <1>1, <2>1
      <4>3. \A x \in K \ {n} : P2[x] = P[x]
        BY <1>0, <1>1, <3>3
      <4> QED  BY <2>1, <3>1, <4>1, <4>2, <4>3 DEF IsSevered
    <3> HIDE DEF K2
    <3>10. /\ Shape(L2, R2, g) /\ Tree(L2, R2, P2, g, pool_root, K2)
           /\ u \in K2 /\ n \in Subtree(g, K, n) /\ \A x \in Node : L2[x] # n /\ R2[x] # n
      <4> HIDE DEF L, R, P
      <4>1. /\ Shape(L2, R2, g) /\ Tree(L2, R2, P2, g, pool_root, K \ Subtree(g, K, n))
            /\ P[n] \in K \ Subtree(g, K, n) /\ n \in Subtree(g, K, n)
            /\ \A x \in Node : L2[x] # n /\ R2[x] # n
        BY <3>9, Severed
      <4> QED  BY <3>4, <4>1
    <3>11. n \notin K2 /\ K2 \subseteq K
      BY <3>4, <3>10
    <3>12. Rooted(q.T, g, pool_root, K2)
      <4> DEFINE L1 == q.T.left
                 R1 == q.T.right
                 P1 == q.T.parent
      <4>1. IsSevered(L, R, P, g, pool_root, K, n, L1, R1, P1)
        BY <3>8
      <4> HIDE DEF L1, R1, P1
      <4>2. Shape(L1, R1, g) /\ Tree(L1, R1, P1, g, pool_root, K \ Subtree(g, K, n))
        BY <4>1, Severed
      <4> QED  BY <3>4, <4>2 DEF L1, R1, P1
    <3>13. FirstLeft(q.T.left, g, u, K2)
      <4>1. FirstLeft(L, g, n, K)
        BY <2>1
      <4> HIDE DEF Forest, Rooted, L, R, P
      <4>2. FirstLeft(q.T.left, g, P[n], K \ Subtree(g, K, n))
        BY <3>8, <4>1, FirstUp
      <4> QED  BY <3>4, <4>2
    <3>14. FirstLeft(q.T.left, g, q.ptr, K2)
      <4>1. CASE n = L[u] /\ R[u] # NULL
        <5>1. q.T.right[u] = R[u] /\ q.ptr = reset_pool_ptr(q.T, R[u])
          BY <3>2, <3>3, <4>1
        <5> QED  BY <3>12, <3>13, <4>1, <5>1, FirstOn
      <4>2. CASE ~(n = L[u] /\ R[u] # NULL)
        BY <3>3, <3>13, <4>2
      <4> QED  BY <4>1, <4>2
    <3>15. FirstLeft(L2, g, q.ptr, K2)
      <4>1. \A m \in K2 : L2[m] = q.T.left[m]
        BY <1>0, <1>1, <3>11
      <4> QED  BY <3>14, <4>1 DEF FirstLeft
    <3>16. \A x \in Node : L2[x] \in {L[x], NULL} /\ R2[x] \in {R[x], NULL}
      BY <1>1, <3>6
    <3>17. ASSUME NEW x \in U PROVE L2[x] = L[x] /\ R2[x] = R[x] /\ P2[x] = P[x]
      <4>1. x # n /\ x \in Node /\ L[x] # n /\ R[x] # n
        BY <1>0, <1>5, <2>1, <2>2
      <4> QED  BY <1>1, <3>3, <3>6, <4>1
    <3>18. /\ Tree(L2, R2, P2, g, tree.root, U)
           /\ \A x \in Node : L2[x] \notin heap \cup {n} /\ R2[x] \notin heap \cup {n}
      BY <2>3, <3>10, <3>16, <3>17
    <3> HIDE DEF Rooted
    <3> QED  BY <2>1, <2>2, <3>3, <3>10, <3>11, <3>12, <3>15, <3>17, <3>18 DEF n, q, K2
  <2> QED  BY <2>4, <2>5
<1> QED  BY <1>7, <1>8

\* T is the tree after the new node n for k was hung below c, the pool is below
\* pr and goes on at ptr, and h are the places.
IsInserted(T, pr, ptr, g, h, U, K, n, c, k) ==
  LET K2 == Remaining(g, K) IN
  /\ n \in Node \ U /\ n \in heap \cup K /\ K2 \subseteq K /\ n \notin K2
  /\ Forest(T, h, U \cup {n}, pr, K2, heap \ {n}) /\ Pooled(T, h, ptr, K2)
  /\ T.key = [tree.key EXCEPT ![n] = k]
  /\ T.color = [tree.color EXCEPT ![n] = IF U = {} THEN BLACK ELSE RED]
  /\ T.left[n] = NULL /\ T.right[n] = NULL
  /\ \A x \in U : /\ T.parent[x] = tree.parent[x]
                  /\ x # c => T.left[x] = tree.left[x] /\ T.right[x] = tree.right[x]
  /\ U = {} => T.root = n
  /\ U # {} =>
       /\ c \in U /\ T.root = tree.root /\ T.parent[n] = c
       /\ IsPlace(tree, g, U, k, c)
       /\ IF tree.key[c] < k
          THEN T.right[c] = n /\ T.left[c] = tree.left[c] /\ Behind(g, h, U, {n}, c)
          ELSE T.left[c] = n /\ T.right[c] = tree.right[c] /\ Before(g, h, U, {n}, c)
  /\ \A x \in K2 : /\ h.pos[x] = g.pos[x]
                   /\ T.left[x] = PoolAfter.T.left[x] /\ T.right[x] = PoolAfter.T.right[x]
                   /\ T.parent[x] = PoolAfter.T.parent[x]

\* rbtree_insert, up to rbtree_fixup, gives this.
LEMMA NodeHung ==
  ASSUME NEW g, NEW U, NEW K, Forest(tree, g, U, pool_root, K, heap), Pooled(tree, g, pool_ptr, K),
         Obtainable, pool_ptr \in Node \cup {NULL}, Sorted(tree, g, U), NEW k \in Keys
  PROVE  LET n == NewNode
             q == PoolAfter
             c == Place(tree, k)
         IN \E h : IsInserted(Hang(q.T, n, k, c), q.root, q.ptr, g, h, U, K, n, c, k)
<1> DEFINE n == NewNode
           q == PoolAfter
           c == Place(tree, k)
           K2 == Remaining(g, K)
           L2 == [q.T.left EXCEPT ![n] = NULL]
           R2 == [q.T.right EXCEPT ![n] = NULL]
           P2 == [q.T.parent EXCEPT ![n] = NULL]
           T3 == Hang(q.T, n, k, c)
           L3 == T3.left
           R3 == T3.right
           P3 == T3.parent
<1>1. /\ Typed(tree) /\ Rooted(tree, g, tree.root, U) /\ U \subseteq Node /\ K \subseteq Node
      /\ U \cap K = {} /\ heap \subseteq Node \ (U \cup K) /\ NULL \notin Node
  BY NodeFacts DEF Forest, Rooted, Tree, Loose
<1>2. Typed(q.T) /\ q.T.root = tree.root /\ q.T.key = tree.key /\ q.T.color = tree.color
  BY <1>1, PoolAfterIs DEF SameLabels
<1> HIDE DEF q
<1>3. /\ q.T.left \in [Node -> Node \cup {NULL}] /\ q.T.right \in [Node -> Node \cup {NULL}]
      /\ q.T.parent \in [Node -> Node \cup {NULL}]
  BY <1>2, Fields
<1> HIDE DEF n
<1>4. \A x \in Node : /\ L2[x] = IF x = n THEN NULL ELSE q.T.left[x]
                      /\ R2[x] = IF x = n THEN NULL ELSE q.T.right[x]
                      /\ P2[x] = IF x = n THEN NULL ELSE q.T.parent[x]
  BY <1>3
<1> HIDE DEF L2, R2, P2, K2
<1>5. IsBlank(q.T, n, L2, R2, P2)
  BY <1>4 DEF IsBlank
<1>6. /\ n \in Node \ U /\ n \notin K2 /\ K2 \subseteq K /\ n \in heap \cup K
      /\ Shape(L2, R2, g) /\ Tree(L2, R2, P2, g, tree.root, U) /\ Tree(L2, R2, P2, g, q.root, K2)
      /\ (q.ptr = NULL /\ K2 = {}) \/ FirstLeft(L2, g, q.ptr, K2)
      /\ \A x \in Node : L2[x] \notin heap \cup {n} /\ R2[x] \notin heap \cup {n}
      /\ \A x \in U : L2[x] = tree.left[x] /\ R2[x] = tree.right[x] /\ P2[x] = tree.parent[x]
  BY <1>5, NodeTaken DEF n, q, K2
<1>7. IF tree.root = NULL THEN U = {} /\ c = NULL
      ELSE c \in U /\ IsPlace(tree, g, U, k, c)
  <2>1. CASE tree.root = NULL
    BY <1>1, <2>1 DEF Place, Rooted, Tree
  <2>2. CASE tree.root # NULL
    <3>1. k \in Int
      BY TreeAssumption DEF Keys
    <3>2. IsPlace(tree, g, U, k, c)
      BY <1>1, <2>2, <3>1, PlaceIs
    <3> QED  BY <2>2, <3>2 DEF IsPlace
  <2> QED  BY <2>1, <2>2
<1> HIDE DEF c
<1>8. c \in Node \cup {NULL} /\ c # n /\ n # NULL
  BY <1>1, <1>6, <1>7
<1>9. /\ Typed(T3)
      /\ T3.root = IF c = NULL THEN n ELSE tree.root
      /\ T3.key = [tree.key EXCEPT ![n] = k]
      /\ T3.color = [tree.color EXCEPT ![n] = IF c = NULL THEN BLACK ELSE RED]
      /\ \A x \in Node :
           /\ L3[x] = IF x = n THEN NULL ELSE IF x = c /\ ~(tree.key[c] < k) THEN n ELSE q.T.left[x]
           /\ R3[x] = IF x = n THEN NULL ELSE IF x = c /\ tree.key[c] < k THEN n ELSE q.T.right[x]
           /\ P3[x] = IF x = n THEN c ELSE q.T.parent[x]
  <2> DEFINE Q == q.T
  <2>1. Typed(Q) /\ n \in Node
    BY <1>2, <1>6
  <2> HIDE DEF Q
  <2>2. /\ Typed(Hang(Q, n, k, c))
        /\ Hang(Q, n, k, c).root = IF c = NULL THEN n ELSE Q.root
        /\ Hang(Q, n, k, c).key = [Q.key EXCEPT ![n] = k]
        /\ Hang(Q, n, k, c).color = [Q.color EXCEPT ![n] = IF c = NULL THEN BLACK ELSE RED]
        /\ \A x \in Node :
             /\ Hang(Q, n, k, c).left[x] = IF x = n THEN NULL
                                           ELSE IF x = c /\ ~(Q.key[c] < k) THEN n ELSE Q.left[x]
             /\ Hang(Q, n, k, c).right[x] = IF x = n THEN NULL
                                            ELSE IF x = c /\ Q.key[c] < k THEN n ELSE Q.right[x]
             /\ Hang(Q, n, k, c).parent[x] = IF x = n THEN c ELSE Q.parent[x]
    BY SMTT(30), <1>8, <2>1, HangIs
  <2> QED  BY <1>2, <2>2 DEF Q
<1> HIDE DEF T3
<1>10. \A x \in Node :
         /\ L3[x] = IF x = c /\ ~(tree.key[c] < k) THEN n ELSE L2[x]
         /\ R3[x] = IF x = c /\ tree.key[c] < k THEN n ELSE R2[x]
         /\ P3[x] = IF x = n THEN c ELSE P2[x]
  BY <1>4, <1>8, <1>9
<1> HIDE DEF L3, R3, P3
<1>11. Tree(L2, R2, P2, g, n, {n})
  <2>1. Apart(L2, R2, {n})
    BY <1>6 DEF Apart
  <2> QED  BY <1>4, <1>6, <2>1, Single
<1>12. ASSUME NEW x \in Node \ K2 PROVE L2[x] \notin K2 /\ R2[x] \notin K2
  BY <1>6 DEF Tree, Child
<1>13. Apart(L3, R3, K2)
  BY <1>6, <1>10, <1>12 DEF Apart
<1>14. ASSUME NEW x \in U
       PROVE  P3[x] = tree.parent[x] /\ (x # c => L3[x] = tree.left[x] /\ R3[x] = tree.right[x])
  <2>1. x # n /\ x \in Node
    BY <1>1, <1>6
  <2> QED  BY <1>6, <1>10, <2>1
<1>15. \A x \in K2 : x \in Node /\ x # n /\ x \notin U /\ x # c
  BY <1>1, <1>6, <1>7
<1>16. \A x \in K2 : L3[x] = L2[x] /\ R3[x] = R2[x] /\ P3[x] = P2[x]
  BY <1>10, <1>15
<1>17. \A x \in K2 : L3[x] = q.T.left[x] /\ R3[x] = q.T.right[x] /\ P3[x] = q.T.parent[x]
  BY <1>9, <1>15
<1>18. /\ \A x \in Node : L3[x] \notin heap \ {n} /\ R3[x] \notin heap \ {n}
       /\ heap \ {n} \subseteq Node \ ((U \cup {n}) \cup K2)
  BY <1>1, <1>6, <1>10
<1>19. L3[n] = NULL /\ R3[n] = NULL
  BY <1>6, <1>9
<1>20. ASSUME NEW h, Shape(L3, R3, h), Tree(L3, R3, P3, h, T3.root, U \cup {n}),
              \A x \in K2 : h.pos[x] = g.pos[x] /\ h.lo[x] = g.lo[x] /\ h.hi[x] = g.hi[x],
              c # NULL => IF tree.key[c] < k THEN Behind(g, h, U, {n}, c)
                          ELSE Before(g, h, U, {n}, c)
       PROVE  IsInserted(T3, q.root, q.ptr, g, h, U, K, n, c, k)
  <2>1. SameOn(L2, R2, P2, g, L3, R3, P3, h, K2)
    BY <1>16, <1>20 DEF SameOn
  <2>2. Tree(L3, R3, P3, h, q.root, K2)
    BY <1>6, <1>13, <2>1, Untouched
  <2>3. (q.ptr = NULL /\ K2 = {}) \/ FirstLeft(L3, h, q.ptr, K2)
    BY <1>6, <1>16, <1>20 DEF FirstLeft
  <2>4. Rooted(T3, h, T3.root, U \cup {n}) /\ Rooted(T3, h, q.root, K2)
    BY <1>20, <2>2 DEF Rooted, L3, R3, P3
  <2>5. Loose(T3, heap \ {n}, (U \cup {n}) \cup K2)
    BY <1>18 DEF Loose, L3, R3
  <2>6. (U \cup {n}) \cap K2 = {}
    BY <1>15
  <2>7. Forest(T3, h, U \cup {n}, q.root, K2, heap \ {n})
    BY <1>9, <2>4, <2>5, <2>6 DEF Forest
  <2>8. Pooled(T3, h, q.ptr, K2)
    BY <2>3 DEF Pooled, L3
  <2>9. (U = {} <=> c = NULL) /\ (U # {} => c \in U /\ IsPlace(tree, g, U, k, c))
    BY <1>1, <1>7
  <2>10. \A x \in U : /\ T3.parent[x] = tree.parent[x]
                      /\ x # c => T3.left[x] = tree.left[x] /\ T3.right[x] = tree.right[x]
    BY <1>14 DEF L3, R3, P3
  <2>11. T3.left[n] = NULL /\ T3.right[n] = NULL
    BY <1>19 DEF L3, R3
  <2>12. U # {} => /\ T3.parent[n] = c
                   /\ IF tree.key[c] < k THEN T3.right[c] = n /\ T3.left[c] = tree.left[c]
                      ELSE T3.left[c] = n /\ T3.right[c] = tree.right[c]
    <3> SUFFICES ASSUME U # {}
                 PROVE  /\ P3[n] = c
                        /\ IF tree.key[c] < k THEN R3[c] = n /\ L3[c] = tree.left[c]
                           ELSE L3[c] = n /\ R3[c] = tree.right[c]
      BY DEF L3, R3, P3
    <3>1. c \in U /\ c \in Node
      BY <1>1, <2>9
    <3> QED  BY <1>6, <1>10, <3>1
  <2>13. \A x \in K2 : /\ T3.left[x] = q.T.left[x] /\ T3.right[x] = q.T.right[x]
                       /\ T3.parent[x] = q.T.parent[x]
    BY <1>17 DEF L3, R3, P3
  <2>14. T3.color = [tree.color EXCEPT ![n] = IF U = {} THEN BLACK ELSE RED]
    BY <1>9, <2>9
  <2>15. (U = {} => T3.root = n) /\ (U # {} => T3.root = tree.root)
    BY <1>9, <2>9
  <2>16. U # {} => IF tree.key[c] < k THEN Behind(g, h, U, {n}, c) ELSE Before(g, h, U, {n}, c)
    BY <1>20, <2>9
  <2> QED  BY <1>6, <1>9, <1>20, <2>7, <2>8, <2>9, <2>10, <2>11, <2>12, <2>13, <2>14, <2>15, <2>16
           DEF IsInserted, K2, q
<1>21. CASE c = NULL
  <2>1. U = {}
    BY <1>1, <1>7, <1>21
  <2>2. \A x \in Node : L3[x] = L2[x] /\ R3[x] = R2[x] /\ P3[x] = P2[x]
    BY <1>1, <1>4, <1>10, <1>21
  <2>3. \A x \in Node : L3[x] \in {L2[x], NULL} /\ R3[x] \in {R2[x], NULL}
    BY <2>2
  <2>4. Shape(L3, R3, g)
    BY <1>6, <2>3, ShapeCut
  <2>5. Apart(L3, R3, {n}) /\ SameOn(L2, R2, P2, g, L3, R3, P3, g, {n})
    BY <1>6, <2>2 DEF Apart, SameOn
  <2>6. Tree(L3, R3, P3, g, n, {n})
    BY <1>11, <2>5, Untouched
  <2>7. T3.root = n /\ U \cup {n} = {n}
    BY <1>9, <1>21, <2>1
  <2>8. IsInserted(T3, q.root, q.ptr, g, g, U, K, n, c, k)
    BY <1>20, <1>21, <2>4, <2>6, <2>7
  <2> QED  BY <2>8 DEF T3, n, q, c
<1>22. CASE c # NULL
  <2>1. c \in U /\ IsPlace(tree, g, U, k, c) /\ c \in Node /\ T3.root = tree.root
    BY <1>1, <1>7, <1>8, <1>9, <1>22
  <2>2. U \cap {n} = {} /\ n # NULL
    BY <1>6, <1>8
  <2>3. CASE tree.key[c] < k
    <3>1. R2[c] = NULL
      BY <1>6, <2>1, <2>3 DEF IsPlace
    <3>2. HungLeft(R2, L2, P2, R3, L3, P3, n, c)
      BY <1>10, <2>3 DEF HungLeft
    <3>3. PICK h : Shape(L3, R3, h) /\ Tree(L3, R3, P3, h, tree.root, U \cup {n}) /\ Behind(g, h, U, {n}, c)
      BY <1>6, <1>11, <2>1, <2>2, <3>1, <3>2, GraftRight
    <3>4. \A x \in K2 : h.pos[x] = g.pos[x] /\ h.lo[x] = g.lo[x] /\ h.hi[x] = g.hi[x]
      BY <1>15, <3>3 DEF Behind
    <3>5. IsInserted(T3, q.root, q.ptr, g, h, U, K, n, c, k)
      BY <1>20, <2>1, <2>3, <3>3, <3>4
    <3> QED  BY <3>5 DEF T3, n, q, c
  <2>4. CASE ~(tree.key[c] < k)
    <3>1. L2[c] = NULL
      BY <1>6, <2>1, <2>4 DEF IsPlace
    <3>2. HungLeft(L2, R2, P2, L3, R3, P3, n, c)
      BY <1>10, <2>4 DEF HungLeft
    <3>3. PICK h : Shape(L3, R3, h) /\ Tree(L3, R3, P3, h, tree.root, U \cup {n}) /\ Before(g, h, U, {n}, c)
      BY <1>6, <1>11, <2>1, <2>2, <3>1, <3>2, GraftLeft
    <3>4. \A x \in K2 : h.pos[x] = g.pos[x] /\ h.lo[x] = g.lo[x] /\ h.hi[x] = g.hi[x]
      BY <1>15, <3>3 DEF Before
    <3>5. IsInserted(T3, q.root, q.ptr, g, h, U, K, n, c, k)
      BY <1>20, <2>1, <2>4, <3>3, <3>4
    <3> QED  BY <3>5 DEF T3, n, q, c
  <2> QED  BY <2>3, <2>4
<1> QED  BY <1>21, <1>22

\* Below finds the nodes of the tree.
LEMMA UsedIs ==
  ASSUME NEW T, NEW g, NEW U, NEW k, NEW K, NEW H, Forest(T, g, U, k, K, H)
  PROVE  Below(T, T.root) = U /\ Below(T, k) = K
  BY BelowRoot DEF Forest

\* The tree T4 without nodes, and the pool below pr with all of them.
IsCleared(T4, pr, ptr, g, h, U, K) ==
  /\ Forest(T4, h, {}, pr, U \cup K, heap) /\ FirstLeft(T4.left, h, ptr, U \cup K)
  /\ IF pool_root = NULL
     THEN h = g /\ K = {} /\ T4.left = tree.left /\ T4.right = tree.right /\ T4.parent = tree.parent
     ELSE /\ HungLeft(tree.left, tree.right, tree.parent, T4.left, T4.right, T4.parent, tree.root, pool_ptr)
          /\ Before(g, h, K, U, pool_ptr) /\ pool_ptr \in K

\* rbtree_clear gives this.
LEMMA TreeCleared ==
  ASSUME NEW g, NEW U, NEW K, Forest(tree, g, U, pool_root, K, heap), Pooled(tree, g, pool_ptr, K),
         pool_root \in Node \cup {NULL}, tree.root # NULL
  PROVE  LET T == IF pool_root = NULL THEN tree
                  ELSE [tree EXCEPT !.left[pool_ptr] = tree.root, !.parent[tree.root] = pool_ptr]
         IN \E h : IsCleared(Dead(T, Below(tree, tree.root)),
                             IF pool_root = NULL THEN tree.root ELSE pool_root,
                             reset_pool_ptr(T, Min(T, tree.root)), g, h, U, K)
<1> DEFINE r == tree.root
           T == IF pool_root = NULL THEN tree
                ELSE [tree EXCEPT !.left[pool_ptr] = r, !.parent[r] = pool_ptr]
           T4 == Dead(T, Below(tree, r))
           pr == IF pool_root = NULL THEN r ELSE pool_root
           ptr == reset_pool_ptr(T, Min(T, r))
           S == U \cup K
<1>1. /\ Typed(tree) /\ Rooted(tree, g, r, U) /\ Rooted(tree, g, pool_root, K) /\ Loose(tree, heap, U \cup K)
      /\ U \subseteq Node /\ K \subseteq Node /\ U \cap K = {} /\ NULL \notin Node /\ r \in U /\ r \in Node
  BY NodeFacts DEF Forest, Rooted, Tree
<1>2. Below(tree, r) = U
  BY UsedIs
<1>3. /\ tree = [root |-> r, key |-> tree.key, color |-> tree.color, left |-> tree.left,
                 right |-> tree.right, parent |-> tree.parent]
      /\ tree.key \in [Node -> 0..MaxKey] /\ tree.color \in [Node -> {RED, BLACK}]
      /\ tree.left \in [Node -> Node \cup {NULL}] /\ tree.right \in [Node -> Node \cup {NULL}]
      /\ tree.parent \in [Node -> Node \cup {NULL}]
  BY <1>1, Fields
<1>4. pool_root # NULL => pool_ptr \in K /\ FirstLeft(tree.left, g, pool_ptr, K)
  <2>1. pool_root # NULL => K # {}
    BY <1>1 DEF Rooted, Tree
  <2> QED  BY <2>1 DEF Pooled, FirstLeft
<1>5. T = [root |-> r, key |-> tree.key, color |-> tree.color,
           left |-> IF pool_root = NULL THEN tree.left ELSE [tree.left EXCEPT ![pool_ptr] = r],
           right |-> tree.right,
           parent |-> IF pool_root = NULL THEN tree.parent ELSE [tree.parent EXCEPT ![r] = pool_ptr]]
  <2> HIDE DEF r
  <2>1. CASE pool_root = NULL
    BY <1>3, <2>1
  <2>2. CASE pool_root # NULL
    <3> DEFINE T1 == [tree EXCEPT !.left[pool_ptr] = r]
    <3>1. T1 = [root |-> r, key |-> tree.key, color |-> tree.color,
                left |-> [tree.left EXCEPT ![pool_ptr] = r],
                right |-> tree.right, parent |-> tree.parent]
      BY <1>3
    <3>2. T = [T1 EXCEPT !.parent[r] = pool_ptr]
      BY <1>3, <2>2
    <3> HIDE DEF T1
    <3> QED  BY <2>2, <3>1, <3>2
  <2> QED  BY <2>1, <2>2
<1> HIDE DEF T
<1>6. T4 = [root |-> NULL, key |-> [n \in Node |-> IF n \in U THEN 0 ELSE tree.key[n]],
            color |-> [n \in Node |-> IF n \in U THEN RED ELSE tree.color[n]],
            left |-> T.left, right |-> T.right, parent |-> T.parent]
  <2>1. T4 = [T EXCEPT !.root = NULL,
                       !.key = [n \in Node |-> IF n \in U THEN 0 ELSE @[n]],
                       !.color = [n \in Node |-> IF n \in U THEN RED ELSE @[n]]]
    BY <1>2 DEF Dead
  <2> HIDE DEF T4, r
  <2> QED  BY <1>5, <2>1
<1> HIDE DEF T4, ptr
<1>7. /\ T4.left = T.left /\ T4.right = T.right /\ T4.parent = T.parent /\ T4.root = NULL
      /\ T4.left = IF pool_root = NULL THEN tree.left ELSE [tree.left EXCEPT ![pool_ptr] = r]
      /\ T4.right = tree.right
      /\ T4.parent = IF pool_root = NULL THEN tree.parent ELSE [tree.parent EXCEPT ![r] = pool_ptr]
  <2> HIDE DEF r
  <2>1. T4.left = T.left /\ T4.right = T.right /\ T4.parent = T.parent /\ T4.root = NULL
    BY <1>6
  <2> QED  BY <1>5, <2>1
<1>8. Typed(T4)
  <2>1. /\ T4.left \in [Node -> Node \cup {NULL}] /\ T4.right \in [Node -> Node \cup {NULL}]
        /\ T4.parent \in [Node -> Node \cup {NULL}]
    BY <1>1, <1>3, <1>4, <1>7
  <2>2. [n \in Node |-> IF n \in U THEN 0 ELSE tree.key[n]] \in [Node -> 0..MaxKey]
    BY <1>3, TreeAssumption
  <2>3. [n \in Node |-> IF n \in U THEN RED ELSE tree.color[n]] \in [Node -> {RED, BLACK}]
    BY <1>3
  <2> QED  BY <1>6, <1>7, <2>1, <2>2, <2>3 DEF Typed
<1>9. ASSUME NEW x \in Node PROVE T4.left[x] \notin heap /\ T4.right[x] \notin heap
  BY <1>1, <1>3, <1>7 DEF Loose
<1>10. ASSUME NEW h, Rooted(T4, h, pr, S), FirstLeft(T4.left, h, ptr, S),
              IF pool_root = NULL THEN h = g /\ K = {}
              ELSE /\ HungLeft(tree.left, tree.right, tree.parent, T4.left, T4.right, T4.parent, r, pool_ptr)
                   /\ Before(g, h, K, U, pool_ptr)
       PROVE  IsCleared(T4, pr, ptr, g, h, U, K)
  <2>1. Tree(T4.left, T4.right, T4.parent, h, NULL, {})
    BY DEF Tree, Child
  <2>2. Rooted(T4, h, T4.root, {})
    BY <1>7, <1>10, <2>1 DEF Rooted
  <2>3. Loose(T4, heap, {} \cup S)
    BY <1>1, <1>9 DEF Loose
  <2>4. Forest(T4, h, {}, pr, S, heap)
    BY <1>8, <1>10, <2>2, <2>3 DEF Forest
  <2> QED  BY <1>4, <1>7, <1>10, <2>4 DEF IsCleared
<1>11. CASE pool_root = NULL
  <2>1. K = {} /\ S = U /\ pr = r
    BY <1>1, <1>11 DEF Rooted, Tree
  <2>2. T = tree
    BY <1>3, <1>5, <1>11
  <2>3. T4.left = tree.left /\ T4.right = tree.right /\ T4.parent = tree.parent
    BY <1>7, <1>11
  <2>4. Rooted(T4, g, pr, S)
    BY <1>1, <2>1, <2>3 DEF Rooted
  <2>5. FirstLeft(T4.left, g, ptr, S)
    BY <1>1, <2>1, <2>2, <2>3, FirstOfAll DEF ptr
  <2>6. IsCleared(T4, pr, ptr, g, g, U, K)
    BY <1>10, <1>11, <2>1, <2>4, <2>5
  <2> QED  BY <2>6 DEF T4, ptr, T
<1>12. CASE pool_root # NULL
  <2>1. pool_ptr \in K /\ FirstLeft(tree.left, g, pool_ptr, K) /\ tree.left[pool_ptr] = NULL /\ pr = pool_root
    <3>1. g.pos[pool_ptr] <= g.pos[pool_ptr]
      BY <1>1, <1>4, <1>12 DEF Rooted, Shape
    <3> QED  BY <1>4, <1>12, <3>1 DEF FirstLeft
  <2>2. HungLeft(tree.left, tree.right, tree.parent, T4.left, T4.right, T4.parent, r, pool_ptr)
    BY <1>1, <1>3, <1>7, <1>12, <2>1 DEF HungLeft
  <2> DEFINE L2 == T4.left
             R2 == T4.right
             P2 == T4.parent
             L == tree.left
             R == tree.right
             P == tree.parent
  <2>3. /\ Shape(L, R, g) /\ Tree(L, R, P, g, pool_root, K) /\ Tree(L, R, P, g, r, U)
        /\ K \cap U = {} /\ L[pool_ptr] = NULL /\ HungLeft(L, R, P, L2, R2, P2, r, pool_ptr)
    BY <1>1, <2>1, <2>2 DEF Rooted
  <2> HIDE DEF L2, R2, P2, L, R, P, r
  <2>4. PICK h : Shape(L2, R2, h) /\ Tree(L2, R2, P2, h, pool_root, K \cup U) /\ Before(g, h, K, U, pool_ptr)
    BY <2>1, <2>3, GraftLeft DEF r
  <2>5. K \cup U = S
    OBVIOUS
  <2>6. Rooted(T4, h, pr, S) /\ Rooted(T, h, pr, S)
    BY <1>7, <2>1, <2>4, <2>5 DEF Rooted, L2, R2, P2
  <2> DEFINE y == Min(T, r)
  <2>7. IsFirst(T, h, S, r, y)
    BY <1>1, <2>6, MinIs
  <2> HIDE DEF y
  <2>8. y \in S /\ T.left[y] = NULL /\ Within(h, y, r) /\ \A m \in S : h.lo[r] <= h.pos[m] => h.pos[y] <= h.pos[m]
    BY <2>7 DEF IsFirst
  <2>9. ASSUME NEW m \in U PROVE h.pos[y] <= h.pos[m]
    <3>1. Within(g, m, r)
      BY <1>1 DEF Rooted, Tree
    <3>2. Within(h, m, r)
      BY <1>1, <2>4, <3>1 DEF Before
    <3> QED  BY <2>8, <3>2 DEF Within
  <2>10. \A m \in S : h.pos[m] \in Int /\ m \in Node
    BY <1>1, <2>6 DEF Rooted, Shape
  <2>11. y \in U
    <3> SUFFICES ASSUME y \in K PROVE FALSE
      BY <2>8
    <3>1. r # y /\ h.pos[r] # h.pos[y] /\ h.pos[y] <= h.pos[r]
      <4>1. r # y
        BY <1>1
      <4> QED  BY <1>1, <2>6, <2>8, <2>9, <4>1 DEF Rooted, Tree
    <3>2. h.pos[y] < h.pos[r] /\ ~(h.pos[r] < h.pos[y])
      BY <1>1, <2>8, <2>10, <3>1
    <3>3. ~(g.pos[pool_ptr] <= g.pos[y])
      BY <1>1, <2>4, <3>2 DEF Before
    <3>4. L[y] = NULL
      <4>1. g.pos[y] <= g.pos[pool_ptr]
        BY <1>1, <2>1, <3>3 DEF Rooted, Shape
      <4> QED  BY <2>1, <4>1 DEF FirstLeft, L
    <3>5. h.lo[r] <= h.pos[y] /\ h.lo[r] \in Int /\ h.pos[y] <= h.pos[r]
      BY <1>1, <2>6, <2>8, <3>1 DEF Within, Rooted, Shape
    <3>6. h.hi[r] = h.pos[pool_ptr] - 1 /\ h.lo[r] = h.lo[pool_ptr]
      <4>1. T4.left[pool_ptr] = r /\ pool_ptr \in Node
        BY <1>1, <2>1, <2>2 DEF HungLeft
      <4> QED  BY <1>1, <2>6, <4>1 DEF Rooted, Shape
    <3>7. FALSE
      <4>1. h.lo[pool_ptr] <= h.pos[y] /\ h.pos[y] < h.pos[pool_ptr]
        <5>1. h.pos[r] <= h.hi[r] /\ h.hi[r] \in Int /\ h.pos[r] \in Int /\ h.pos[pool_ptr] \in Int /\ h.pos[y] \in Int
          BY <1>1, <2>1, <2>6, <2>10 DEF Rooted, Shape
        <5> QED  BY <3>2, <3>5, <3>6, <5>1
      <4>2. Within(h, y, pool_ptr)
        <5>1. /\ h.pos[y] \in Int /\ h.pos[pool_ptr] \in Int /\ h.hi[pool_ptr] \in Int
              /\ h.pos[pool_ptr] <= h.hi[pool_ptr]
          BY <1>1, <2>1, <2>6, <2>10 DEF Rooted, Shape
        <5> QED  BY <4>1, <5>1 DEF Within
      <4>3. Within(g, y, pool_ptr)
        BY <2>1, <2>4, <4>2 DEF Before
      <4>4. g.lo[pool_ptr] <= g.pos[y] /\ g.pos[y] < g.pos[pool_ptr]
        <5>1. g.pos[y] \in Int /\ g.pos[pool_ptr] \in Int
          BY <1>1, <2>1, <2>10 DEF Rooted, Shape
        <5> QED  BY <3>3, <4>3, <5>1 DEF Within
      <4> QED  BY <2>1, <2>3, <4>4 DEF Tree
    <3> QED  BY <3>7
  <2>12. ASSUME NEW m \in S, h.pos[m] <= h.pos[y] PROVE T.left[m] = NULL
    <3>1. CASE m \in U
      <4>1. m # y => h.pos[m] # h.pos[y]
        BY <2>6, <2>8 DEF Rooted, Tree
      <4>2. h.pos[y] <= h.pos[m]
        BY <2>9, <3>1
      <4> QED  BY <2>8, <2>10, <2>12, <4>1, <4>2
    <3>2. CASE m \in K
      <4>1. ~(g.pos[pool_ptr] <= g.pos[m])
        <5>1. ~(h.pos[y] < h.pos[m])
          BY <2>8, <2>10, <2>12
        <5> QED  BY <2>4, <2>11, <3>2, <5>1 DEF Before
      <4>2. g.pos[m] <= g.pos[pool_ptr] /\ m # pool_ptr /\ m \in Node
        BY <1>1, <2>1, <3>2, <4>1 DEF Rooted, Shape
      <4>3. tree.left[m] = NULL
        BY <2>1, <3>2, <4>2 DEF FirstLeft
      <4> QED  BY <1>7, <2>2, <4>2, <4>3 DEF HungLeft
    <3> QED  BY <3>1, <3>2
  <2>13. FirstLeft(T.left, h, y, S)
    BY <2>8, <2>12 DEF FirstLeft
  <2>14. pr # NULL
    BY <1>12, <2>1
  <2>15. FirstLeft(T4.left, h, ptr, S)
    BY <1>7, <2>6, <2>13, <2>14, FirstOfAll DEF y, ptr
  <2>16. IsCleared(T4, pr, ptr, g, h, U, K)
    BY <1>10, <1>12, <2>2, <2>4, <2>6, <2>15 DEF r
  <2> QED  BY <2>16 DEF T4, ptr, T, r
<1> QED  BY <1>11, <1>12

\* The fields after the pointer to n was cleared.
LEMMA CutIs ==
  ASSUME NEW T, Typed(T), NEW n \in Node, T.parent[n] \in Node
  PROVE  LET up == T.parent[n]
             T1 == Cut(T, n)
         IN /\ Typed(T1) /\ T1.root = T.root /\ SameLabels(T, T1) /\ T1.parent = T.parent
            /\ \A x \in Node :
                 /\ T1.left[x] = IF x = up /\ n = T.left[up] THEN NULL ELSE T.left[x]
                 /\ T1.right[x] = IF x = up /\ n # T.left[up] THEN NULL ELSE T.right[x]
<1> DEFINE up == T.parent[n]
           T1 == Cut(T, n)
<1>1. /\ T = [root |-> T.root, key |-> T.key, color |-> T.color, left |-> T.left,
              right |-> T.right, parent |-> T.parent]
      /\ T.left \in [Node -> Node \cup {NULL}] /\ T.right \in [Node -> Node \cup {NULL}]
  BY Fields
<1>2. T1 = IF n = T.left[up] THEN [T EXCEPT !.left[up] = NULL] ELSE [T EXCEPT !.right[up] = NULL]
  BY DEF Cut
<1>3. up \in Node
  OBVIOUS
<1> HIDE DEF T1, up
<1>4. T1 = [root |-> T.root, key |-> T.key, color |-> T.color,
            left |-> IF n = T.left[up] THEN [T.left EXCEPT ![up] = NULL] ELSE T.left,
            right |-> IF n = T.left[up] THEN T.right ELSE [T.right EXCEPT ![up] = NULL],
            parent |-> T.parent]
  <2>1. CASE n = T.left[up]
    BY <1>1, <1>2, <2>1
  <2>2. CASE n # T.left[up]
    BY <1>1, <1>2, <2>2
  <2> QED  BY <2>1, <2>2
<1>5. /\ T1.root = T.root /\ T1.key = T.key /\ T1.color = T.color /\ T1.parent = T.parent
      /\ T1.left = IF n = T.left[up] THEN [T.left EXCEPT ![up] = NULL] ELSE T.left
      /\ T1.right = IF n = T.left[up] THEN T.right ELSE [T.right EXCEPT ![up] = NULL]
  BY <1>4
<1>6. /\ T1.left \in [Node -> Node \cup {NULL}] /\ T1.right \in [Node -> Node \cup {NULL}]
      /\ \A x \in Node :
           /\ T1.left[x] = IF x = up /\ n = T.left[up] THEN NULL ELSE T.left[x]
           /\ T1.right[x] = IF x = up /\ n # T.left[up] THEN NULL ELSE T.right[x]
  BY <1>1, <1>3, <1>5
<1>7. T1 = [root |-> T1.root, key |-> T1.key, color |-> T1.color, left |-> T1.left,
            right |-> T1.right, parent |-> T1.parent]
  BY <1>4, <1>5
<1>8. Typed(T1)
  BY <1>5, <1>6, <1>7, Fields DEF Typed
<1> QED  BY <1>5, <1>6, <1>8 DEF SameLabels, T1, up

\* The fields after n was freed.
LEMMA ReleaseIs ==
  ASSUME NEW T, Typed(T), NEW n \in Node
  PROVE  LET T2 == Release(T, n) IN
         /\ Typed(T2) /\ T2.root = T.root
         /\ T2 = [root |-> T.root, key |-> [T.key EXCEPT ![n] = 0],
                  color |-> [T.color EXCEPT ![n] = RED], left |-> [T.left EXCEPT ![n] = NULL],
                  right |-> [T.right EXCEPT ![n] = NULL], parent |-> [T.parent EXCEPT ![n] = NULL]]
         /\ \A x \in Node : /\ T2.left[x] = IF x = n THEN NULL ELSE T.left[x]
                            /\ T2.right[x] = IF x = n THEN NULL ELSE T.right[x]
                            /\ T2.parent[x] = IF x = n THEN NULL ELSE T.parent[x]
<1> DEFINE T2 == Release(T, n)
           A == [T EXCEPT !.key[n] = 0]
           B == [A EXCEPT !.color[n] = RED]
           C == [B EXCEPT !.left[n] = NULL]
           D == [C EXCEPT !.right[n] = NULL]
<1>1. /\ T = [root |-> T.root, key |-> T.key, color |-> T.color, left |-> T.left,
              right |-> T.right, parent |-> T.parent]
      /\ T.root \in Node \cup {NULL}
      /\ T.key \in [Node -> 0..MaxKey] /\ T.color \in [Node -> {RED, BLACK}]
      /\ T.left \in [Node -> Node \cup {NULL}] /\ T.right \in [Node -> Node \cup {NULL}]
      /\ T.parent \in [Node -> Node \cup {NULL}]
  BY Fields
<1>2. A = [root |-> T.root, key |-> [T.key EXCEPT ![n] = 0], color |-> T.color, left |-> T.left,
           right |-> T.right, parent |-> T.parent]
  BY <1>1
<1>3. T2 = [D EXCEPT !.parent[n] = NULL]
  BY DEF Release
<1> HIDE DEF A, T2
<1>4. B = [root |-> T.root, key |-> [T.key EXCEPT ![n] = 0],
           color |-> [T.color EXCEPT ![n] = RED], left |-> T.left,
           right |-> T.right, parent |-> T.parent]
  BY <1>2
<1> HIDE DEF B
<1>5. C = [root |-> T.root, key |-> [T.key EXCEPT ![n] = 0],
           color |-> [T.color EXCEPT ![n] = RED], left |-> [T.left EXCEPT ![n] = NULL],
           right |-> T.right, parent |-> T.parent]
  BY <1>4
<1> HIDE DEF C
<1>6. D = [root |-> T.root, key |-> [T.key EXCEPT ![n] = 0],
           color |-> [T.color EXCEPT ![n] = RED], left |-> [T.left EXCEPT ![n] = NULL],
           right |-> [T.right EXCEPT ![n] = NULL], parent |-> T.parent]
  BY <1>5
<1> HIDE DEF D
<1>7. T2 = [root |-> T.root, key |-> [T.key EXCEPT ![n] = 0],
            color |-> [T.color EXCEPT ![n] = RED], left |-> [T.left EXCEPT ![n] = NULL],
            right |-> [T.right EXCEPT ![n] = NULL], parent |-> [T.parent EXCEPT ![n] = NULL]]
  BY <1>3, <1>6
<1>8. /\ T2.root = T.root /\ T2.left = [T.left EXCEPT ![n] = NULL]
      /\ T2.right = [T.right EXCEPT ![n] = NULL] /\ T2.parent = [T.parent EXCEPT ![n] = NULL]
  BY <1>7
<1>9. \A x \in Node : /\ T2.left[x] = IF x = n THEN NULL ELSE T.left[x]
                      /\ T2.right[x] = IF x = n THEN NULL ELSE T.right[x]
                      /\ T2.parent[x] = IF x = n THEN NULL ELSE T.parent[x]
  BY <1>1, <1>8
<1>10. [T.key EXCEPT ![n] = 0] \in [Node -> 0..MaxKey]
  BY <1>1, TreeAssumption
<1>11. /\ [T.color EXCEPT ![n] = RED] \in [Node -> {RED, BLACK}]
       /\ [T.left EXCEPT ![n] = NULL] \in [Node -> Node \cup {NULL}]
  BY <1>1
<1>12. /\ [T.right EXCEPT ![n] = NULL] \in [Node -> Node \cup {NULL}]
       /\ [T.parent EXCEPT ![n] = NULL] \in [Node -> Node \cup {NULL}]
  BY <1>1
<1>13. Typed(T2)
  BY <1>1, <1>7, <1>10, <1>11, <1>12 DEF Typed
<1> QED  BY <1>7, <1>8, <1>9, <1>13 DEF T2

\* p can be freed next: it is the first in the tree S, and not its root.
MayFree(T, g, r, S, r2, X, H, p) ==
  /\ Typed(T) /\ Rooted(T, g, r, S) /\ Rooted(T, g, r2, X) /\ S \cap X = {}
  /\ Loose(T, H, S \cup X) /\ FirstLeft(T.left, g, p, S) /\ p # r

\* Fields that were not the pointer to p are as before; up is the parent of p.
IsLeft(T, T2, p, S2, X) ==
  LET up == T.parent[p] IN
  /\ \A x \in S2 :
       /\ T2.left[x] = IF x = up /\ p = T.left[up] THEN NULL ELSE T.left[x]
       /\ T2.right[x] = IF x = up /\ p # T.left[up] THEN NULL ELSE T.right[x]
       /\ T2.parent[x] = T.parent[x]
  /\ \A x \in X : T2.left[x] = T.left[x] /\ T2.right[x] = T.right[x] /\ T2.parent[x] = T.parent[x]

\* Then it is no longer in the tree, and its parent is next.
IsFreed(T, T1, T2, g, r, S, r2, X, H, p) ==
  LET S2 == S \ Subtree(g, S, p) IN
  /\ Typed(T2) /\ T2.root = T.root
  /\ Rooted(T1, g, r, S2) /\ Rooted(T2, g, r, S2) /\ Rooted(T2, g, r2, X)
  /\ Loose(T2, H \cup {p}, S2 \cup X)
  /\ T.parent[p] \in S2 /\ p \in Subtree(g, S, p)
  /\ FirstLeft(T1.left, g, T.parent[p], S2) /\ IsLeft(T, T1, p, S2, {}) /\ IsLeft(T, T2, p, S2, X)

\* Cutting p off and freeing it does this.
LEMMA NodeFreed ==
  ASSUME NEW T, NEW g, NEW r, NEW S, NEW r2, NEW X, NEW H, NEW p,
         MayFree(T, g, r, S, r2, X, H, p)
  PROVE  IsFreed(T, Cut(T, p), Release(Cut(T, p), p), g, r, S, r2, X, H, p)
<1> DEFINE T1 == Cut(T, p)
           T2 == Release(T1, p)
           S2 == S \ Subtree(g, S, p)
           up == T.parent[p]
           L == T.left
           R == T.right
           P == T.parent
           L1 == T1.left
           R1 == T1.right
           P1 == T1.parent
           L2 == T2.left
           R2 == T2.right
           P2 == T2.parent
<1>1. /\ Typed(T) /\ Shape(L, R, g) /\ Tree(L, R, P, g, r, S) /\ Tree(L, R, P, g, r2, X)
      /\ S \cap X = {} /\ Loose(T, H, S \cup X) /\ FirstLeft(L, g, p, S) /\ p # r /\ p \in S
      /\ S \subseteq Node /\ X \subseteq Node /\ p \in Node
  BY DEF MayFree, Rooted, FirstLeft, Tree
<1>2. up \in S /\ up \in Node /\ (L[up] = p \/ R[up] = p)
  BY <1>1 DEF Tree
<1>3. /\ Typed(T1) /\ T1.root = T.root /\ P1 = P
      /\ \A x \in Node :
           /\ L1[x] = IF x = up /\ p = L[up] THEN NULL ELSE L[x]
           /\ R1[x] = IF x = up /\ p # L[up] THEN NULL ELSE R[x]
  BY <1>1, <1>2, CutIs
<1>4. /\ Typed(T2) /\ T2.root = T1.root
      /\ \A x \in Node : /\ L2[x] = IF x = p THEN NULL ELSE L1[x]
                         /\ R2[x] = IF x = p THEN NULL ELSE R1[x]
                         /\ P2[x] = IF x = p THEN NULL ELSE P1[x]
  <2> HIDE DEF T1
  <2>1. Typed(T1) /\ p \in Node
    BY <1>1, <1>3
  <2> QED  BY <2>1, ReleaseIs
<1>5. up = P[p]
  OBVIOUS
<1> HIDE DEF T1, T2, L, R, P, L1, R1, P1, L2, R2, P2, up
<1>6. ASSUME NEW x \in Node PROVE (L[x] = p => x = up) /\ (R[x] = p => x = up)
  BY <1>1, <1>5 DEF Tree, Child
<1>7. ~(L[up] = p /\ R[up] = p)
  <2>1. p # NULL
    BY <1>1, NodeFacts
  <2>2. g.pos[up] \in Int /\ g.lo[p] \in Int /\ g.hi[p] \in Int /\ g.lo[p] <= g.hi[p]
    <3>1. g.lo[p] \in Int /\ g.pos[p] \in Int /\ g.hi[p] \in Int /\ g.lo[p] <= g.pos[p] /\ g.pos[p] <= g.hi[p]
      BY <1>1 DEF Shape
    <3> QED  BY <1>1, <1>2, <3>1 DEF Shape
  <2>3. ASSUME L[up] = p, R[up] = p PROVE g.hi[p] = g.pos[up] - 1 /\ g.lo[p] = g.pos[up] + 1
    BY <1>1, <1>2, <2>1, <2>3 DEF Shape
  <2> QED  BY <2>2, <2>3
<1>8. \A x \in Node : /\ L1[x] = IF L[x] = p THEN NULL ELSE L[x]
                      /\ R1[x] = IF R[x] = p THEN NULL ELSE R[x]
  BY <1>2, <1>3, <1>6, <1>7
<1>9. IsSevered(L, R, P, g, r, S, p, L1, R1, P1)
  <2>1. \A x \in S \ {p} : P1[x] = P[x]
    BY <1>3
  <2> QED  BY <1>1, <1>8, <2>1 DEF IsSevered
<1>10. IsSevered(L, R, P, g, r, S, p, L2, R2, P2)
  <2>1. \A x \in S \ {p} : P2[x] = P[x]
    BY <1>1, <1>3, <1>4
  <2>2. \A x \in Node \ {p} : L2[x] = L1[x] /\ R2[x] = R1[x]
    BY <1>4
  <2> QED  BY <1>1, <1>4, <1>8, <2>1, <2>2 DEF IsSevered
<1>11. /\ Shape(L1, R1, g) /\ Tree(L1, R1, P1, g, r, S2)
       /\ P[p] \in S2 /\ p \in Subtree(g, S, p)
  BY <1>9, Severed
<1>12. /\ Shape(L2, R2, g) /\ Tree(L2, R2, P2, g, r, S2)
       /\ \A x \in Node : L2[x] # p /\ R2[x] # p
  BY <1>10, Severed
<1>13. FirstLeft(L1, g, P[p], S2)
  BY <1>1, <1>9, FirstUp
<1>14. ASSUME NEW x \in X PROVE L2[x] = L[x] /\ R2[x] = R[x] /\ P2[x] = P[x]
  <2>1. x \in Node /\ x # p /\ x # up
    BY <1>1, <1>2
  <2> QED  BY <1>3, <1>4, <2>1
<1>15. Tree(L2, R2, P2, g, r2, X)
  <2>1. SameOn(L, R, P, g, L2, R2, P2, g, X)
    BY <1>14 DEF SameOn
  <2>2. Apart(L2, R2, X)
    <3> SUFFICES ASSUME NEW x \in Node \ X PROVE L2[x] \notin X /\ R2[x] \notin X
      BY DEF Apart
    <3>1. L2[x] \in {L[x], NULL} /\ R2[x] \in {R[x], NULL} /\ NULL \notin X
      BY <1>1, <1>4, <1>8, NodeFacts
    <3> QED  BY <1>1, <3>1 DEF Tree, Child
  <2> QED  BY <1>1, <2>1, <2>2, Untouched
<1>16. Loose(T2, H \cup {p}, S2 \cup X)
  <2>1. \A x \in Node : L2[x] \in {L[x], NULL} /\ R2[x] \in {R[x], NULL}
    BY <1>4, <1>8
  <2>2. H \subseteq Node \ (S \cup X) /\ \A x \in Node : L[x] \notin H /\ R[x] \notin H
    BY <1>1 DEF Loose, L, R
  <2>3. H \cup {p} \subseteq Node \ (S2 \cup X)
    BY <1>1, <1>11, <2>2
  <2>4. NULL \notin H
    BY <2>2, NodeFacts
  <2>5. \A x \in Node : L2[x] \notin H \cup {p} /\ R2[x] \notin H \cup {p}
    BY <1>12, <2>1, <2>2, <2>4
  <2> QED  BY <2>3, <2>5 DEF Loose, L2, R2
<1>17. \A x \in S2 : x \in Node /\ x # p
  BY <1>1, <1>11
<1>18. \A x \in S2 : /\ L1[x] = IF x = up /\ p = L[up] THEN NULL ELSE L[x]
                     /\ R1[x] = IF x = up /\ p # L[up] THEN NULL ELSE R[x]
                     /\ P1[x] = P[x]
  BY <1>3, <1>17
<1>19. \A x \in S2 : /\ L2[x] = IF x = up /\ p = L[up] THEN NULL ELSE L[x]
                     /\ R2[x] = IF x = up /\ p # L[up] THEN NULL ELSE R[x]
                     /\ P2[x] = P[x]
  BY <1>4, <1>17, <1>18
<1>20. IsLeft(T, T1, p, S2, {}) /\ IsLeft(T, T2, p, S2, X)
  BY <1>14, <1>18, <1>19 DEF IsLeft, L, R, P, L1, R1, P1, L2, R2, P2, up
<1>21. Rooted(T1, g, r, S2) /\ Rooted(T2, g, r, S2) /\ Rooted(T2, g, r2, X)
  BY <1>11, <1>12, <1>15 DEF Rooted, L1, R1, P1, L2, R2, P2
<1>22. T2.root = T.root /\ T.parent[p] \in S2 /\ FirstLeft(T1.left, g, T.parent[p], S2)
  BY <1>3, <1>4, <1>11, <1>13 DEF P, L1
<1> QED  BY <1>4, <1>11, <1>16, <1>20, <1>21, <1>22 DEF IsFreed, T1, T2

-----------------------------------------------------------------------------
(* The invariant.                                                           *)

\* A node that is a left child, but has none itself, is a leaf.
Lean(T, x) ==
  T.left[x] = NULL /\ T.parent[x] # NULL /\ T.left[T.parent[x]] = x => T.right[x] = NULL

\* Taking the pool apart from ptr on loses no node.
Removable(T, g, ptr, K) ==
  ptr # NULL => /\ T.parent[ptr] = NULL \/ T.right[ptr] = NULL
                /\ \A x \in K : g.pos[ptr] <= g.pos[x] => Lean(T, x)

\* z is the last node of U.
Last(g, U, z) == \A m \in U : g.pos[m] <= g.pos[z]

\* All nodes are lean, but for one that is rotated next: rbtree_fixup is at a,
\* the match list grows at its end, or in front of the last node.
Leaning(T, g, U, a) ==
  LET p == T.parent[a]
      q == T.parent[p]
  IN IF a = NULL THEN \A x \in U : Lean(T, x)
     ELSE \/ /\ \A x \in U : Lean(T, x)
             /\ \/ p = NULL \/ T.color[p] = BLACK
                \/ \A m \in U : g.pos[m] <= g.hi[a]
                \/ T.left[p] = a /\ T.left[a] = NULL /\ T.right[a] = NULL /\ Last(g, U, p)
                \/ /\ T.left[p] = a /\ T.right[p] = NULL
                   /\ q # NULL /\ T.left[q] = p /\ T.right[q] = NULL
          \/ /\ \A x \in U \ {p} : Lean(T, x)
             /\ p # NULL /\ T.color[p] = RED
             /\ T.right[p] = a /\ T.left[p] = NULL /\ T.left[a] = NULL /\ T.right[a] = NULL
             /\ q # NULL /\ T.left[q] = p /\ T.right[q] = NULL

\* The height b[n] in black nodes, 0 for NULL.
Height(b, n) == IF n = NULL THEN 0 ELSE b[n]

\* The ways down have the same number of black nodes, and no red node but a is
\* the root or below a red one.
Coloured(L, R, P, col, b, S, a) ==
  /\ \A n \in S : /\ b[n] \in Nat /\ col[n] \in {RED, BLACK}
                  /\ Height(b, L[n]) = Height(b, R[n])
                  /\ b[n] = Height(b, L[n]) + (IF col[n] = BLACK THEN 1 ELSE 0)
  /\ \A n \in S \ {a} : col[n] = RED => P[n] # NULL /\ col[P[n]] = BLACK
  /\ a # NULL => a \in S /\ col[a] = RED

\* Every key is there as often as it was inserted.
Counted(T, U) ==
  /\ count = Cardinality(U)
  /\ \A k \in Keys : inserted[k] = Cardinality({n \in U : T.key[n] = k})

\* No node is lost while at most two matches begin at the same place; ptr is
\* where the pool is taken apart.
Kept(T, g, U, K, ptr) ==
  MaxEqual <= 2 =>
    /\ U \cup K \cup heap = Node
    /\ kind = "table" => K = {}
    /\ Removable(T, g, ptr, K)

\* Then the match list is lean, too.
Thin(T, g, U, a) == MaxEqual <= 2 /\ kind = "matches" => Leaning(T, g, U, a)

\* Whatever the colours of the tree T.
Sound(T, g, U, K) ==
  /\ Forest(T, g, U, pool_root, K, heap) /\ Pooled(T, g, pool_ptr, K)
  /\ Sorted(T, g, U) /\ Counted(T, U) /\ Kept(T, g, U, K, pool_ptr)

\* While it is used, and rbtree_fixup is at a.
Grown(T, g, U, K, b, a) ==
  /\ Sound(T, g, U, K) /\ Thin(T, g, U, a)
  /\ Coloured(T.left, T.right, T.parent, T.color, b, U, a)

Used(g, U, K, b) ==
  pc \in {"idle", "fixup"} => Grown(tree, g, U, K, b, at) /\ (pc = "idle" <=> at = NULL)

\* While rbtree_free takes the tree apart.
Felled(g, U, K) ==
  pc = "free" =>
    /\ Forest(tree, g, U, pool_root, K, heap) /\ Pooled(tree, g, pool_ptr, K)
    /\ tree.root # NULL
    /\ IF at = NULL THEN U = {tree.root} ELSE FirstLeft(tree.left, g, at, U)
    /\ Kept(tree, g, U, K, pool_ptr)

\* While rbtree_free_pool does.
Drained(g, U, K) ==
  pc = "free_pool" =>
    /\ Forest(tree, g, U, pool_root, K, heap) /\ U = {}
    /\ IF at = NULL THEN K \subseteq {pool_root} ELSE FirstLeft(tree.left, g, at, K)
    /\ Kept(tree, g, U, K, at)

\* And then.
Gone(g, U, K) ==
  pc = "gone" =>
    /\ Forest(tree, g, U, NULL, K, heap) /\ U = {} /\ K = {} /\ at = NULL
    /\ Kept(tree, g, U, K, NULL)

Types ==
  /\ kind \in Kinds /\ pc \in {"idle", "fixup", "free", "free_pool", "gone"}
  /\ pool_root \in Node \cup {NULL} /\ pool_ptr \in Node \cup {NULL} /\ at \in Node \cup {NULL}
  /\ count \in 0..MaxNodes /\ inserted \in [Keys -> Nat]

\* The invariant, for the places g, the nodes U of the tree and K of the pool.
Invariant(g, U, K, b) ==
  Types /\ Used(g, U, K, b) /\ Felled(g, U, K) /\ Drained(g, U, K) /\ Gone(g, U, K)

IInv == \E g, U, K, b : Invariant(g, U, K, b)

-----------------------------------------------------------------------------
(* The colours.                                                             *)

\* Children differ from one another, from their parent, and from its parent.
LEMMA Different ==
  ASSUME NEW L, NEW R, NEW g, Shape(L, R, g), NEW n \in Node
  PROVE  /\ L[n] # n /\ R[n] # n /\ (L[n] # NULL => L[n] # R[n])
         /\ L[n] # NULL => L[n] \in Node /\ L[L[n]] # n /\ R[L[n]] # n
         /\ R[n] # NULL => R[n] \in Node /\ L[R[n]] # n /\ R[R[n]] # n
<1> DEFINE w(x) == g.hi[x] - g.lo[x]
<1>1. ASSUME NEW x \in Node
      PROVE  /\ g.pos[x] \in Int /\ g.lo[x] \in Int /\ g.hi[x] \in Int
             /\ g.lo[x] <= g.pos[x] /\ g.pos[x] <= g.hi[x] /\ x # NULL
  BY NodeFacts DEF Shape
<1>2. ASSUME NEW x \in Node, NEW y \in Node, y = L[x] \/ y = R[x]
      PROVE  w(y) < w(x) /\ w(y) \in Int /\ w(x) \in Int
  <2>1. CASE y = L[x]
    <3>1. g.lo[y] = g.lo[x] /\ g.hi[y] = g.pos[x] - 1
      BY <1>1, <2>1 DEF Shape
    <3> QED  BY <1>1, <3>1
  <2>2. CASE y = R[x]
    <3>1. g.lo[y] = g.pos[x] + 1 /\ g.hi[y] = g.hi[x]
      BY <1>1, <2>2 DEF Shape
    <3> QED  BY <1>1, <3>1
  <2> QED  BY <1>2, <2>1, <2>2
<1> HIDE DEF w
<1>3. L[n] # n /\ R[n] # n
  BY <1>2
<1>4. ASSUME L[n] # NULL PROVE L[n] # R[n]
  <2>1. L[n] \in Node /\ g.lo[L[n]] = g.lo[n]
    BY <1>4 DEF Shape
  <2>2. R[n] = L[n] => g.lo[R[n]] = g.pos[n] + 1
    BY <1>4 DEF Shape
  <2> QED  BY <1>1, <2>1, <2>2
<1>5. ASSUME NEW y \in Node, y = L[n] \/ y = R[n] PROVE L[y] # n /\ R[y] # n
  <2>1. w(y) < w(n) /\ w(y) \in Int /\ w(n) \in Int
    BY <1>2, <1>5
  <2>2. L[y] = n \/ R[y] = n => w(n) < w(y)
    BY <1>2
  <2> QED  BY <2>1, <2>2
<1>6. (L[n] # NULL => L[n] \in Node) /\ (R[n] # NULL => R[n] \in Node)
  BY DEF Shape
<1> QED  BY <1>3, <1>4, <1>5, <1>6

\* rbtree_fixup is at a in this tree.
IsFix(L, R, P, g, r, S, col, b, a) ==
  /\ Shape(L, R, g) /\ Tree(L, R, P, g, r, S) /\ Coloured(L, R, P, col, b, S, a) /\ a # NULL

\* The parent p of a red one that is red has a black parent q in the tree.
LEMMA RedParent ==
  ASSUME NEW L, NEW R, NEW P, NEW g, NEW r, NEW S, NEW col, NEW b, NEW a,
         IsFix(L, R, P, g, r, S, col, b, a), P[a] # NULL, col[P[a]] = RED
  PROVE  LET p == P[a]
             q == P[p]
         IN /\ S \subseteq Node /\ NULL \notin S /\ RED # BLACK
            /\ a \in S /\ p \in S /\ q \in S /\ a # p /\ p # q /\ a # q
            /\ col[a] = RED /\ col[q] = BLACK
            /\ L[p] = a \/ R[p] = a
            /\ L[q] = p \/ R[q] = p
<1> DEFINE p == P[a]
           q == P[p]
<1>1. S \subseteq Node /\ NULL \notin S /\ RED # BLACK
  BY NodeFacts DEF IsFix, Tree, RED, BLACK
<1>2. a \in S /\ col[a] = RED
  BY DEF IsFix, Coloured
<1>3. p \in S /\ (L[p] = a \/ R[p] = a)
  <2>1. a # r
    BY <1>2 DEF IsFix, Tree
  <2> QED  BY <1>2, <2>1 DEF IsFix, Tree
<1>4. a # p
  BY <1>1, <1>2, <1>3, Different DEF IsFix
<1>5. q # NULL /\ col[q] = BLACK
  BY <1>3, <1>4 DEF IsFix, Coloured
<1>6. q \in S /\ (L[q] = p \/ R[q] = p)
  <2>1. p # r
    BY <1>3, <1>5 DEF IsFix, Tree
  <2> QED  BY <1>3, <2>1 DEF IsFix, Tree
<1>7. p # q /\ a # q
  BY <1>1, <1>2, <1>3, <1>5
<1> QED  BY <1>1, <1>2, <1>3, <1>4, <1>5, <1>6, <1>7

\* Left and right are alike here.
LEMMA OtherSide ==
  ASSUME NEW L, NEW R, NEW P, NEW g, NEW r, NEW S, NEW col, NEW b, NEW a
  PROVE  /\ Coloured(L, R, P, col, b, S, a) => Coloured(R, L, P, col, b, S, a)
         /\ IsFix(L, R, P, g, r, S, col, b, a) => IsFix(R, L, P, Mirrored(g), r, S, col, b, a)
<1>1. Coloured(L, R, P, col, b, S, a) => Coloured(R, L, P, col, b, S, a)
  BY DEF Coloured
<1> QED  BY <1>1, MirrorImage DEF IsFix

\* A red child and its red parent p change places; the loop is at p then.
LEMMA InnerTurn ==
  ASSUME NEW L, NEW R, NEW P, NEW g, NEW r, NEW S, NEW col, NEW b, NEW a,
         IsFix(L, R, P, g, r, S, col, b, a), P[a] # NULL, col[P[a]] = RED, R[P[a]] = a,
         NEW L2, NEW R2, NEW P2, Turned(L, R, P, L2, R2, P2, P[a])
  PROVE  Coloured(L2, R2, P2, col, b, S, P[a])
<1> DEFINE p == P[a]
           q == P[p]
<1>1. /\ S \subseteq Node /\ NULL \notin S /\ RED # BLACK
      /\ a \in S /\ p \in S /\ q \in S /\ a # p /\ p # q /\ a # q /\ col[a] = RED /\ col[q] = BLACK
  BY RedParent
<1>2. /\ R[p] = a /\ col[p] = RED
      /\ \A n \in Node : /\ L2[n] = IF n = a THEN p ELSE IF L[n] = p THEN a ELSE L[n]
                         /\ R2[n] = IF n = p THEN L[a] ELSE IF R[n] = p THEN a ELSE R[n]
                         /\ P2[n] = IF n = p THEN a ELSE IF n = a THEN q
                                    ELSE IF n = L[a] THEN p ELSE P[n]
  BY DEF Turned
<1>3. L[p] # p /\ R[a] # p /\ L[a] # p
  <2>1. R[p] # NULL /\ p \in Node
    BY <1>1, <1>2
  <2> QED  BY <1>2, <2>1, Different DEF IsFix
<1>4. \A n \in S : /\ b[n] \in Nat /\ col[n] \in {RED, BLACK}
                   /\ Height(b, L[n]) = Height(b, R[n])
                   /\ b[n] = Height(b, L[n]) + (IF col[n] = BLACK THEN 1 ELSE 0)
  BY DEF IsFix, Coloured
<1>5. \A n \in S \ {a} : col[n] = RED => P[n] # NULL /\ col[P[n]] = BLACK
  BY DEF IsFix, Coloured
<1>6. \A n \in S : L[n] \in S \cup {NULL} /\ R[n] \in S \cup {NULL}
  BY DEF IsFix, Tree
<1>7. L[a] # NULL => P[L[a]] = a
  BY <1>1, <1>6 DEF IsFix, Tree, Child
<1> HIDE DEF p, q
<1>8. b[a] = b[p] /\ Height(b, a) = b[a] /\ Height(b, p) = b[p] /\ a # NULL /\ p # NULL
  <2>1. a # NULL /\ p # NULL
    BY <1>1
  <2>2. Height(b, a) = b[a] /\ Height(b, p) = b[p]
    BY <2>1 DEF Height
  <2>3. b[p] = Height(b, L[p]) + 0 /\ Height(b, L[p]) = Height(b, a)
    BY <1>1, <1>2, <1>4
  <2>4. b[p] \in Nat /\ b[a] \in Nat
    BY <1>1, <1>4
  <2> QED  BY <2>1, <2>2, <2>3, <2>4
<1>9. b[a] = Height(b, L[a]) /\ b[a] = Height(b, R[a]) /\ b[p] = Height(b, L[p])
  <2>1. b[a] = Height(b, L[a]) + 0 /\ Height(b, L[a]) = Height(b, R[a]) /\ b[a] \in Nat
    BY <1>1, <1>4
  <2>2. b[p] = Height(b, L[p]) + 0 /\ Height(b, L[p]) = Height(b, a) /\ b[p] \in Nat
    BY <1>1, <1>2, <1>4
  <2>3. Height(b, L[a]) \in Nat /\ Height(b, L[p]) \in Nat
    BY <1>1, <1>4, <1>6 DEF Height
  <2>4. b[a] = Height(b, L[a]) /\ b[p] = Height(b, L[p])
    BY <2>1, <2>2, <2>3
  <2> QED  BY <2>1, <2>4
<1>10. ASSUME NEW n \in S
       PROVE  /\ Height(b, L2[n]) = Height(b, R2[n])
              /\ b[n] = Height(b, L2[n]) + (IF col[n] = BLACK THEN 1 ELSE 0)
  <2>1. CASE n = a
    <3>1. L2[n] = p /\ R2[n] = R[a]
      BY <1>1, <1>2, <1>3, <2>1
    <3> QED  BY <1>1, <1>4, <1>8, <1>9, <2>1, <3>1
  <2>2. CASE n = p
    <3>1. L2[n] = L[p] /\ R2[n] = L[a]
      BY <1>1, <1>2, <1>3, <2>2
    <3> QED  BY <1>1, <1>2, <1>4, <1>8, <1>9, <2>2, <3>1
  <2>3. CASE n # a /\ n # p
    <3>1. L2[n] = IF L[n] = p THEN a ELSE L[n]
      BY <1>1, <1>2, <2>3
    <3>2. R2[n] = IF R[n] = p THEN a ELSE R[n]
      BY <1>1, <1>2, <2>3
    <3>3. Height(b, L2[n]) = Height(b, L[n]) /\ Height(b, R2[n]) = Height(b, R[n])
      BY <1>8, <3>1, <3>2
    <3> QED  BY <1>4, <3>3
  <2> QED  BY <2>1, <2>2, <2>3
<1>11. ASSUME NEW n \in S \ {p}, col[n] = RED PROVE P2[n] # NULL /\ col[P2[n]] = BLACK
  <2>1. CASE n = a
    BY <1>1, <1>2, <2>1
  <2>2. CASE n # a /\ n = L[a]
    <3>1. P[n] = a
      BY <1>1, <1>7, <2>2
    <3> QED  BY <1>1, <1>5, <1>11, <2>2, <3>1
  <2>3. CASE n # a /\ n # L[a]
    BY <1>1, <1>2, <1>5, <1>11, <2>3
  <2> QED  BY <2>1, <2>2, <2>3
<1>12. Coloured(L2, R2, P2, col, b, S, p)
  BY <1>1, <1>2, <1>4, <1>10, <1>11 DEF Coloured
<1> QED  BY <1>12 DEF p

\* The red parent p of a takes the place of its black parent q, and its colour.
RaisedColour(col, p, q) == [n \in Node |-> IF n = p THEN BLACK ELSE IF n = q THEN RED ELSE col[n]]
RaisedHeight(b, p, q) == [n \in Node |-> IF n = p THEN b[p] + 1 ELSE IF n = q THEN b[p] ELSE b[n]]

\* With a black uncle, or none, this leaves the colours right.
LEMMA OuterTurn ==
  ASSUME NEW L, NEW R, NEW P, NEW g, NEW r, NEW S, NEW col, NEW b, NEW a,
         IsFix(L, R, P, g, r, S, col, b, a), P[a] # NULL, col[P[a]] = RED, R[P[a]] = a,
         R[P[P[a]]] = P[a], L[P[P[a]]] = NULL \/ col[L[P[P[a]]]] = BLACK,
         NEW L2, NEW R2, NEW P2, Turned(L, R, P, L2, R2, P2, P[P[a]])
  PROVE  /\ Coloured(L2, R2, P2, RaisedColour(col, P[a], P[P[a]]), RaisedHeight(b, P[a], P[P[a]]), S, a)
         /\ P2[a] = P[a]
<1> DEFINE p == P[a]
           q == P[p]
           u == L[q]
           col2 == RaisedColour(col, p, q)
           b2 == RaisedHeight(b, p, q)
<1>1. /\ S \subseteq Node /\ NULL \notin S /\ RED # BLACK
      /\ a \in S /\ p \in S /\ q \in S /\ a # p /\ p # q /\ a # q /\ col[a] = RED /\ col[q] = BLACK
  BY RedParent
<1>2. /\ R[p] = a /\ R[q] = p /\ col[p] = RED /\ (u = NULL \/ col[u] = BLACK) /\ P[a] = p /\ P[p] = q
      /\ \A n \in Node : /\ L2[n] = IF n = p THEN q ELSE IF L[n] = q THEN p ELSE L[n]
                         /\ R2[n] = IF n = q THEN L[p] ELSE IF R[n] = q THEN p ELSE R[n]
                         /\ P2[n] = IF n = q THEN p ELSE IF n = p THEN P[q]
                                    ELSE IF n = L[p] THEN q ELSE P[n]
  BY DEF Turned
<1>3. /\ L[q] # q /\ L[p] # p /\ L[p] # q /\ R[p] # q /\ (L[q] # NULL => L[q] # p)
      /\ L[p] # a
  <2>1. R[q] # NULL /\ q \in Node /\ p \in Node /\ R[p] # NULL
    BY <1>1, <1>2
  <2> QED  BY <1>2, <2>1, Different DEF IsFix
<1>4. \A n \in S : /\ b[n] \in Nat /\ col[n] \in {RED, BLACK}
                   /\ Height(b, L[n]) = Height(b, R[n])
                   /\ b[n] = Height(b, L[n]) + (IF col[n] = BLACK THEN 1 ELSE 0)
  BY DEF IsFix, Coloured
<1>5. \A n \in S \ {a} : col[n] = RED => P[n] # NULL /\ col[P[n]] = BLACK
  BY DEF IsFix, Coloured
<1>6. \A n \in S : /\ L[n] \in S \cup {NULL} /\ R[n] \in S \cup {NULL}
                   /\ (L[n] # NULL => P[L[n]] = n) /\ (R[n] # NULL => P[R[n]] = n)
  <2>1. ASSUME NEW n \in S
        PROVE  /\ L[n] \in S \cup {NULL} /\ R[n] \in S \cup {NULL} /\ Child(L, P, S, n) /\ Child(R, P, S, n)
    BY <1>1 DEF IsFix, Tree
  <2> QED  BY <2>1 DEF Child
<1>7. \A n \in Node : /\ col2[n] = IF n = p THEN BLACK ELSE IF n = q THEN RED ELSE col[n]
                      /\ b2[n] = IF n = p THEN b[p] + 1 ELSE IF n = q THEN b[p] ELSE b[n]
  BY DEF RaisedColour, RaisedHeight
<1> HIDE DEF p, q, u, col2, b2
<1>8. ASSUME NEW n \in S \cup {NULL}, n # p, n # q PROVE Height(b2, n) = Height(b, n)
  BY <1>1, <1>7, <1>8 DEF Height
<1>9. Height(b2, a) = b[p] /\ Height(b2, p) = b[p] + 1 /\ Height(b2, q) = b[p] /\ b[p] \in Nat
  <2>1. a # NULL /\ p # NULL /\ q # NULL /\ a \in Node /\ p \in Node /\ q \in Node
    BY <1>1
  <2>2. Height(b, L[p]) \in Nat
    BY <1>1, <1>4, <1>6 DEF Height
  <2>3. b[p] = Height(b, L[p]) + 0 /\ Height(b, L[p]) = Height(b, a)
    BY <1>1, <1>2, <1>4
  <2>4. Height(b, a) = b[p] /\ b[p] \in Nat
    BY <1>1, <1>4, <2>2, <2>3
  <2>5. Height(b2, a) = b[p]
    BY <1>1, <1>8, <2>4
  <2>6. Height(b2, p) = b[p] + 1 /\ Height(b2, q) = b[p]
    BY <1>1, <1>7, <2>1 DEF Height
  <2> QED  BY <2>4, <2>5, <2>6
<1>10. b[p] = Height(b, L[p]) /\ b[q] = b[p] + 1 /\ Height(b, L[q]) = b[p]
  <2>1. Height(b, L[p]) \in Nat /\ Height(b, L[q]) \in Nat
    BY <1>1, <1>4, <1>6 DEF Height
  <2>2. b[p] = Height(b, L[p]) + 0
    BY <1>1, <1>2, <1>4
  <2>3. b[q] = Height(b, L[q]) + 1 /\ Height(b, L[q]) = Height(b, p)
    BY <1>1, <1>2, <1>4
  <2>4. Height(b, p) = b[p]
    BY <1>1 DEF Height
  <2> QED  BY <2>1, <2>2, <2>3, <2>4
<1>11. ASSUME NEW n \in S
       PROVE  /\ b2[n] \in Nat /\ col2[n] \in {RED, BLACK}
              /\ Height(b2, L2[n]) = Height(b2, R2[n])
              /\ b2[n] = Height(b2, L2[n]) + (IF col2[n] = BLACK THEN 1 ELSE 0)
  <2>1. CASE n = p
    <3>1. L2[n] = q /\ R2[n] = a /\ b2[n] = b[p] + 1 /\ col2[n] = BLACK
      BY <1>1, <1>2, <1>3, <1>7, <2>1
    <3> QED  BY <1>9, <3>1
  <2>2. CASE n = q
    <3>1. L2[n] = L[q] /\ R2[n] = L[p] /\ b2[n] = b[p] /\ col2[n] = RED
      BY <1>1, <1>2, <1>3, <1>7, <2>2
    <3>2. L[q] \in S \cup {NULL} /\ L[p] \in S \cup {NULL} /\ L[q] # p /\ L[p] # p /\ L[p] # q /\ L[q] # q
      BY <1>1, <1>3, <1>6
    <3>3. Height(b2, L2[n]) = b[p] /\ Height(b2, R2[n]) = b[p]
      BY <1>8, <1>10, <3>1, <3>2
    <3> QED  BY <1>1, <1>9, <3>1, <3>3
  <2>3. CASE n # p /\ n # q
    <3>1. /\ L2[n] = IF L[n] = q THEN p ELSE L[n]
          /\ R2[n] = IF R[n] = q THEN p ELSE R[n]
          /\ b2[n] = b[n] /\ col2[n] = col[n]
      BY <1>1, <1>2, <1>7, <2>3
    <3>2. L[n] # p /\ R[n] # p
      BY <1>1, <1>2, <1>6, <2>3
    <3>3. Height(b, q) = b[q] /\ q # NULL
      BY <1>1 DEF Height
    <3>4. ASSUME NEW m \in S \cup {NULL}, m # p PROVE Height(b2, IF m = q THEN p ELSE m) = Height(b, m)
      BY <1>8, <1>9, <1>10, <3>3, <3>4
    <3>5. Height(b2, L2[n]) = Height(b, L[n]) /\ Height(b2, R2[n]) = Height(b, R[n])
      BY <1>6, <3>1, <3>2, <3>4
    <3> QED  BY <1>4, <3>1, <3>5
  <2> QED  BY <2>1, <2>2, <2>3
<1>12. ASSUME NEW n \in S \ {a}, col2[n] = RED PROVE P2[n] # NULL /\ col2[P2[n]] = BLACK
  <2>0. n # p /\ (n # q => col[n] = RED)
    BY <1>1, <1>7, <1>12
  <2>1. CASE n = q
    BY <1>1, <1>2, <1>7, <2>1
  <2>2. CASE n # q /\ n = L[p]
    <3>1. P[n] = p
      BY <1>1, <1>6, <2>2
    <3> QED  BY <1>1, <1>2, <1>5, <1>12, <2>0, <2>2, <3>1
  <2>3. CASE n # q /\ n # L[p]
    <3>1. P2[n] = P[n] /\ P[n] # NULL /\ col[P[n]] = BLACK
      BY <1>1, <1>2, <1>5, <1>12, <2>0, <2>3
    <3>2. n # r /\ P[n] \in S /\ (L[P[n]] = n \/ R[P[n]] = n)
      BY <1>12, <3>1 DEF IsFix, Tree
    <3>3. P[n] # q
      BY <1>1, <1>2, <1>12, <2>0, <2>3, <3>2 DEF u
    <3> QED  BY <1>1, <1>7, <3>1, <3>2, <3>3
  <2> QED  BY <2>1, <2>2, <2>3
<1>13. P2[a] = p /\ col2[a] = RED
  BY <1>1, <1>2, <1>3, <1>7
<1>14. Coloured(L2, R2, P2, col2, b2, S, a)
  BY <1>1, <1>11, <1>12, <1>13 DEF Coloured
<1> QED  BY <1>13, <1>14 DEF p, q, col2, b2

\* Parent and uncle of a are red: they become black, the grandparent q red.
LighterColour(col, p, u, q) ==
  [n \in Node |-> IF n = p \/ n = u THEN BLACK ELSE IF n = q THEN RED ELSE col[n]]
LighterHeight(b, p, u) == [n \in Node |-> IF n = p \/ n = u THEN b[n] + 1 ELSE b[n]]

\* The loop goes on at the grandparent.
LEMMA Recoloured ==
  ASSUME NEW L, NEW R, NEW P, NEW g, NEW r, NEW S, NEW col, NEW b, NEW a,
         IsFix(L, R, P, g, r, S, col, b, a), P[a] # NULL, col[P[a]] = RED,
         NEW u, R[P[P[a]]] = P[a], L[P[P[a]]] = u, u # NULL, col[u] = RED
  PROVE  Coloured(L, R, P, LighterColour(col, P[a], u, P[P[a]]), LighterHeight(b, P[a], u), S, P[P[a]])
<1> DEFINE p == P[a]
           q == P[p]
           col2 == LighterColour(col, p, u, q)
           b2 == LighterHeight(b, p, u)
<1>1. /\ S \subseteq Node /\ NULL \notin S /\ RED # BLACK
      /\ a \in S /\ p \in S /\ q \in S /\ a # p /\ p # q /\ a # q /\ col[a] = RED /\ col[q] = BLACK
  BY RedParent
<1>2. R[q] = p /\ L[q] = u /\ u # NULL /\ col[p] = RED /\ col[u] = RED /\ P[a] = p /\ P[p] = q
  OBVIOUS
<1>4. \A n \in S : /\ b[n] \in Nat /\ col[n] \in {RED, BLACK}
                   /\ Height(b, L[n]) = Height(b, R[n])
                   /\ b[n] = Height(b, L[n]) + (IF col[n] = BLACK THEN 1 ELSE 0)
  BY DEF IsFix, Coloured
<1>5. \A n \in S \ {a} : col[n] = RED => P[n] # NULL /\ col[P[n]] = BLACK
  BY DEF IsFix, Coloured
<1>6. \A n \in S : /\ L[n] \in S \cup {NULL} /\ R[n] \in S \cup {NULL}
                   /\ (L[n] # NULL => P[L[n]] = n) /\ (R[n] # NULL => P[R[n]] = n)
  <2>1. ASSUME NEW n \in S
        PROVE  /\ L[n] \in S \cup {NULL} /\ R[n] \in S \cup {NULL} /\ Child(L, P, S, n) /\ Child(R, P, S, n)
    BY <1>1 DEF IsFix, Tree
  <2> QED  BY <2>1 DEF Child
<1>7. \A n \in Node : /\ col2[n] = IF n = p \/ n = u THEN BLACK ELSE IF n = q THEN RED ELSE col[n]
                      /\ b2[n] = IF n = p \/ n = u THEN b[n] + 1 ELSE b[n]
  BY DEF LighterColour, LighterHeight
<1> HIDE DEF p, q, col2, b2
<1>8. u \in S /\ P[u] = q /\ u # q /\ u # p
  <2>1. L[q] # q /\ L[q] # R[q]
    BY <1>1, <1>2, Different DEF IsFix
  <2> QED  BY <1>1, <1>2, <1>6, <2>1
<1>9. ASSUME NEW n \in S \cup {NULL}, n # p, n # u PROVE Height(b2, n) = Height(b, n)
  BY <1>1, <1>7, <1>9 DEF Height
<1>10. ASSUME NEW n \in S PROVE Height(b, L[n]) \in Nat /\ Height(b, R[n]) \in Nat
  BY <1>1, <1>4, <1>6 DEF Height
<1>11. Height(b2, p) = b[p] + 1 /\ Height(b2, u) = b[u] + 1 /\ Height(b, p) = b[p] /\ Height(b, u) = b[u]
  BY <1>1, <1>7, <1>8 DEF Height
<1>12. ASSUME NEW n \in S
       PROVE  /\ b2[n] \in Nat /\ col2[n] \in {RED, BLACK}
              /\ Height(b2, L[n]) = Height(b2, R[n])
              /\ b2[n] = Height(b2, L[n]) + (IF col2[n] = BLACK THEN 1 ELSE 0)
  <2>0. b[n] \in Nat /\ n \in Node
    BY <1>1, <1>4
  <2>1. CASE n = q
    <3>1. b[p] = b[u] /\ b[q] = b[u] + 1 /\ b[u] \in Nat
      BY <1>1, <1>2, <1>4, <1>8, <1>11
    <3>2. b2[n] = b[q] /\ col2[n] = RED /\ L[n] = u /\ R[n] = p
      BY <1>1, <1>2, <1>7, <1>8, <2>1
    <3> QED  BY <1>1, <1>11, <3>1, <3>2
  <2>2. CASE n # q
    <3>1. L[n] # p /\ R[n] # p /\ L[n] # u /\ R[n] # u
      BY <1>1, <1>2, <1>6, <1>8, <2>2
    <3>2. Height(b2, L[n]) = Height(b, L[n]) /\ Height(b2, R[n]) = Height(b, R[n])
      BY <1>6, <1>9, <3>1
    <3>3. CASE n = p \/ n = u
      <4>1. b2[n] = b[n] + 1 /\ col2[n] = BLACK /\ col[n] = RED
        BY <1>2, <1>7, <2>0, <3>3
      <4>2. b[n] = Height(b, L[n]) + 0 /\ Height(b, L[n]) = Height(b, R[n])
        BY <1>1, <1>4, <4>1
      <4> QED  BY <1>10, <2>0, <3>2, <4>1, <4>2
    <3>4. CASE n # p /\ n # u
      <4>1. b2[n] = b[n] /\ col2[n] = col[n]
        BY <1>7, <2>0, <2>2, <3>4
      <4> QED  BY <1>4, <3>2, <4>1
    <3> QED  BY <3>3, <3>4
  <2> QED  BY <2>1, <2>2
<1>13. ASSUME NEW n \in S \ {q}, col2[n] = RED PROVE P[n] # NULL /\ col2[P[n]] = BLACK
  <2>0. n # p /\ n # u /\ col[n] = RED /\ n \in Node
    BY <1>1, <1>7, <1>13
  <2>1. CASE n = a
    BY <1>1, <1>2, <1>7, <2>1
  <2>2. CASE n # a
    <3>1. P[n] # NULL /\ col[P[n]] = BLACK
      BY <1>5, <1>13, <2>0, <2>2
    <3>2. n # r /\ P[n] \in S /\ (L[P[n]] = n \/ R[P[n]] = n)
      BY <1>13, <3>1 DEF IsFix, Tree
    <3>3. P[n] # q
      BY <1>2, <2>0, <3>2
    <3> QED  BY <1>1, <1>7, <3>1, <3>2, <3>3
  <2> QED  BY <2>1, <2>2
<1>14. col2[q] = RED
  BY <1>1, <1>7, <1>8
<1>15. Coloured(L, R, P, col2, b2, S, q)
  BY <1>1, <1>12, <1>13, <1>14 DEF Coloured
<1> QED  BY <1>15 DEF p, q, col2, b2

\* The root becomes black.
BlackRoot(col, a) == [col EXCEPT ![a] = BLACK]
HigherRoot(b, a) == [n \in Node |-> IF n = a THEN b[n] + 1 ELSE b[n]]

\* Where the parent of a is black, or a is the root, the loop ends with the colours right.
LEMMA FixEnds ==
  ASSUME NEW L, NEW R, NEW P, NEW g, NEW r, NEW S, NEW col, NEW b, NEW a,
         IsFix(L, R, P, g, r, S, col, b, a), col \in [Node -> {RED, BLACK}]
  PROVE  /\ P[a] # NULL /\ col[P[a]] = BLACK => Coloured(L, R, P, col, b, S, NULL)
         /\ P[a] = NULL => Coloured(L, R, P, BlackRoot(col, a), HigherRoot(b, a), S, NULL) /\ a = r
<1>1. /\ \A n \in S : /\ b[n] \in Nat /\ col[n] \in {RED, BLACK}
                      /\ Height(b, L[n]) = Height(b, R[n])
                      /\ b[n] = Height(b, L[n]) + (IF col[n] = BLACK THEN 1 ELSE 0)
      /\ \A n \in S \ {a} : col[n] = RED => P[n] # NULL /\ col[P[n]] = BLACK
      /\ a \in S /\ col[a] = RED /\ a # NULL
  BY DEF IsFix, Coloured
<1>2. S \subseteq Node /\ NULL \notin S /\ RED # BLACK
  BY NodeFacts DEF IsFix, Tree, RED, BLACK
<1>3. ASSUME P[a] # NULL, col[P[a]] = BLACK PROVE Coloured(L, R, P, col, b, S, NULL)
  BY <1>1, <1>3 DEF Coloured
<1>4. ASSUME P[a] = NULL
      PROVE  Coloured(L, R, P, BlackRoot(col, a), HigherRoot(b, a), S, NULL) /\ a = r
  <2> DEFINE col2 == BlackRoot(col, a)
             b2 == HigherRoot(b, a)
  <2>1. \A n \in Node : /\ col2[n] = IF n = a THEN BLACK ELSE col[n]
                        /\ b2[n] = IF n = a THEN b[n] + 1 ELSE b[n]
    BY DEF BlackRoot, HigherRoot
  <2> HIDE DEF col2, b2
  <2>2. a = r
    BY <1>1, <1>2, <1>4 DEF IsFix, Tree
  <2>3. ASSUME NEW n \in S PROVE L[n] # a /\ R[n] # a /\ L[n] \in S \cup {NULL} /\ R[n] \in S \cup {NULL}
    BY <1>1, <1>2, <1>4 DEF IsFix, Tree, Child
  <2>4. ASSUME NEW n \in S \cup {NULL}, n # a PROVE Height(b2, n) = Height(b, n)
    BY <1>2, <2>1, <2>4 DEF Height
  <2>5. ASSUME NEW n \in S
        PROVE  /\ b2[n] \in Nat /\ col2[n] \in {RED, BLACK}
               /\ Height(b2, L[n]) = Height(b2, R[n])
               /\ b2[n] = Height(b2, L[n]) + (IF col2[n] = BLACK THEN 1 ELSE 0)
    <3>1. Height(b2, L[n]) = Height(b, L[n]) /\ Height(b2, R[n]) = Height(b, R[n])
      BY <2>3, <2>4
    <3>2. Height(b, L[n]) \in Nat /\ b[n] \in Nat
      BY <1>1, <1>2, <2>3 DEF Height
    <3>3. CASE n = a
      <4>1. b[n] = Height(b, L[n]) + 0 /\ b2[n] = b[n] + 1 /\ col2[n] = BLACK
        BY <1>1, <1>2, <2>1, <3>3
      <4> QED  BY <1>1, <3>1, <3>2, <4>1
    <3>4. CASE n # a
      <4>1. b2[n] = b[n] /\ col2[n] = col[n]
        BY <1>2, <2>1, <3>4
      <4> QED  BY <1>1, <3>1, <4>1
    <3> QED  BY <3>3, <3>4
  <2>6. ASSUME NEW n \in S, col2[n] = RED PROVE P[n] # NULL /\ col2[P[n]] = BLACK
    <3>1. n # a /\ col[n] = RED
      BY <1>2, <2>1, <2>6
    <3>2. P[n] # NULL /\ col[P[n]] = BLACK
      BY <1>1, <3>1
    <3>3. P[n] \in S
      BY <2>2, <3>1 DEF IsFix, Tree
    <3> QED  BY <1>2, <2>1, <3>2, <3>3
  <2>7. Coloured(L, R, P, col2, b2, S, NULL)
    BY <2>5, <2>6 DEF Coloured
  <2> QED  BY <2>2, <2>7 DEF col2, b2
<1> QED  BY <1>3, <1>4

-----------------------------------------------------------------------------
(* rbtree_fixup.                                                            *)

\* The fields of the pool's nodes are the same.
SamePool(T, T2, K) ==
  \A x \in K : T2.left[x] = T.left[x] /\ T2.right[x] = T.right[x] /\ T2.parent[x] = T.parent[x]

\* T2 is T after a rotation at t to the left, or the mirror image.
IsTurn(T, T2, g, h, U, k, K, H, t) ==
  /\ Forest(T2, h, U, k, K, H) /\ SameLabels(T, T2) /\ Steady(g, h, U) /\ SamePool(T, T2, K)
  /\ Turned(T.left, T.right, T.parent, T2.left, T2.right, T2.parent, t)

IsTurnBack(T, T2, g, h, U, k, K, H, t) ==
  /\ Forest(T2, h, U, k, K, H) /\ SameLabels(T, T2) /\ Steady(g, h, U) /\ SamePool(T, T2, K)
  /\ Turned(T.right, T.left, T.parent, T2.right, T2.left, T2.parent, t)

\* The pool, and the nodes that are not allocated, after pointers of the tree
\* changed to nodes of the tree, or were moved within it.
MovedIn(L, R, P, L2, R2, P2, U) ==
  /\ \A n \in Node : /\ L2[n] = L[n] \/ (n \in U /\ L2[n] \in U \cup {NULL})
                     /\ R2[n] = R[n] \/ (n \in U /\ R2[n] \in U \cup {NULL})
  /\ \A n \in Node \ U : P2[n] = P[n]

\* Then pool and heap are as before.
LEMMA OthersUntouched ==
  ASSUME NEW T, NEW T2, NEW g, NEW h, NEW U, NEW k, NEW K, NEW H, Forest(T, g, U, k, K, H),
         Typed(T2), Rooted(T2, h, T2.root, U), Steady(g, h, U),
         MovedIn(T.left, T.right, T.parent, T2.left, T2.right, T2.parent, U)
  PROVE  Forest(T2, h, U, k, K, H) /\ SamePool(T, T2, K)
<1> DEFINE L == T.left
           R == T.right
           P == T.parent
           L2 == T2.left
           R2 == T2.right
           P2 == T2.parent
<1>1. /\ Shape(L, R, g) /\ Tree(L, R, P, g, k, K) /\ U \cap K = {} /\ Loose(T, H, U \cup K)
      /\ U \subseteq Node /\ K \subseteq Node /\ NULL \notin Node /\ Rooted(T, g, k, K)
  BY NodeFacts DEF Forest, Rooted, Tree
<1>2. Shape(L2, R2, h) /\ Tree(L2, R2, P2, h, T2.root, U)
  BY DEF Rooted
<1>3. MovedIn(L, R, P, L2, R2, P2, U)
  OBVIOUS
<1>4. H \subseteq Node \ (U \cup K) /\ \A n \in Node : L[n] \notin H /\ R[n] \notin H
  BY <1>1 DEF Loose
<1> HIDE DEF L, R, P, L2, R2, P2
<1>5. ASSUME NEW x \in K PROVE L2[x] = L[x] /\ R2[x] = R[x] /\ P2[x] = P[x]
  BY <1>1, <1>3 DEF MovedIn
<1>6. SameOn(L, R, P, g, L2, R2, P2, h, K)
  BY <1>1, <1>5 DEF SameOn, Steady
<1>7. Apart(L2, R2, K)
  <2>1. \A n \in Node \ K : L[n] \notin K /\ R[n] \notin K
    BY <1>1 DEF Tree, Child
  <2> QED  BY <1>1, <1>3, <2>1 DEF Apart, MovedIn
<1>8. Rooted(T2, h, k, K)
  <2>1. Tree(L2, R2, P2, h, k, K)
    BY <1>1, <1>6, <1>7, Untouched
  <2> QED  BY <1>2, <2>1 DEF Rooted, L2, R2, P2
<1>9. \A n \in Node : L2[n] \notin H /\ R2[n] \notin H
  BY <1>1, <1>3, <1>4 DEF MovedIn
<1>10. Loose(T2, H, U \cup K)
  BY <1>4, <1>9 DEF Loose, L2, R2
<1>11. SamePool(T, T2, K)
  BY <1>5 DEF SamePool, L, R, P, L2, R2, P2
<1> QED  BY <1>1, <1>8, <1>10, <1>11 DEF Forest

\* Rotations change the tree only.
LEMMA TurnedWithin ==
  ASSUME NEW L, NEW R, NEW P, NEW g, NEW r, NEW S, Shape(L, R, g), Tree(L, R, P, g, r, S),
         NEW t \in S, R[t] # NULL, NEW L2, NEW R2, NEW P2, Turned(L, R, P, L2, R2, P2, t)
  PROVE  MovedIn(L, R, P, L2, R2, P2, S)
<1>1. /\ S \subseteq Node /\ t \in Node /\ R[t] \in S /\ R[t] \in Node
      /\ L[R[t]] \in S \cup {NULL}
  BY DEF Tree
<1>2. ASSUME NEW n \in Node PROVE (L[n] = t => n \in S) /\ (R[n] = t => n \in S)
  BY DEF Tree, Child
<1>3. ASSUME NEW n \in Node
      PROVE  /\ L2[n] = L[n] \/ (n \in S /\ L2[n] \in S \cup {NULL})
             /\ R2[n] = R[n] \/ (n \in S /\ R2[n] \in S \cup {NULL})
  BY <1>1, <1>2 DEF Turned
<1>4. ASSUME NEW n \in Node \ S PROVE P2[n] = P[n]
  BY <1>1, NodeFacts DEF Turned
<1> QED  BY <1>3, <1>4 DEF MovedIn

\* After left_rotate and right_rotate tree, pool and heap are apart as before.
LEMMA ForestTurned ==
  ASSUME NEW T, NEW g, NEW U, NEW k, NEW K, NEW H, Forest(T, g, U, k, K, H), NEW t \in U
  PROVE  /\ T.right[t] # NULL => \E h : IsTurn(T, Rotate(T, t, "left", "right"), g, h, U, k, K, H, t)
         /\ T.left[t] # NULL => \E h : IsTurnBack(T, Rotate(T, t, "right", "left"), g, h, U, k, K, H, t)
<1>1. Typed(T) /\ Rooted(T, g, T.root, U)
  BY DEF Forest
<1>2. ASSUME T.right[t] # NULL
      PROVE  \E h : IsTurn(T, Rotate(T, t, "left", "right"), g, h, U, k, K, H, t)
  <2> DEFINE T2 == Rotate(T, t, "left", "right")
             L == T.left
             R == T.right
             P == T.parent
             L2 == T2.left
             R2 == T2.right
             P2 == T2.parent
             r2 == T2.root
  <2>1. /\ Typed(T2) /\ SameLabels(T, T2) /\ Turned(L, R, P, L2, R2, P2, t)
        /\ r2 = IF t = T.root THEN R[t] ELSE T.root
    BY ZenonT(30), <1>1, <1>2, RotateIs
  <2>2. Shape(L, R, g) /\ Tree(L, R, P, g, T.root, U) /\ R[t] # NULL
    BY <1>1, <1>2 DEF Rooted
  <2> HIDE DEF T2, L, R, P, L2, R2, P2, r2
  <2>3. PICK h : /\ Shape(L2, R2, h) /\ Tree(L2, R2, P2, h, IF t = T.root THEN R[t] ELSE T.root, U)
                 /\ Steady(g, h, U)
    BY <2>1, <2>2, TurnLeft
  <2>4. Rooted(T2, h, T2.root, U)
    BY <2>1, <2>3 DEF Rooted, L2, R2, P2, r2
  <2>5. MovedIn(L, R, P, L2, R2, P2, U)
    BY <2>1, <2>2, TurnedWithin
  <2>6. Forest(T2, h, U, k, K, H) /\ SamePool(T, T2, K)
    BY <2>1, <2>3, <2>4, <2>5, OthersUntouched DEF L, R, P, L2, R2, P2
  <2>7. IsTurn(T, T2, g, h, U, k, K, H, t)
    BY <2>1, <2>3, <2>6 DEF IsTurn, L, R, P, L2, R2, P2
  <2> QED  BY <2>7 DEF T2
<1>3. ASSUME T.left[t] # NULL
      PROVE  \E h : IsTurnBack(T, Rotate(T, t, "right", "left"), g, h, U, k, K, H, t)
  <2> DEFINE T2 == Rotate(T, t, "right", "left")
             L == T.left
             R == T.right
             P == T.parent
             L2 == T2.left
             R2 == T2.right
             P2 == T2.parent
             r2 == T2.root
  <2>1. /\ Typed(T2) /\ SameLabels(T, T2) /\ Turned(R, L, P, R2, L2, P2, t)
        /\ r2 = IF t = T.root THEN L[t] ELSE T.root
    BY <1>1, <1>3, RotateIs
  <2>2. Shape(L, R, g) /\ Tree(L, R, P, g, T.root, U) /\ L[t] # NULL
    BY <1>1, <1>3 DEF Rooted
  <2> HIDE DEF T2, L, R, P, L2, R2, P2, r2
  <2>3. PICK h : /\ Shape(L2, R2, h) /\ Tree(L2, R2, P2, h, IF t = T.root THEN L[t] ELSE T.root, U)
                 /\ Steady(g, h, U)
    BY <2>1, <2>2, TurnRight
  <2>4. Rooted(T2, h, T2.root, U)
    BY <2>1, <2>3 DEF Rooted, L2, R2, P2, r2
  <2>5. MovedIn(L, R, P, L2, R2, P2, U)
    <3>1. Shape(R, L, Mirrored(g)) /\ Tree(R, L, P, Mirrored(g), T.root, U)
      BY <2>2, MirrorImage
    <3>2. MovedIn(R, L, P, R2, L2, P2, U)
      BY <2>1, <2>2, <3>1, TurnedWithin
    <3> QED  BY <3>2 DEF MovedIn
  <2>6. Forest(T2, h, U, k, K, H) /\ SamePool(T, T2, K)
    BY <2>1, <2>3, <2>4, <2>5, OthersUntouched DEF L, R, P, L2, R2, P2
  <2>7. IsTurnBack(T, T2, g, h, U, k, K, H, t)
    BY <2>1, <2>3, <2>6 DEF IsTurnBack, L, R, P, L2, R2, P2
  <2> QED  BY <2>7 DEF T2
<1> QED  BY <1>2, <1>3

\* With the same pointers the trees are the same.
LEMMA SamePointers ==
  ASSUME NEW T, NEW T2, NEW g, NEW U, NEW k, NEW K, NEW H, Forest(T, g, U, k, K, H), Typed(T2),
         T2.root = T.root, T2.left = T.left, T2.right = T.right, T2.parent = T.parent
  PROVE  Forest(T2, g, U, k, K, H) /\ SamePool(T, T2, K)
BY DEF Forest, Rooted, Loose, SamePool

\* Order, count and pool are not affected by rotations and colours.
LEMMA Alike ==
  ASSUME NEW T, NEW T2, NEW g, NEW h, NEW U, NEW K, Sound(T, g, U, K),
         Forest(T2, h, U, pool_root, K, heap), SamePool(T, T2, K), T2.key = T.key,
         \A n \in Node : h.pos[n] = g.pos[n]
  PROVE  Sound(T2, h, U, K)
<1>1. /\ K \subseteq Node /\ U \subseteq Node /\ NULL \notin Node
      /\ \A x \in K : T.parent[x] \in K \cup {NULL}
  BY NodeFacts DEF Sound, Forest, Rooted, Tree
<1>2. Pooled(T2, h, pool_ptr, K)
  BY <1>1 DEF Sound, Pooled, FirstLeft, SamePool
<1>3. Sorted(T2, h, U)
  BY <1>1 DEF Sound, Sorted
<1>4. Counted(T2, U)
  BY DEF Sound, Counted
<1>5. \A x \in K : Lean(T, x) => Lean(T2, x)
  BY <1>1 DEF Lean, SamePool
<1>6. Removable(T, g, pool_ptr, K) => Removable(T2, h, pool_ptr, K)
  <2>1. pool_ptr # NULL => pool_ptr \in K
    BY DEF Sound, Pooled, FirstLeft
  <2>2. pool_ptr # NULL => T2.parent[pool_ptr] = T.parent[pool_ptr] /\ T2.right[pool_ptr] = T.right[pool_ptr]
    BY <2>1 DEF SamePool
  <2> QED  BY <1>1, <1>5, <2>1, <2>2 DEF Removable
<1>7. Kept(T2, h, U, K, pool_ptr)
  BY <1>6 DEF Sound, Kept
<1> QED  BY <1>2, <1>3, <1>4, <1>7 DEF Sound

\* The interval of a child ends before its parent, or where that of the parent ends.
LEMMA ParentInterval ==
  ASSUME NEW L, NEW R, NEW g, Shape(L, R, g), NEW n \in Node, NEW p \in Node, L[p] = n \/ R[p] = n
  PROVE  /\ g.pos[p] \in Int /\ g.hi[p] \in Int /\ g.hi[n] \in Int /\ g.pos[p] <= g.hi[p]
         /\ g.hi[n] <= g.hi[p]
         /\ L[p] = n => g.hi[n] < g.pos[p]
         /\ R[p] = n => g.hi[n] = g.hi[p]
<1>1. /\ g.pos[p] \in Int /\ g.hi[p] \in Int /\ g.pos[p] <= g.hi[p]
      /\ g.hi[n] \in Int /\ n # NULL
  BY NodeFacts DEF Shape
<1>2. /\ L[p] = n => g.hi[n] = g.pos[p] - 1
      /\ R[p] = n => g.hi[n] = g.hi[p]
  BY <1>1 DEF Shape
<1> QED  BY <1>1, <1>2

\* The loop is at a, in the tree T, and goes on with its red parent.
Turning(T, g, U, k, K, H, b, a) ==
  /\ Forest(T, g, U, k, K, H) /\ Leaning(T, g, U, a)
  /\ IsFix(T.left, T.right, T.parent, g, T.root, U, T.color, b, a)
  /\ T.parent[a] # NULL /\ T.color[T.parent[a]] = RED

\* The nodes around a differ, and their pointers agree.
LEMMA TurningFacts ==
  ASSUME NEW T, NEW g, NEW U, NEW k, NEW K, NEW H, NEW b, NEW a, Turning(T, g, U, k, K, H, b, a)
  PROVE  LET p == T.parent[a]
             q == T.parent[p]
         IN /\ U \subseteq Node /\ NULL \notin Node /\ RED # BLACK /\ a # NULL /\ p # NULL /\ q # NULL
            /\ a \in U /\ p \in U /\ q \in U /\ a # p /\ p # q /\ a # q
            /\ T.color[a] = RED /\ T.color[p] = RED /\ T.color[q] = BLACK
            /\ T.left[p] = a \/ T.right[p] = a
            /\ T.left[q] = p \/ T.right[q] = p
            /\ \A x \in U \cup {NULL} : x \in Node \/ x = NULL
            /\ \A x \in U : /\ T.left[x] \in U \cup {NULL} /\ T.right[x] \in U \cup {NULL}
                            /\ (T.left[x] # NULL => T.parent[T.left[x]] = x)
                            /\ (T.right[x] # NULL => T.parent[T.right[x]] = x)
                            /\ T.parent[x] \in U \cup {NULL}
                            /\ T.left[x] # NULL => T.left[x] # T.right[x]
<1> DEFINE L == T.left
           R == T.right
           P == T.parent
<1>1. IsFix(L, R, P, g, T.root, U, T.color, b, a) /\ P[a] # NULL /\ T.color[P[a]] = RED
  BY DEF Turning
<1>2. U \subseteq Node /\ NULL \notin Node
  BY <1>1, NodeFacts DEF IsFix, Tree
<1>3. LET p == P[a]
          q == P[p]
      IN /\ RED # BLACK /\ a \in U /\ p \in U /\ q \in U /\ a # p /\ p # q /\ a # q
         /\ T.color[a] = RED /\ T.color[q] = BLACK
         /\ L[p] = a \/ R[p] = a
         /\ L[q] = p \/ R[q] = p
  BY <1>1, RedParent
<1> HIDE DEF L, R, P
<1>4. ASSUME NEW x \in U
      PROVE  /\ L[x] \in U \cup {NULL} /\ R[x] \in U \cup {NULL}
             /\ (L[x] # NULL => P[L[x]] = x) /\ (R[x] # NULL => P[R[x]] = x)
             /\ P[x] \in U \cup {NULL}
             /\ L[x] # NULL => L[x] # R[x]
  <2>1. L[x] \in U \cup {NULL} /\ R[x] \in U \cup {NULL} /\ Child(L, P, U, x) /\ Child(R, P, U, x)
        /\ P[x] \in U \cup {NULL}
    BY <1>1, <1>2 DEF IsFix, Tree
  <2>2. L[x] # NULL => L[x] # R[x]
    BY <1>1, <1>2, Different DEF IsFix
  <2> QED  BY <1>2, <2>1, <2>2 DEF Child
<1> QED  BY <1>1, <1>2, <1>3, <1>4 DEF L, R, P

\* The first rotation of two, to the right, makes the list lean.
LEMMA LeanInnerBack ==
  ASSUME NEW T, NEW g, NEW U, NEW k, NEW K, NEW H, NEW b, NEW a, Turning(T, g, U, k, K, H, b, a),
         NEW T2, NEW h, IsTurnBack(T, T2, g, h, U, k, K, H, T.parent[a]),
         T.left[T.parent[a]] = a, T.right[T.parent[T.parent[a]]] = T.parent[a]
  PROVE  Leaning(T2, h, U, T.parent[a])
<1> DEFINE L == T.left
           R == T.right
           P == T.parent
           L2 == T2.left
           R2 == T2.right
           P2 == T2.parent
           p == P[a]
           q == P[p]
<1>1. /\ U \subseteq Node /\ NULL \notin Node /\ RED # BLACK /\ a # NULL /\ p # NULL /\ q # NULL
      /\ a \in U /\ p \in U /\ q \in U /\ a # p /\ p # q /\ a # q
      /\ T.color[a] = RED /\ T.color[p] = RED
      /\ \A x \in U : /\ L[x] \in U \cup {NULL} /\ R[x] \in U \cup {NULL}
                      /\ (L[x] # NULL => P[L[x]] = x) /\ (R[x] # NULL => P[R[x]] = x)
                      /\ P[x] \in U \cup {NULL}
                      /\ L[x] # NULL => L[x] # R[x]
  BY TurningFacts
<1>2. L[p] = a /\ R[q] = p /\ P[a] = p /\ P[p] = q
  OBVIOUS
<1>3. Shape(L, R, g) /\ Shape(L2, R2, h) /\ \A n \in Node : h.pos[n] = g.pos[n]
  BY DEF IsTurnBack, Turning, Forest, Rooted, Steady
<1>4. \A n \in Node : /\ R2[n] = IF n = a THEN p ELSE IF R[n] = p THEN a ELSE R[n]
                      /\ L2[n] = IF n = p THEN R[a] ELSE IF L[n] = p THEN a ELSE L[n]
                      /\ P2[n] = IF n = p THEN a ELSE IF n = a THEN q
                                 ELSE IF n = R[a] THEN p ELSE P[n]
  BY DEF IsTurnBack, Turned
<1>5. \A x : /\ Lean(T, x) <=> (L[x] = NULL /\ P[x] # NULL /\ L[P[x]] = x => R[x] = NULL)
             /\ Lean(T2, x) <=> (L2[x] = NULL /\ P2[x] # NULL /\ L2[P2[x]] = x => R2[x] = NULL)
  BY DEF Lean
<1>6. /\ \A x \in U : Lean(T, x)
      /\ R[a] = NULL /\ Last(g, U, p)
  <2>1. Leaning(T, g, U, a)
    BY DEF Turning
  <2>2. ~(\A m \in U : g.pos[m] <= g.hi[a])
    <3>1. g.hi[a] < g.pos[p] /\ g.hi[a] \in Int /\ g.pos[p] \in Int
      BY <1>1, <1>2, <1>3, ParentInterval
    <3> QED  BY <1>1, <3>1
  <2>3. L[q] # p /\ R[p] # a
    BY <1>1, <1>2
  <2> QED  BY <1>1, <1>2, <2>1, <2>2, <2>3 DEF Leaning
<1> HIDE DEF L, R, P, L2, R2, P2, p, q
<1>7. ASSUME NEW x \in U PROVE Lean(T2, x)
  <2>1. CASE x = p
    <3>1. P2[x] = a /\ L2[a] # p
      BY <1>1, <1>2, <1>4, <2>1
    <3> QED  BY <1>5, <2>1, <3>1
  <2>2. CASE x = a
    <3>1. P2[x] = q /\ L2[q] # a
      BY <1>1, <1>2, <1>4, <2>2
    <3> QED  BY <1>5, <2>2, <3>1
  <2>3. CASE x # p /\ x # a
    <3>1. P2[x] = P[x] /\ x \in Node
      BY <1>1, <1>4, <1>6, <2>3
    <3> SUFFICES ASSUME L2[x] = NULL, P[x] # NULL, L2[P[x]] = x PROVE R2[x] = NULL
      BY <1>5, <3>1
    <3>2. P[x] \in Node
      BY <1>1
    <3>3. L[P[x]] = x
      BY <1>1, <1>4, <1>6, <2>3, <3>1, <3>2
    <3>4. L[x] = NULL
      BY <1>1, <1>4, <2>3, <3>1
    <3>5. R[x] = NULL
      BY <1>5, <1>6, <3>3, <3>4
    <3> QED  BY <1>1, <1>4, <2>3, <3>1, <3>5
  <2> QED  BY <2>1, <2>2, <2>3
<1>8. ASSUME NEW m \in U PROVE h.pos[m] <= h.hi[p]
  <2>1. g.pos[m] <= g.pos[p]
    BY <1>6 DEF Last
  <2>2. h.pos[p] <= h.hi[p] /\ h.pos[p] \in Int /\ h.hi[p] \in Int /\ h.pos[m] \in Int
    BY <1>1, <1>3 DEF Shape
  <2> QED  BY <1>1, <1>3, <2>1, <2>2
<1>9. Leaning(T2, h, U, p)
  BY <1>1, <1>7, <1>8 DEF Leaning
<1> QED  BY <1>9 DEF p, P

\* So does the first of two to the left.
LEMMA LeanInner ==
  ASSUME NEW T, NEW g, NEW U, NEW k, NEW K, NEW H, NEW b, NEW a, Turning(T, g, U, k, K, H, b, a),
         NEW T2, NEW h, IsTurn(T, T2, g, h, U, k, K, H, T.parent[a]),
         T.right[T.parent[a]] = a, T.left[T.parent[T.parent[a]]] = T.parent[a]
  PROVE  Leaning(T2, h, U, T.parent[a])
<1> DEFINE L == T.left
           R == T.right
           P == T.parent
           L2 == T2.left
           R2 == T2.right
           P2 == T2.parent
           p == P[a]
           q == P[p]
<1>1. /\ U \subseteq Node /\ NULL \notin Node /\ RED # BLACK /\ a # NULL /\ p # NULL /\ q # NULL
      /\ a \in U /\ p \in U /\ q \in U /\ a # p /\ p # q /\ a # q
      /\ T.color[a] = RED /\ T.color[p] = RED
      /\ \A x \in U : /\ L[x] \in U \cup {NULL} /\ R[x] \in U \cup {NULL}
                      /\ (L[x] # NULL => P[L[x]] = x) /\ (R[x] # NULL => P[R[x]] = x)
                      /\ P[x] \in U \cup {NULL}
                      /\ L[x] # NULL => L[x] # R[x]
  BY TurningFacts
<1>2. R[p] = a /\ L[q] = p /\ P[a] = p /\ P[p] = q
  OBVIOUS
<1>3. Shape(L, R, g)
  BY DEF Turning, Forest, Rooted
<1>4. \A n \in Node : /\ L2[n] = IF n = a THEN p ELSE IF L[n] = p THEN a ELSE L[n]
                      /\ R2[n] = IF n = p THEN L[a] ELSE IF R[n] = p THEN a ELSE R[n]
                      /\ P2[n] = IF n = p THEN a ELSE IF n = a THEN q
                                 ELSE IF n = L[a] THEN p ELSE P[n]
  BY DEF IsTurn, Turned
<1>5. \A x : /\ Lean(T, x) <=> (L[x] = NULL /\ P[x] # NULL /\ L[P[x]] = x => R[x] = NULL)
             /\ Lean(T2, x) <=> (L2[x] = NULL /\ P2[x] # NULL /\ L2[P2[x]] = x => R2[x] = NULL)
  BY DEF Lean
<1>6. /\ \A x \in U \ {p} : Lean(T, x)
      /\ L[a] = NULL /\ R[a] = NULL /\ R[q] = NULL
  <2>1. Leaning(T, g, U, a)
    BY DEF Turning
  <2>2. ~(\A m \in U : g.pos[m] <= g.hi[a])
    <3>1. g.hi[a] = g.hi[p] /\ g.hi[p] < g.pos[q] /\ g.hi[p] \in Int /\ g.pos[q] \in Int
      BY <1>1, <1>2, <1>3, ParentInterval
    <3> QED  BY <1>1, <3>1
  <2>3. L[p] # a
    BY <1>1, <1>2
  <2> QED  BY <1>1, <1>2, <2>1, <2>2, <2>3 DEF Leaning
<1>10. T2.parent[p] = P2[p] /\ T2.left[P2[p]] = L2[P2[p]] /\ T2.right[P2[p]] = R2[P2[p]]
       /\ T2.parent[P2[p]] = P2[P2[p]]
  OBVIOUS
<1> HIDE DEF L, R, P, p, q
<1>7. ASSUME NEW x \in U PROVE Lean(T2, x)
  <2> HIDE DEF L2, R2, P2
  <2>1. CASE x = p
    BY <1>1, <1>4, <1>5, <1>6, <2>1
  <2>2. CASE x = a
    <3>1. L2[x] # NULL
      BY <1>1, <1>4, <2>2
    <3> QED  BY <1>5, <3>1
  <2>3. CASE x # p /\ x # a
    <3>1. P2[x] = P[x] /\ x \in Node
      BY <1>1, <1>4, <1>6, <2>3
    <3> SUFFICES ASSUME L2[x] = NULL, P[x] # NULL, L2[P[x]] = x PROVE R2[x] = NULL
      BY <1>5, <3>1
    <3>2. P[x] \in Node
      BY <1>1
    <3>3. L[P[x]] = x
      BY <1>1, <1>4, <1>6, <2>3, <3>1, <3>2
    <3>4. L[x] = NULL
      BY <1>1, <1>4, <2>3, <3>1
    <3>5. R[x] = NULL
      BY <1>5, <1>6, <2>3, <3>3, <3>4
    <3> QED  BY <1>1, <1>4, <2>3, <3>1, <3>5
  <2> QED  BY <2>1, <2>2, <2>3
<1>8. /\ P2[p] = a /\ L2[a] = p /\ R2[a] = NULL /\ P2[a] = q /\ L2[q] = a /\ R2[q] = NULL
  <2> HIDE DEF L2, R2, P2
  <2> QED  BY <1>1, <1>2, <1>4, <1>6
<1>9. Leaning(T2, h, U, p)
  BY <1>1, <1>7, <1>8 DEF Leaning
<1> QED  BY <1>9 DEF p, P

\* The second rotation, to the left, keeps the list lean.
LEMMA LeanOuter ==
  ASSUME NEW T, NEW g, NEW U, NEW k, NEW K, NEW H, NEW b, NEW a, Turning(T, g, U, k, K, H, b, a),
         T.right[T.parent[a]] = a, T.right[T.parent[T.parent[a]]] = T.parent[a],
         NEW T2, Turned(T.left, T.right, T.parent, T2.left, T2.right, T2.parent, T.parent[T.parent[a]])
  PROVE  \A x \in U : Lean(T2, x)
<1> DEFINE L == T.left
           R == T.right
           P == T.parent
           L2 == T2.left
           R2 == T2.right
           P2 == T2.parent
           p == P[a]
           q == P[p]
<1>1. /\ U \subseteq Node /\ NULL \notin Node /\ RED # BLACK /\ a # NULL /\ p # NULL /\ q # NULL
      /\ a \in U /\ p \in U /\ q \in U /\ a # p /\ p # q /\ a # q
      /\ T.color[a] = RED /\ T.color[p] = RED
      /\ \A x \in U : /\ L[x] \in U \cup {NULL} /\ R[x] \in U \cup {NULL}
                      /\ (L[x] # NULL => P[L[x]] = x) /\ (R[x] # NULL => P[R[x]] = x)
                      /\ P[x] \in U \cup {NULL}
                      /\ L[x] # NULL => L[x] # R[x]
  BY TurningFacts
<1>2. R[p] = a /\ R[q] = p /\ P[a] = p /\ P[p] = q
  OBVIOUS
<1>3. \A n \in Node : /\ L2[n] = IF n = p THEN q ELSE IF L[n] = q THEN p ELSE L[n]
                      /\ R2[n] = IF n = q THEN L[p] ELSE IF R[n] = q THEN p ELSE R[n]
                      /\ P2[n] = IF n = q THEN p ELSE IF n = p THEN P[q]
                                 ELSE IF n = L[p] THEN q ELSE P[n]
  BY DEF Turned
<1>4. \A x : /\ Lean(T, x) <=> (L[x] = NULL /\ P[x] # NULL /\ L[P[x]] = x => R[x] = NULL)
             /\ Lean(T2, x) <=> (L2[x] = NULL /\ P2[x] # NULL /\ L2[P2[x]] = x => R2[x] = NULL)
  BY DEF Lean
<1>5. \A x \in U : Lean(T, x)
  <2>1. Leaning(T, g, U, a)
    BY DEF Turning
  <2>2. L[q] # p
    BY <1>1, <1>2
  <2> QED  BY <1>1, <1>2, <2>1, <2>2 DEF Leaning
<1>8. L[q] # q
  <2>1. Shape(L, R, g)
    BY DEF Turning, Forest, Rooted
  <2> QED  BY <1>1, <2>1, Different
<1>6. L[q] = NULL => L[p] = NULL
  <2>1. /\ \A n \in U : /\ b[n] \in Nat /\ T.color[n] \in {RED, BLACK}
                        /\ Height(b, L[n]) = Height(b, R[n])
                        /\ b[n] = Height(b, L[n]) + (IF T.color[n] = BLACK THEN 1 ELSE 0)
        /\ \A n \in U \ {a} : T.color[n] = RED => P[n] # NULL /\ T.color[P[n]] = BLACK
    BY DEF Turning, IsFix, Coloured
  <2> HIDE DEF L, R, P, p, q
  <2> SUFFICES ASSUME L[q] = NULL, L[p] # NULL PROVE FALSE
    OBVIOUS
  <2>2. Height(b, NULL) = 0 /\ \A x \in U : Height(b, x) = b[x]
    BY <1>1 DEF Height
  <2>3. b[p] = 0
    BY <1>1, <1>2, <2>1, <2>2
  <2>4. L[p] \in U /\ L[p] # a /\ P[L[p]] = p
    BY <1>1, <1>2
  <2>5. b[L[p]] = 0
    BY <1>1, <2>1, <2>2, <2>3, <2>4
  <2>6. T.color[L[p]] = BLACK
    BY <1>1, <2>1, <2>4
  <2>7. b[L[p]] = Height(b, L[L[p]]) + 1
    BY <2>1, <2>4, <2>6
  <2>8. Height(b, L[L[p]]) \in Nat
    <3>1. L[L[p]] \in U \cup {NULL}
      BY <1>1, <2>4
    <3> QED  BY <2>1, <2>2, <3>1
  <2> QED  BY <2>5, <2>7, <2>8
<1> HIDE DEF L, R, P, L2, R2, P2, p, q
<1>7. ASSUME NEW x \in U PROVE Lean(T2, x)
  <2>0. x \in Node
    BY <1>1
  <2>1. CASE x = q
    <3>1. L2[x] = L[q] /\ R2[x] = L[p]
      BY <1>1, <1>3, <1>8, <2>1
    <3> QED  BY <1>4, <1>6, <3>1
  <2>2. CASE x = p
    <3>1. L2[x] # NULL
      BY <1>1, <1>3, <2>2
    <3> QED  BY <1>4, <3>1
  <2>3. CASE x # q /\ x # p /\ x = L[p]
    <3>1. P2[x] = q /\ P[x] = p /\ x # NULL
      BY <1>1, <1>3, <2>0, <2>3
    <3>2. L[q] # x
      BY <1>1, <3>1
    <3>3. L2[q] # x
      BY <1>1, <1>3, <2>3, <3>2
    <3> QED  BY <1>4, <3>1, <3>3
  <2>4. CASE x # q /\ x # p /\ x # L[p]
    <3>1. P2[x] = P[x]
      BY <1>3, <2>0, <2>4
    <3> SUFFICES ASSUME L2[x] = NULL, P[x] # NULL, L2[P[x]] = x PROVE R2[x] = NULL
      BY <1>4, <3>1
    <3>2. P[x] \in Node
      BY <1>1
    <3>3. L[P[x]] = x
      BY <1>3, <2>4, <3>2
    <3>4. L[x] = NULL
      BY <1>1, <1>3, <2>0, <2>4
    <3>5. R[x] = NULL
      BY <1>4, <1>5, <3>3, <3>4
    <3> QED  BY <1>1, <1>3, <2>0, <2>4, <3>5
  <2> QED  BY <2>1, <2>2, <2>3, <2>4
<1> QED  BY <1>7

\* So does the second to the right.
LEMMA LeanOuterBack ==
  ASSUME NEW T, NEW g, NEW U, NEW k, NEW K, NEW H, NEW b, NEW a, Turning(T, g, U, k, K, H, b, a),
         T.left[T.parent[a]] = a, T.left[T.parent[T.parent[a]]] = T.parent[a],
         NEW T2, Turned(T.right, T.left, T.parent, T2.right, T2.left, T2.parent, T.parent[T.parent[a]])
  PROVE  \A x \in U : Lean(T2, x)
<1> DEFINE L == T.left
           R == T.right
           P == T.parent
           L2 == T2.left
           R2 == T2.right
           P2 == T2.parent
           p == P[a]
           q == P[p]
<1>1. /\ U \subseteq Node /\ NULL \notin Node /\ RED # BLACK /\ a # NULL /\ p # NULL /\ q # NULL
      /\ a \in U /\ p \in U /\ q \in U /\ a # p /\ p # q /\ a # q
      /\ T.color[a] = RED /\ T.color[p] = RED
      /\ \A x \in U : /\ L[x] \in U \cup {NULL} /\ R[x] \in U \cup {NULL}
                      /\ (L[x] # NULL => P[L[x]] = x) /\ (R[x] # NULL => P[R[x]] = x)
                      /\ P[x] \in U \cup {NULL}
                      /\ L[x] # NULL => L[x] # R[x]
  BY TurningFacts
<1>2. L[p] = a /\ L[q] = p /\ P[a] = p /\ P[p] = q
  OBVIOUS
<1>3. \A n \in Node : /\ R2[n] = IF n = p THEN q ELSE IF R[n] = q THEN p ELSE R[n]
                      /\ L2[n] = IF n = q THEN R[p] ELSE IF L[n] = q THEN p ELSE L[n]
                      /\ P2[n] = IF n = q THEN p ELSE IF n = p THEN P[q]
                                 ELSE IF n = R[p] THEN q ELSE P[n]
  BY DEF Turned
<1>4. \A x : /\ Lean(T, x) <=> (L[x] = NULL /\ P[x] # NULL /\ L[P[x]] = x => R[x] = NULL)
             /\ Lean(T2, x) <=> (L2[x] = NULL /\ P2[x] # NULL /\ L2[P2[x]] = x => R2[x] = NULL)
  BY DEF Lean
<1>5. R[p] = NULL /\ R[q] = NULL /\ \A x \in U : Lean(T, x)
  <2>1. Leaning(T, g, U, a)
    BY DEF Turning
  <2>2. Shape(L, R, g)
    BY DEF Turning, Forest, Rooted
  <2>3. /\ g.hi[a] < g.pos[p] /\ g.hi[a] \in Int /\ g.pos[p] \in Int /\ g.pos[p] <= g.hi[p]
        /\ g.hi[p] < g.pos[q] /\ g.hi[p] \in Int /\ g.pos[q] \in Int
    BY <1>1, <1>2, <2>2, ParentInterval
  <2>4. ~(\A m \in U : g.pos[m] <= g.hi[a])
    BY <1>1, <2>3
  <2>5. ~Last(g, U, p)
    BY <1>1, <2>3 DEF Last
  <2>6. R[p] # a
    BY <1>1, <1>2
  <2> QED  BY <1>1, <1>2, <2>1, <2>4, <2>5, <2>6 DEF Leaning
<1> HIDE DEF L, R, P, L2, R2, P2, p, q
<1>7. ASSUME NEW x \in U PROVE Lean(T2, x)
  <2>0. x \in Node
    BY <1>1
  <2>1. CASE x = q
    <3>1. P2[x] = p /\ L2[p] # q
      BY <1>1, <1>2, <1>3, <2>1
    <3> QED  BY <1>4, <2>1, <3>1
  <2>2. CASE x = p
    <3>1. L2[x] # NULL
      BY <1>1, <1>2, <1>3, <2>2
    <3> QED  BY <1>4, <3>1
  <2>3. CASE x # q /\ x # p
    <3>1. P2[x] = P[x]
      BY <1>1, <1>3, <1>5, <2>0, <2>3
    <3> SUFFICES ASSUME L2[x] = NULL, P[x] # NULL, L2[P[x]] = x PROVE R2[x] = NULL
      BY <1>4, <3>1
    <3>2. P[x] \in Node
      BY <1>1
    <3>3. L[P[x]] = x
      BY <1>1, <1>3, <1>5, <2>0, <2>3, <3>2
    <3>4. L[x] = NULL
      BY <1>1, <1>3, <2>0, <2>3
    <3>5. R[x] = NULL
      BY <1>4, <1>5, <3>3, <3>4
    <3> QED  BY <1>1, <1>3, <2>0, <2>3, <3>5
  <2> QED  BY <2>1, <2>2, <2>3
<1> QED  BY <1>7

\* With a black parent the loop ends, and the list is lean.
LEMMA LeanEnds ==
  ASSUME NEW T, NEW T2, NEW g, NEW U, NEW a, Leaning(T, g, U, a), a # NULL,
         T.parent[a] = NULL \/ T.color[T.parent[a]] = BLACK,
         T2.left = T.left, T2.right = T.right, T2.parent = T.parent
  PROVE  Leaning(T2, g, U, NULL)
<1>1. \A x \in U : Lean(T, x)
  <2>1. RED # BLACK
    BY DEF RED, BLACK
  <2> QED  BY <2>1 DEF Leaning
<1> QED  BY <1>1 DEF Leaning, Lean

\* The loop goes on further up, if parent and uncle are red.
LEMMA LeanUp ==
  ASSUME NEW T, NEW T2, NEW g, NEW U, NEW k, NEW K, NEW H, NEW b, NEW a,
         Turning(T, g, U, k, K, H, b, a),
         T.left[T.parent[T.parent[a]]] # NULL, T.right[T.parent[T.parent[a]]] # NULL,
         T2.left = T.left, T2.right = T.right, T2.parent = T.parent
  PROVE  Leaning(T2, g, U, T.parent[T.parent[a]])
<1> DEFINE p == T.parent[a]
           q == T.parent[p]
<1>1. /\ U \subseteq Node /\ NULL \notin Node /\ a # NULL /\ p # NULL /\ q # NULL
      /\ a \in U /\ p \in U /\ q \in U /\ RED # BLACK /\ T.color[p] = RED
      /\ T.left[p] = a \/ T.right[p] = a
      /\ T.left[q] = p \/ T.right[q] = p
  BY TurningFacts
<1>2. Shape(T.left, T.right, g) /\ Leaning(T, g, U, a)
  BY DEF Turning, Forest, Rooted
<1>3. T.left[q] # NULL /\ T.right[q] # NULL
  OBVIOUS
<1>4. /\ \A x \in U : Lean(T, x)
      /\ (\A m \in U : g.pos[m] <= g.hi[a]) \/ Last(g, U, p)
  BY <1>1, <1>2, <1>3 DEF Leaning
<1>5. /\ g.hi[a] \in Int /\ g.hi[p] \in Int /\ g.hi[q] \in Int /\ g.pos[p] \in Int
      /\ g.hi[a] <= g.hi[p] /\ g.pos[p] <= g.hi[p] /\ g.hi[p] <= g.hi[q]
  BY <1>1, <1>2, ParentInterval
<1>6. \A m \in U : g.pos[m] \in Int
  BY <1>1, <1>2 DEF Shape
<1>7. \A m \in U : g.pos[m] <= g.hi[q]
  BY <1>4, <1>5, <1>6 DEF Last
<1>8. \A x \in U : Lean(T2, x)
  BY <1>4 DEF Lean
<1> HIDE DEF p, q
<1>9. Leaning(T2, g, U, q)
  BY <1>1, <1>7, <1>8 DEF Leaning
<1> QED  BY <1>9 DEF p, q

\* Only the colours change.
SetColours(T, col) ==
  [root |-> T.root, key |-> T.key, color |-> col, left |-> T.left, right |-> T.right, parent |-> T.parent]

\* The other fields stay.
LEMMA ColoursSet ==
  ASSUME NEW T, Typed(T), NEW col \in [Node -> {RED, BLACK}]
  PROVE  LET T2 == SetColours(T, col) IN
         /\ Typed(T2) /\ T2.root = T.root /\ T2.key = T.key /\ T2.color = col
         /\ T2.left = T.left /\ T2.right = T.right /\ T2.parent = T.parent
<1> DEFINE T2 == SetColours(T, col)
<1>1. T2 = [root |-> T.root, key |-> T.key, color |-> col, left |-> T.left, right |-> T.right,
            parent |-> T.parent]
  BY DEF SetColours
<1> HIDE DEF T2
<1>2. /\ T2.root = T.root /\ T2.key = T.key /\ T2.color = col
      /\ T2.left = T.left /\ T2.right = T.right /\ T2.parent = T.parent
  BY <1>1
<1>3. Typed(T2)
  BY <1>1, Fields DEF Typed
<1> QED  BY <1>2, <1>3 DEF T2

\* The first of two rotations, if the child is on the inner side.
LEMMA RotateInner ==
  ASSUME NEW T, NEW g, NEW U, NEW K, NEW b, NEW a, Grown(T, g, U, K, b, a), a # NULL,
         T.parent[a] # NULL, T.color[T.parent[a]] = RED
  PROVE  LET p == T.parent[a]
             q == T.parent[p]
             T2 == Rotate(T, p, "left", "right")
             T3 == Rotate(T, p, "right", "left")
         IN /\ T.right[p] = a /\ T.left[q] = p =>
                 /\ \E h : Grown(T2, h, U, K, b, p)
                 /\ T2.color = T.color /\ T2.parent[p] = a /\ T2.left[a] = p
                 /\ T2.parent[a] = q /\ T2.left[q] = a /\ T2.right[q] = T.right[q]
            /\ T.left[p] = a /\ T.right[q] = p =>
                 /\ \E h : Grown(T3, h, U, K, b, p)
                 /\ T3.color = T.color /\ T3.parent[p] = a /\ T3.right[a] = p
                 /\ T3.parent[a] = q /\ T3.right[q] = a /\ T3.left[q] = T.left[q]
<1> DEFINE p == T.parent[a]
           q == T.parent[p]
           T2 == Rotate(T, p, "left", "right")
           T3 == Rotate(T, p, "right", "left")
           L == T.left
           R == T.right
           P == T.parent
<1>1. /\ Sound(T, g, U, K) /\ Thin(T, g, U, a) /\ Coloured(L, R, P, T.color, b, U, a)
      /\ Forest(T, g, U, pool_root, K, heap)
  BY DEF Grown, Sound
<1>2. IsFix(L, R, P, g, T.root, U, T.color, b, a) /\ P[a] # NULL /\ T.color[P[a]] = RED
  BY <1>1 DEF IsFix, Forest, Rooted
<1>3. /\ U \subseteq Node /\ NULL \notin U /\ RED # BLACK
      /\ a \in U /\ p \in U /\ q \in U /\ a # p /\ p # q /\ a # q
      /\ L[p] = a \/ R[p] = a
      /\ L[q] = p \/ R[q] = p
  BY <1>2, RedParent
<1>4. MaxEqual <= 2 /\ kind = "matches" => Turning(T, g, U, pool_root, K, heap, b, a)
  BY <1>1, <1>2 DEF Thin, Turning
<1>5. ASSUME R[p] = a, L[q] = p
      PROVE  /\ \E h : Grown(T2, h, U, K, b, p)
             /\ T2.color = T.color /\ T2.parent[p] = a /\ T2.left[a] = p
             /\ T2.parent[a] = q /\ T2.left[q] = a /\ T2.right[q] = R[q]
  <2>1. PICK h : IsTurn(T, T2, g, h, U, pool_root, K, heap, p)
    BY <1>1, <1>3, <1>5, ForestTurned
  <2> HIDE DEF T2
  <2>2. /\ Forest(T2, h, U, pool_root, K, heap) /\ SamePool(T, T2, K) /\ T2.key = T.key
        /\ T2.color = T.color /\ \A n \in Node : h.pos[n] = g.pos[n]
    BY <2>1 DEF IsTurn, SameLabels, Steady
  <2>3. Sound(T2, h, U, K)
    BY <1>1, <2>2, Alike
  <2>4. Thin(T2, h, U, p)
    BY <1>4, <1>5, <2>1, LeanInner DEF Thin
  <2> DEFINE L2 == T2.left
             R2 == T2.right
             P2 == T2.parent
  <2>5. Turned(L, R, P, L2, R2, P2, p)
    BY <2>1 DEF IsTurn
  <2> HIDE DEF L2, R2, P2, L, R, P
  <2>6. Coloured(L2, R2, P2, T.color, b, U, p)
    <3>1. R[P[a]] = a /\ Turned(L, R, P, L2, R2, P2, P[a])
      BY <1>5, <2>5 DEF P
    <3>2. Coloured(L2, R2, P2, T.color, b, U, P[a])
      BY <1>2, <3>1, InnerTurn
    <3> QED  BY <3>2 DEF P
  <2>7. Grown(T2, h, U, K, b, p)
    BY <2>2, <2>3, <2>4, <2>6 DEF Grown, L2, R2, P2
  <2>8. P[p] = q /\ p \in Node /\ a \in Node /\ q \in Node
    BY <1>3 DEF P
  <2>10. R[q] # p
    <3>1. L[q] # R[q]
      BY <1>2, <1>3, <1>5, <2>8, Different DEF IsFix
    <3> QED  BY <1>5, <3>1
  <2> HIDE DEF p, q
  <2>9. /\ P2[p] = a /\ L2[a] = p /\ P2[a] = q /\ L2[q] = a /\ R2[q] = R[q]
    BY <1>3, <1>5, <2>5, <2>8, <2>10 DEF Turned
  <2> QED  BY <2>2, <2>7, <2>9 DEF L2, R2, P2
<1>6. ASSUME L[p] = a, R[q] = p
      PROVE  /\ \E h : Grown(T3, h, U, K, b, p)
             /\ T3.color = T.color /\ T3.parent[p] = a /\ T3.right[a] = p
             /\ T3.parent[a] = q /\ T3.right[q] = a /\ T3.left[q] = L[q]
  <2>1. PICK h : IsTurnBack(T, T3, g, h, U, pool_root, K, heap, p)
    BY <1>1, <1>3, <1>6, ForestTurned
  <2> HIDE DEF T3
  <2>2. /\ Forest(T3, h, U, pool_root, K, heap) /\ SamePool(T, T3, K) /\ T3.key = T.key
        /\ T3.color = T.color /\ \A n \in Node : h.pos[n] = g.pos[n]
    BY <2>1 DEF IsTurnBack, SameLabels, Steady
  <2>3. Sound(T3, h, U, K)
    BY <1>1, <2>2, Alike
  <2>4. Thin(T3, h, U, p)
    BY <1>4, <1>6, <2>1, LeanInnerBack DEF Thin
  <2> DEFINE L2 == T3.left
             R2 == T3.right
             P2 == T3.parent
  <2>5. Turned(R, L, P, R2, L2, P2, p)
    BY <2>1 DEF IsTurnBack
  <2> HIDE DEF L2, R2, P2, L, R, P
  <2>6. Coloured(L2, R2, P2, T.color, b, U, p)
    <3>1. L[P[a]] = a /\ Turned(R, L, P, R2, L2, P2, P[a])
      BY <1>6, <2>5 DEF P
    <3>2. IsFix(R, L, P, Mirrored(g), T.root, U, T.color, b, a)
      BY <1>2, OtherSide
    <3>3. Coloured(R2, L2, P2, T.color, b, U, P[a])
      BY <1>2, <3>1, <3>2, InnerTurn
    <3> QED  BY <3>3, OtherSide DEF P
  <2>7. Grown(T3, h, U, K, b, p)
    BY <2>2, <2>3, <2>4, <2>6 DEF Grown, L2, R2, P2
  <2>8. P[p] = q /\ p \in Node /\ a \in Node /\ q \in Node
    BY <1>3 DEF P
  <2>10. L[q] # p
    <3>1. L[q] # NULL => L[q] # R[q]
      BY <1>2, <2>8, Different DEF IsFix
    <3> QED  BY <1>3, <1>6, <3>1
  <2> HIDE DEF p, q
  <2>9. /\ P2[p] = a /\ R2[a] = p /\ P2[a] = q /\ R2[q] = a /\ L2[q] = L[q]
    BY <1>3, <1>6, <2>5, <2>8, <2>10 DEF Turned
  <2> QED  BY <2>2, <2>7, <2>9 DEF L2, R2, P2
<1> QED  BY <1>5, <1>6

\* The second, which ends the loop.
LEMMA RotateOuter ==
  ASSUME NEW T, NEW g, NEW U, NEW K, NEW b, NEW a, Grown(T, g, U, K, b, a), a # NULL,
         T.parent[a] # NULL, T.color[T.parent[a]] = RED
  PROVE  LET p == T.parent[a]
             q == T.parent[p]
             C == SetColours(T, RaisedColour(T.color, p, q))
         IN /\ /\ T.right[p] = a /\ T.right[q] = p
               /\ T.left[q] = NULL \/ T.color[T.left[q]] = BLACK
               => \E h, b2 : Grown(Rotate(C, q, "left", "right"), h, U, K, b2, a)
            /\ /\ T.left[p] = a /\ T.left[q] = p
               /\ T.right[q] = NULL \/ T.color[T.right[q]] = BLACK
               => \E h, b2 : Grown(Rotate(C, q, "right", "left"), h, U, K, b2, a)
<1> DEFINE p == T.parent[a]
           q == T.parent[p]
           col2 == RaisedColour(T.color, p, q)
           b2 == RaisedHeight(b, p, q)
           C == SetColours(T, col2)
           T2 == Rotate(C, q, "left", "right")
           T3 == Rotate(C, q, "right", "left")
           L == T.left
           R == T.right
           P == T.parent
<1>1. /\ Sound(T, g, U, K) /\ Thin(T, g, U, a) /\ Coloured(L, R, P, T.color, b, U, a)
      /\ Forest(T, g, U, pool_root, K, heap) /\ Typed(T)
  BY DEF Grown, Sound, Forest
<1>2. IsFix(L, R, P, g, T.root, U, T.color, b, a) /\ P[a] # NULL /\ T.color[P[a]] = RED
  BY <1>1 DEF IsFix, Forest, Rooted
<1>3. /\ U \subseteq Node /\ NULL \notin U /\ RED # BLACK
      /\ a \in U /\ p \in U /\ q \in U /\ a # p /\ p # q /\ a # q
      /\ L[p] = a \/ R[p] = a
      /\ L[q] = p \/ R[q] = p
  BY <1>2, RedParent
<1>4. MaxEqual <= 2 /\ kind = "matches" => Turning(T, g, U, pool_root, K, heap, b, a)
  BY <1>1, <1>2 DEF Thin, Turning
<1>5. col2 \in [Node -> {RED, BLACK}] /\ col2[p] = BLACK
  <2>1. T.color \in [Node -> {RED, BLACK}]
    BY <1>1, Fields
  <2> QED  BY <1>3, <2>1 DEF RaisedColour
<1>6. /\ Typed(C) /\ C.root = T.root /\ C.key = T.key /\ C.color = col2
      /\ C.left = L /\ C.right = R /\ C.parent = P
  <2> HIDE DEF col2
  <2> QED  BY <1>1, <1>5, ColoursSet
<1> HIDE DEF C, col2, b2
<1>7. Forest(C, g, U, pool_root, K, heap) /\ SamePool(T, C, K)
  BY <1>1, <1>6, SamePointers
<1>8. Sound(C, g, U, K)
  BY <1>1, <1>6, <1>7, Alike
<1>9. ASSUME R[p] = a, R[q] = p, L[q] = NULL \/ T.color[L[q]] = BLACK
      PROVE  \E h : Grown(T2, h, U, K, b2, a)
  <2>1. PICK h : IsTurn(C, T2, g, h, U, pool_root, K, heap, q)
    <3>1. C.right[q] # NULL
      BY <1>3, <1>6, <1>9
    <3> QED  BY <1>3, <1>7, <3>1, ForestTurned
  <2> HIDE DEF T2
  <2>2. /\ Forest(T2, h, U, pool_root, K, heap) /\ SamePool(C, T2, K) /\ T2.key = C.key
        /\ T2.color = col2 /\ \A n \in Node : h.pos[n] = g.pos[n]
    BY <1>6, <2>1 DEF IsTurn, SameLabels, Steady
  <2>3. Sound(T2, h, U, K)
    BY <1>8, <2>2, Alike
  <2> DEFINE L2 == T2.left
             R2 == T2.right
             P2 == T2.parent
  <2>4. Turned(L, R, P, L2, R2, P2, q)
    BY <1>6, <2>1 DEF IsTurn
  <2> HIDE DEF L2, R2, P2
  <2>5. Coloured(L2, R2, P2, col2, b2, U, a) /\ P2[a] = p
    <3> HIDE DEF L, R
    <3>1. /\ R[P[a]] = a /\ R[P[P[a]]] = P[a] /\ (L[P[P[a]]] = NULL \/ T.color[L[P[P[a]]]] = BLACK)
          /\ Turned(L, R, P, L2, R2, P2, P[P[a]])
      BY <1>9, <2>4
    <3> HIDE DEF P
    <3>2. /\ Coloured(L2, R2, P2, RaisedColour(T.color, P[a], P[P[a]]), RaisedHeight(b, P[a], P[P[a]]), U, a)
          /\ P2[a] = P[a]
      BY <1>2, <3>1, OuterTurn
    <3> QED  BY <3>2 DEF P, col2, b2
  <2>6. Thin(T2, h, U, a)
    <3> SUFFICES ASSUME MaxEqual <= 2, kind = "matches" PROVE Leaning(T2, h, U, a)
      BY DEF Thin
    <3>1. \A x \in U : Lean(T2, x)
      BY <1>4, <1>9, <2>4, LeanOuter DEF L2, R2, P2
    <3>2. T2.color[T2.parent[a]] = BLACK
      BY <1>5, <2>2, <2>5 DEF P2
    <3> QED  BY <3>1, <3>2 DEF Leaning
  <2> QED  BY <2>2, <2>3, <2>5, <2>6 DEF Grown, L2, R2, P2
<1>10. ASSUME L[p] = a, L[q] = p, R[q] = NULL \/ T.color[R[q]] = BLACK
       PROVE  \E h : Grown(T3, h, U, K, b2, a)
  <2>1. PICK h : IsTurnBack(C, T3, g, h, U, pool_root, K, heap, q)
    <3>1. C.left[q] # NULL
      BY <1>3, <1>6, <1>10
    <3> QED  BY <1>3, <1>7, <3>1, ForestTurned
  <2> HIDE DEF T3
  <2>2. /\ Forest(T3, h, U, pool_root, K, heap) /\ SamePool(C, T3, K) /\ T3.key = C.key
        /\ T3.color = col2 /\ \A n \in Node : h.pos[n] = g.pos[n]
    BY <1>6, <2>1 DEF IsTurnBack, SameLabels, Steady
  <2>3. Sound(T3, h, U, K)
    BY <1>8, <2>2, Alike
  <2> DEFINE L2 == T3.left
             R2 == T3.right
             P2 == T3.parent
  <2>4. Turned(R, L, P, R2, L2, P2, q)
    BY <1>6, <2>1 DEF IsTurnBack
  <2> HIDE DEF L2, R2, P2
  <2>5. Coloured(L2, R2, P2, col2, b2, U, a) /\ P2[a] = p
    <3> HIDE DEF L, R
    <3>1. /\ L[P[a]] = a /\ L[P[P[a]]] = P[a] /\ (R[P[P[a]]] = NULL \/ T.color[R[P[P[a]]]] = BLACK)
          /\ Turned(R, L, P, R2, L2, P2, P[P[a]])
      BY <1>10, <2>4
    <3>2. IsFix(R, L, P, Mirrored(g), T.root, U, T.color, b, a)
      BY <1>2, OtherSide
    <3> HIDE DEF P
    <3>3. /\ Coloured(R2, L2, P2, RaisedColour(T.color, P[a], P[P[a]]), RaisedHeight(b, P[a], P[P[a]]), U, a)
          /\ P2[a] = P[a]
      BY <1>2, <3>1, <3>2, OuterTurn
    <3>4. Coloured(R2, L2, P2, col2, b2, U, a) /\ P2[a] = p
      BY <3>3 DEF P, col2, b2
    <3> QED  BY <3>4, OtherSide
  <2>6. Thin(T3, h, U, a)
    <3> SUFFICES ASSUME MaxEqual <= 2, kind = "matches" PROVE Leaning(T3, h, U, a)
      BY DEF Thin
    <3>1. \A x \in U : Lean(T3, x)
      BY <1>4, <1>10, <2>4, LeanOuterBack DEF L2, R2, P2
    <3>2. T3.color[T3.parent[a]] = BLACK
      BY <1>5, <2>2, <2>5 DEF P2
    <3> QED  BY <3>1, <3>2 DEF Leaning
  <2> QED  BY <2>2, <2>3, <2>5, <2>6 DEF Grown, L2, R2, P2
<1> QED  BY <1>9, <1>10 DEF C, col2

\* One assignment to a colour changes only that.
LEMMA ColourSet ==
  ASSUME NEW T, Typed(T), NEW p \in Node, NEW c \in {RED, BLACK}
  PROVE  /\ [T EXCEPT !.color[p] = c] = SetColours(T, [T.color EXCEPT ![p] = c])
         /\ [T.color EXCEPT ![p] = c] \in [Node -> {RED, BLACK}]
<1>1. /\ T = [root |-> T.root, key |-> T.key, color |-> T.color, left |-> T.left,
              right |-> T.right, parent |-> T.parent]
      /\ T.color \in [Node -> {RED, BLACK}]
  BY Fields
<1> QED  BY <1>1 DEF SetColours

\* Two assignments: p becomes black, q red.
Raised(T, p, q) == [T EXCEPT !.color[p] = BLACK, !.color[q] = RED]

\* They change nothing else.
LEMMA RaisedIs ==
  ASSUME NEW T, Typed(T), NEW p \in Node, NEW q \in Node, p # q
  PROVE  Raised(T, p, q) = SetColours(T, RaisedColour(T.color, p, q))
<1> DEFINE A == [T EXCEPT !.color[p] = BLACK]
           c1 == [T.color EXCEPT ![p] = BLACK]
<1>1. A = SetColours(T, c1) /\ c1 \in [Node -> {RED, BLACK}]
  BY ColourSet
<1>2. Raised(T, p, q) = [A EXCEPT !.color[q] = RED]
  BY DEF Raised
<1>3. \A n \in Node : c1[n] = IF n = p THEN BLACK ELSE T.color[n]
  BY <1>1, Fields
<1> HIDE DEF A, c1
<1>4. /\ Typed(A) /\ A.color = c1 /\ A.root = T.root /\ A.key = T.key
      /\ A.left = T.left /\ A.right = T.right /\ A.parent = T.parent
  BY <1>1, ColoursSet
<1>5. [A EXCEPT !.color[q] = RED] = SetColours(A, [c1 EXCEPT ![q] = RED])
  BY <1>4, ColourSet
<1>6. [c1 EXCEPT ![q] = RED] = RaisedColour(T.color, p, q)
  <2>1. [c1 EXCEPT ![q] = RED] = [n \in Node |-> IF n = q THEN RED ELSE c1[n]]
    BY <1>1
  <2> QED  BY <1>3, <2>1 DEF RaisedColour
<1> QED  BY <1>2, <1>4, <1>5, <1>6 DEF SetColours

\* Nor do the three assignments of Lighter.
LEMMA LighterIs ==
  ASSUME NEW T, Typed(T), NEW p \in Node, NEW u \in Node, NEW q \in Node, p # q, u # q
  PROVE  /\ Lighter(T, p, u, q) = SetColours(T, LighterColour(T.color, p, u, q))
         /\ LighterColour(T.color, p, u, q) \in [Node -> {RED, BLACK}]
<1> DEFINE A == [T EXCEPT !.color[p] = BLACK]
           c1 == [T.color EXCEPT ![p] = BLACK]
           B == [A EXCEPT !.color[u] = BLACK]
           c2 == [c1 EXCEPT ![u] = BLACK]
<1>1. A = SetColours(T, c1) /\ c1 \in [Node -> {RED, BLACK}]
  BY ColourSet
<1>2. Lighter(T, p, u, q) = [B EXCEPT !.color[q] = RED]
  BY DEF Lighter
<1>3. \A n \in Node : c1[n] = IF n = p THEN BLACK ELSE T.color[n]
  BY <1>1, Fields
<1> HIDE DEF A, c1
<1>4. /\ Typed(A) /\ A.color = c1 /\ A.root = T.root /\ A.key = T.key
      /\ A.left = T.left /\ A.right = T.right /\ A.parent = T.parent
  BY <1>1, ColoursSet
<1>5. B = SetColours(A, c2) /\ c2 \in [Node -> {RED, BLACK}]
  BY <1>4, ColourSet
<1>6. \A n \in Node : c2[n] = IF n = u THEN BLACK ELSE c1[n]
  BY <1>1
<1> HIDE DEF B, c2
<1>7. /\ Typed(B) /\ B.color = c2 /\ B.root = A.root /\ B.key = A.key
      /\ B.left = A.left /\ B.right = A.right /\ B.parent = A.parent
  BY <1>4, <1>5, ColoursSet
<1>8. /\ [B EXCEPT !.color[q] = RED] = SetColours(B, [c2 EXCEPT ![q] = RED])
      /\ [c2 EXCEPT ![q] = RED] \in [Node -> {RED, BLACK}]
  BY <1>7, ColourSet
<1>9. [c2 EXCEPT ![q] = RED] = LighterColour(T.color, p, u, q)
  <2>1. [c2 EXCEPT ![q] = RED] = [n \in Node |-> IF n = q THEN RED ELSE c2[n]]
    BY <1>5
  <2> QED  BY <1>3, <1>6, <2>1 DEF LighterColour
<1> QED  BY <1>2, <1>4, <1>7, <1>8, <1>9 DEF SetColours

\* The pointers to the left and right, selected by the name of the field.
LEMMA Sides ==
  ASSUME NEW T, Typed(T)
  PROVE  T["left"] = T.left /\ T["right"] = T.right /\ "left" # "right"
OBVIOUS

\* When rbtree_fixup's loop recolours, the invariant holds further up.
LEMMA RecolourIs ==
  ASSUME NEW g, NEW U, NEW K, NEW b, Grown(tree, g, U, K, b, at), at # NULL, Recolour
  PROVE  \E b2 : Grown(tree', g, U, K, b2, at') /\ at' # NULL /\ at' \in Node
<1> DEFINE L == tree.left
           R == tree.right
           P == tree.parent
           col == tree.color
           p == P[at]
           q == P[p]
<1>1. /\ Sound(tree, g, U, K) /\ Thin(tree, g, U, at) /\ Coloured(L, R, P, col, b, U, at)
      /\ Forest(tree, g, U, pool_root, K, heap) /\ Typed(tree)
  BY DEF Grown, Sound, Forest
<1>2. /\ Parent = p /\ Gparent = q /\ p # NULL /\ col[p] = RED
      /\ Uncle # NULL /\ col[Uncle] = RED /\ tree' = Lighter(tree, p, Uncle, q) /\ at' = q
  BY DEF Recolour, Parent, Gparent, IsRed
<1>3. IsFix(L, R, P, g, tree.root, U, col, b, at) /\ P[at] # NULL /\ col[P[at]] = RED
  BY <1>1, <1>2 DEF IsFix, Forest, Rooted, Grown
<1>4. /\ U \subseteq Node /\ NULL \notin U /\ RED # BLACK
      /\ at \in U /\ p \in U /\ q \in U /\ at # p /\ p # q /\ at # q
      /\ L[p] = at \/ R[p] = at
      /\ L[q] = p \/ R[q] = p
  BY <1>3, RedParent
<1>5. (L[q] = p /\ Uncle = R[q]) \/ (R[q] = p /\ Uncle = L[q] /\ L[q] # p)
  <2>1. tree["left"] = L /\ tree["right"] = R
    BY <1>1, Sides
  <2>2. CASE p = L[q]
    BY SMTT(30), <1>2, <2>1, <2>2 DEF Uncle, Other, Side
  <2>3. CASE p # L[q]
    BY <1>2, <1>4, <2>1, <2>3 DEF Uncle, Other, Side
  <2> QED  BY <2>2, <2>3
<1> DEFINE u == Uncle
<1>6. u \in U /\ u # q
  <2>1. L[q] \in U \cup {NULL} /\ R[q] \in U \cup {NULL}
    BY <1>3, <1>4 DEF IsFix, Tree
  <2>2. L[q] # q /\ R[q] # q
    BY <1>3, <1>4, Different DEF IsFix
  <2> QED  BY <1>2, <1>5, <2>1, <2>2
<1> HIDE DEF u
<1> DEFINE col2 == LighterColour(col, p, u, q)
           b2 == LighterHeight(b, p, u)
<1>7. tree' = SetColours(tree, col2) /\ col2 \in [Node -> {RED, BLACK}]
  <2> HIDE DEF L, R, P, p, q
  <2>1. p \in Node /\ u \in Node /\ q \in Node /\ p # q /\ u # q
    BY <1>4, <1>6
  <2> QED  BY <1>1, <1>2, <2>1, LighterIs DEF u
<1>8. Coloured(L, R, P, col2, b2, U, q)
  <2> HIDE DEF L, R, P, col, col2, b2
  <2>1. CASE L[q] = p /\ u = R[q]
    <3>1. IsFix(R, L, P, Mirrored(g), tree.root, U, col, b, at)
      BY <1>3, OtherSide
    <3>2. L[P[P[at]]] = P[at] /\ R[P[P[at]]] = u /\ u # NULL /\ col[u] = RED
      BY <1>2, <2>1 DEF u
    <3>3. Coloured(R, L, P, LighterColour(col, P[at], u, P[P[at]]), LighterHeight(b, P[at], u), U, P[P[at]])
      BY <1>3, <3>1, <3>2, Recoloured
    <3>4. Coloured(R, L, P, col2, b2, U, q)
      BY <3>3 DEF col2, b2
    <3> QED  BY <3>4, OtherSide
  <2>2. CASE R[q] = p /\ u = L[q]
    <3>1. R[P[P[at]]] = P[at] /\ L[P[P[at]]] = u /\ u # NULL /\ col[u] = RED
      BY <1>2, <2>2 DEF u
    <3>2. Coloured(L, R, P, LighterColour(col, P[at], u, P[P[at]]), LighterHeight(b, P[at], u), U, P[P[at]])
      BY <1>3, <3>1, Recoloured
    <3> QED  BY <3>2 DEF col2, b2
  <2> QED  BY <1>5, <2>1, <2>2 DEF u
<1>9. L[q] # NULL /\ R[q] # NULL
  BY <1>2, <1>5 DEF u
<1>10. /\ Typed(tree') /\ tree'.root = tree.root /\ tree'.key = tree.key /\ tree'.color = col2
       /\ tree'.left = L /\ tree'.right = R /\ tree'.parent = P
  <2> HIDE DEF col2
  <2> QED  BY <1>1, <1>7, ColoursSet
<1> HIDE DEF col2, b2
<1>11. Forest(tree', g, U, pool_root, K, heap) /\ SamePool(tree, tree', K)
  BY <1>1, <1>10, SamePointers
<1>12. Sound(tree', g, U, K)
  BY <1>1, <1>10, <1>11, Alike
<1>13. Thin(tree', g, U, q)
  <2> SUFFICES ASSUME MaxEqual <= 2, kind = "matches" PROVE Leaning(tree', g, U, q)
    BY DEF Thin
  <2>1. Turning(tree, g, U, pool_root, K, heap, b, at)
    BY <1>1, <1>3 DEF Thin, Turning
  <2> QED  BY <1>9, <1>10, <2>1, LeanUp
<1>14. Grown(tree', g, U, K, b2, q)
  BY <1>8, <1>10, <1>12, <1>13 DEF Grown
<1> QED  BY <1>2, <1>4, <1>14

\* The first rotation, for a given parent p and grandparent q.
LEMMA InnerTurned ==
  ASSUME NEW T, NEW g, NEW U, NEW K, NEW b, NEW a, Grown(T, g, U, K, b, a), a # NULL,
         NEW p, NEW q, p = T.parent[a], q = T.parent[p], p # NULL, T.color[p] = RED
  PROVE  LET T2 == Rotate(T, p, "left", "right")
             T3 == Rotate(T, p, "right", "left")
         IN /\ T.right[p] = a /\ T.left[q] = p =>
                 /\ \E h : Grown(T2, h, U, K, b, p)
                 /\ T2.color = T.color /\ T2.parent[p] = a /\ T2.left[a] = p
                 /\ T2.parent[a] = q /\ T2.left[q] = a /\ T2.right[q] = T.right[q]
            /\ T.left[p] = a /\ T.right[q] = p =>
                 /\ \E h : Grown(T3, h, U, K, b, p)
                 /\ T3.color = T.color /\ T3.parent[p] = a /\ T3.right[a] = p
                 /\ T3.parent[a] = q /\ T3.right[q] = a /\ T3.left[q] = T.left[q]
<1>1. T.parent[a] # NULL /\ T.color[T.parent[a]] = RED
  OBVIOUS
<1>2. q = T.parent[T.parent[a]]
  OBVIOUS
<1>3. /\ T.right[T.parent[a]] = a /\ T.left[T.parent[T.parent[a]]] = T.parent[a] =>
          LET T2 == Rotate(T, T.parent[a], "left", "right") IN
          /\ \E h : Grown(T2, h, U, K, b, T.parent[a])
          /\ T2.color = T.color /\ T2.parent[T.parent[a]] = a /\ T2.left[a] = T.parent[a]
          /\ T2.parent[a] = T.parent[T.parent[a]] /\ T2.left[T.parent[T.parent[a]]] = a
          /\ T2.right[T.parent[T.parent[a]]] = T.right[T.parent[T.parent[a]]]
      /\ T.left[T.parent[a]] = a /\ T.right[T.parent[T.parent[a]]] = T.parent[a] =>
          LET T3 == Rotate(T, T.parent[a], "right", "left") IN
          /\ \E h : Grown(T3, h, U, K, b, T.parent[a])
          /\ T3.color = T.color /\ T3.parent[T.parent[a]] = a /\ T3.right[a] = T.parent[a]
          /\ T3.parent[a] = T.parent[T.parent[a]] /\ T3.right[T.parent[T.parent[a]]] = a
          /\ T3.left[T.parent[T.parent[a]]] = T.left[T.parent[T.parent[a]]]
  BY <1>1, RotateInner
<1> QED  BY <1>2, <1>3

\* When the loop rotates, the invariant holds for the node it is at then.
LEMMA RotateUpIs ==
  ASSUME NEW g, NEW U, NEW K, NEW b, Grown(tree, g, U, K, b, at), at # NULL, RotateUp
  PROVE  \E h, b2 : Grown(tree', h, U, K, b2, at') /\ at' # NULL /\ at' \in Node
<1> DEFINE L == tree.left
           R == tree.right
           P == tree.parent
           col == tree.color
           p == P[at]
           q == P[p]
<1>1. /\ Forest(tree, g, U, pool_root, K, heap) /\ Typed(tree) /\ Coloured(L, R, P, col, b, U, at)
  BY DEF Grown, Sound, Forest
<1>2. Parent = p /\ Gparent = q /\ p # NULL /\ col[p] = RED /\ (Uncle = NULL \/ col[Uncle] # RED)
  BY DEF RotateUp, Parent, Gparent, IsRed
<1>3. IsFix(L, R, P, g, tree.root, U, col, b, at) /\ P[at] # NULL /\ col[P[at]] = RED
  BY <1>1, <1>2 DEF IsFix, Forest, Rooted
<1>4. /\ U \subseteq Node /\ NULL \notin U /\ RED # BLACK
      /\ at \in U /\ p \in U /\ q \in U /\ at # p /\ p # q /\ at # q
      /\ L[p] = at \/ R[p] = at
      /\ L[q] = p \/ R[q] = p
  BY <1>3, RedParent
<1>5. tree["left"] = L /\ tree["right"] = R /\ "left" # "right"
  BY <1>1, Sides
<1>6. L[p] # R[p] /\ L[q] # R[q]
  <2>1. (L[p] # NULL => L[p] # R[p]) /\ (L[q] # NULL => L[q] # R[q])
    BY <1>3, <1>4, Different DEF IsFix
  <2> QED  BY <1>4, <2>1
<1>7. \/ Side = "left" /\ Other = "right" /\ L[q] = p /\ Uncle = R[q]
      \/ Side = "right" /\ Other = "left" /\ R[q] = p /\ Uncle = L[q]
  <2>1. CASE p = L[q]
    BY SMTT(30), <1>2, <1>5, <2>1 DEF Uncle, Other, Side
  <2>2. CASE p # L[q]
    BY <1>2, <1>4, <1>5, <2>2 DEF Uncle, Other, Side
  <2> QED  BY <2>1, <2>2
<1>8. Uncle = NULL \/ col[Uncle] = BLACK
  <2>1. L[q] \in U \cup {NULL} /\ R[q] \in U \cup {NULL}
    BY <1>3, <1>4 DEF IsFix, Tree
  <2>2. \A n \in U : col[n] \in {RED, BLACK}
    BY <1>1 DEF Coloured
  <2> QED  BY <1>2, <1>7, <2>1, <2>2
<1> DEFINE out == IF Inner(tree) THEN Rotate(tree, p, Side, Other) ELSE tree
           top == IF Inner(tree) THEN at ELSE p
           C == [out EXCEPT !.color[top] = BLACK, !.color[q] = RED]
<1>9. tree' = Rotate(C, q, Other, Side) /\ at' = IF Inner(tree) THEN p ELSE at
  <2>1. /\ LET o == IF Inner(tree) THEN Rotate(tree, Parent, Side, Other) ELSE tree
               t == IF Inner(tree) THEN at ELSE Parent
               c == [o EXCEPT !.color[t] = BLACK, !.color[Gparent] = RED]
           IN tree' = Rotate(c, Gparent, Other, Side)
        /\ at' = IF Inner(tree) THEN Parent ELSE at
    BY DEF RotateUp
  <2>2. Parent = p /\ Gparent = q
    BY <1>2
  <2> HIDE DEF p, q
  <2> QED  BY <2>1, <2>2
<1>10. Inner(tree) <=> at = tree[Other][p]
  BY <1>2 DEF Inner
<1>11. /\ tree.color = col /\ tree.left = L /\ tree.right = R /\ tree.parent = P
  OBVIOUS
<1>12. ASSUME NEW T, NEW e, NEW a2, Grown(T, e, U, K, b, a2), a2 # NULL, T.color = col,
              NEW t \in Node, T.parent[a2] = t, T.parent[t] = q, t # q, col[t] = RED,
              \/ T.left[t] = a2 /\ T.left[q] = t /\ (T.right[q] = NULL \/ col[T.right[q]] = BLACK) /\ Side = "left"
              \/ T.right[t] = a2 /\ T.right[q] = t /\ (T.left[q] = NULL \/ col[T.left[q]] = BLACK) /\ Side = "right"
       PROVE  \E h, b2 : Grown(Rotate(Raised(T, t, q), q, Other, Side), h, U, K, b2, a2)
  <2>1. Typed(T)
    BY <1>12 DEF Grown, Sound, Forest
  <2>6. q \in Node
    BY <1>4
  <2> HIDE DEF q, p, col
  <2>2. Raised(T, t, q) = SetColours(T, RaisedColour(T.color, t, q))
    BY <1>12, <2>1, <2>6, RaisedIs
  <2>3. T.parent[a2] # NULL /\ T.color[T.parent[a2]] = RED
    BY <1>12, NodeFacts
  <2>4. CASE T.left[t] = a2 /\ T.left[q] = t /\ (T.right[q] = NULL \/ col[T.right[q]] = BLACK) /\ Side = "left"
    <3>1. \E h, b2 : Grown(Rotate(SetColours(T, RaisedColour(T.color, T.parent[a2], T.parent[T.parent[a2]])),
                                  T.parent[T.parent[a2]], "right", "left"), h, U, K, b2, a2)
      BY <1>12, <2>3, <2>4, RotateOuter
    <3> QED  BY <1>5, <1>7, <1>12, <2>2, <2>4, <3>1
  <2>5. CASE T.right[t] = a2 /\ T.right[q] = t /\ (T.left[q] = NULL \/ col[T.left[q]] = BLACK) /\ Side = "right"
    <3>1. \E h, b2 : Grown(Rotate(SetColours(T, RaisedColour(T.color, T.parent[a2], T.parent[T.parent[a2]])),
                                  T.parent[T.parent[a2]], "left", "right"), h, U, K, b2, a2)
      BY <1>12, <2>3, <2>5, RotateOuter
    <3> QED  BY <1>5, <1>7, <1>12, <2>2, <2>5, <3>1
  <2> QED  BY <1>12, <2>4, <2>5
<1>13. CASE ~Inner(tree)
  <2>1. out = tree /\ top = p /\ at' = at /\ C = Raised(tree, p, q)
    BY <1>9, <1>13 DEF Raised
  <2>2. \/ L[p] = at /\ L[q] = p /\ (R[q] = NULL \/ col[R[q]] = BLACK) /\ Side = "left"
        \/ R[p] = at /\ R[q] = p /\ (L[q] = NULL \/ col[L[q]] = BLACK) /\ Side = "right"
    BY SMTT(30), <1>4, <1>5, <1>7, <1>8, <1>10, <1>13
  <2>3. \E h, b2 : Grown(Rotate(Raised(tree, p, q), q, Other, Side), h, U, K, b2, at)
    BY Zenon, <1>2, <1>4, <1>12, <2>2
  <2> QED  BY <1>4, <1>9, <2>1, <2>3
<1>14. CASE Inner(tree)
  <2> DEFINE T2 == Rotate(tree, p, Side, Other)
  <2>1. out = T2 /\ top = at /\ at' = p /\ C = Raised(T2, at, q)
    BY <1>9, <1>14 DEF Raised
  <2>2. \/ R[p] = at /\ L[q] = p /\ (R[q] = NULL \/ col[R[q]] = BLACK) /\ Side = "left" /\ Other = "right"
        \/ L[p] = at /\ R[q] = p /\ (L[q] = NULL \/ col[L[q]] = BLACK) /\ Side = "right" /\ Other = "left"
    BY <1>4, <1>5, <1>7, <1>8, <1>10, <1>14
  <2>3. CASE Side = "left"
    <3>1. /\ R[p] = at /\ L[q] = p /\ (R[q] = NULL \/ col[R[q]] = BLACK)
          /\ T2 = Rotate(tree, p, "left", "right")
      BY <1>5, <2>2, <2>3
    <3> DEFINE T3 == Rotate(tree, p, "left", "right")
    <3>6. /\ \E h : Grown(T3, h, U, K, b, p)
          /\ T3.color = tree.color /\ T3.parent[p] = at /\ T3.left[at] = p
          /\ T3.parent[at] = q /\ T3.left[q] = at /\ T3.right[q] = R[q]
      <4>1. /\ Grown(tree, g, U, K, b, at) /\ at # NULL
            /\ tree.parent[at] # NULL /\ tree.color[tree.parent[at]] = RED
        BY <1>3
      <4>2. p = tree.parent[at] /\ q = tree.parent[p] /\ p # NULL /\ tree.color[p] = RED
        BY <1>2
      <4>3. tree.right[p] = at /\ tree.left[q] = p
        BY <3>1
      <4> HIDE DEF p, q, L, R, P, col
      <4> QED  BY <4>1, <4>2, <4>3, InnerTurned DEF L, R
    <3> HIDE DEF T2, T3
    <3>2. /\ \E h : Grown(T2, h, U, K, b, p)
          /\ T2.color = tree.color /\ T2.parent[p] = at /\ T2.left[at] = p
          /\ T2.parent[at] = q /\ T2.left[q] = at /\ T2.right[q] = R[q]
      BY <3>1, <3>6 DEF T3
    <3>3. PICK e : Grown(T2, e, U, K, b, p)
      BY <3>2
    <3>4. col[at] = RED /\ at \in Node /\ p # NULL
      BY <1>1, <1>2, <1>4 DEF Coloured
    <3>5. \E h, b2 : Grown(Rotate(Raised(T2, at, q), q, Other, Side), h, U, K, b2, p)
      <4> HIDE DEF p, q, L, R, P, col
      <4>1. /\ Grown(T2, e, U, K, b, p) /\ p # NULL /\ T2.color = col /\ at \in Node
            /\ T2.parent[p] = at /\ T2.parent[at] = q /\ at # q /\ col[at] = RED
        BY <1>4, <1>11, <3>2, <3>3, <3>4
      <4>2. /\ T2.left[at] = p /\ T2.left[q] = at
            /\ (T2.right[q] = NULL \/ col[T2.right[q]] = BLACK) /\ Side = "left"
        BY <2>3, <3>1, <3>2
      <4> QED  BY <1>12, <4>1, <4>2
    <3> QED  BY <1>4, <1>9, <2>1, <3>5 DEF T2
  <2>4. CASE Side = "right"
    <3>1. /\ L[p] = at /\ R[q] = p /\ (L[q] = NULL \/ col[L[q]] = BLACK)
          /\ T2 = Rotate(tree, p, "right", "left")
      BY <1>5, <2>2, <2>4
    <3> DEFINE T3 == Rotate(tree, p, "right", "left")
    <3>6. /\ \E h : Grown(T3, h, U, K, b, p)
          /\ T3.color = tree.color /\ T3.parent[p] = at /\ T3.right[at] = p
          /\ T3.parent[at] = q /\ T3.right[q] = at /\ T3.left[q] = L[q]
      <4>1. /\ Grown(tree, g, U, K, b, at) /\ at # NULL
            /\ tree.parent[at] # NULL /\ tree.color[tree.parent[at]] = RED
        BY <1>3
      <4>2. p = tree.parent[at] /\ q = tree.parent[p] /\ p # NULL /\ tree.color[p] = RED
        BY <1>2
      <4>3. tree.left[p] = at /\ tree.right[q] = p
        BY <3>1
      <4> HIDE DEF p, q, L, R, P, col
      <4> QED  BY <4>1, <4>2, <4>3, InnerTurned DEF L, R
    <3> HIDE DEF T2, T3
    <3>2. /\ \E h : Grown(T2, h, U, K, b, p)
          /\ T2.color = tree.color /\ T2.parent[p] = at /\ T2.right[at] = p
          /\ T2.parent[at] = q /\ T2.right[q] = at /\ T2.left[q] = L[q]
      BY <3>1, <3>6 DEF T3
    <3>3. PICK e : Grown(T2, e, U, K, b, p)
      BY <3>2
    <3>4. col[at] = RED /\ at \in Node /\ p # NULL
      BY <1>1, <1>2, <1>4 DEF Coloured
    <3>5. \E h, b2 : Grown(Rotate(Raised(T2, at, q), q, Other, Side), h, U, K, b2, p)
      <4> HIDE DEF p, q, L, R, P, col
      <4>1. /\ Grown(T2, e, U, K, b, p) /\ p # NULL /\ T2.color = col /\ at \in Node
            /\ T2.parent[p] = at /\ T2.parent[at] = q /\ at # q /\ col[at] = RED
        BY <1>4, <1>11, <3>2, <3>3, <3>4
      <4>2. /\ T2.right[at] = p /\ T2.right[q] = at
            /\ (T2.left[q] = NULL \/ col[T2.left[q]] = BLACK) /\ Side = "right"
        BY <2>4, <3>1, <3>2
      <4> QED  BY <1>12, <4>1, <4>2
    <3> QED  BY <1>4, <1>9, <2>1, <3>5 DEF T2
  <2> QED  BY <1>7, <2>3, <2>4
<1> QED  BY <1>13, <1>14

\* When the loop ends, no node violates the colours.
LEMMA FixupEndsIs ==
  ASSUME NEW g, NEW U, NEW K, NEW b, Grown(tree, g, U, K, b, at), at # NULL, FixupEnds
  PROVE  \E b2 : Grown(tree', g, U, K, b2, NULL)
<1> DEFINE L == tree.left
           R == tree.right
           P == tree.parent
           col == tree.color
<1>1. /\ Sound(tree, g, U, K) /\ Thin(tree, g, U, at) /\ Coloured(L, R, P, col, b, U, at)
      /\ Forest(tree, g, U, pool_root, K, heap) /\ Typed(tree)
  BY DEF Grown, Sound, Forest
<1>2. /\ P[at] = NULL \/ col[P[at]] # RED
      /\ P[at] = NULL => tree' = [tree EXCEPT !.root = at, !.color[at] = BLACK]
      /\ P[at] # NULL => tree' = tree
  BY DEF FixupEnds, Parent, IsRed
<1>3. IsFix(L, R, P, g, tree.root, U, col, b, at)
  BY <1>1 DEF IsFix, Forest, Rooted
<1>4. /\ at \in U /\ U \subseteq Node /\ at \in Node /\ col \in [Node -> {RED, BLACK}]
      /\ P[at] # NULL => P[at] \in U
  BY <1>1, <1>3, Fields DEF IsFix, Tree, Coloured
<1>5. P[at] # NULL => col[P[at]] = BLACK
  BY <1>2, <1>4
<1>6. ASSUME Leaning(tree, g, U, at), NEW T, T.left = L, T.right = R, T.parent = P
      PROVE  Leaning(T, g, U, NULL)
  BY <1>5, <1>6, LeanEnds
<1>7. CASE P[at] # NULL
  <2>1. Coloured(L, R, P, col, b, U, NULL)
    BY <1>3, <1>4, <1>5, <1>7, FixEnds
  <2>2. Thin(tree, g, U, NULL)
    BY <1>1, <1>6 DEF Thin
  <2>3. Grown(tree, g, U, K, b, NULL)
    BY <1>1, <2>1, <2>2 DEF Grown
  <2> QED  BY <1>2, <1>7, <2>3
<1>8. CASE P[at] = NULL
  <2> DEFINE col2 == BlackRoot(col, at)
             b2 == HigherRoot(b, at)
             T2 == SetColours(tree, col2)
  <2> HIDE DEF b2
  <2>1. Coloured(L, R, P, col2, b2, U, NULL) /\ at = tree.root
    BY <1>3, <1>4, <1>8, FixEnds DEF b2
  <2>2. col2 \in [Node -> {RED, BLACK}] /\ [tree EXCEPT !.color[at] = BLACK] = T2
    BY <1>1, <1>4, ColourSet DEF BlackRoot
  <2>3. [tree EXCEPT !.root = at, !.color[at] = BLACK] = [tree EXCEPT !.color[at] = BLACK]
    <3>1. [tree EXCEPT !.root = at] = tree
      <4>1. tree = [root |-> tree.root, key |-> tree.key, color |-> tree.color, left |-> tree.left,
                    right |-> tree.right, parent |-> tree.parent]
        BY <1>1, Fields
      <4> QED  BY <2>1, <4>1
    <3>2. [tree EXCEPT !.root = at, !.color[at] = BLACK] = [[tree EXCEPT !.root = at] EXCEPT !.color[at] = BLACK]
      OBVIOUS
    <3> QED  BY <3>1, <3>2
  <2> HIDE DEF col2
  <2>4. /\ Typed(T2) /\ T2.root = tree.root /\ T2.key = tree.key /\ T2.color = col2
        /\ T2.left = L /\ T2.right = R /\ T2.parent = P
    BY <1>1, <2>2, ColoursSet
  <2> HIDE DEF T2
  <2>5. Forest(T2, g, U, pool_root, K, heap) /\ SamePool(tree, T2, K)
    BY <1>1, <2>4, SamePointers
  <2>6. Sound(T2, g, U, K)
    BY <1>1, <2>4, <2>5, Alike
  <2>7. Thin(T2, g, U, NULL)
    BY <1>1, <1>6, <2>4 DEF Thin
  <2>8. Grown(T2, g, U, K, b2, NULL)
    BY <2>1, <2>4, <2>6, <2>7 DEF Grown
  <2> QED  BY <1>2, <1>8, <2>2, <2>3, <2>8
<1> QED  BY <1>7, <1>8

\* rbtree_fixup keeps the invariant.
LEMMA FixupKeeps ==
  ASSUME NEW g, NEW U, NEW K, NEW b, Invariant(g, U, K, b), Fixup
  PROVE  IInv'
<1>1. pc = "fixup" /\ Types /\ at # NULL /\ Grown(tree, g, U, K, b, at)
  BY DEF Fixup, Recolour, RotateUp, FixupEnds, Invariant, Used
<1>2. UNCHANGED <<kind, pool_root, pool_ptr, count, heap, inserted>>
  BY DEF Fixup, Recolour, RotateUp, FixupEnds
<1>3. ASSUME NEW h, NEW b2, Grown(tree', h, U, K, b2, at')
      PROVE  Grown(tree, h, U, K, b2, at)'
  BY <1>2, <1>3 DEF Grown, Sound, Counted, Kept, Thin
<1>4. CASE Recolour \/ RotateUp
  <2>1. \E h, b2 : Grown(tree', h, U, K, b2, at') /\ at' # NULL /\ at' \in Node
    BY <1>1, <1>4, RecolourIs, RotateUpIs
  <2>2. PICK h, b2 : Grown(tree', h, U, K, b2, at') /\ at' # NULL /\ at' \in Node
    BY <2>1
  <2>3. pc' = "fixup"
    BY <1>1, <1>4 DEF Recolour, RotateUp
  <2>4. Invariant(h, U, K, b2)'
    BY <1>1, <1>2, <1>3, <2>2, <2>3 DEF Invariant, Types, Used, Felled, Drained, Gone
  <2> QED  BY <2>4 DEF IInv
<1>5. CASE FixupEnds
  <2>1. pc' = "idle" /\ at' = NULL
    BY <1>5 DEF FixupEnds
  <2>2. PICK b2 : Grown(tree', g, U, K, b2, NULL)
    BY <1>1, <1>5, FixupEndsIs
  <2>3. Invariant(g, U, K, b2)'
    BY <1>1, <1>2, <1>3, <2>1, <2>2 DEF Invariant, Types, Used, Felled, Drained, Gone
  <2> QED  BY <2>3 DEF IInv
<1> QED  BY <1>4, <1>5 DEF Fixup

-----------------------------------------------------------------------------
(* The pool is taken apart without a loss.                                  *)

\* A node reset_pool_ptr gave can be taken, if it and those behind it are lean.
LEMMA NextRemovable ==
  ASSUME NEW T, NEW g, NEW K, NEW n, NEW z, IsNext(T, g, K, n, z),
         \A x \in K : g.pos[z] <= g.pos[x] => Lean(T, x) \/ x = n, g.pos[z] \in Int
  PROVE  /\ T.parent[z] = NULL \/ T.right[z] = NULL
         /\ (\A x \in K : g.pos[z] <= g.pos[x] => Lean(T, x)) => Removable(T, g, z, K)
<1>1. z \in K /\ T.left[z] = NULL /\ (T.right[z] = NULL \/ (z # n /\ T.left[T.parent[z]] = z))
  BY DEF IsNext
<1>2. T.parent[z] = NULL \/ T.right[z] = NULL
  <2> SUFFICES ASSUME T.right[z] # NULL, T.parent[z] # NULL PROVE FALSE
    OBVIOUS
  <2>1. Lean(T, z)
    BY <1>1
  <2> QED  BY <1>1, <2>1 DEF Lean
<1> QED  BY <1>2 DEF Removable

\* reset_pool_ptr goes on to a node that can be taken.
LEMMA ResetRemovable ==
  ASSUME NEW T, NEW g, NEW r, NEW K, Rooted(T, g, r, K), NEW p, FirstLeft(T.left, g, p, K),
         Removable(T, g, p, K)
  PROVE  /\ Removable(T, g, reset_pool_ptr(T, p), K)
         /\ Removable(T, g, reset_pool_ptr(T, T.right[p]), K)
<1>1. /\ K \subseteq Node /\ p \in K /\ p \in Node /\ p # NULL /\ T.left[p] = NULL
      /\ \A x \in K : g.pos[x] \in Int /\ g.lo[x] \in Int
  BY NodeFacts DEF Rooted, Tree, Shape, FirstLeft
<1>2. \A x \in K : g.pos[p] <= g.pos[x] => Lean(T, x)
  BY <1>1 DEF Removable
<1>3. ASSUME NEW n \in K, \A z \in K : Within(g, z, n) => g.pos[p] <= g.pos[z]
      PROVE  Removable(T, g, reset_pool_ptr(T, n), K)
  <2>1. PICK z : z = reset_pool_ptr(T, n) /\ IsNext(T, g, K, n, z)
    BY SlideIs
  <2>2. z \in K /\ g.pos[p] <= g.pos[z]
    BY <1>3, <2>1 DEF IsNext
  <2>3. \A x \in K : g.pos[z] <= g.pos[x] => Lean(T, x)
    BY <1>1, <1>2, <2>2
  <2>4. Removable(T, g, z, K)
    BY <1>1, <2>1, <2>2, <2>3, NextRemovable
  <2> QED  BY <2>1, <2>4
<1>4. \A z \in K : Within(g, z, p) => g.pos[p] <= g.pos[z]
  <2> SUFFICES ASSUME NEW z \in K, Within(g, z, p) PROVE g.pos[p] <= g.pos[z]
    OBVIOUS
  <2>1. ~(g.lo[p] <= g.pos[z] /\ g.pos[z] < g.pos[p]) \/ z = p
    BY <1>1 DEF Rooted, Tree
  <2> QED  BY <1>1, <2>1 DEF Within
<1>5. Removable(T, g, reset_pool_ptr(T, p), K)
  BY <1>1, <1>3, <1>4
<1>6. CASE T.right[p] = NULL
  <2>1. reset_pool_ptr(T, NULL) = NULL
    BY DEF reset_pool_ptr
  <2> QED  BY <1>5, <1>6, <2>1 DEF Removable
<1>7. CASE T.right[p] # NULL
  <2>1. T.right[p] \in K /\ g.lo[T.right[p]] = g.pos[p] + 1
    BY <1>1, <1>7 DEF Rooted, Tree, Shape
  <2>2. \A z \in K : Within(g, z, T.right[p]) => g.pos[p] <= g.pos[z]
    BY <1>1, <2>1 DEF Within
  <2>3. Removable(T, g, reset_pool_ptr(T, T.right[p]), K)
    BY <1>3, <2>1, <2>2
  <2> QED  BY <1>5, <2>3
<1> QED  BY <1>6, <1>7

\* It can be taken, too, when the fields of the nodes did not change.
LEMMA StillRemovable ==
  ASSUME NEW T, NEW T1, NEW g, NEW h, NEW p, NEW K, NEW K1, Removable(T, g, p, K),
         K1 \subseteq K, p = NULL \/ p \in K1,
         \A x \in K1 : /\ h.pos[x] = g.pos[x]
                       /\ T1.left[x] = T.left[x] /\ T1.right[x] = T.right[x]
                       /\ \/ T1.parent[x] = NULL
                          \/ T1.parent[x] = T.parent[x] /\ (T1.left[T.parent[x]] = x => T.left[T.parent[x]] = x)
  PROVE  Removable(T1, h, p, K1)
BY DEF Removable, Lean

\* The next node after the first one, p, which was not the root: with it all below it are
\* gone, that is, only p.
LEMMA UpRemovable ==
  ASSUME NEW T, NEW T1, NEW g, NEW r, NEW K, Rooted(T, g, r, K), NEW p, FirstLeft(T.left, g, p, K),
         Removable(T, g, p, K), T.parent[p] # NULL,
         NEW K1, K1 = K \ Subtree(g, K, p), Rooted(T1, g, r, K1), IsLeft(T, T1, p, K1, {})
  PROVE  /\ Subtree(g, K, p) = {p} /\ T.right[p] = NULL
         /\ LET up == T.parent[p] IN
            Removable(T1, g, IF p = T.left[up] /\ T.right[up] # NULL
                             THEN reset_pool_ptr(T1, T.right[up]) ELSE up, K1)
<1> DEFINE L == T.left
           R == T.right
           P == T.parent
           L1 == T1.left
           R1 == T1.right
           P1 == T1.parent
           up == P[p]
<1>1. /\ K \subseteq Node /\ NULL \notin K /\ p \in K /\ p \in Node /\ p # NULL /\ L[p] = NULL
      /\ \A x \in K : g.pos[x] \in Int /\ g.lo[x] \in Int
      /\ Shape(L, R, g) /\ Tree(L, R, P, g, r, K)
  <2>1. Shape(L, R, g) /\ Tree(L, R, P, g, r, K)
    BY DEF Rooted
  <2>2. K \subseteq Node /\ p \in K
    BY <2>1 DEF Tree, FirstLeft
  <2>3. \A x \in K : g.pos[x] \in Int /\ g.lo[x] \in Int
    BY <2>1, <2>2 DEF Shape
  <2>4. L[p] = NULL
    BY <2>2, <2>3 DEF FirstLeft
  <2> QED  BY <2>1, <2>2, <2>3, <2>4, NodeFacts
<1>2. R[p] = NULL
  BY <1>1 DEF Removable
<1>3. Subtree(g, K, p) = {p}
  <2>1. Subtree(g, K, p) = {p} \cup (IF L[p] = NULL THEN {} ELSE Subtree(g, K, L[p]))
                               \cup (IF R[p] = NULL THEN {} ELSE Subtree(g, K, R[p]))
    BY <1>1, SubtreeParts
  <2> QED  BY <1>1, <1>2, <2>1
<1>4. K1 = K \ {p}
  BY <1>3
<1>5. up \in K1 /\ (L[up] = p \/ R[up] = p) /\ up # p
  <2>1. p # r /\ up \in K /\ (L[up] = p \/ R[up] = p)
    BY <1>1 DEF Tree
  <2>2. up # p
    BY <1>1, <1>2, <2>1
  <2> QED  BY <1>4, <2>1, <2>2
<1>6. \A x \in K1 : /\ L1[x] = IF x = up /\ p = L[up] THEN NULL ELSE L[x]
                    /\ R1[x] = IF x = up /\ p # L[up] THEN NULL ELSE R[x]
                    /\ P1[x] = P[x] /\ (P[x] = NULL \/ P[x] \in K1)
  <2>1. \A x \in K1 : P1[x] = NULL \/ P1[x] \in K1
    BY DEF Rooted, Tree
  <2> QED  BY <2>1 DEF IsLeft
<1> HIDE DEF L, R, P, L1, R1, P1, up
<1>7. ASSUME NEW x \in K1, g.pos[p] <= g.pos[x], x # up
      PROVE  Lean(T1, x)
  <2>1. Lean(T, x)
    BY <1>1, <1>4, <1>7 DEF Removable
  <2>2. L[x] = NULL /\ P[x] # NULL /\ L[P[x]] = x => R[x] = NULL
    BY <2>1 DEF Lean, L, R, P
  <2>3. L1[x] = NULL /\ P1[x] # NULL /\ L1[P1[x]] = x => R1[x] = NULL
    BY <1>1, <1>4, <1>6, <1>7, <2>2
  <2> QED  BY <2>3 DEF Lean, L1, R1, P1
<1>8. CASE ~(p = L[up] /\ R[up] # NULL)
  <2>1. R1[up] = NULL
    BY <1>5, <1>6, <1>8
  <2>2. ASSUME NEW x \in K1, g.pos[up] <= g.pos[x], x # up PROVE g.pos[p] <= g.pos[x]
    <3> USE DEF L, R, P
    <3>0. up \in K /\ x \in K /\ up \in Node
      BY <1>1, <1>4, <1>5
    <3>1. CASE p = L[up]
      <4>1. g.pos[p] < g.pos[up]
        BY <1>1, <3>0, <3>1 DEF Shape
      <4> QED  BY <1>1, <2>2, <3>0, <4>1
    <3>2. CASE p = R[up]
      <4>1. g.lo[p] = g.pos[up] + 1
        BY <1>1, <3>0, <3>2 DEF Shape
      <4>2. g.pos[x] # g.pos[up]
        BY <1>1, <2>2, <3>0 DEF Tree
      <4>3. ~(g.lo[p] <= g.pos[x] /\ g.pos[x] < g.pos[p])
        BY <1>1, <1>4, <3>0 DEF Tree
      <4> QED  BY <1>1, <2>2, <3>0, <4>1, <4>2, <4>3
    <3> QED  BY <1>5, <3>1, <3>2
  <2>3. \A x \in K1 : g.pos[up] <= g.pos[x] => Lean(T1, x)
    <3>1. Lean(T1, up)
      BY <2>1 DEF Lean, R1
    <3> QED  BY <1>7, <2>2, <3>1
  <2>4. Removable(T1, g, up, K1)
    BY <2>1, <2>3 DEF Removable, R1
  <2> QED  BY <1>2, <1>3, <1>8, <2>4 DEF L, R, up, P
<1>9. CASE p = L[up] /\ R[up] # NULL
  <2> DEFINE s == R[up]
  <2>1. s \in K1 /\ R1[up] = s /\ g.lo[s] = g.pos[up] + 1 /\ g.pos[p] < g.pos[up] /\ up \in K
    <3>1. R1[up] = s
      BY <1>5, <1>6, <1>9
    <3>2. s \in K1
      BY <1>5, <1>9, <3>1 DEF Rooted, Tree, R1
    <3> USE DEF L, R, P
    <3>3. up \in Node /\ up \in K
      BY <1>1, <1>4, <1>5
    <3>4. g.lo[s] = g.pos[up] + 1 /\ g.pos[p] < g.pos[up]
      BY <1>1, <1>9, <3>3 DEF Shape
    <3> QED  BY <3>1, <3>2, <3>3, <3>4
  <2> HIDE DEF s
  <2>2. PICK z : z = reset_pool_ptr(T1, s) /\ IsNext(T1, g, K1, s, z)
    BY <2>1, SlideIs
  <2>3. z \in K1 /\ z \in K /\ g.pos[up] < g.pos[z] /\ s \in K
    <3>1. z \in K1 /\ g.lo[s] <= g.pos[z]
      BY <2>2 DEF IsNext, Within
    <3>2. z \in K /\ s \in K
      BY <1>4, <2>1, <3>1
    <3> QED  BY <1>1, <2>1, <3>1, <3>2
  <2>4. ASSUME NEW x \in K1, g.pos[z] <= g.pos[x] PROVE Lean(T1, x)
    <3>1. x \in K /\ g.pos[p] <= g.pos[x] /\ x # up
      BY <1>1, <1>4, <2>1, <2>3, <2>4
    <3> QED  BY <1>7, <3>1
  <2>5. Removable(T1, g, z, K1)
    BY <1>1, <2>2, <2>3, <2>4, NextRemovable
  <2> QED  BY <1>2, <1>3, <1>9, <2>2, <2>5 DEF L, R, up, P, s
<1> QED  BY <1>8, <1>9

\* The node new_rbtree_node takes is the only one that leaves the pool.
LEMMA PoolKept ==
  ASSUME NEW g, NEW U, NEW K, Forest(tree, g, U, pool_root, K, heap), Pooled(tree, g, pool_ptr, K),
         Obtainable, pool_ptr \in Node \cup {NULL}, U \cup K \cup heap = Node,
         Removable(tree, g, pool_ptr, K), NEW T, NEW h, NEW c, NEW k, NEW n, n = NewNode,
         IsInserted(T, PoolAfter.root, PoolAfter.ptr, g, h, U, K, n, c, k)
  PROVE  /\ (U \cup {n}) \cup Remaining(g, K) \cup (heap \ {n}) = Node
         /\ Removable(T, h, PoolAfter.ptr, Remaining(g, K))
<1> DEFINE q == PoolAfter
           K2 == Remaining(g, K)
           p == pool_ptr
           L == tree.left
           R == tree.right
           P == tree.parent
           L2 == [x \in Node |-> IF x = n THEN NULL ELSE q.T.left[x]]
           R2 == [x \in Node |-> IF x = n THEN NULL ELSE q.T.right[x]]
           P2 == q.T.parent
<1>1. /\ n \in Node /\ K2 \subseteq K /\ n \notin K2 /\ Pooled(T, h, q.ptr, K2)
      /\ \A x \in K2 : /\ h.pos[x] = g.pos[x] /\ T.left[x] = q.T.left[x]
                       /\ T.right[x] = q.T.right[x] /\ T.parent[x] = q.T.parent[x]
  BY DEF IsInserted
<1>2. /\ Typed(tree) /\ Rooted(tree, g, pool_root, K) /\ K \subseteq Node /\ NULL \notin K
      /\ heap \subseteq Node \ (U \cup K) /\ pool_root \in K \cup {NULL} /\ (pool_root # NULL \/ K = {})
  BY NodeFacts DEF Forest, Rooted, Tree, Loose
<1>3. p # NULL /\ P[p] # NULL => Rooted(q.T, g, pool_root, K2)
  <2> HIDE DEF L2, R2, P2
  <2>1. IsBlank(PoolAfter.T, NewNode, L2, R2, P2)
    BY DEF IsBlank, L2, R2, P2
  <2> QED  BY <2>1, NodeTaken
<1>4. q.ptr = NULL \/ q.ptr \in K2
  BY <1>1 DEF Pooled, FirstLeft
<1>5. CASE p = NULL
  <2>1. K = {} /\ q.ptr = NULL
    BY <1>2, <1>5, NodeFacts, PoolAfterIs DEF Pooled, FirstLeft
  <2>2. K2 = {}
    BY <1>1, <2>1
  <2> QED  BY <1>1, <2>1, <2>2 DEF Removable
<1>6. CASE p # NULL /\ P[p] = NULL
  <2>1. n = p /\ K2 = K \ {p} /\ FirstLeft(tree.left, g, p, K)
    BY <1>6 DEF NewNode, Remaining, Pooled
  <2>2. /\ q.ptr = reset_pool_ptr(tree, R[p]) /\ q.T.left = L /\ q.T.right = R
        /\ \A x \in Node : q.T.parent[x] = IF x = R[p] THEN NULL ELSE P[x]
    BY <1>2, <1>6, PoolAfterIs
  <2> HIDE DEF q, K2
  <2>3. Removable(tree, g, q.ptr, K)
    BY <1>2, <2>1, <2>2, ResetRemovable
  <2>4. ASSUME NEW x \in K2
        PROVE  /\ h.pos[x] = g.pos[x] /\ T.left[x] = tree.left[x] /\ T.right[x] = tree.right[x]
               /\ \/ T.parent[x] = NULL
                  \/ T.parent[x] = tree.parent[x] /\ (T.left[tree.parent[x]] = x => tree.left[tree.parent[x]] = x)
    <3>1. T.left[x] = L[x] /\ T.right[x] = R[x] /\ T.parent[x] \in {P[x], NULL} /\ h.pos[x] = g.pos[x]
      BY <1>1, <1>2, <2>2
    <3>2. ASSUME T.parent[x] # NULL PROVE T.left[P[x]] = L[P[x]]
      <4>1. T.parent[x] \in K2 /\ T.parent[x] = P[x]
        <5>1. Tree(T.left, T.right, T.parent, h, q.root, K2)
          BY DEF IsInserted, Forest, Rooted, q, K2
        <5> QED  BY <3>1, <3>2, <5>1 DEF Tree
      <4> QED  BY <1>1, <2>2, <4>1
    <3> QED  BY <3>1, <3>2
  <2>5. Removable(T, h, q.ptr, K2)
    BY <1>1, <1>4, <2>3, <2>4, StillRemovable
  <2>6. (U \cup {n}) \cup K2 \cup (heap \ {n}) = Node
    BY <1>1, <1>2, <2>1
  <2> QED  BY <2>5, <2>6 DEF q, K2
<1>7. CASE p # NULL /\ P[p] # NULL
  <2>1. n = p /\ K2 = K \ Subtree(g, K, p) /\ FirstLeft(tree.left, g, p, K)
    BY <1>7 DEF NewNode, Remaining, Pooled
  <2>2. /\ q.T.parent = tree.parent
        /\ \A x \in Node : q.T.left[x] = IF x = P[p] /\ p = L[P[p]] THEN NULL ELSE L[x]
        /\ \A x \in Node : q.T.right[x] = IF x = P[p] /\ p # L[P[p]] THEN NULL ELSE R[x]
        /\ q.ptr = IF p = L[P[p]] /\ R[P[p]] # NULL THEN reset_pool_ptr(q.T, R[P[p]]) ELSE P[p]
    BY <1>2, <1>7, PoolAfterIs
  <2> HIDE DEF q, K2
  <2>3. IsLeft(tree, q.T, p, K2, {})
    BY <1>1, <1>2, <2>2 DEF IsLeft
  <2>4. Rooted(q.T, g, pool_root, K2)
    BY <1>3, <1>7
  <2>5. Subtree(g, K, p) = {p} /\ Removable(q.T, g, q.ptr, K2)
    <3> HIDE DEF p
    <3>1. /\ Subtree(g, K, p) = {p}
          /\ Removable(q.T, g, IF p = tree.left[tree.parent[p]] /\ tree.right[tree.parent[p]] # NULL
                               THEN reset_pool_ptr(q.T, tree.right[tree.parent[p]]) ELSE tree.parent[p], K2)
      <4>1. Removable(tree, g, p, K) /\ tree.parent[p] # NULL
        BY <1>7 DEF p
      <4> QED  BY <1>2, <2>1, <2>3, <2>4, <4>1, UpRemovable
    <3> QED  BY <2>2, <3>1
  <2>6. ASSUME NEW x \in K2
        PROVE  /\ h.pos[x] = g.pos[x] /\ T.left[x] = q.T.left[x] /\ T.right[x] = q.T.right[x]
               /\ \/ T.parent[x] = NULL
                  \/ T.parent[x] = q.T.parent[x] /\ (T.left[q.T.parent[x]] = x => q.T.left[q.T.parent[x]] = x)
    <3>1. q.T.parent[x] = NULL \/ q.T.parent[x] \in K2
      BY <2>4 DEF Rooted, Tree
    <3> QED  BY <1>1, <3>1
  <2>7. Removable(T, h, q.ptr, K2)
    BY <1>4, <2>5, <2>6, StillRemovable
  <2>8. (U \cup {n}) \cup K2 \cup (heap \ {n}) = Node
    BY <1>1, <1>2, <2>1, <2>5
  <2> QED  BY <2>7, <2>8 DEF q, K2
<1> QED  BY <1>5, <1>6, <1>7

\* The nodes below the root r that was hung below c are those of its tree.
LEMMA BelowHung ==
  ASSUME NEW T, NEW T4, NEW g, NEW h, NEW k, NEW r, NEW U, NEW K, NEW c,
         Rooted(T, g, k, K), FirstLeft(T.left, g, c, K), Rooted(T4, h, k, U \cup K), r \in U,
         HungLeft(T.left, T.right, T.parent, T4.left, T4.right, T4.parent, r, c), Before(g, h, K, U, c),
         NEW m \in U \cup K, Within(h, m, r)
  PROVE  m \in U
<1> SUFFICES ASSUME m \in K PROVE FALSE
  OBVIOUS
<1>1. c \in K /\ c \in Node /\ m \in Node /\ r \in Node /\ NULL \notin Node
  BY NodeFacts DEF Rooted, Tree, FirstLeft
<1>2. /\ h.pos[m] \in Int /\ h.pos[c] \in Int /\ h.pos[r] \in Int /\ h.lo[c] \in Int
      /\ g.pos[m] \in Int /\ g.pos[c] \in Int /\ g.lo[c] \in Int /\ g.hi[c] \in Int
      /\ h.hi[c] \in Int /\ h.pos[c] <= h.hi[c] /\ g.pos[c] <= g.hi[c]
  BY <1>1 DEF Rooted, Shape
<1>3. h.lo[r] = h.lo[c] /\ h.hi[r] = h.pos[c] - 1
  <2>1. T4.left[c] = r
    BY <1>1 DEF HungLeft
  <2> QED  BY <1>1, <2>1 DEF Rooted, Shape
<1>4. h.lo[c] <= h.pos[m] /\ h.pos[m] < h.pos[c]
  BY <1>2, <1>3 DEF Within
<1>5. g.pos[m] < g.pos[c]
  BY <1>1, <1>4 DEF Before
<1>6. Within(h, m, c)
  BY <1>2, <1>4 DEF Within
<1>7. Within(g, m, c)
  BY <1>1, <1>6 DEF Before
<1>8. T.left[c] # NULL
  <2>1. m # c
    BY <1>2, <1>4
  <2> QED  BY <1>1, <1>5, <1>7, <2>1 DEF Rooted, Tree, Within
<1>9. T.left[c] = NULL
  BY <1>1, <1>2 DEF FirstLeft
<1> QED  BY <1>8, <1>9

\* After rbtree_clear the pool can be taken apart as before.
LEMMA ClearedRemovable ==
  ASSUME NEW g, NEW h, NEW U, NEW K, Forest(tree, g, U, pool_root, K, heap),
         Pooled(tree, g, pool_ptr, K), tree.root # NULL, pool_root \in Node \cup {NULL},
         NEW T, NEW T4, NEW pr, NEW ptr, IsCleared(T4, pr, ptr, g, h, U, K),
         ptr = reset_pool_ptr(T, Min(T, tree.root)), T4.left = T.left, T4.right = T.right,
         \A x \in U : Lean(tree, x), Removable(tree, g, pool_ptr, K)
  PROVE  Removable(T4, h, ptr, U \cup K)
<1> DEFINE S == U \cup K
           r == tree.root
           n == Min(T4, r)
           L == tree.left
           R == tree.right
           P == tree.parent
           L4 == T4.left
           R4 == T4.right
           P4 == T4.parent
<1>1. /\ Rooted(T4, h, pr, S) /\ FirstLeft(L4, h, ptr, S) /\ r \in U
      /\ Rooted(tree, g, pool_root, K) /\ U \cap K = {} /\ NULL \notin S /\ S \subseteq Node
      /\ \A x \in U : x # r => P[x] \in U
      /\ \A x \in K : P[x] \in K \cup {NULL}
  BY NodeFacts DEF IsCleared, Forest, Rooted, Tree
<1>2. ptr = reset_pool_ptr(T4, n)
  <2>1. Min(T4, r) = Min(T, r)
    BY DEF Min
  <2> QED  BY <2>1, ResetSame
<1>3. \A x \in S : h.pos[x] \in Int /\ h.lo[x] \in Int /\ h.hi[x] \in Int /\ h.pos[x] <= h.hi[x]
  BY <1>1 DEF Rooted, Shape
<1>4. IsFirst(T4, h, S, r, n)
  BY <1>1, MinIs
<1>5. n \in S
  BY <1>4 DEF IsFirst
<1>6. PICK z : z = ptr /\ IsNext(T4, h, S, n, z)
  <2> HIDE DEF n
  <2> QED  BY <1>1, <1>2, <1>5, SlideIs
<1>7. z \in S /\ h.pos[z] \in Int
  BY <1>3, <1>6 DEF IsNext
<1>8. CASE pool_root = NULL
  <2>1. K = {} /\ L4 = L /\ R4 = R /\ P4 = P
    BY <1>8 DEF IsCleared
  <2>2. \A x \in S : Lean(T4, x)
    BY <2>1 DEF Lean
  <2> QED  BY <1>6, <1>7, <2>2, NextRemovable
<1>9. CASE pool_root # NULL
  <2> DEFINE c == pool_ptr
  <2>1. HungLeft(L, R, P, L4, R4, P4, r, c) /\ Before(g, h, K, U, c) /\ c \in K /\ c # NULL
    BY <1>1, <1>9 DEF IsCleared
  <2>2. FirstLeft(L, g, c, K) /\ pr = pool_root
    <3>1. FirstLeft(L, g, c, K)
      BY <2>1 DEF Pooled
    <3>2. pool_root \in S /\ pr \in S
      BY <1>1, <1>9, <2>1 DEF Rooted, Tree
    <3>3. P[pool_root] = NULL /\ P4[pool_root] = NULL
      <4>1. pool_root \in K
        BY <1>1, <1>9 DEF Rooted, Tree
      <4>2. P[pool_root] = NULL /\ pool_root # r /\ pool_root \in Node
        BY <1>1, <4>1 DEF Rooted, Tree
      <4> QED  BY <2>1, <4>2 DEF HungLeft
    <3>4. pr = pool_root
      <4>1. P4[pool_root] \in S \/ pool_root = pr
        BY <1>1, <3>2 DEF Rooted, Tree
      <4> QED  BY <1>1, <3>3, <4>1
    <3> QED  BY <3>1, <3>4
  <2>3. \A m \in S : Within(h, m, r) => m \in U
    BY <1>1, <2>1, <2>2, BelowHung
  <2>4. n \in U /\ z \in U /\ Within(h, z, n) /\ Within(h, n, r) /\ Within(h, z, r)
    <3>1. Within(h, n, r) /\ Within(h, z, n)
      BY <1>4, <1>6 DEF IsFirst, IsNext
    <3>2. h.lo[r] <= h.lo[n] /\ h.hi[n] <= h.hi[r] /\ r \in S
      BY <1>1, <1>5, <3>1, Nested DEF Rooted
    <3>3. Within(h, z, r)
      BY <1>3, <1>5, <1>7, <3>1, <3>2 DEF Within
    <3> QED  BY <1>5, <1>7, <2>3, <3>1, <3>3
  <2> HIDE DEF L, R, P, L4, R4, P4, r, n, c
  <2>5. ASSUME NEW x \in Node
        PROVE  /\ L4[x] = IF x = c THEN r ELSE L[x]
               /\ R4[x] = R[x] /\ P4[x] = IF x = r THEN c ELSE P[x]
    BY <2>1 DEF HungLeft
  <2>6. ASSUME NEW x \in S, h.pos[z] <= h.pos[x]
        PROVE  L4[x] = NULL /\ P4[x] # NULL /\ L4[P4[x]] = x => R4[x] = NULL
    <3>1. CASE x \in U /\ x # r
      <4>1. P[x] \in U /\ x \in Node /\ x # c /\ P[x] # c
        BY <1>1, <2>1, <3>1 DEF P, r
      <4>2. L[x] = NULL /\ P[x] # NULL /\ L[P[x]] = x => R[x] = NULL
        BY <3>1 DEF Lean, L, R, P
      <4> QED  BY <1>1, <2>5, <3>1, <4>1, <4>2
    <3>2. CASE x = r
      <4> SUFFICES ASSUME L4[r] = NULL PROVE R4[r] = NULL
        BY <3>2
      <4>1. \A y \in S : Within(h, y, r) /\ h.pos[y] <= h.pos[r] => y = r
        <5> SUFFICES ASSUME NEW y \in S, Within(h, y, r), h.pos[y] <= h.pos[r], y # r PROVE FALSE
          OBVIOUS
        <5>1. h.pos[y] # h.pos[r] /\ (h.lo[r] <= h.pos[y] /\ h.pos[y] < h.pos[r] => L4[r] # NULL)
          BY <1>1, <3>2 DEF Rooted, Tree, L4, r
        <5> QED  BY <1>3, <3>2, <5>1 DEF Within
      <4>2. h.pos[n] <= h.pos[r]
        <5>1. h.lo[r] <= h.pos[r]
          BY <1>1, <3>2 DEF Rooted, Shape
        <5> QED  BY <1>4, <3>2, <5>1 DEF IsFirst
      <4>3. n = r /\ z = r
        BY <1>5, <1>7, <2>4, <2>6, <3>2, <4>1, <4>2
      <4> QED  BY <1>6, <4>3 DEF IsNext, R4
    <3>3. CASE x \in K
      <4>1. g.pos[c] <= g.pos[x]
        BY <1>1, <1>3, <1>7, <2>1, <2>4, <2>6, <3>3 DEF Before
      <4>2. Lean(tree, x)
        BY <2>1, <3>3, <4>1 DEF Removable, c
      <4>3. x \in Node /\ x # r /\ P[x] \in K \cup {NULL} /\ c \in Node
        BY <1>1, <2>1, <3>3 DEF P, r
      <4>4. L[x] = NULL /\ P[x] # NULL /\ L[P[x]] = x => R[x] = NULL
        BY <4>2 DEF Lean, L, R, P
      <4>5. r # NULL
        BY <1>1 DEF r
      <4>6. \A y \in K : y \in Node
        BY <1>1
      <4> QED  BY <2>5, <4>3, <4>4, <4>5, <4>6
    <3> QED  BY <3>1, <3>2, <3>3
  <2>7. \A x \in S : h.pos[z] <= h.pos[x] => Lean(T4, x)
    BY <2>6 DEF Lean, L4, R4, P4
  <2> QED  BY <1>6, <1>7, <2>7, NextRemovable
<1> QED  BY <1>8, <1>9

-----------------------------------------------------------------------------
(* rbtree_insert, up to rbtree_fixup.                                       *)

\* The new node is in front of the nodes with keys that are not less, and behind
\* the others, which keep their order.
InOrderWith(T, g, h, U, n, k) ==
  /\ \A x \in U, y \in U : h.pos[x] < h.pos[y] <=> g.pos[x] < g.pos[y]
  /\ \A x \in U : IF T.key[x] < k THEN h.pos[x] < h.pos[n] ELSE h.pos[n] < h.pos[x]

\* It is where rbtree_insert puts it.
LEMMA InsertedOrder ==
  ASSUME NEW T, NEW pr, NEW ptr, NEW g, NEW h, NEW U, NEW K, NEW n, NEW c, NEW k,
         IsInserted(T, pr, ptr, g, h, U, K, n, c, k), Forest(tree, g, U, pool_root, K, heap)
  PROVE  InOrderWith(tree, g, h, U, n, k)
<1>1. CASE U = {}
  BY <1>1 DEF InOrderWith
<1>2. CASE U # {}
  <2>1. /\ c \in U /\ IsPlace(tree, g, U, k, c)
        /\ IF tree.key[c] < k THEN Behind(g, h, U, {n}, c) ELSE Before(g, h, U, {n}, c)
    BY <1>2 DEF IsInserted
  <2>2. CASE tree.key[c] < k
    <3>1. Behind(g, h, U, {n}, c) /\ \A x \in U : tree.key[x] < k <=> g.pos[x] <= g.pos[c]
      BY <2>1, <2>2 DEF IsPlace
    <3> QED  BY <3>1 DEF Behind, InOrderWith
  <2>3. CASE ~(tree.key[c] < k)
    <3>1. Before(g, h, U, {n}, c) /\ \A x \in U : tree.key[x] < k <=> g.pos[x] < g.pos[c]
      BY <2>1, <2>3 DEF IsPlace
    <3>2. \A x \in U : g.pos[x] \in Int
      BY DEF Forest, Rooted, Tree, Shape
    <3>3. \A x \in U : tree.key[x] < k <=> ~(g.pos[c] <= g.pos[x])
      BY <2>1, <3>1, <3>2
    <3>4. /\ \A x \in U, y \in U : h.pos[x] < h.pos[y] <=> g.pos[x] < g.pos[y]
          /\ \A x \in U : IF g.pos[c] <= g.pos[x] THEN h.pos[n] < h.pos[x] ELSE h.pos[x] < h.pos[n]
      BY <3>1 DEF Before
    <3> QED  BY <3>3, <3>4 DEF InOrderWith
  <2> QED  BY <2>2, <2>3
<1> QED  BY <1>1, <1>2

\* With the new node keys ascend as before.
LEMMA InsertedSorted ==
  ASSUME NEW T, NEW pr, NEW ptr, NEW g, NEW h, NEW U, NEW K, NEW n, NEW c, NEW k \in Keys,
         IsInserted(T, pr, ptr, g, h, U, K, n, c, k), Sorted(tree, g, U), Forest(tree, g, U, pool_root, K, heap)
  PROVE  Sorted(T, h, U \cup {n})
<1>1. /\ n \in Node /\ n \notin U /\ T.key = [tree.key EXCEPT ![n] = k] /\ U \subseteq Node
      /\ Shape(T.left, T.right, h)
  BY DEF IsInserted, Forest, Rooted, Tree
<1>2. /\ T.key[n] = k /\ \A x \in U : T.key[x] = tree.key[x] /\ tree.key[x] \in Int
      /\ k \in Int
  <2>1. tree.key \in [Node -> 0..MaxKey]
    BY Fields DEF Forest
  <2> QED  BY <1>1, <2>1 DEF Keys
<1>3. \A x \in U \cup {n} : h.pos[x] \in Int
  BY <1>1 DEF Shape
<1>4. InOrderWith(tree, g, h, U, n, k)
  BY InsertedOrder
<1>5. ASSUME NEW x \in U \cup {n}, NEW y \in U \cup {n}, h.pos[x] < h.pos[y]
      PROVE  T.key[x] <= T.key[y]
  <2>1. CASE x \in U /\ y \in U
    BY <1>2, <1>4, <1>5, <2>1 DEF InOrderWith, Sorted
  <2>2. CASE x = n /\ y \in U
    <3>1. ~(tree.key[y] < k)
      BY <1>3, <1>4, <1>5, <2>2 DEF InOrderWith
    <3> QED  BY <1>2, <2>2, <3>1
  <2>3. CASE x \in U /\ y = n
    <3>1. tree.key[x] < k
      BY <1>3, <1>4, <1>5, <2>3 DEF InOrderWith
    <3> QED  BY <1>2, <2>3, <3>1
  <2>4. CASE x = n /\ y = n
    BY <1>2, <2>4
  <2> QED  BY <2>1, <2>2, <2>3, <2>4
<1> QED  BY <1>2, <1>5 DEF Sorted

\* The colours are right below the new node, which is red unless it is the root.
LEMMA InsertedColours ==
  ASSUME NEW T, NEW pr, NEW ptr, NEW g, NEW h, NEW U, NEW K, NEW n, NEW c, NEW k,
         IsInserted(T, pr, ptr, g, h, U, K, n, c, k), Forest(tree, g, U, pool_root, K, heap), NEW b,
         Coloured(tree.left, tree.right, tree.parent, tree.color, b, U, NULL)
  PROVE  \E b2 : Coloured(T.left, T.right, T.parent, T.color, b2, U \cup {n}, IF U = {} THEN NULL ELSE n)
<1> DEFINE L == tree.left
           R == tree.right
           P == tree.parent
           L2 == T.left
           R2 == T.right
           P2 == T.parent
           col == tree.color
           col2 == T.color
           b2 == [x \in Node |-> IF x = n THEN (IF U = {} THEN 1 ELSE 0) ELSE b[x]]
<1>1. /\ n \in Node /\ n \notin U /\ U \subseteq Node /\ NULL \notin Node /\ RED # BLACK
      /\ \A x \in U : L[x] \in U \cup {NULL} /\ R[x] \in U \cup {NULL} /\ P[x] \in U \cup {NULL}
  BY NodeFacts DEF IsInserted, Forest, Rooted, Tree, RED, BLACK
<1>2. /\ col2 = [col EXCEPT ![n] = IF U = {} THEN BLACK ELSE RED] /\ L2[n] = NULL /\ R2[n] = NULL
      /\ \A x \in U : P2[x] = P[x] /\ (x # c => L2[x] = L[x] /\ R2[x] = R[x])
  BY DEF IsInserted
<1>3. U # {} => /\ c \in U
                /\ \/ R[c] = NULL /\ R2[c] = n /\ L2[c] = L[c]
                   \/ L[c] = NULL /\ L2[c] = n /\ R2[c] = R[c]
  BY DEF IsInserted, IsPlace
<1>4. col2[n] = (IF U = {} THEN BLACK ELSE RED) /\ \A x \in U : col2[x] = col[x]
  <2>1. col \in [Node -> {RED, BLACK}]
    BY Fields DEF Forest
  <2> HIDE DEF col, col2
  <2> QED  BY <1>1, <1>2, <2>1
<1>5. /\ \A x \in U : /\ b[x] \in Nat /\ col[x] \in {RED, BLACK}
                      /\ Height(b, L[x]) = Height(b, R[x])
                      /\ b[x] = Height(b, L[x]) + (IF col[x] = BLACK THEN 1 ELSE 0)
      /\ \A x \in U : col[x] = RED => P[x] # NULL /\ col[P[x]] = BLACK
  <2>1. NULL \notin U
    BY <1>1
  <2> QED  BY <2>1 DEF Coloured
<1>6. b2[n] = (IF U = {} THEN 1 ELSE 0) /\ \A x \in U : b2[x] = b[x]
  BY <1>1
<1> HIDE DEF L, R, P, L2, R2, P2, col, col2, b2
<1>7. \A x \in U : Height(b2, L2[x]) = Height(b, L[x]) /\ Height(b2, R2[x]) = Height(b, R[x])
  <2> SUFFICES ASSUME NEW x \in U PROVE Height(b2, L2[x]) = Height(b, L[x]) /\ Height(b2, R2[x]) = Height(b, R[x])
    OBVIOUS
  <2>1. \A y \in U \cup {NULL} : Height(b2, y) = Height(b, y)
    BY <1>1, <1>6 DEF Height
  <2>2. Height(b2, n) = Height(b, NULL)
    BY <1>1, <1>6 DEF Height
  <2>3. CASE x = c
    BY <1>1, <1>3, <2>1, <2>2, <2>3
  <2>4. CASE x # c
    BY <1>1, <1>2, <2>1, <2>4
  <2> QED  BY <2>3, <2>4
<1>8. ASSUME NEW x \in U
      PROVE  /\ b2[x] \in Nat /\ col2[x] \in {RED, BLACK}
             /\ Height(b2, L2[x]) = Height(b2, R2[x])
             /\ b2[x] = Height(b2, L2[x]) + (IF col2[x] = BLACK THEN 1 ELSE 0)
             /\ col2[x] = RED => P2[x] # NULL /\ col2[P2[x]] = BLACK
  <2>1. P2[x] = P[x] /\ (P[x] # NULL => col2[P[x]] = col[P[x]])
    BY <1>1, <1>2, <1>4
  <2> QED  BY <1>4, <1>5, <1>6, <1>7, <2>1
<1>9. /\ b2[n] \in Nat /\ col2[n] \in {RED, BLACK}
      /\ Height(b2, L2[n]) = Height(b2, R2[n])
      /\ b2[n] = Height(b2, L2[n]) + (IF col2[n] = BLACK THEN 1 ELSE 0)
      /\ U = {} => col2[n] # RED
      /\ U # {} => col2[n] = RED
  BY <1>1, <1>2, <1>4, <1>6 DEF Height
<1>10. Coloured(L2, R2, P2, col2, b2, U \cup {n}, IF U = {} THEN NULL ELSE n)
  <2>1. n # NULL
    BY <1>1
  <2> QED  BY <1>8, <1>9, <2>1 DEF Coloured
<1> QED  BY <1>10 DEF L2, R2, P2, col2

\* rbtree_node_count counts the new key.
LEMMA InsertedCounted ==
  ASSUME NEW T, NEW pr, NEW ptr, NEW g, NEW h, NEW U, NEW K, NEW n, NEW c, NEW k \in Keys,
         IsInserted(T, pr, ptr, g, h, U, K, n, c, k), Typed(tree), U \subseteq Node,
         Counted(tree, U), inserted \in [Keys -> Nat],
         count' = count + 1, inserted' = [inserted EXCEPT ![k] = @ + 1]
  PROVE  /\ count' = Cardinality(U \cup {n}) /\ count' \in 0..MaxNodes
         /\ \A j \in Keys : inserted'[j] = Cardinality({x \in U \cup {n} : T.key[x] = j})
         /\ inserted' \in [Keys -> Nat]
<1>1. /\ n \in Node /\ n \notin U /\ T.key = [tree.key EXCEPT ![n] = k]
      /\ count = Cardinality(U) /\ \A j \in Keys : inserted[j] = Cardinality({x \in U : tree.key[x] = j})
  BY DEF IsInserted, Counted
<1>2. /\ IsFiniteSet(Node) /\ Cardinality(Node) = MaxNodes /\ MaxNodes \in Nat
  BY NodeFacts, TreeAssumption, FS_Interval DEF Node
<1>3. IsFiniteSet(U) /\ Cardinality(U) \in Nat
  BY <1>2, FS_Subset, FS_CardinalityType
<1>4. Cardinality(U \cup {n}) = Cardinality(U) + 1
  BY <1>1, <1>3, FS_AddElement
<1>5. Cardinality(U \cup {n}) <= MaxNodes
  <2>1. U \cup {n} \in SUBSET Node
    BY <1>1
  <2> QED  BY <1>2, <2>1, FS_Subset
<1>6. T.key[n] = k /\ \A x \in U : T.key[x] = tree.key[x]
  BY <1>1, Fields
<1>7. ASSUME NEW j \in Keys PROVE inserted'[j] = Cardinality({x \in U \cup {n} : T.key[x] = j})
  <2> DEFINE X == {x \in U : tree.key[x] = j}
  <2>1. IsFiniteSet(X) /\ Cardinality(X) = inserted[j] /\ n \notin X
    BY <1>1, <1>3, FS_Subset
  <2>2. CASE j = k
    <3>1. {x \in U \cup {n} : T.key[x] = j} = X \cup {n}
      BY <1>6, <2>2
    <3>2. Cardinality(X \cup {n}) = Cardinality(X) + 1
      BY <2>1, FS_AddElement
    <3> QED  BY <2>1, <2>2, <3>1, <3>2
  <2>3. CASE j # k
    <3>1. {x \in U \cup {n} : T.key[x] = j} = X
      BY <1>6, <2>3
    <3> QED  BY <2>1, <2>3, <3>1
  <2> QED  BY <2>2, <2>3
<1> QED  BY <1>1, <1>2, <1>3, <1>4, <1>5, <1>7

\* The match list gets its last key a second time, or a greater one.
LEMMA FewKeys ==
  ASSUME NEW U, U \subseteq Node, Typed(tree), Counted(tree, U), inserted \in [Keys -> Nat],
         kind = "matches", MaxEqual <= 2, NEW k \in Keys, Accepts(k)
  PROVE  /\ \A x \in U : tree.key[x] \in Int /\ tree.key[x] <= k
         /\ \A x \in U, y \in U : tree.key[x] = k /\ tree.key[y] = k => x = y
<1>1. inserted[k] < MaxEqual /\ \A j \in Keys : j > k => inserted[j] = 0
  BY DEF Accepts
<1>2. MaxEqual \in Nat /\ MaxKey \in Nat /\ k \in Nat
  BY TreeAssumption DEF Keys
<1>3. \A x \in U : tree.key[x] \in 0..MaxKey
  BY Fields
<1>4. \A j \in Keys : /\ IsFiniteSet({x \in U : tree.key[x] = j})
                      /\ Cardinality({x \in U : tree.key[x] = j}) = inserted[j]
  <2>1. IsFiniteSet(U)
    BY NodeFacts, FS_Subset
  <2>2. \A j \in Keys : IsFiniteSet({x \in U : tree.key[x] = j})
    BY <2>1, FS_Subset
  <2> QED  BY <2>2 DEF Counted
<1>5. ASSUME NEW x \in U PROVE tree.key[x] <= k
  <2> SUFFICES ASSUME tree.key[x] > k PROVE FALSE
    BY <1>2, <1>3
  <2> DEFINE j == tree.key[x]
  <2>1. j \in Keys /\ inserted[j] = 0
    BY <1>1, <1>2, <1>3 DEF Keys
  <2>2. {y \in U : tree.key[y] = j} = {}
    BY <1>4, <2>1, FS_EmptySet
  <2> QED  BY <2>2
<1>6. ASSUME NEW x \in U, NEW y \in U, tree.key[x] = k, tree.key[y] = k PROVE x = y
  <2> DEFINE X == {m \in U : tree.key[m] = k}
  <2>1. inserted[k] = 0 \/ inserted[k] = 1
    BY <1>1, <1>2
  <2>2. IsFiniteSet(X) /\ Cardinality(X) = inserted[k] /\ x \in X /\ y \in X
    BY <1>4, <1>6
  <2> HIDE DEF X
  <2>3. X = {} \/ \E m : X = {m}
    BY <2>1, <2>2, FS_EmptySet, FS_Singleton
  <2> QED  BY <2>2, <2>3
<1> QED  BY <1>2, <1>3, <1>5, <1>6

\* The last node but one, if it has no right child, is a red leaf below the last.
LEMMA LastButOne ==
  ASSUME NEW L, NEW R, NEW P, NEW g, NEW r, NEW U, Shape(L, R, g), Tree(L, R, P, g, r, U),
         NEW col, NEW b, Coloured(L, R, P, col, b, U, NULL),
         NEW c \in U, NEW z \in U, g.pos[c] < g.pos[z], R[c] = NULL,
         \A m \in U : g.pos[m] <= g.pos[c] \/ m = z
  PROVE  L[z] = c /\ P[c] = z /\ R[z] = NULL /\ L[c] = NULL /\ col[c] = RED
<1>1. /\ U \subseteq Node /\ NULL \notin U /\ RED # BLACK
      /\ \A x \in U : /\ g.pos[x] \in Int /\ g.lo[x] \in Int /\ g.hi[x] \in Int
                      /\ g.lo[x] <= g.pos[x] /\ g.pos[x] <= g.hi[x]
  BY NodeFacts DEF Tree, Shape, RED, BLACK
<1>2. \A x \in U : /\ L[x] # NULL => L[x] \in U /\ P[L[x]] = x /\ g.lo[L[x]] = g.lo[x] /\ g.hi[L[x]] = g.pos[x] - 1
                   /\ R[x] # NULL => R[x] \in U /\ P[R[x]] = x /\ g.lo[R[x]] = g.pos[x] + 1 /\ g.hi[R[x]] = g.hi[x]
  BY <1>1 DEF Tree, Child, Shape
<1>3. \A m \in U, x \in U : /\ m # x => g.pos[m] # g.pos[x]
                            /\ g.lo[x] <= g.pos[m] /\ g.pos[m] < g.pos[x] => L[x] # NULL
                            /\ g.pos[x] < g.pos[m] /\ g.pos[m] <= g.hi[x] => R[x] # NULL
  BY DEF Tree
<1>4. R[z] = NULL
  <2> SUFFICES ASSUME R[z] # NULL PROVE FALSE
    OBVIOUS
  <2>1. R[z] \in U /\ g.pos[z] < g.pos[R[z]]
    BY <1>1, <1>2
  <2> QED  BY <1>1, <2>1
<1>5. Within(g, c, z)
  <2> DEFINE Both == {x \in U : Within(g, c, x) /\ Within(g, z, x)}
             w(x) == g.hi[x] - g.lo[x]
             Widths == {w(x) : x \in Both}
  <2>1. r \in Both
    BY DEF Tree
  <2>2. Widths \subseteq Nat /\ Widths # {}
    <3>1. \A x \in Both : w(x) \in Nat
      BY <1>1
    <3> QED  BY <2>1, <3>1
  <2>3. PICK i \in Widths : \A j \in Widths : i <= j
    <3> HIDE DEF Widths
    <3> QED  BY <2>2, LeastNumber
  <2>4. PICK x \in Both : i = w(x)
    BY <2>3
  <2>5. \A y \in Both : w(x) <= w(y)
    BY <2>3, <2>4
  <2>6. x \in U /\ Within(g, c, x) /\ Within(g, z, x)
    BY <2>4
  <2>7. ASSUME g.pos[x] < g.pos[c] PROVE FALSE
    <3>1. R[x] # NULL
      BY <1>3, <2>6, <2>7 DEF Within
    <3>2. R[x] \in U /\ g.lo[R[x]] = g.pos[x] + 1 /\ g.hi[R[x]] = g.hi[x]
      BY <1>2, <2>6, <3>1
    <3>3. Within(g, c, R[x]) /\ Within(g, z, R[x])
      BY <1>1, <2>6, <2>7, <3>2 DEF Within
    <3>4. w(x) <= w(R[x])
      BY <2>5, <3>2, <3>3
    <3> QED  BY <1>1, <2>6, <3>2, <3>4
  <2>8. ASSUME g.pos[z] < g.pos[x] PROVE FALSE
    BY <1>1, <2>6, <2>8
  <2>9. x = c \/ x = z
    BY <1>1, <1>3, <2>6, <2>7
  <2>10. x # c
    BY <1>3, <2>6 DEF Within
  <2> QED  BY <2>6, <2>9, <2>10
<1> DEFINE y == L[z]
<1>6. y \in U /\ P[y] = z /\ g.lo[y] = g.lo[z] /\ g.hi[y] = g.pos[z] - 1
  BY <1>2, <1>3, <1>5 DEF Within
<1> HIDE DEF y
<1>7. \A x \in U : /\ b[x] \in Nat /\ col[x] \in {RED, BLACK}
                   /\ Height(b, L[x]) = Height(b, R[x])
                   /\ b[x] = Height(b, L[x]) + (IF col[x] = BLACK THEN 1 ELSE 0)
                   /\ col[x] = RED => P[x] # NULL /\ col[P[x]] = BLACK
  BY <1>1 DEF Coloured
<1>8. \A x \in U \cup {NULL} : Height(b, x) \in Nat
  BY <1>7 DEF Height
<1>9. ASSUME NEW x \in U, b[x] = 0
      PROVE  col[x] = RED /\ (L[x] # NULL => b[L[x]] = 0) /\ (R[x] # NULL => b[R[x]] = 0)
  <2>1. Height(b, L[x]) \in Nat /\ Height(b, R[x]) \in Nat
    BY <1>2, <1>8
  <2>2. col[x] # BLACK /\ Height(b, L[x]) = 0 /\ Height(b, R[x]) = 0
    BY <1>7, <1>9, <2>1
  <2> QED  BY <1>7, <2>2 DEF Height
<1>10. b[y] = 0
  <2>1. Height(b, L[z]) = 0
    BY <1>4, <1>7 DEF Height
  <2> QED  BY <1>1, <1>6, <2>1 DEF Height, y
<1>11. col[y] = RED /\ L[y] = NULL /\ R[y] = NULL
  <2>1. col[y] = RED
    BY <1>6, <1>9, <1>10
  <2>2. ASSUME L[y] # NULL PROVE FALSE
    <3>1. L[y] \in U /\ P[L[y]] = y /\ col[L[y]] = RED
      BY <1>2, <1>6, <1>9, <1>10, <2>2
    <3> QED  BY <1>1, <1>7, <2>1, <3>1
  <2>3. ASSUME R[y] # NULL PROVE FALSE
    <3>1. R[y] \in U /\ P[R[y]] = y /\ col[R[y]] = RED
      BY <1>2, <1>6, <1>9, <1>10, <2>3
    <3> QED  BY <1>1, <1>7, <2>1, <3>1
  <2> QED  BY <2>1, <2>2, <2>3
<1>12. c = y
  <2> SUFFICES ASSUME c # y PROVE FALSE
    OBVIOUS
  <2>1. g.lo[y] <= g.pos[c] /\ g.pos[c] <= g.hi[y]
    BY <1>1, <1>5, <1>6 DEF Within
  <2>2. g.pos[c] < g.pos[y] \/ g.pos[y] < g.pos[c]
    BY <1>1, <1>3, <1>6
  <2> QED  BY <1>3, <1>6, <1>11, <2>1, <2>2
<1> QED  BY <1>4, <1>6, <1>11, <1>12 DEF y

\* The new node leaves the match list lean, but for one node that is rotated next.
LEMMA InsertedLean ==
  ASSUME NEW T, NEW pr, NEW ptr, NEW g, NEW h, NEW U, NEW K, NEW n, NEW c, NEW k \in Keys,
         IsInserted(T, pr, ptr, g, h, U, K, n, c, k), Forest(tree, g, U, pool_root, K, heap),
         NEW b, Coloured(tree.left, tree.right, tree.parent, tree.color, b, U, NULL),
         Counted(tree, U), inserted \in [Keys -> Nat],
         kind = "matches", MaxEqual <= 2, Accepts(k), \A x \in U : Lean(tree, x)
  PROVE  Leaning(T, h, U \cup {n}, IF U = {} THEN NULL ELSE n)
<1> DEFINE L == tree.left
           R == tree.right
           P == tree.parent
           L2 == T.left
           R2 == T.right
           P2 == T.parent
           S == U \cup {n}
<1>1. /\ n \in Node /\ n \notin U /\ U \subseteq Node /\ NULL \notin Node /\ n # NULL
      /\ Typed(tree) /\ Shape(L, R, g) /\ Tree(L, R, P, g, tree.root, U) /\ Shape(L2, R2, h)
  BY NodeFacts DEF IsInserted, Forest, Rooted, Tree
<1>2. /\ L2[n] = NULL /\ R2[n] = NULL
      /\ \A x \in U : P2[x] = P[x] /\ (x # c => L2[x] = L[x] /\ R2[x] = R[x])
  BY DEF IsInserted
<1>3. Lean(T, n)
  BY <1>2 DEF Lean
<1>4. CASE U = {}
  BY <1>3, <1>4 DEF Leaning
<1>5. CASE U # {}
  <2>1. /\ c \in U /\ P2[n] = c /\ IsPlace(tree, g, U, k, c) /\ c \in Node /\ c # NULL /\ c # n
        /\ IF tree.key[c] < k THEN R2[c] = n /\ L2[c] = L[c] ELSE L2[c] = n /\ R2[c] = R[c]
    BY <1>1, <1>5 DEF IsInserted
  <2>2. InOrderWith(tree, g, h, U, n, k)
    BY InsertedOrder
  <2>3. /\ \A x \in U : tree.key[x] \in Int /\ tree.key[x] <= k
        /\ \A x \in U, y \in U : tree.key[x] = k /\ tree.key[y] = k => x = y
    BY <1>1, FewKeys
  <2>4. \A x \in U : P[x] \in U \cup {NULL}
    BY <1>1 DEF Tree
  <2>5. \A x \in S : h.pos[x] \in Int /\ h.hi[x] \in Int /\ h.pos[x] <= h.hi[x]
    BY <1>1 DEF Shape
  <2>6. \A x \in U : g.pos[x] \in Int /\ k \in Int
    BY <1>1 DEF Shape, Keys
  <2> HIDE DEF L, R, P, L2, R2, P2
  <2>7. ASSUME NEW x \in U, x # c PROVE Lean(T, x)
    <3>1. L[x] = NULL /\ P[x] # NULL /\ L[P[x]] = x => R[x] = NULL
      BY DEF Lean, L, R, P
    <3>2. P2[x] # NULL => (L2[P2[x]] = x => L[P[x]] = x)
      BY <1>1, <1>2, <2>1, <2>4
    <3>3. L2[x] = NULL /\ P2[x] # NULL /\ L2[P2[x]] = x => R2[x] = NULL
      BY <1>2, <2>7, <3>1, <3>2
    <3> QED  BY <3>3 DEF Lean, L2, R2, P2
  <2>8. CASE ~(tree.key[c] < k)
    <3>1. tree.key[c] = k /\ L2[c] = n /\ L[c] = NULL
      BY <2>1, <2>3, <2>6, <2>8 DEF IsPlace, L
    <3>2. Lean(T, c)
      BY <1>1, <3>1 DEF Lean, L2
    <3>3. \A x \in S : Lean(T, x)
      BY <1>3, <2>7, <3>2
    <3>4. Last(h, S, c)
      <4> SUFFICES ASSUME NEW m \in S PROVE h.pos[m] <= h.pos[c]
        BY DEF Last
      <4>1. CASE m = n
        <5>1. h.pos[n] < h.pos[c]
          BY <2>1, <2>2, <2>8 DEF InOrderWith
        <5> QED  BY <2>1, <2>5, <4>1, <5>1
      <4>2. CASE m \in U
        <5>1. ~(h.pos[c] < h.pos[m])
          <6> SUFFICES ASSUME h.pos[c] < h.pos[m] PROVE FALSE
            OBVIOUS
          <6>1. g.pos[c] < g.pos[m]
            BY <2>1, <2>2, <4>2 DEF InOrderWith
          <6>2. ~(tree.key[m] < k)
            BY <2>1, <2>6, <2>8, <4>2, <6>1 DEF IsPlace
          <6>3. m = c
            BY <2>1, <2>3, <2>6, <3>1, <4>2, <6>2
          <6> QED  BY <2>1, <2>6, <6>1, <6>3
        <5> QED  BY <2>1, <2>5, <4>2, <5>1
      <4> QED  BY <4>1, <4>2
    <3>5. L2[P2[n]] = n /\ Last(h, S, P2[n])
      BY <2>1, <3>1, <3>4
    <3>6. Leaning(T, h, S, n)
      BY <1>1, <1>2, <3>3, <3>5 DEF Leaning, L2, R2, P2
    <3> QED  BY <1>5, <3>6
  <2>9. CASE tree.key[c] < k
    <3>1. /\ R2[c] = n /\ L2[c] = L[c] /\ R[c] = NULL
          /\ \A m \in U : tree.key[m] < k <=> g.pos[m] <= g.pos[c]
      BY <2>1, <2>9 DEF IsPlace, R
    <3>2. \A m \in U : ~(g.pos[m] <= g.pos[c]) => tree.key[m] = k
      BY <2>3, <2>6, <3>1
    <3>3. CASE \E z \in U : g.pos[c] < g.pos[z]
      <4>1. PICK z \in U : g.pos[c] < g.pos[z]
        BY <3>3
      <4>2. \A m \in U : g.pos[m] <= g.pos[c] \/ m = z
        BY <2>1, <2>3, <2>6, <3>2, <4>1
      <4>3. L[z] = c /\ P[c] = z /\ R[z] = NULL /\ L[c] = NULL /\ tree.color[c] = RED
        <5> DEFINE col == tree.color
        <5>1. Coloured(L, R, P, col, b, U, NULL) /\ Shape(L, R, g) /\ Tree(L, R, P, g, tree.root, U)
          BY <1>1 DEF L, R, P
        <5> HIDE DEF col
        <5>2. L[z] = c /\ P[c] = z /\ R[z] = NULL /\ L[c] = NULL /\ col[c] = RED
          BY <2>1, <3>1, <4>1, <4>2, <5>1, LastButOne
        <5> QED  BY <5>2 DEF col
      <4>4. T.color[c] = RED
        <5>1. T.color = [tree.color EXCEPT ![n] = IF U = {} THEN BLACK ELSE RED]
          BY DEF IsInserted
        <5>2. tree.color \in [Node -> {RED, BLACK}]
          BY <1>1, Fields
        <5> QED  BY <2>1, <4>3, <5>1, <5>2
      <4>5. z # c /\ z # NULL
        BY <1>1, <2>1, <2>6, <4>1
      <4>6. /\ R2[c] = n /\ L2[c] = NULL /\ P2[c] = z /\ L2[z] = c /\ R2[z] = NULL
        BY <1>2, <2>1, <3>1, <4>1, <4>3, <4>5
      <4>7. \A x \in S \ {c} : Lean(T, x)
        BY <1>3, <2>7
      <4>8. /\ P2[n] = c /\ P2[P2[n]] = z
        BY <2>1, <4>6
      <4>9. Leaning(T, h, S, n)
        BY <1>1, <1>2, <2>1, <4>4, <4>5, <4>6, <4>7, <4>8 DEF Leaning, L2, R2, P2
      <4> QED  BY <1>5, <4>9
    <3>4. CASE ~\E z \in U : g.pos[c] < g.pos[z]
      <4>1. \A m \in U : g.pos[m] <= g.pos[c] /\ tree.key[m] < k
        BY <2>1, <2>6, <3>1, <3>4
      <4>2. \A m \in S : h.pos[m] <= h.hi[n]
        <5> SUFFICES ASSUME NEW m \in S PROVE h.pos[m] <= h.hi[n]
          OBVIOUS
        <5>1. m = n \/ h.pos[m] < h.pos[n]
          BY <2>2, <4>1 DEF InOrderWith
        <5> QED  BY <2>5, <5>1
      <4>3. Lean(T, c)
        <5> SUFFICES ASSUME P2[c] # NULL, L2[P2[c]] = c PROVE FALSE
          BY DEF Lean, L2, R2, P2
        <5>1. P[c] \in U /\ P[c] \in Node /\ L2[P[c]] = c /\ P2[c] = P[c]
          BY <1>1, <1>2, <2>1, <2>4
        <5>2. L[P[c]] = c
          BY <1>2, <2>1, <3>1, <5>1
        <5>3. g.hi[c] = g.pos[P[c]] - 1 /\ g.pos[c] <= g.hi[c] /\ g.hi[c] \in Int
          BY <1>1, <2>1, <5>1, <5>2 DEF Shape, L, P
        <5> QED  BY <2>1, <2>6, <4>1, <5>1, <5>3
      <4>4. \A x \in S : Lean(T, x)
        BY <1>3, <2>7, <4>3
      <4>5. Leaning(T, h, S, n)
        BY <1>1, <4>2, <4>4 DEF Leaning
      <4> QED  BY <1>5, <4>5
    <3> QED  BY <3>3, <3>4
  <2> QED  BY <2>8, <2>9
<1> QED  BY <1>4, <1>5

\* rbtree_insert keeps the invariant.
LEMMA InsertKeeps ==
  ASSUME NEW g, NEW U, NEW K, NEW b, Invariant(g, U, K, b), NEW k \in Keys, Insert(k)
  PROVE  IInv'
<1> DEFINE q == PoolAfter
<1>0. PICK n, c, K2, S, a : /\ n = NewNode /\ c = Place(tree, k) /\ K2 = Remaining(g, K)
                            /\ S = U \cup {n} /\ a = IF U = {} THEN NULL ELSE n
  OBVIOUS
<1>1. pc = "idle" /\ Types /\ at = NULL /\ Grown(tree, g, U, K, b, NULL)
  BY DEF Insert, Invariant, Used
<1>2. /\ Sound(tree, g, U, K) /\ Thin(tree, g, U, NULL)
      /\ Coloured(tree.left, tree.right, tree.parent, tree.color, b, U, NULL)
      /\ Forest(tree, g, U, pool_root, K, heap) /\ Pooled(tree, g, pool_ptr, K)
      /\ Sorted(tree, g, U) /\ Counted(tree, U) /\ Kept(tree, g, U, K, pool_ptr)
      /\ pool_ptr \in Node \cup {NULL} /\ inserted \in [Keys -> Nat] /\ kind \in Kinds
  BY <1>1 DEF Grown, Sound, Types
<1>3. /\ Obtainable /\ Accepts(k)
      /\ tree' = Hang(q.T, n, k, c) /\ pool_root' = q.root /\ pool_ptr' = q.ptr /\ heap' = heap \ {n}
      /\ IF tree.root = NULL THEN pc' = pc /\ at' = at ELSE pc' = "fixup" /\ at' = n
      /\ count' = count + 1 /\ inserted' = [inserted EXCEPT ![k] = @ + 1] /\ kind' = kind
  BY <1>0 DEF Insert
<1> HIDE DEF q
<1>4. PICK h : IsInserted(tree', pool_root', pool_ptr', g, h, U, K, n, c, k)
  <2>1. \E h : IsInserted(Hang(PoolAfter.T, NewNode, k, Place(tree, k)), PoolAfter.root, PoolAfter.ptr,
                          g, h, U, K, NewNode, Place(tree, k), k)
    BY <1>2, <1>3, NodeHung
  <2> QED  BY <1>0, <1>3, <2>1 DEF q
<1>5. /\ Typed(tree) /\ U \subseteq Node /\ NULL \notin Node /\ n \in Node /\ n # NULL
      /\ tree.root = NULL <=> U = {}
  BY <1>2, <1>4, NodeFacts DEF Forest, Rooted, Tree, IsInserted
<1>6. at' = a /\ pc' = IF U = {} THEN "idle" ELSE "fixup"
  BY <1>0, <1>1, <1>3, <1>5
<1>7. /\ Forest(tree', h, S, pool_root', K2, heap') /\ Pooled(tree', h, pool_ptr', K2)
      /\ K2 \subseteq K
  BY <1>0, <1>3, <1>4 DEF IsInserted
<1>8. Sorted(tree', h, S)
  BY <1>0, <1>2, <1>4, InsertedSorted
<1>9. /\ count' = Cardinality(S) /\ count' \in 0..MaxNodes
      /\ \A j \in Keys : inserted'[j] = Cardinality({x \in S : tree'.key[x] = j})
      /\ inserted' \in [Keys -> Nat]
  <2>1. /\ count' = Cardinality(U \cup {n}) /\ count' \in 0..MaxNodes
        /\ \A j \in Keys : inserted'[j] = Cardinality({x \in U \cup {n} : tree'.key[x] = j})
        /\ inserted' \in [Keys -> Nat]
    <3> HIDE DEF Counted
    <3>1. count' = count + 1 /\ inserted' = [inserted EXCEPT ![k] = @ + 1] /\ Counted(tree, U)
          /\ inserted \in [Keys -> Nat]
      BY <1>2, <1>3
    <3> QED  BY <1>4, <1>5, <3>1, InsertedCounted
  <2> QED  BY <1>0, <2>1
<1>10. PICK b2 : Coloured(tree'.left, tree'.right, tree'.parent, tree'.color, b2, S, a)
  <2>1. \E b2 : Coloured(tree'.left, tree'.right, tree'.parent, tree'.color, b2, U \cup {n},
                         IF U = {} THEN NULL ELSE n)
    BY <1>2, <1>4, InsertedColours
  <2> QED  BY <1>0, <2>1
<1>11. MaxEqual <= 2 /\ kind = "matches" => Leaning(tree', h, S, a)
  <2> SUFFICES ASSUME MaxEqual <= 2, kind = "matches" PROVE Leaning(tree', h, S, a)
    OBVIOUS
  <2>1. \A x \in U : Lean(tree, x)
    BY <1>2 DEF Thin, Leaning
  <2>2. Leaning(tree', h, U \cup {n}, IF U = {} THEN NULL ELSE n)
    BY <1>2, <1>3, <1>4, <2>1, InsertedLean
  <2> QED  BY <1>0, <2>2
<1>12. MaxEqual <= 2 => /\ S \cup K2 \cup heap' = Node
                        /\ kind = "table" => K2 = {}
                        /\ Removable(tree', h, pool_ptr', K2)
  <2> SUFFICES ASSUME MaxEqual <= 2
               PROVE  /\ S \cup K2 \cup heap' = Node
                      /\ kind = "table" => K2 = {}
                      /\ Removable(tree', h, pool_ptr', K2)
    OBVIOUS
  <2>1. U \cup K \cup heap = Node /\ (kind = "table" => K = {}) /\ Removable(tree, g, pool_ptr, K)
    BY <1>2 DEF Kept
  <2>2. /\ (U \cup {n}) \cup Remaining(g, K) \cup (heap \ {n}) = Node
        /\ Removable(tree', h, PoolAfter.ptr, Remaining(g, K))
    <3>1. n = NewNode /\ IsInserted(tree', PoolAfter.root, PoolAfter.ptr, g, h, U, K, n, c, k)
      BY <1>0, <1>3, <1>4 DEF q
    <3> QED  BY <1>2, <1>3, <2>1, <3>1, PoolKept
  <2> QED  BY <1>0, <1>3, <1>7, <2>1, <2>2 DEF q
<1>13. pool_root' \in Node \cup {NULL} /\ pool_ptr' \in Node \cup {NULL}
  BY <1>7 DEF Forest, Rooted, Tree, Pooled, FirstLeft
<1>14. Sound(tree, h, S, K2)'
  BY <1>3, <1>7, <1>8, <1>9, <1>12 DEF Sound, Counted, Kept
<1>15. Thin(tree, h, S, a)'
  BY <1>3, <1>11 DEF Thin
<1>16. Grown(tree, h, S, K2, b2, at)'
  BY <1>6, <1>10, <1>14, <1>15 DEF Grown
<1>17. a = NULL \/ a = n
  BY <1>0
<1>18. a = NULL <=> U = {}
  BY <1>0, <1>5
<1>19. Types'
  BY <1>2, <1>3, <1>5, <1>6, <1>9, <1>13, <1>17 DEF Types
<1>20. Invariant(h, S, K2, b2)'
  BY <1>6, <1>16, <1>18, <1>19 DEF Invariant, Used, Felled, Drained, Gone
<1> QED  BY <1>20 DEF IInv

\* And so does rbtree_clear.
LEMMA ClearKeeps ==
  ASSUME NEW g, NEW U, NEW K, NEW b, Invariant(g, U, K, b), Clear
  PROVE  IInv'
<1> DEFINE T == IF pool_root = NULL THEN tree
                ELSE [tree EXCEPT !.left[pool_ptr] = tree.root, !.parent[tree.root] = pool_ptr]
           S == U \cup K
<1>1. pc = "idle" /\ Types /\ at = NULL /\ Grown(tree, g, U, K, b, NULL)
  BY DEF Clear, Invariant, Used
<1>2. /\ Thin(tree, g, U, NULL)
      /\ Forest(tree, g, U, pool_root, K, heap) /\ Pooled(tree, g, pool_ptr, K)
      /\ Kept(tree, g, U, K, pool_ptr) /\ Typed(tree)
      /\ pool_root \in Node \cup {NULL} /\ kind \in Kinds
  BY <1>1 DEF Grown, Sound, Types, Forest
<1>3. /\ kind = "matches" /\ tree.root # NULL
      /\ tree' = Dead(T, Below(tree, tree.root)) /\ pool_ptr' = reset_pool_ptr(T, Min(T, tree.root))
      /\ pool_root' = IF pool_root = NULL THEN tree.root ELSE pool_root
      /\ count' = 0 /\ inserted' = [k \in Keys |-> 0]
      /\ UNCHANGED <<kind, heap, pc, at>>
  BY DEF Clear, ClearedCount
<1>4. tree'.left = T.left /\ tree'.right = T.right
  BY <1>2, <1>3 DEF Typed, Dead
<1>5. PICK h : IsCleared(tree', pool_root', pool_ptr', g, h, U, K)
  <2>1. \E h : IsCleared(Dead(T, Below(tree, tree.root)), IF pool_root = NULL THEN tree.root ELSE pool_root,
                         reset_pool_ptr(T, Min(T, tree.root)), g, h, U, K)
    BY <1>2, <1>3, TreeCleared
  <2> QED  BY <1>3, <2>1
<1> HIDE DEF T
<1>6. Forest(tree', h, {}, pool_root', S, heap') /\ FirstLeft(tree'.left, h, pool_ptr', S)
  BY <1>3, <1>5 DEF IsCleared
<1>7. pool_root' \in Node \cup {NULL} /\ pool_ptr' \in Node \cup {NULL}
  BY <1>6 DEF Forest, Rooted, Tree, FirstLeft
<1>8. MaxEqual <= 2 => S \cup heap' = Node /\ Removable(tree', h, pool_ptr', S)
  <2> SUFFICES ASSUME MaxEqual <= 2 PROVE S \cup heap' = Node /\ Removable(tree', h, pool_ptr', S)
    OBVIOUS
  <2>1. \A x \in U : Lean(tree, x)
    BY <1>2, <1>3 DEF Thin, Leaning
  <2>2. U \cup K \cup heap = Node /\ Removable(tree, g, pool_ptr, K)
    BY <1>2 DEF Kept
  <2>3. Removable(tree', h, pool_ptr', U \cup K)
    BY <1>2, <1>3, <1>4, <1>5, <2>1, <2>2, ClearedRemovable
  <2> QED  BY <1>3, <2>2, <2>3
<1> HIDE DEF S
<1>9. Counted(tree, {})'
  <2>1. \A k \in Keys : {n \in {} : tree'.key[n] = k} = {}
    OBVIOUS
  <2> QED  BY <1>3, <2>1, FS_EmptySet DEF Counted
<1>10. Kept(tree, h, {}, S, pool_ptr)'
  BY <1>3, <1>8 DEF Kept
<1>11. Sound(tree, h, {}, S)'
  BY <1>6, <1>9, <1>10 DEF Sound, Pooled, Sorted
<1>12. Thin(tree, h, {}, NULL)' /\ Coloured(tree'.left, tree'.right, tree'.parent, tree'.color, b, {}, NULL)
  BY DEF Thin, Leaning, Coloured
<1>13. Grown(tree, h, {}, S, b, at)'
  BY <1>1, <1>3, <1>11, <1>12 DEF Grown
<1>14. Types'
  <2>1. count' \in 0..MaxNodes /\ inserted' \in [Keys -> Nat]
    BY <1>3, TreeAssumption
  <2> QED  BY <1>1, <1>3, <1>7, <2>1 DEF Types
<1>15. Invariant(h, {}, S, b)'
  BY <1>1, <1>3, <1>13, <1>14 DEF Invariant, Used, Felled, Drained, Gone
<1> QED  BY <1>15 DEF IInv

-----------------------------------------------------------------------------
(* rbtree_free and rbtree_free_pool.                                        *)

\* A tree whose root has no child on the left and none on the right is the root.
LEMMA OnlyRoot ==
  ASSUME NEW T, NEW g, NEW r, NEW S, Rooted(T, g, r, S), r # NULL,
         T.left[r] = NULL, T.right[r] = NULL
  PROVE  S = {r}
<1>1. r \in S /\ \A x \in S : Within(g, x, r)
  BY DEF Rooted, Tree
<1>2. Subtree(g, S, r) = S
  BY <1>1 DEF Subtree
<1> DEFINE L == T.left
           R == T.right
           P == T.parent
<1>3. Shape(L, R, g) /\ Tree(L, R, P, g, r, S) /\ L[r] = NULL /\ R[r] = NULL
  BY DEF Rooted
<1> HIDE DEF L, R, P
<1>4. Subtree(g, S, r) = {r} \cup (IF L[r] = NULL THEN {} ELSE Subtree(g, S, L[r]))
                             \cup (IF R[r] = NULL THEN {} ELSE Subtree(g, S, R[r]))
  BY <1>1, <1>3, SubtreeParts
<1> QED  BY <1>2, <1>3, <1>4

\* From the root, when nothing is left on its left, the loops go on on the right.
LEMMA RootPassed ==
  ASSUME NEW T, NEW g, NEW r, NEW S, Rooted(T, g, r, S), FirstLeft(T.left, g, r, S),
         NEW z, z = Min(T, T.right[r]) \/ z = reset_pool_ptr(T, T.right[r])
  PROVE  IF z = NULL THEN S = {r} ELSE FirstLeft(T.left, g, z, S) /\ z # r
<1>1. /\ r \in S /\ r # NULL /\ r \in Node /\ NULL \notin S
      /\ \A x \in S : g.pos[x] \in Int
  BY NodeFacts DEF Rooted, Tree, Shape, FirstLeft
<1>2. T.left[r] = NULL
  BY <1>1 DEF FirstLeft
<1>3. CASE T.right[r] = NULL
  <2>1. z = NULL
    BY <1>3 DEF Min, reset_pool_ptr
  <2> QED  BY <1>1, <1>2, <1>3, <2>1, OnlyRoot
<1>4. CASE T.right[r] # NULL
  <2>1. FirstLeft(T.left, g, z, S) /\ g.pos[r] < g.pos[z]
    BY <1>4, FirstOn
  <2>2. z \in S
    BY <2>1 DEF FirstLeft
  <2> QED  BY <1>1, <2>1, <2>2
<1> QED  BY <1>3, <1>4

\* rbtree_free_pool begins at the first node.
LEMMA DrainBegins ==
  ASSUME NEW T, NEW g, NEW r, NEW K, Rooted(T, g, r, K), NEW p, Pooled(T, g, p, K)
  PROVE  LET z == reset_pool_ptr(T, p) IN
         /\ IF z = NULL THEN K = {} ELSE FirstLeft(T.left, g, z, K)
         /\ Removable(T, g, p, K) => Removable(T, g, z, K)
         /\ z \in Node \cup {NULL}
<1> DEFINE z == reset_pool_ptr(T, p)
<1>1. K \subseteq Node /\ NULL \notin K /\ (r = NULL => K = {})
  BY NodeFacts DEF Rooted, Tree
<1>2. CASE p = NULL
  <2>1. K = {}
    BY <1>1, <1>2 DEF Pooled, FirstLeft
  <2>2. z = NULL
    BY <1>2 DEF reset_pool_ptr
  <2> QED  BY <2>1, <2>2 DEF Removable
<1>3. CASE p # NULL
  <2>1. FirstLeft(T.left, g, p, K) /\ r # NULL
    BY <1>1, <1>3 DEF Pooled, FirstLeft
  <2>2. FirstLeft(T.left, g, z, K)
    BY <2>1, FirstOfAll
  <2>3. z \in K
    BY <2>2 DEF FirstLeft
  <2>4. Removable(T, g, p, K) => Removable(T, g, z, K)
    BY <2>1, ResetRemovable
  <2> HIDE DEF z
  <2> QED  BY <1>1, <2>2, <2>3, <2>4 DEF z
<1> QED  BY <1>2, <1>3

\* The fields and trees after a root that is alone was freed.
LEMMA RootReleased ==
  ASSUME NEW T, NEW g, NEW r, NEW r2, NEW X, NEW H, Typed(T), Rooted(T, g, r, {r}), r # NULL,
         Rooted(T, g, r2, X), r \notin X, Loose(T, H, {r} \cup X)
  PROVE  LET T2 == Release(T, r) IN
         /\ Typed(T2) /\ T2.root = T.root /\ Rooted(T2, g, r2, X) /\ Loose(T2, H \cup {r}, X)
         /\ \A x \in X : T2.left[x] = T.left[x] /\ T2.right[x] = T.right[x] /\ T2.parent[x] = T.parent[x]
<1> DEFINE T2 == Release(T, r)
           L == T.left
           R == T.right
           P == T.parent
           L2 == T2.left
           R2 == T2.right
           P2 == T2.parent
<1>1. /\ r \in Node /\ X \subseteq Node /\ P[r] = NULL /\ NULL \notin Node
      /\ Shape(L, R, g) /\ Tree(L, R, P, g, r2, X)
      /\ \A x \in Node : (L[x] = r => P[r] = x) /\ (R[x] = r => P[r] = x)
  BY NodeFacts DEF Rooted, Tree, Child
<1>2. /\ Typed(T2) /\ T2.root = T.root
      /\ \A x \in Node : /\ L2[x] = IF x = r THEN NULL ELSE L[x]
                         /\ R2[x] = IF x = r THEN NULL ELSE R[x]
                         /\ P2[x] = IF x = r THEN NULL ELSE P[x]
  BY <1>1, ReleaseIs
<1>3. /\ H \subseteq Node \ ({r} \cup X) /\ \A x \in Node : L[x] \notin H /\ R[x] \notin H
  BY DEF Loose
<1> HIDE DEF T2, L, R, P
<1>4. \A x \in Node : L2[x] \in {L[x], NULL} /\ R2[x] \in {R[x], NULL}
  BY <1>2
<1>5. Shape(L2, R2, g)
  <2> HIDE DEF L2, R2
  <2> QED  BY <1>1, <1>4, ShapeCut
<1>6. \A x \in X : L2[x] = L[x] /\ R2[x] = R[x] /\ P2[x] = P[x]
  BY <1>1, <1>2
<1>7. Apart(L2, R2, X)
  <2>1. \A x \in Node \ X : L[x] \notin X /\ R[x] \notin X
    BY <1>1 DEF Tree, Child
  <2>2. NULL \notin X
    BY <1>1
  <2> QED  BY <1>4, <2>1, <2>2 DEF Apart
<1>8. Tree(L2, R2, P2, g, r2, X)
  <2> HIDE DEF L2, R2, P2
  <2>1. SameOn(L, R, P, g, L2, R2, P2, g, X)
    BY <1>6 DEF SameOn
  <2> QED  BY <1>1, <1>7, <2>1, Untouched
<1>9. Loose(T2, H \cup {r}, X)
  <2>1. H \cup {r} \subseteq Node \ X
    BY <1>1, <1>3
  <2>2. ASSUME NEW x \in Node PROVE L2[x] \notin H \cup {r} /\ R2[x] \notin H \cup {r}
    <3>1. L[x] # r /\ R[x] # r
      BY <1>1
    <3>2. NULL \notin H \cup {r}
      BY <1>1, <1>3
    <3> QED  BY <1>3, <1>4, <3>1, <3>2
  <2> QED  BY <2>1, <2>2 DEF Loose
<1> QED  BY <1>2, <1>5, <1>6, <1>8, <1>9 DEF Rooted, T2, L, R, P

\* No nodes are a tree, without a root.
LEMMA NoTree ==
  ASSUME NEW T, NEW g, Shape(T.left, T.right, g)
  PROVE  Rooted(T, g, NULL, {})
BY DEF Rooted, Tree, Child

\* rbtree_free begins at the first node of the tree, or at the pool, and keeps the invariant.
LEMMA BeginFreeKeeps ==
  ASSUME NEW g, NEW U, NEW K, NEW b, Invariant(g, U, K, b), BeginFree
  PROVE  IInv'
<1>1. pc = "idle" /\ Types /\ at = NULL /\ Grown(tree, g, U, K, b, NULL)
  BY DEF BeginFree, Invariant, Used
<1>2. /\ Forest(tree, g, U, pool_root, K, heap) /\ Pooled(tree, g, pool_ptr, K)
      /\ Kept(tree, g, U, K, pool_ptr)
      /\ Rooted(tree, g, tree.root, U) /\ Rooted(tree, g, pool_root, K)
      /\ U \subseteq Node /\ K \subseteq Node /\ NULL \notin Node
  BY <1>1, NodeFacts DEF Grown, Sound, Forest, Rooted, Tree
<1>3. UNCHANGED <<kind, tree, pool_root, count, heap, inserted>>
  BY DEF BeginFree
<1>4. CASE tree.root = NULL
  <2>1. pc' = "free_pool" /\ pool_ptr' = reset_pool_ptr(tree, pool_ptr) /\ at' = pool_ptr'
    BY <1>4 DEF BeginFree
  <2>2. U = {}
    BY <1>2, <1>4 DEF Rooted, Tree
  <2> DEFINE z == reset_pool_ptr(tree, pool_ptr)
  <2>3. /\ IF z = NULL THEN K = {} ELSE FirstLeft(tree.left, g, z, K)
        /\ Removable(tree, g, pool_ptr, K) => Removable(tree, g, z, K)
        /\ z \in Node \cup {NULL}
    BY <1>2, DrainBegins
  <2> HIDE DEF z
  <2>4. at' = z /\ pool_ptr' = z
    BY <2>1 DEF z
  <2>5. Kept(tree, g, U, K, at)'
    BY <1>2, <1>3, <2>3, <2>4 DEF Kept
  <2>6. Types'
    BY <1>1, <1>3, <2>1, <2>3, <2>4 DEF Types
  <2>7. Drained(g, U, K)'
    BY <1>2, <1>3, <2>2, <2>3, <2>4, <2>5 DEF Drained
  <2>8. Invariant(g, U, K, b)'
    BY <2>1, <2>6, <2>7 DEF Invariant, Used, Felled, Gone
  <2> QED  BY <2>8 DEF IInv
<1>5. CASE tree.root # NULL
  <2> DEFINE r == tree.root
             m == Min(tree, r)
             z == IF m = r THEN Min(tree, tree.right[r]) ELSE m
  <2>1. pc' = "free" /\ pool_ptr' = pool_ptr
    BY <1>5 DEF BeginFree
  <2>2. at' = z
    <3>1. at' = LET w == Min(tree, tree.root)
                IN IF w = tree.root THEN Min(tree, tree.right[w]) ELSE w
      BY <1>5 DEF BeginFree
    <3> QED  BY <3>1
  <2>3. FirstLeft(tree.left, g, m, U)
    BY <1>2, <1>5, FirstOfAll
  <2>4. IF z = NULL THEN U = {r} ELSE FirstLeft(tree.left, g, z, U)
    <3> HIDE DEF m
    <3>1. CASE m = r
      <4>1. IF Min(tree, tree.right[r]) = NULL THEN U = {r}
            ELSE FirstLeft(tree.left, g, Min(tree, tree.right[r]), U)
        <5> HIDE DEF r
        <5>1. Rooted(tree, g, r, U) /\ FirstLeft(tree.left, g, r, U)
          BY <1>2, <2>3, <3>1 DEF r
        <5> QED  BY <5>1, RootPassed
      <4> QED  BY <3>1, <4>1
    <3>2. CASE m # r
      <4>1. m \in U
        BY <2>3 DEF FirstLeft
      <4> QED  BY <1>2, <2>3, <3>2, <4>1
    <3> QED  BY <3>1, <3>2
  <2>5. z \in Node \cup {NULL} /\ r \in U
    BY <1>2, <1>5, <2>4 DEF FirstLeft, Rooted, Tree
  <2> HIDE DEF z
  <2>6. Types'
    BY <1>1, <1>3, <2>1, <2>2, <2>5 DEF Types
  <2>7. Kept(tree, g, U, K, pool_ptr)'
    BY <1>2, <1>3, <2>1 DEF Kept
  <2>8. Felled(g, U, K)'
    BY <1>2, <1>3, <1>5, <2>1, <2>2, <2>4, <2>7 DEF Felled
  <2>9. Invariant(g, U, K, b)'
    BY <2>1, <2>6, <2>8 DEF Invariant, Used, Drained, Gone
  <2> QED  BY <2>9 DEF IInv
<1> QED  BY <1>4, <1>5

\* The node that is left next: it is the first, and not the root.
LEMMA CursorIs ==
  ASSUME NEW g, NEW U, NEW K, Felled(g, U, K), pc = "free"
  PROVE  /\ at # NULL /\ Cursor # NULL => MayFree(tree, g, tree.root, U, pool_root, K, heap, Cursor)
         /\ at = NULL \/ Cursor = NULL => U = {tree.root}
         /\ tree.root # NULL /\ tree.root \in U
<1> DEFINE r == tree.root
           z == Min(tree, tree.right[r])
<1>1. /\ Forest(tree, g, U, pool_root, K, heap) /\ r # NULL
      /\ Rooted(tree, g, r, U) /\ IF at = NULL THEN U = {r} ELSE FirstLeft(tree.left, g, at, U)
  BY DEF Felled, Forest
<1>2. at = r => IF z = NULL THEN U = {r} ELSE FirstLeft(tree.left, g, z, U) /\ z # r
  <2> HIDE DEF r
  <2> SUFFICES ASSUME at = r PROVE IF z = NULL THEN U = {r} ELSE FirstLeft(tree.left, g, z, U) /\ z # r
    OBVIOUS
  <2>1. FirstLeft(tree.left, g, r, U)
    <3>1. r # NULL
      BY <1>1
    <3> QED  BY <1>1, <3>1
  <2> QED  BY <1>1, <2>1, RootPassed
<1>3. Cursor = IF at = r THEN z ELSE at
  BY DEF Cursor
<1>4. at # NULL /\ Cursor # NULL => FirstLeft(tree.left, g, Cursor, U) /\ Cursor # r
  <2> HIDE DEF r, z
  <2> QED  BY <1>1, <1>2, <1>3
<1>5. at = NULL \/ Cursor = NULL => U = {r}
  <2> HIDE DEF r, z
  <2> QED  BY <1>1, <1>2, <1>3
<1>6. at # NULL /\ Cursor # NULL => MayFree(tree, g, r, U, pool_root, K, heap, Cursor)
  <2> HIDE DEF r, z
  <2> QED  BY <1>1, <1>4 DEF MayFree, Forest, r
<1>7. r \in U
  BY <1>1 DEF Rooted, Tree
<1> QED  BY <1>1, <1>5, <1>6, <1>7

\* Freeing a leaf keeps the invariant.
LEMMA FreeLeafKeeps ==
  ASSUME NEW g, NEW U, NEW K, NEW b, Invariant(g, U, K, b), FreeLeaf
  PROVE  IInv'
<1>0. PICK p, S2, T1 : p = Cursor /\ S2 = U \ Subtree(g, U, p) /\ T1 = Cut(tree, p)
  OBVIOUS
<1>1. /\ pc = "free" /\ Types /\ Felled(g, U, K) /\ at # NULL /\ p # NULL
      /\ tree.left[p] = NULL /\ tree.right[p] = NULL
      /\ at' = tree.parent[p] /\ tree' = Release(T1, p) /\ heap' = heap \cup {p}
      /\ UNCHANGED <<kind, pool_root, pool_ptr, count, pc, inserted>>
  BY <1>0 DEF FreeLeaf, Working, IsLeaf, Invariant
<1>2. /\ Forest(tree, g, U, pool_root, K, heap) /\ Pooled(tree, g, pool_ptr, K)
      /\ Kept(tree, g, U, K, pool_ptr) /\ tree.root # NULL /\ U \cap K = {}
      /\ K \subseteq Node /\ U \subseteq Node /\ NULL \notin Node
      /\ \A x \in K : tree.parent[x] \in K \cup {NULL}
  BY <1>1, NodeFacts DEF Felled, Forest, Rooted, Tree
<1>3. MayFree(tree, g, tree.root, U, pool_root, K, heap, p)
  BY <1>0, <1>1, CursorIs
<1>4. IsFreed(tree, T1, tree', g, tree.root, U, pool_root, K, heap, p)
  BY <1>0, <1>1, <1>3, NodeFreed
<1>5. /\ Typed(tree') /\ tree'.root = tree.root
      /\ Rooted(tree', g, tree.root, S2) /\ Rooted(tree', g, pool_root, K)
      /\ Loose(tree', heap \cup {p}, S2 \cup K) /\ tree.parent[p] \in S2
      /\ FirstLeft(T1.left, g, tree.parent[p], S2)
      /\ IsLeft(tree, T1, p, S2, {}) /\ IsLeft(tree, tree', p, S2, K)
  BY <1>0, <1>4 DEF IsFreed
<1>6. Subtree(g, U, p) = {p} /\ p \in Node
  <2>1. p \in U /\ Rooted(tree, g, tree.root, U)
    BY <1>3 DEF MayFree, FirstLeft
  <2> DEFINE L == tree.left
             R == tree.right
             P == tree.parent
  <2>2. Shape(L, R, g) /\ Tree(L, R, P, g, tree.root, U) /\ L[p] = NULL /\ R[p] = NULL
    BY <1>1, <2>1 DEF Rooted
  <2> HIDE DEF L, R, P
  <2>3. Subtree(g, U, p) = {p} \cup (IF L[p] = NULL THEN {} ELSE Subtree(g, U, L[p]))
                               \cup (IF R[p] = NULL THEN {} ELSE Subtree(g, U, R[p]))
    BY <2>1, <2>2, SubtreeParts
  <2> QED  BY <1>2, <2>1, <2>2, <2>3
<1>7. S2 = U \ {p} /\ S2 \subseteq U
  BY <1>0, <1>6
<1>8. Forest(tree', g, S2, pool_root, K, heap')
  BY <1>1, <1>2, <1>5, <1>7 DEF Forest
<1>9. \A x \in K : tree'.left[x] = tree.left[x] /\ tree'.right[x] = tree.right[x] /\ tree'.parent[x] = tree.parent[x]
  BY <1>5 DEF IsLeft
<1>10. Pooled(tree', g, pool_ptr, K)
  BY <1>2, <1>9 DEF Pooled, FirstLeft
<1>11. FirstLeft(tree'.left, g, at', S2)
  <2>1. \A x \in S2 : tree'.left[x] = T1.left[x]
    BY <1>5 DEF IsLeft
  <2> QED  BY <1>1, <1>5, <2>1 DEF FirstLeft
<1>12. Kept(tree, g, S2, K, pool_ptr)'
  <2>1. ASSUME Removable(tree, g, pool_ptr, K) PROVE Removable(tree', g, pool_ptr, K)
    <3>1. pool_ptr = NULL \/ pool_ptr \in K
      BY <1>2 DEF Pooled, FirstLeft
    <3>2. \A x \in K : \/ tree'.parent[x] = NULL
                       \/ /\ tree'.parent[x] = tree.parent[x]
                          /\ tree'.left[tree.parent[x]] = x => tree.left[tree.parent[x]] = x
      BY <1>2, <1>9
    <3> QED  BY <1>9, <2>1, <3>1, <3>2, StillRemovable
  <2>2. U \cup K \cup heap = Node => S2 \cup K \cup heap' = Node
    BY <1>1, <1>6, <1>7
  <2> QED  BY <1>1, <1>2, <2>1, <2>2 DEF Kept
<1>13. at' \in Node /\ at' # NULL
  BY <1>1, <1>2, <1>5, <1>7
<1>14. Types'
  BY <1>1, <1>13 DEF Types
<1>15. Felled(g, S2, K)'
  BY <1>1, <1>2, <1>5, <1>8, <1>10, <1>11, <1>12, <1>13 DEF Felled
<1>16. Invariant(g, S2, K, b)'
  BY <1>1, <1>14, <1>15 DEF Invariant, Used, Drained, Gone
<1> QED  BY <1>16 DEF IInv

\* Going on from another node keeps the invariant.
LEMMA GoOnKeeps ==
  ASSUME NEW g, NEW U, NEW K, NEW b, Invariant(g, U, K, b), GoOn
  PROVE  IInv'
<1>0. PICK p : p = Cursor
  OBVIOUS
<1>1. /\ pc = "free" /\ Types /\ Felled(g, U, K) /\ at # NULL /\ p # NULL
      /\ at' = IF tree.right[p] # NULL THEN Min(tree, tree.right[p]) ELSE p
      /\ UNCHANGED <<kind, tree, pool_root, pool_ptr, count, heap, pc, inserted>>
  BY <1>0 DEF GoOn, Working, Invariant
<1>2. MayFree(tree, g, tree.root, U, pool_root, K, heap, p)
  BY <1>0, <1>1, CursorIs
<1>3. FirstLeft(tree.left, g, at', U)
  BY <1>1, <1>2, FirstOn DEF MayFree
<1>4. at' \in Node /\ at' # NULL
  BY <1>2, <1>3, NodeFacts DEF FirstLeft, MayFree, Rooted, Tree
<1>5. Types'
  BY <1>1, <1>4 DEF Types
<1>6. Felled(g, U, K)'
  BY <1>1, <1>3, <1>4 DEF Felled, Kept
<1>7. Invariant(g, U, K, b)'
  BY <1>1, <1>5, <1>6 DEF Invariant, Used, Drained, Gone
<1> QED  BY <1>7 DEF IInv

\* Freeing the root keeps the invariant, and rbtree_free_pool begins.
LEMMA FreeRootKeeps ==
  ASSUME NEW g, NEW U, NEW K, NEW b, Invariant(g, U, K, b), FreeRoot
  PROVE  IInv'
<1>0. PICK r, z, T2 : r = tree.root /\ z = reset_pool_ptr(tree, pool_ptr) /\ T2 = Release(tree, r)
  OBVIOUS
<1>1. /\ pc = "free" /\ Types /\ Felled(g, U, K) /\ (at = NULL \/ Cursor = NULL)
      /\ tree' = [T2 EXCEPT !.root = NULL] /\ heap' = heap \cup {r}
      /\ pc' = "free_pool" /\ pool_ptr' = z /\ at' = z
      /\ UNCHANGED <<kind, pool_root, count, inserted>>
  BY <1>0 DEF FreeRoot, Invariant
<1>2. U = {r} /\ r # NULL
  BY <1>0, <1>1, CursorIs
<1>3. /\ Typed(tree) /\ Rooted(tree, g, r, {r}) /\ Rooted(tree, g, pool_root, K) /\ r \notin K
      /\ Loose(tree, heap, {r} \cup K) /\ Pooled(tree, g, pool_ptr, K) /\ Kept(tree, g, U, K, pool_ptr)
  BY <1>0, <1>1, <1>2 DEF Felled, Forest
<1>4. /\ Typed(T2) /\ Rooted(T2, g, pool_root, K) /\ Loose(T2, heap \cup {r}, K)
      /\ \A x \in K : T2.left[x] = tree.left[x] /\ T2.right[x] = tree.right[x] /\ T2.parent[x] = tree.parent[x]
  <2>1. /\ Typed(Release(tree, r)) /\ Rooted(Release(tree, r), g, pool_root, K)
        /\ Loose(Release(tree, r), heap \cup {r}, K)
        /\ \A x \in K : /\ Release(tree, r).left[x] = tree.left[x]
                        /\ Release(tree, r).right[x] = tree.right[x]
                        /\ Release(tree, r).parent[x] = tree.parent[x]
    BY SMTT(30), <1>2, <1>3, RootReleased
  <2> QED  BY <1>0, <2>1
<1>5. /\ Typed(tree') /\ tree'.root = NULL /\ tree'.left = T2.left /\ tree'.right = T2.right
      /\ tree'.parent = T2.parent
  BY <1>1, <1>4 DEF Typed
<1>6. Rooted(tree', g, NULL, {}) /\ Rooted(tree', g, pool_root, K) /\ Loose(tree', heap', K)
  <2>1. Rooted(tree', g, pool_root, K)
    BY <1>4, <1>5 DEF Rooted
  <2>2. Loose(tree', heap', K)
    BY <1>1, <1>4, <1>5 DEF Loose
  <2>3. Rooted(tree', g, NULL, {})
    <3>1. PICK T : T = tree'
      OBVIOUS
    <3>2. Shape(T.left, T.right, g)
      BY <2>1, <3>1 DEF Rooted
    <3> QED  BY <3>1, <3>2, NoTree
  <2> QED  BY <2>1, <2>2, <2>3
<1>7. Forest(tree', g, {}, pool_root, K, heap')
  <2>1. {} \cup K = K /\ {} \cap K = {}
    OBVIOUS
  <2> QED  BY <1>5, <1>6, <2>1 DEF Forest
<1>8. /\ IF z = NULL THEN K = {} ELSE FirstLeft(tree.left, g, z, K)
      /\ Removable(tree, g, pool_ptr, K) => Removable(tree, g, z, K)
      /\ z \in Node \cup {NULL}
  BY <1>0, <1>3, DrainBegins
<1>9. \A x \in K : tree'.left[x] = tree.left[x] /\ tree'.right[x] = tree.right[x] /\ tree'.parent[x] = tree.parent[x]
  BY <1>4, <1>5
<1>10. IF z = NULL THEN K = {} ELSE FirstLeft(tree'.left, g, z, K)
  BY <1>8, <1>9 DEF FirstLeft
<1>11. Kept(tree, g, {}, K, at)'
  <2>1. ASSUME Removable(tree, g, z, K) PROVE Removable(tree', g, z, K)
    <3>1. z = NULL \/ z \in K
      BY <1>8 DEF FirstLeft
    <3>2. K \subseteq Node /\ NULL \notin Node /\ \A x \in K : tree.parent[x] \in K \cup {NULL}
      BY <1>3, NodeFacts DEF Rooted, Tree
    <3>3. \A x \in K : \/ tree'.parent[x] = NULL
                       \/ /\ tree'.parent[x] = tree.parent[x]
                          /\ tree'.left[tree.parent[x]] = x => tree.left[tree.parent[x]] = x
      BY <1>9, <3>2
    <3> QED  BY <1>9, <2>1, <3>1, <3>3, StillRemovable
  <2>2. U \cup K \cup heap = Node => {} \cup K \cup heap' = Node
    BY <1>1, <1>2
  <2> QED  BY <1>1, <1>3, <1>8, <2>1, <2>2 DEF Kept
<1>12. Types'
  BY <1>1, <1>8 DEF Types
<1>13. Drained(g, {}, K)'
  BY <1>1, <1>7, <1>10, <1>11 DEF Drained
<1>14. Invariant(g, {}, K, b)'
  BY <1>1, <1>12, <1>13 DEF Invariant, Used, Felled, Gone
<1> QED  BY <1>14 DEF IInv

\* The next node of the pool, behind one that was freed, is the first again.
LEMMA NextPooled ==
  ASSUME NEW T, NEW T1, NEW g, NEW r, NEW K1, NEW p, Rooted(T1, g, r, K1), T.parent[p] \in K1,
         FirstLeft(T1.left, g, T.parent[p], K1), IsLeft(T, T1, p, K1, {})
  PROVE  LET up == T.parent[p]
             z == IF p = T.left[up] /\ T.right[up] # NULL
                  THEN reset_pool_ptr(T1, T.right[up]) ELSE up
         IN FirstLeft(T1.left, g, z, K1)
<1>1. CASE p = T.left[T.parent[p]] /\ T.right[T.parent[p]] # NULL
  <2>1. T1.right[T.parent[p]] = T.right[T.parent[p]]
    BY <1>1 DEF IsLeft
  <2>2. FirstLeft(T1.left, g, reset_pool_ptr(T1, T1.right[T.parent[p]]), K1)
    BY <1>1, <2>1, FirstOn
  <2> QED  BY <1>1, <2>1, <2>2
<1>2. CASE ~(p = T.left[T.parent[p]] /\ T.right[T.parent[p]] # NULL)
  BY <1>2
<1> QED  BY <1>1, <1>2

\* Freeing a node of the pool, or passing its root, keeps the invariant.
LEMMA FreePooledKeeps ==
  ASSUME NEW g, NEW U, NEW K, NEW b, Invariant(g, U, K, b), FreePooled
  PROVE  IInv'
<1>0. PICK p, up, K2, T1 : p = at /\ up = tree.parent[p] /\ K2 = K \ Subtree(g, K, p) /\ T1 = Cut(tree, p)
  OBVIOUS
<1>1. /\ pc = "free_pool" /\ Types /\ Drained(g, U, K) /\ pool_root # NULL /\ p # NULL
      /\ UNCHANGED <<kind, pool_root, pool_ptr, count, pc, inserted>>
  BY <1>0 DEF FreePooled, Invariant
<1>2. /\ Forest(tree, g, U, pool_root, K, heap) /\ U = {} /\ FirstLeft(tree.left, g, p, K)
      /\ Kept(tree, g, U, K, p)
      /\ Typed(tree) /\ Rooted(tree, g, tree.root, {}) /\ Rooted(tree, g, pool_root, K)
      /\ Loose(tree, heap, K) /\ K \subseteq Node /\ NULL \notin Node /\ p \in K
  <2>1. /\ Forest(tree, g, U, pool_root, K, heap) /\ U = {} /\ FirstLeft(tree.left, g, p, K)
        /\ Kept(tree, g, U, K, p)
    BY <1>0, <1>1 DEF Drained
  <2>2. {} \cup K = K
    OBVIOUS
  <2> QED  BY <2>1, <2>2, NodeFacts DEF Forest, Rooted, Tree, FirstLeft
<1>3. CASE up = NULL
  <2>1. at' = reset_pool_ptr(tree, tree.right[p]) /\ UNCHANGED <<tree, heap>>
    BY <1>0, <1>3 DEF FreePooled
  <2>2. p = pool_root
    <3>1. p # pool_root => up \in K
      BY <1>0, <1>2 DEF Rooted, Tree
    <3> QED  BY <1>2, <1>3, <3>1
  <2>3. PICK z : z = reset_pool_ptr(tree, tree.right[p])
    OBVIOUS
  <2>4. IF z = NULL THEN K = {p} ELSE FirstLeft(tree.left, g, z, K)
    BY <1>2, <2>2, <2>3, RootPassed
  <2>5. z \in Node \cup {NULL}
    BY <1>2, <2>4 DEF FirstLeft
  <2>6. Removable(tree, g, p, K) => Removable(tree, g, z, K)
    BY <1>2, <2>3, ResetRemovable
  <2>7. at' = z
    BY <2>1, <2>3
  <2>8. Kept(tree, g, U, K, at)'
    BY <1>1, <1>2, <2>1, <2>6, <2>7 DEF Kept
  <2>9. Types'
    BY <1>1, <2>5, <2>7 DEF Types
  <2>10. Drained(g, U, K)'
    BY <1>1, <1>2, <2>1, <2>2, <2>4, <2>7, <2>8 DEF Drained
  <2>11. Invariant(g, U, K, b)'
    BY <1>1, <2>9, <2>10 DEF Invariant, Used, Felled, Gone
  <2> QED  BY <2>11 DEF IInv
<1>4. CASE up # NULL
  <2>0. PICK z : z = IF p = tree.left[up] /\ tree.right[up] # NULL
                     THEN reset_pool_ptr(T1, tree.right[up]) ELSE up
    OBVIOUS
  <2>1. tree' = Release(T1, p) /\ heap' = heap \cup {p} /\ at' = z
    BY <1>0, <1>4, <2>0 DEF FreePooled
  <2>2. p # pool_root
    BY <1>0, <1>2, <1>4 DEF Rooted, Tree
  <2>3. MayFree(tree, g, pool_root, K, tree.root, {}, heap, p)
    <3>1. K \cup {} = K /\ K \cap {} = {}
      OBVIOUS
    <3> QED  BY <1>2, <2>2, <3>1 DEF MayFree
  <2>4. IsFreed(tree, T1, tree', g, pool_root, K, tree.root, {}, heap, p)
    BY <1>0, <2>1, <2>3, NodeFreed
  <2>5. /\ Typed(tree') /\ tree'.root = tree.root
        /\ Rooted(T1, g, pool_root, K2) /\ Rooted(tree', g, pool_root, K2) /\ Rooted(tree', g, tree.root, {})
        /\ Loose(tree', heap \cup {p}, K2) /\ up \in K2
        /\ FirstLeft(T1.left, g, up, K2)
        /\ IsLeft(tree, T1, p, K2, {}) /\ IsLeft(tree, tree', p, K2, {})
    <3>1. K2 \cup {} = K2
      OBVIOUS
    <3> QED  BY <1>0, <2>4, <3>1 DEF IsFreed
  <2>6. FirstLeft(T1.left, g, z, K2)
    BY <1>0, <2>0, <2>5, NextPooled
  <2>7. /\ \A x \in K2 : tree'.left[x] = T1.left[x] /\ tree'.right[x] = T1.right[x] /\ tree'.parent[x] = T1.parent[x]
        /\ \A x \in K2 : T1.parent[x] \in K2 \cup {NULL}
    BY <2>5 DEF IsLeft, Rooted, Tree
  <2>8. FirstLeft(tree'.left, g, z, K2) /\ z \in K2
    BY <2>6, <2>7 DEF FirstLeft
  <2>9. K2 \subseteq K /\ z \in Node /\ z # NULL
    BY <1>0, <1>2, <2>8
  <2>10. Forest(tree', g, {}, pool_root, K2, heap')
    <3>1. {} \cup K2 = K2 /\ {} \cap K2 = {}
      OBVIOUS
    <3> QED  BY <2>1, <2>5, <3>1 DEF Forest
  <2>11. Kept(tree, g, {}, K2, at)'
    <3>1. ASSUME Removable(tree, g, p, K)
          PROVE  Removable(tree', g, z, K2) /\ Subtree(g, K, p) = {p}
      <4>1. Removable(T1, g, z, K2) /\ Subtree(g, K, p) = {p}
        BY <1>0, <1>2, <1>4, <2>0, <2>5, <3>1, UpRemovable
      <4>2. \A x \in K2 : \/ tree'.parent[x] = NULL
                          \/ /\ tree'.parent[x] = T1.parent[x]
                             /\ tree'.left[T1.parent[x]] = x => T1.left[T1.parent[x]] = x
        BY <2>7
      <4> QED  BY <2>7, <2>8, <4>1, <4>2, StillRemovable
    <3>2. ASSUME Subtree(g, K, p) = {p}, U \cup K \cup heap = Node
          PROVE  {} \cup K2 \cup heap' = Node
      BY <1>0, <1>2, <2>1, <3>2
    <3>3. kind = "table" => (K = {} => K2 = {})
      BY <2>9
    <3> QED  BY <1>1, <1>2, <2>1, <3>1, <3>2, <3>3 DEF Kept
  <2>12. Types'
    BY <1>1, <2>1, <2>9 DEF Types
  <2>13. Drained(g, {}, K2)'
    BY <1>1, <2>1, <2>8, <2>9, <2>10, <2>11 DEF Drained
  <2>14. Invariant(g, {}, K2, b)'
    BY <1>1, <2>12, <2>13 DEF Invariant, Used, Felled, Gone
  <2> QED  BY <2>14 DEF IInv
<1> QED  BY <1>3, <1>4

\* When rbtree_free_pool ends, the invariant holds without tree and pool.
LEMMA FreeEndsKeeps ==
  ASSUME NEW g, NEW U, NEW K, NEW b, Invariant(g, U, K, b), FreeEnds
  PROVE  IInv'
<1>0. PICK r : r = pool_root
  OBVIOUS
<1>1. /\ pc = "free_pool" /\ Types /\ Drained(g, U, K) /\ (r = NULL \/ at = NULL)
      /\ tree' = IF r = NULL THEN tree ELSE Release(tree, r)
      /\ heap' = heap \cup ({r} \ {NULL}) /\ pc' = "gone" /\ at' = NULL
      /\ UNCHANGED <<kind, pool_root, pool_ptr, count, inserted>>
  BY <1>0 DEF FreeEnds, Invariant
<1>2. /\ Forest(tree, g, U, r, K, heap) /\ U = {} /\ Kept(tree, g, U, K, at)
      /\ IF at = NULL THEN K \subseteq {r} ELSE FirstLeft(tree.left, g, at, K)
      /\ Typed(tree) /\ Rooted(tree, g, tree.root, {}) /\ Rooted(tree, g, r, K) /\ Loose(tree, heap, K)
  <2>1. /\ Forest(tree, g, U, r, K, heap) /\ U = {} /\ Kept(tree, g, U, K, at)
        /\ IF at = NULL THEN K \subseteq {r} ELSE FirstLeft(tree.left, g, at, K)
    BY <1>0, <1>1 DEF Drained
  <2>2. {} \cup K = K
    OBVIOUS
  <2> QED  BY <2>1, <2>2 DEF Forest
<1>3. r \in K \cup {NULL} /\ (r = NULL => K = {}) /\ tree.root = NULL /\ NULL \notin Node /\ K \subseteq Node
  BY <1>2, NodeFacts DEF Rooted, Tree
<1>4. K = {r} \ {NULL}
  BY <1>1, <1>2, <1>3
<1>5. Forest(tree', g, {}, NULL, {}, heap')
  <2>1. CASE r = NULL
    <3>1. Rooted(tree, g, NULL, {})
      BY <1>2, <1>3
    <3>2. tree' = tree /\ heap' = heap /\ K = {}
      BY <1>1, <1>4, <2>1
    <3>3. Loose(tree', heap', {} \cup {}) /\ {} \cap {} = {}
      BY <1>2, <3>2
    <3>4. Typed(tree') /\ tree'.root = NULL /\ Rooted(tree', g, NULL, {})
      BY <1>2, <1>3, <3>1, <3>2
    <3> QED  BY <3>3, <3>4 DEF Forest
  <2>2. CASE r # NULL
    <3>1. K = {r} /\ tree' = Release(tree, r) /\ heap' = heap \cup {r}
      BY <1>1, <1>4, <2>2
    <3>2. Rooted(tree, g, r, {r}) /\ Loose(tree, heap, {r} \cup {})
      BY <1>2, <3>1
    <3>3. Rooted(tree, g, NULL, {})
      BY <1>2, <1>3
    <3>4. /\ Typed(tree') /\ tree'.root = tree.root /\ Rooted(tree', g, NULL, {})
          /\ Loose(tree', heap \cup {r}, {})
      BY <1>2, <2>2, <3>1, <3>2, <3>3, RootReleased
    <3>5. Loose(tree', heap', {} \cup {})
      BY <3>1, <3>4
    <3> QED  BY <1>3, <3>4, <3>5 DEF Forest
  <2> QED  BY <2>1, <2>2
<1>6. Kept(tree, g, {}, {}, NULL)'
  <2>1. U \cup K \cup heap = Node => {} \cup {} \cup heap' = Node
    BY <1>1, <1>2, <1>4
  <2>2. Removable(tree', g, NULL, {})
    BY DEF Removable
  <2> QED  BY <1>1, <1>2, <2>1, <2>2 DEF Kept
<1>7. Types'
  BY <1>1 DEF Types
<1>8. Gone(g, {}, {})'
  BY <1>1, <1>5, <1>6 DEF Gone
<1>9. Invariant(g, {}, {}, b)'
  BY <1>1, <1>7, <1>8 DEF Invariant, Used, Felled, Drained
<1> QED  BY <1>9 DEF IInv

\* new_rbtree gives an empty tree.
LEMMA NewKeeps ==
  ASSUME NEW g, NEW U, NEW K, NEW b, Invariant(g, U, K, b), New
  PROVE  IInv'
<1>1. /\ pc = "gone" /\ Types /\ Gone(g, U, K) /\ kind' \in Kinds
      /\ tree' = [tree EXCEPT !.root = NULL] /\ pool_root' = NULL /\ pool_ptr' = NULL /\ count' = 0
      /\ pc' = "idle" /\ inserted' = [k \in Keys |-> 0]
      /\ heap' = heap /\ at' = at
  BY DEF New, Invariant
<1>2. /\ Forest(tree, g, {}, NULL, {}, heap) /\ at = NULL /\ Kept(tree, g, {}, {}, NULL)
      /\ Typed(tree) /\ Rooted(tree, g, NULL, {}) /\ Loose(tree, heap, {} \cup {})
  BY <1>1 DEF Gone, Forest
<1>3. /\ Typed(tree') /\ tree'.root = NULL /\ tree'.left = tree.left /\ tree'.right = tree.right
      /\ tree'.parent = tree.parent
  BY <1>1, <1>2 DEF Typed
<1>4. Rooted(tree', g, NULL, {}) /\ Loose(tree', heap', {} \cup {})
  BY <1>1, <1>2, <1>3 DEF Rooted, Loose
<1>5. Forest(tree', g, {}, pool_root', {}, heap')
  <2>1. {} \cap {} = {}
    OBVIOUS
  <2> QED  BY <1>1, <1>3, <1>4, <2>1 DEF Forest
<1>6. Counted(tree, {})'
  <2>1. \A k \in Keys : {n \in {} : tree'.key[n] = k} = {}
    OBVIOUS
  <2> QED  BY <1>1, <2>1, FS_EmptySet DEF Counted
<1>7. Kept(tree, g, {}, {}, pool_ptr)'
  BY <1>1, <1>2 DEF Kept, Removable
<1>8. Sound(tree, g, {}, {})'
  BY <1>1, <1>5, <1>6, <1>7 DEF Sound, Pooled, Sorted
<1>9. Thin(tree, g, {}, NULL)' /\ Coloured(tree'.left, tree'.right, tree'.parent, tree'.color, b, {}, NULL)
  BY DEF Thin, Leaning, Coloured
<1>10. Grown(tree, g, {}, {}, b, at)'
  BY <1>1, <1>2, <1>8, <1>9 DEF Grown
<1>11. Types'
  <2>1. count' \in 0..MaxNodes /\ inserted' \in [Keys -> Nat]
    BY <1>1, TreeAssumption
  <2> QED  BY <1>1, <1>2, <2>1 DEF Types
<1>12. Invariant(g, {}, {}, b)'
  BY <1>1, <1>2, <1>10, <1>11 DEF Invariant, Used, Felled, Drained, Gone
<1> QED  BY <1>12 DEF IInv

\* The first tree is empty, and no node is allocated.
LEMMA InitHolds ==
  ASSUME Init
  PROVE  IInv
<1> DEFINE g == [B |-> 0, pos |-> [n \in Node |-> 0], lo |-> [n \in Node |-> 0], hi |-> [n \in Node |-> 0]]
<1>1. /\ kind \in Kinds /\ tree = Fresh /\ pool_root = NULL /\ pool_ptr = NULL /\ count = 0
      /\ heap = Node /\ pc = "idle" /\ at = NULL /\ inserted = [k \in Keys |-> 0]
  BY DEF Init
<1>2. /\ Typed(tree) /\ tree.root = NULL
      /\ \A n \in Node : tree.left[n] = NULL /\ tree.right[n] = NULL
  <2>1. 0 \in 0..MaxKey
    BY TreeAssumption
  <2> QED  BY <1>1, <2>1 DEF Fresh, Typed
<1>3. Shape(tree.left, tree.right, g)
  BY <1>2 DEF Shape
<1> HIDE DEF g
<1>4. Rooted(tree, g, NULL, {})
  BY <1>3, NoTree
<1>5. Loose(tree, heap, {} \cup {}) /\ {} \cap {} = {}
  BY <1>1, <1>2, NodeFacts DEF Loose
<1>6. Forest(tree, g, {}, pool_root, {}, heap)
  BY <1>1, <1>2, <1>4, <1>5 DEF Forest
<1>7. Counted(tree, {})
  <2>1. \A k \in Keys : {n \in {} : tree.key[n] = k} = {}
    OBVIOUS
  <2> QED  BY <1>1, <2>1, FS_EmptySet DEF Counted
<1>8. Kept(tree, g, {}, {}, pool_ptr)
  BY <1>1 DEF Kept, Removable
<1>9. Sound(tree, g, {}, {})
  BY <1>1, <1>6, <1>7, <1>8 DEF Sound, Pooled, Sorted
<1>10. Grown(tree, g, {}, {}, g, at)
  BY <1>1, <1>9 DEF Grown, Thin, Leaning, Coloured
<1>11. Types
  <2>1. count \in 0..MaxNodes /\ inserted \in [Keys -> Nat]
    BY <1>1, TreeAssumption
  <2> QED  BY <1>1, <2>1 DEF Types
<1>12. Invariant(g, {}, {}, g)
  BY <1>1, <1>10, <1>11 DEF Invariant, Used, Felled, Drained, Gone
<1> QED  BY <1>12 DEF IInv

\* The invariant holds: places can be given to the nodes such that the tree and the
\* pool are search trees without a common node, and so on, whatever the trees and
\* the loops do.
THEOREM InvariantHolds == Spec => []IInv
<1>1. Init => IInv
  BY InitHolds
<1>2. IInv /\ [Next]_vars => IInv'
  <2> SUFFICES ASSUME IInv, [Next]_vars PROVE IInv'
    OBVIOUS
  <2>1. PICK g, U, K, b : Invariant(g, U, K, b)
    BY DEF IInv
  <2>2. CASE UNCHANGED vars
    <3>1. /\ kind' = kind /\ tree' = tree /\ pool_root' = pool_root /\ pool_ptr' = pool_ptr
          /\ count' = count /\ heap' = heap /\ pc' = pc /\ at' = at /\ inserted' = inserted
      BY <2>2 DEF vars
    <3>2. Types' /\ (Used(g, U, K, b) => Used(g, U, K, b)')
      BY <2>1, <3>1 DEF Invariant, Types, Used, Grown, Sound, Thin, Kept, Counted
    <3>3. /\ Felled(g, U, K) => Felled(g, U, K)'
          /\ Drained(g, U, K) => Drained(g, U, K)'
          /\ Gone(g, U, K) => Gone(g, U, K)'
      BY <3>1 DEF Felled, Drained, Gone, Kept
    <3>4. Invariant(g, U, K, b)'
      BY <2>1, <3>2, <3>3 DEF Invariant
    <3> QED  BY <3>4 DEF IInv
  <2>3. ASSUME NEW k \in Keys, Insert(k) PROVE IInv'
    BY <2>1, <2>3, InsertKeeps
  <2>4. CASE Clear
    BY <2>1, <2>4, ClearKeeps
  <2>5. CASE BeginFree
    BY <2>1, <2>5, BeginFreeKeeps
  <2>6. CASE New
    BY <2>1, <2>6, NewKeeps
  <2>7. CASE Fixup
    BY <2>1, <2>7, FixupKeeps
  <2>8. CASE Freeing
    <3>1. CASE FreeLeaf
      BY <2>1, <3>1, FreeLeafKeeps
    <3>2. CASE GoOn
      BY <2>1, <3>2, GoOnKeeps
    <3>3. CASE FreeRoot
      BY <2>1, <3>3, FreeRootKeeps
    <3>4. CASE FreePooled
      BY <2>1, <3>4, FreePooledKeeps
    <3>5. CASE FreeEnds
      BY <2>1, <3>5, FreeEndsKeeps
    <3> QED  BY <2>8, <3>1, <3>2, <3>3, <3>4, <3>5 DEF Freeing
  <2> QED  BY <2>2, <2>3, <2>4, <2>5, <2>6, <2>7, <2>8 DEF Next
<1> QED  BY <1>1, <1>2, PTL DEF Spec

-----------------------------------------------------------------------------
(* What follows.                                                            *)

\* Pointers lead to nodes or nowhere, and rbtree_node_count is at most the number
\* of nodes malloc provides.
THEOREM TypesHold == Spec => []TypeOK
<1>1. IInv => TypeOK
  <2> SUFFICES ASSUME NEW g, NEW U, NEW K, NEW b, Invariant(g, U, K, b) PROVE TypeOK
    BY DEF IInv
  <2>1. Types /\ Typed(tree) /\ heap \subseteq Node
    <3>1. Types
      BY DEF Invariant
    <3>2. \E k : Forest(tree, g, U, k, K, heap)
      BY <3>1 DEF Types, Invariant, Used, Grown, Sound, Felled, Drained, Gone
    <3> QED  BY <3>1, <3>2 DEF Forest, Loose
  <2>2. /\ tree.root \in Node \cup {NULL}
        /\ \A n \in Node : {tree.left[n], tree.right[n], tree.parent[n]} \subseteq Node \cup {NULL}
    BY <2>1, Fields
  <2> QED  BY <2>1, <2>2 DEF TypeOK, Types
<1> QED  BY <1>1, InvariantHolds, PTL

\* What of NodesAccounted concerns a single node: it is in the tree, in the pool
\* or not allocated, but not in two of these, and what the loops of rbtree_free
\* and rbtree_free_pool look at is not freed.
NodesUnshared ==
  /\ pc \in {"idle", "fixup"} =>
       /\ Below(tree, tree.root) \cap Below(tree, pool_root) = {}
       /\ (Below(tree, tree.root) \cup Below(tree, pool_root)) \cap heap = {}
  /\ pc \in {"free", "free_pool"} => at \notin heap

\* That holds however many matches begin at the same place: the pool may lose
\* nodes, but rbtree_insert is never given one that is in use, and the loops never
\* go on from a freed one.
THEOREM NodesAreNeverShared == Spec => []NodesUnshared
<1>1. IInv => NodesUnshared
  <2> SUFFICES ASSUME IInv PROVE NodesUnshared
    OBVIOUS
  <2>1. PICK g, U, K, b : Invariant(g, U, K, b)
    BY DEF IInv
  <2>2. ASSUME pc \in {"idle", "fixup"}
        PROVE  /\ Below(tree, tree.root) \cap Below(tree, pool_root) = {}
               /\ (Below(tree, tree.root) \cup Below(tree, pool_root)) \cap heap = {}
    <3>1. Forest(tree, g, U, pool_root, K, heap)
      BY <2>1, <2>2 DEF Invariant, Used, Grown, Sound
    <3>2. Below(tree, tree.root) = U /\ Below(tree, pool_root) = K
      BY <3>1, UsedIs
    <3> QED  BY <3>1, <3>2 DEF Forest, Loose
  <2>3. pc \in {"free", "free_pool"} => at \notin heap
    <3>1. CASE pc = "free"
      <4>1. /\ Forest(tree, g, U, pool_root, K, heap) /\ (at # NULL => at \in U)
        BY <2>1, <3>1 DEF Invariant, Felled, FirstLeft
      <4> QED  BY <4>1, NodeFacts DEF Forest, Loose
    <3>2. CASE pc = "free_pool"
      <4>1. /\ Forest(tree, g, U, pool_root, K, heap) /\ (at # NULL => at \in K)
        BY <2>1, <3>2 DEF Invariant, Drained, FirstLeft
      <4> QED  BY <4>1, NodeFacts DEF Forest, Loose
    <3> QED  BY <3>1, <3>2
  <2> QED  BY <2>2, <2>3 DEF NodesUnshared
<1> QED  BY <1>1, InvariantHolds, PTL

\* No node is in two places, and none is lost, while at most two matches begin at
\* the same place: those not allocated, those in the tree and those in the pool
\* are all nodes, rbtree_free and rbtree_free_pool touch no freed node, and leave
\* none.
THEOREM NodesAreAccounted == MaxEqual <= 2 => (Spec => []NodesAccounted)
<1> SUFFICES ASSUME MaxEqual <= 2 PROVE Spec => []NodesAccounted
  OBVIOUS
<1>1. IInv /\ NodesUnshared => NodesAccounted
  <2> SUFFICES ASSUME IInv, NodesUnshared PROVE NodesAccounted
    OBVIOUS
  <2>1. PICK g, U, K, b : Invariant(g, U, K, b)
    BY DEF IInv
  <2>2. ASSUME pc \in {"idle", "fixup"}
        PROVE  Below(tree, tree.root) \cup Below(tree, pool_root) \cup heap = Node
    <3>1. Forest(tree, g, U, pool_root, K, heap) /\ Kept(tree, g, U, K, pool_ptr)
      BY <2>1, <2>2 DEF Invariant, Used, Grown, Sound
    <3>2. Below(tree, tree.root) = U /\ Below(tree, pool_root) = K
      BY <3>1, UsedIs
    <3> QED  BY <3>1, <3>2 DEF Kept
  <2>3. pc = "gone" => heap = Node
    BY <2>1 DEF Invariant, Gone, Kept
  <2> QED  BY <2>2, <2>3 DEF NodesUnshared, NodesAccounted
<1> QED  BY <1>1, InvariantHolds, NodesAreNeverShared, PTL

\* What RedBlack compares: the height in black nodes, -1 if the ways down differ.
IsHeight(T, f) ==
  f = [n \in Node \cup {NULL} |->
         IF n = NULL THEN 0
         ELSE IF f[T.left[n]] = f[T.right[n]] /\ f[T.left[n]] >= 0
              THEN f[T.left[n]] + (IF T.color[n] = BLACK THEN 1 ELSE 0)
              ELSE -1]

\* Children have shorter intervals.
LEMMA Smaller ==
  ASSUME NEW L, NEW R, NEW g, Shape(L, R, g)
  PROVE  \E mu \in [Node \cup {NULL} -> Nat] :
           \A x \in Node : /\ L[x] \in Node \cup {NULL} /\ R[x] \in Node \cup {NULL}
                           /\ mu[L[x]] < mu[x] /\ mu[R[x]] < mu[x]
<1> DEFINE D == Node \cup {NULL}
           mu == [x \in Node \cup {NULL} |-> IF x = NULL THEN 0 ELSE g.hi[x] - g.lo[x] + 1]
<1>0. NULL \notin Node
  BY NodeFacts
<1>1. mu \in [D -> Nat] /\ mu[NULL] = 0 /\ \A x \in Node : mu[x] = g.hi[x] - g.lo[x] + 1
  BY <1>0 DEF Shape
<1>2. ASSUME NEW x \in Node
      PROVE  L[x] \in D /\ R[x] \in D /\ mu[L[x]] < mu[x] /\ mu[R[x]] < mu[x]
  <2>1. L[x] \in D /\ R[x] \in D
    BY DEF Shape
  <2>2. 0 < mu[x] /\ (L[x] # NULL => mu[L[x]] < mu[x]) /\ (R[x] # NULL => mu[R[x]] < mu[x])
    <3> HIDE DEF mu
    <3> QED  BY <1>1 DEF Shape
  <2> HIDE DEF mu
  <2> QED  BY <1>1, <2>1, <2>2
<1> HIDE DEF mu
<1> QED  BY <1>1, <1>2

\* There is such a height.
LEMMA HeightExists ==
  ASSUME NEW T, NEW g, Shape(T.left, T.right, g)
  PROVE  \E f : IsHeight(T, f)
<1> DEFINE L == T.left
           R == T.right
           one == [x \in Node |-> IF T.color[x] = BLACK THEN 1 ELSE 0]
           D == Node \cup {NULL}
           H == [a \in D \X [D -> Int] |->
                   IF a[1] = NULL THEN 0
                   ELSE IF a[2][L[a[1]]] = a[2][R[a[1]]] /\ a[2][L[a[1]]] >= 0
                        THEN a[2][L[a[1]]] + one[a[1]] ELSE -1]
<1>0. PICK mu \in [D -> Nat] :
        \A x \in Node : L[x] \in D /\ R[x] \in D /\ mu[L[x]] < mu[x] /\ mu[R[x]] < mu[x]
  <2> HIDE DEF L, R
  <2>1. Shape(L, R, g)
    BY DEF L, R
  <2> QED  BY <2>1, Smaller
<1>1. ASSUME NEW d \in D, NEW h \in [D -> Int]
      PROVE  H[<<d, h>>] = IF d = NULL THEN 0
                           ELSE IF h[L[d]] = h[R[d]] /\ h[L[d]] >= 0 THEN h[L[d]] + one[d] ELSE -1
  OBVIOUS
<1>2. \A x \in Node : one[x] \in Int /\ one[x] = IF T.color[x] = BLACK THEN 1 ELSE 0
  OBVIOUS
<1> HIDE DEF one, L, R
<1>3. H \in [D \X [D -> Int] -> Int]
  <2> SUFFICES ASSUME NEW d \in D, NEW h \in [D -> Int]
               PROVE  (IF d = NULL THEN 0
                       ELSE IF h[L[d]] = h[R[d]] /\ h[L[d]] >= 0 THEN h[L[d]] + one[d] ELSE -1) \in Int
    OBVIOUS
  <2>1. CASE d = NULL
    BY <2>1
  <2>2. CASE d # NULL
    <3>1. d \in Node /\ h[L[d]] \in Int /\ one[d] \in Int
      BY <1>0, <1>2, <2>2
    <3> QED  BY <2>2, <3>1
  <2> QED  BY <2>1, <2>2
<1> HIDE DEF H
<1>4. ASSUME NEW d \in D, NEW h \in [D -> Int], NEW i \in [D -> Int],
             \A e \in D : mu[e] < mu[d] => h[e] = i[e]
      PROVE  H[<<d, h>>] = H[<<d, i>>]
  <2>1. CASE d = NULL
    BY <1>1, <2>1
  <2>2. CASE d # NULL
    <3>1. h[L[d]] = i[L[d]] /\ h[R[d]] = i[R[d]]
      BY <1>0, <1>4, <2>2
    <3> QED  BY <1>1, <2>2, <3>1
  <2> QED  BY <2>1, <2>2
<1>5. Recursive(D, Int, mu, H)
  <2>1. Int # {}
    OBVIOUS
  <2> HIDE DEF D
  <2> QED  BY <1>0, <1>3, <1>4, <2>1 DEF Recursive
<1>6. PICK f \in [D -> Int] : \A d \in D : f[d] = H[<<d, f>>]
  BY <1>5, Recursion DEF Follows
<1>7. \A n \in D : f[n] = IF n = NULL THEN 0
                          ELSE IF f[L[n]] = f[R[n]] /\ f[L[n]] >= 0
                               THEN f[L[n]] + (IF T.color[n] = BLACK THEN 1 ELSE 0) ELSE -1
  <2> SUFFICES ASSUME NEW n \in D
               PROVE  f[n] = IF n = NULL THEN 0
                             ELSE IF f[L[n]] = f[R[n]] /\ f[L[n]] >= 0
                                  THEN f[L[n]] + (IF T.color[n] = BLACK THEN 1 ELSE 0) ELSE -1
    OBVIOUS
  <2>1. f[n] = IF n = NULL THEN 0
               ELSE IF f[L[n]] = f[R[n]] /\ f[L[n]] >= 0 THEN f[L[n]] + one[n] ELSE -1
    BY <1>1, <1>6
  <2>2. n # NULL => one[n] = IF T.color[n] = BLACK THEN 1 ELSE 0
    BY <1>2
  <2> QED  BY <2>1, <2>2
<1>8. f = [n \in D |-> f[n]]
  BY <1>6
<1>9. f = [n \in D |-> IF n = NULL THEN 0
                       ELSE IF f[L[n]] = f[R[n]] /\ f[L[n]] >= 0
                            THEN f[L[n]] + (IF T.color[n] = BLACK THEN 1 ELSE 0) ELSE -1]
  BY <1>7, <1>8
<1> QED  BY <1>9 DEF IsHeight, L, R

\* f is the height RedBlack compares, b the one the invariant speaks of.
TwoHeights(T, g, r, U, b, a, f) ==
  /\ Rooted(T, g, r, U) /\ Coloured(T.left, T.right, T.parent, T.color, b, U, a)
  /\ IsHeight(T, f)

\* They are the same.
LEMMA HeightIs ==
  ASSUME NEW T, NEW g, NEW r, NEW U, NEW b, NEW a, NEW f, TwoHeights(T, g, r, U, b, a, f)
  PROVE  f[NULL] = 0 /\ \A n \in U : f[n] = b[n]
<1> USE DEF TwoHeights
<1> DEFINE L == T.left
           R == T.right
           D == Node \cup {NULL}
           one == [x \in Node |-> IF T.color[x] = BLACK THEN 1 ELSE 0]
<1>0. U \subseteq Node /\ NULL \notin Node /\ Shape(L, R, g)
      /\ \A n \in U : L[n] \in U \cup {NULL} /\ R[n] \in U \cup {NULL}
  BY NodeFacts DEF Rooted, Tree
<1>1. /\ f[NULL] = 0
      /\ \A n \in Node : f[n] = IF f[L[n]] = f[R[n]] /\ f[L[n]] >= 0 THEN f[L[n]] + one[n] ELSE -1
  <2>1. \A n \in D : f[n] = IF n = NULL THEN 0
                            ELSE IF f[L[n]] = f[R[n]] /\ f[L[n]] >= 0
                                 THEN f[L[n]] + (IF T.color[n] = BLACK THEN 1 ELSE 0) ELSE -1
    BY Zenon DEF IsHeight
  <2>2. \A n \in Node : one[n] = IF T.color[n] = BLACK THEN 1 ELSE 0
    OBVIOUS
  <2> HIDE DEF one, L, R
  <2>3. f[NULL] = 0
    BY <2>1
  <2> QED  BY <1>0, <2>1, <2>2, <2>3
<1>2. \A n \in U : /\ b[n] \in Nat /\ Height(b, L[n]) = Height(b, R[n])
                   /\ b[n] = Height(b, L[n]) + one[n]
  BY <1>0 DEF Coloured
<1> HIDE DEF one, L, R
<1>3. PICK mu \in [D -> Nat] :
        \A x \in Node : L[x] \in D /\ R[x] \in D /\ mu[L[x]] < mu[x] /\ mu[R[x]] < mu[x]
  BY <1>0, Smaller
<1> DEFINE Q == {i \in Nat : \A n \in U : mu[n] = i => f[n] = b[n]}
<1>4. ASSUME NEW i \in Nat, \A k \in 0..(i - 1) : k \in Q PROVE i \in Q
  <2> SUFFICES ASSUME NEW n \in U, mu[n] = i PROVE f[n] = b[n]
    OBVIOUS
  <2>1. /\ L[n] \in U \cup {NULL} /\ R[n] \in U \cup {NULL} /\ n \in Node
        /\ mu[L[n]] \in Nat /\ mu[R[n]] \in Nat /\ mu[L[n]] < i /\ mu[R[n]] < i
    BY <1>0, <1>3
  <2>2. mu[L[n]] \in 0..(i - 1) /\ mu[R[n]] \in 0..(i - 1)
    BY <2>1
  <2>3. f[L[n]] = Height(b, L[n])
    BY <1>1, <1>4, <2>1, <2>2 DEF Height
  <2>4. f[R[n]] = Height(b, R[n])
    BY <1>1, <1>4, <2>1, <2>2 DEF Height
  <2>5. Height(b, L[n]) \in Nat
    BY <1>2, <2>1 DEF Height
  <2>6. f[n] = IF f[L[n]] = f[R[n]] /\ f[L[n]] >= 0 THEN f[L[n]] + one[n] ELSE -1
    BY <1>1, <2>1
  <2>7. Height(b, L[n]) = Height(b, R[n]) /\ b[n] = Height(b, L[n]) + one[n]
    BY <1>2
  <2> QED  BY <2>3, <2>4, <2>5, <2>6, <2>7
<1> HIDE DEF Q
<1>5. \A i \in Nat : i \in Q
  BY <1>4, StrongInduction
<1>6. \A n \in U : mu[n] \in Nat
  BY <1>0, <1>3
<1> QED  BY <1>1, <1>5, <1>6 DEF Q

\* The trees are red-black, but for the node rbtree_fixup is at.
THEOREM TreesStayRedBlack == Spec => []RedBlack
<1>1. IInv => RedBlack
  <2> SUFFICES ASSUME IInv PROVE RedBlack
    OBVIOUS
  <2>1. PICK g, U, K, b : Invariant(g, U, K, b)
    BY DEF IInv
  <2> DEFINE height == CHOOSE f : f = [n \in Node \cup {NULL} |->
                         IF n = NULL THEN 0
                         ELSE IF f[tree.left[n]] = f[tree.right[n]] /\ f[tree.left[n]] >= 0
                              THEN f[tree.left[n]] + (IF tree.color[n] = BLACK THEN 1 ELSE 0)
                              ELSE -1]
             Balanced == /\ height[tree.root] >= 0
                         /\ \A n \in Below(tree, tree.root) \ {at} : IsRed(n) => ~IsRed(tree.parent[n])
                         /\ pc = "idle" /\ tree.root # NULL => tree.color[tree.root] = BLACK
  <2>2. RedBlack <=> (pc \in {"idle", "fixup"} => Balanced)
    BY Zenon DEF RedBlack
  <2>3. ASSUME pc \in {"idle", "fixup"} PROVE Balanced
    <3>1. /\ Forest(tree, g, U, pool_root, K, heap) /\ Rooted(tree, g, tree.root, U)
          /\ Coloured(tree.left, tree.right, tree.parent, tree.color, b, U, at)
          /\ pc = "idle" => at = NULL
      BY <2>1, <2>3 DEF Invariant, Used, Grown, Sound, Forest
    <3>2. IsHeight(tree, height)
      <4>1. \E f : IsHeight(tree, f)
        BY <3>1, HeightExists DEF Rooted
      <4>2. height = CHOOSE f : IsHeight(tree, f)
        BY DEF IsHeight
      <4> QED  BY <4>1, <4>2
    <3> HIDE DEF height
    <3>3. height[NULL] = 0 /\ \A n \in U : height[n] = b[n]
      <4>1. TwoHeights(tree, g, tree.root, U, b, at, height)
        BY <3>1, <3>2 DEF TwoHeights
      <4> HIDE DEF Balanced
      <4> QED  BY <4>1, HeightIs
    <3>4. Below(tree, tree.root) = U
      BY <3>1, UsedIs
    <3>5. /\ tree.root \in U \cup {NULL} /\ NULL \notin U
          /\ \A n \in U : b[n] \in Nat /\ tree.color[n] \in {RED, BLACK}
          /\ tree.root # NULL => tree.parent[tree.root] = NULL
      BY <3>1, NodeFacts DEF Rooted, Tree, Coloured
    <3>6. height[tree.root] >= 0
      BY <3>3, <3>5
    <3>7. \A n \in U \ {at} : tree.color[n] = RED => tree.parent[n] # NULL /\ tree.color[tree.parent[n]] = BLACK
      BY <3>1 DEF Coloured
    <3>8. RED # BLACK
      BY DEF RED, BLACK
    <3>9. \A n \in U \ {at} : IsRed(n) => ~IsRed(tree.parent[n])
      BY <3>7, <3>8 DEF IsRed
    <3>10. pc = "idle" /\ tree.root # NULL => tree.color[tree.root] = BLACK
      BY <3>1, <3>5, <3>7
    <3> QED  BY <3>4, <3>6, <3>9, <3>10
  <2> QED  BY <2>2, <2>3
<1> QED  BY <1>1, InvariantHolds, PTL

\* w goes from the first node of T to the next and so on, NULL is behind the last.
IsWalk(T, w) ==
  /\ w[1] = Min(T, T.root)
  /\ \A i \in 1..MaxNodes : w[i + 1] = IF w[i] = NULL THEN NULL ELSE Successor(T, w[i])

\* rbtree_min gives a node of the tree that is before all others, if there are nodes.
LEMMA FirstStep ==
  ASSUME NEW T, NEW g, NEW U, Rooted(T, g, T.root, U)
  PROVE  /\ Min(T, T.root) \in U \cup {NULL}
         /\ \A m \in U : Min(T, T.root) # NULL /\ g.pos[Min(T, T.root)] <= g.pos[m]
<1>1. NULL \notin U /\ (T.root = NULL => U = {})
  BY NodeFacts DEF Rooted, Tree
<1>2. CASE T.root = NULL
  BY <1>1, <1>2 DEF Min
<1>3. CASE T.root # NULL
  <2> PICK y : y = Min(T, T.root)
    OBVIOUS
  <2>1. FirstLeft(T.left, g, y, U) /\ \A m \in U : g.pos[y] <= g.pos[m]
    BY <1>3, FirstOfAll
  <2>2. y \in U
    BY <2>1 DEF FirstLeft
  <2> QED  BY <1>1, <2>1, <2>2
<1> QED  BY <1>2, <1>3

\* The node behind one of the tree is in the tree, or there is none.
LEMMA NextStep ==
  ASSUME NEW T, NEW g, NEW U, Typed(T), Rooted(T, g, T.root, U)
  PROVE  \A n \in U : Successor(T, n) \in U \cup {NULL} /\ IsSuccessor(g, U, n, Successor(T, n))
<1> SUFFICES ASSUME NEW n \in U
             PROVE  Successor(T, n) \in U \cup {NULL} /\ IsSuccessor(g, U, n, Successor(T, n))
  OBVIOUS
<1> PICK y : y = Successor(T, n)
  OBVIOUS
<1>1. T.parent \in [Node -> Node \cup {NULL}]
  BY Fields
<1>2. IsSuccessor(g, U, n, y)
  BY <1>1, SuccessorIs
<1>3. y \in U \cup {NULL}
  BY <1>2 DEF IsSuccessor
<1> QED  BY <1>2, <1>3

\* Walk gives this.
LEMMA WalkIs ==
  ASSUME NEW g, NEW U, Typed(tree), Rooted(tree, g, tree.root, U)
  PROVE  IsWalk(tree, Walk)
<1> DEFINE D == 1..(MaxNodes + 1)
           V == U \cup {NULL}
           first == Min(tree, tree.root)
           succ == [n \in U |-> Successor(tree, n)]
           mu == [i \in D |-> i]
           H == [a \in D \X [D -> V] |->
                   IF a[1] = 1 THEN first
                   ELSE IF a[2][a[1] - 1] = NULL THEN NULL ELSE succ[a[2][a[1] - 1]]]
           nth == CHOOSE f : f = [i \in 1..(MaxNodes + 1) |->
                    IF i = 1 THEN Min(tree, tree.root)
                    ELSE LET n == f[i - 1] IN IF n = NULL THEN NULL ELSE Successor(tree, n)]
<1>1. NULL \notin U /\ MaxNodes \in Nat
  BY NodeFacts, TreeAssumption DEF Rooted, Tree
<1>2. first \in V /\ \A n \in U : succ[n] \in V /\ succ[n] = Successor(tree, n)
  BY FirstStep, NextStep
<1>3. /\ mu \in [D -> Nat] /\ V # {}
      /\ \A i \in D : i \in Nat /\ mu[i] = i /\ (i # 1 => i - 1 \in D /\ mu[i - 1] < mu[i])
  BY <1>1
<1> HIDE DEF first, succ, mu
<1>4. ASSUME NEW i \in D, NEW h \in [D -> V]
      PROVE  H[<<i, h>>] = IF i = 1 THEN first ELSE IF h[i - 1] = NULL THEN NULL ELSE succ[h[i - 1]]
  OBVIOUS
<1>5. H \in [D \X [D -> V] -> V]
  <2> SUFFICES ASSUME NEW i \in D, NEW h \in [D -> V]
               PROVE  (IF i = 1 THEN first ELSE IF h[i - 1] = NULL THEN NULL ELSE succ[h[i - 1]]) \in V
    OBVIOUS
  <2>1. i # 1 => h[i - 1] \in V
    BY <1>3
  <2> QED  BY <1>2, <2>1
<1>6. \E f : f = [i \in 1..(MaxNodes + 1) |->
                    IF i = 1 THEN Min(tree, tree.root)
                    ELSE LET n == f[i - 1] IN IF n = NULL THEN NULL ELSE Successor(tree, n)]
  <2> HIDE DEF H
  <2>1. ASSUME NEW d \in D, NEW h \in [D -> V], NEW h2 \in [D -> V],
               \A e \in D : mu[e] < mu[d] => h[e] = h2[e]
        PROVE  H[<<d, h>>] = H[<<d, h2>>]
    <3>1. CASE d = 1
      BY <1>4, <3>1
    <3>2. CASE d # 1
      <4>1. h[d - 1] = h2[d - 1]
        BY <1>3, <2>1, <3>2
      <4>2. H[<<d, h>>] = IF h[d - 1] = NULL THEN NULL ELSE succ[h[d - 1]]
        BY <1>4, <3>2
      <4>3. H[<<d, h2>>] = IF h2[d - 1] = NULL THEN NULL ELSE succ[h2[d - 1]]
        BY <1>4, <3>2
      <4> QED  BY <4>1, <4>2, <4>3
    <3> QED  BY <3>1, <3>2
  <2>2. Recursive(D, V, mu, H)
    <3> HIDE DEF D, V
    <3> QED  BY <1>3, <1>5, <2>1 DEF Recursive
  <2>3. PICK f \in [D -> V] : \A i \in D : f[i] = H[<<i, f>>]
    <3> HIDE DEF D, V
    <3> QED  BY <2>2, Recursion DEF Follows
  <2>4. \A i \in D : f[i] = IF i = 1 THEN Min(tree, tree.root)
                            ELSE LET n == f[i - 1] IN IF n = NULL THEN NULL ELSE Successor(tree, n)
    <3> SUFFICES ASSUME NEW i \in D
                 PROVE  f[i] = IF i = 1 THEN Min(tree, tree.root)
                               ELSE IF f[i - 1] = NULL THEN NULL ELSE Successor(tree, f[i - 1])
      OBVIOUS
    <3>1. f[i] = IF i = 1 THEN first ELSE IF f[i - 1] = NULL THEN NULL ELSE succ[f[i - 1]]
      BY <1>4, <2>3
    <3>2. i # 1 => f[i - 1] \in V
      BY <1>3
    <3> QED  BY <1>2, <3>1, <3>2 DEF first
  <2>5. f = [i \in D |-> f[i]]
    BY <2>3
  <2>6. f = [i \in D |-> IF i = 1 THEN Min(tree, tree.root)
                         ELSE LET n == f[i - 1] IN IF n = NULL THEN NULL ELSE Successor(tree, n)]
    BY <2>4, <2>5
  <2> QED  BY <2>6
<1>7. nth = [i \in 1..(MaxNodes + 1) |->
               IF i = 1 THEN Min(tree, tree.root)
               ELSE LET n == nth[i - 1] IN IF n = NULL THEN NULL ELSE Successor(tree, n)]
  BY <1>6
<1>8. Walk = nth
  BY DEF Walk
<1> HIDE DEF nth, H
<1>9. \A i \in D : nth[i] = IF i = 1 THEN Min(tree, tree.root)
                            ELSE IF nth[i - 1] = NULL THEN NULL ELSE Successor(tree, nth[i - 1])
  BY <1>7
<1>10. nth[1] = Min(tree, tree.root)
  <2>1. 1 \in D
    BY <1>1
  <2> QED  BY <1>9, <2>1
<1>11. ASSUME NEW i \in 1..MaxNodes
       PROVE  nth[i + 1] = IF nth[i] = NULL THEN NULL ELSE Successor(tree, nth[i])
  <2>1. i + 1 \in D /\ i + 1 # 1 /\ (i + 1) - 1 = i
    BY <1>1
  <2> QED  BY <1>9, <2>1
<1> QED  BY <1>8, <1>10, <1>11 DEF IsWalk

\* The first i nodes of w are the first of U, in order.
Ascends(g, U, w, i) ==
  /\ w[i] \in U \cup {NULL}
  /\ w[i] # NULL => \A j \in 1..(i - 1) : w[j] \in U /\ g.pos[w[j]] < g.pos[w[i]]
  /\ \A m \in U : (\E j \in 1..i : w[j] = m) \/ (w[i] # NULL /\ g.pos[w[i]] < g.pos[m])

\* A walk by rbtree_successor does this as far as it goes.
LEMMA WalkAscends ==
  ASSUME NEW T, NEW g, NEW U, Typed(T), Rooted(T, g, T.root, U), NEW w, IsWalk(T, w)
  PROVE  \A i \in 1..(MaxNodes + 1) : Ascends(g, U, w, i)
<1> DEFINE Q == {i \in Nat : i + 1 \in 1..(MaxNodes + 1) => Ascends(g, U, w, i + 1)}
<1>0. /\ NULL \notin U /\ MaxNodes \in Nat /\ U \subseteq Node
      /\ \A m \in U : g.pos[m] \in Int
      /\ \A m \in U, n \in U : m # n => g.pos[m] # g.pos[n]
  BY NodeFacts, TreeAssumption DEF Rooted, Tree, Shape
<1>1. 0 \in Q
  <2>1. w[1] \in U \cup {NULL} /\ \A m \in U : w[1] # NULL /\ g.pos[w[1]] <= g.pos[m]
    BY FirstStep DEF IsWalk
  <2>2. \A m \in U : w[1] = m \/ (w[1] # NULL /\ g.pos[w[1]] < g.pos[m])
    BY <1>0, <2>1
  <2>3. 1 \in 1..1 /\ 1..(1 - 1) = {}
    OBVIOUS
  <2>4. Ascends(g, U, w, 1)
    BY <2>1, <2>2, <2>3 DEF Ascends
  <2> QED  BY <2>4
<1>2. ASSUME NEW k \in Q PROVE k + 1 \in Q
  <2> SUFFICES ASSUME NEW i \in Nat, i = k + 1, i + 1 \in 1..(MaxNodes + 1)
               PROVE  Ascends(g, U, w, i + 1)
    OBVIOUS
  <2>0. i \in 1..MaxNodes /\ i \in 1..(MaxNodes + 1)
    BY <1>0
  <2>1. Ascends(g, U, w, i)
    BY <1>2, <2>0
  <2> HIDE DEF Q
  <2>2. w[i + 1] = IF w[i] = NULL THEN NULL ELSE Successor(T, w[i])
    BY <2>0 DEF IsWalk
  <2>3. \A j \in 1..i : j \in 1..(i + 1)
    BY <2>0
  <2>4. CASE w[i] = NULL
    BY <2>1, <2>2, <2>3, <2>4 DEF Ascends
  <2>5. CASE w[i] # NULL
    <3> PICK n, y : n = w[i] /\ y = w[i + 1]
      OBVIOUS
    <3>1. n \in U /\ y \in U \cup {NULL} /\ IsSuccessor(g, U, n, y)
      BY <2>1, <2>2, <2>5, NextStep DEF Ascends
    <3>2. \A j \in 1..(i - 1) : w[j] \in U /\ g.pos[w[j]] < g.pos[n]
      BY <2>1, <2>5 DEF Ascends
    <3>3. \A m \in U : (\E j \in 1..i : w[j] = m) \/ g.pos[n] < g.pos[m]
      BY <2>1 DEF Ascends
    <3>4. CASE y = NULL
      <4>1. \A m \in U : g.pos[m] <= g.pos[n]
        BY <3>1, <3>4 DEF IsSuccessor
      <4>2. \A m \in U : \E j \in 1..(i + 1) : w[j] = m
        BY <1>0, <2>3, <3>1, <3>3, <4>1
      <4> QED  BY <3>4, <4>2 DEF Ascends
    <3>5. CASE y # NULL
      <4>1. /\ y \in U /\ g.pos[n] < g.pos[y]
            /\ \A m \in U : g.pos[n] < g.pos[m] => g.pos[y] <= g.pos[m]
        BY <3>1, <3>5 DEF IsSuccessor
      <4>2. ASSUME NEW j \in 1..((i + 1) - 1) PROVE w[j] \in U /\ g.pos[w[j]] < g.pos[y]
        <5>1. CASE j = i
          BY <3>1, <4>1, <5>1
        <5>2. CASE j # i
          <6>1. j \in 1..(i - 1)
            BY <2>0, <4>2, <5>2
          <6> QED  BY <1>0, <3>1, <3>2, <4>1, <6>1
        <5> QED  BY <5>1, <5>2
      <4>3. ASSUME NEW m \in U PROVE (\E j \in 1..(i + 1) : w[j] = m) \/ g.pos[y] < g.pos[m]
        <5>1. CASE \E j \in 1..i : w[j] = m
          BY <2>3, <5>1
        <5>2. CASE g.pos[n] < g.pos[m]
          <6>1. m = y \/ g.pos[y] < g.pos[m]
            BY <1>0, <4>1, <5>2
          <6>2. i + 1 \in 1..(i + 1)
            BY <2>0
          <6> QED  BY <6>1, <6>2
        <5> QED  BY <3>3, <5>1, <5>2
      <4> QED  BY <3>5, <4>1, <4>2, <4>3 DEF Ascends
    <3> QED  BY <3>4, <3>5
  <2> QED  BY <2>4, <2>5
<1> HIDE DEF Q
<1>3. Q \in SUBSET Nat /\ \A n \in Q : n + 1 \in Q
  BY <1>2 DEF Q
<1>4. \A n \in Nat : n \in Q
  BY <1>1, <1>3, SetInduction
<1>5. ASSUME NEW i \in 1..(MaxNodes + 1) PROVE Ascends(g, U, w, i)
  <2>1. i - 1 \in Nat /\ (i - 1) + 1 = i
    BY <1>0
  <2>2. i - 1 \in Q
    BY <1>4, <2>1
  <2> QED  BY <2>1, <2>2 DEF Q
<1> QED  BY <1>5

\* w gives every node of U once, in order.
OnceEach(g, U, w) ==
  LET D == 1..(MaxNodes + 1) IN
  /\ \A i \in D : w[i] \in U \cup {NULL}
  /\ \A i \in D, j \in D : i < j /\ w[i] \in U /\ w[j] \in U => g.pos[w[i]] < g.pos[w[j]]
  /\ \A X \in SUBSET U : Cardinality({i \in D : w[i] \in X}) = Cardinality(X)

\* So does Walk: there are more steps than nodes.
LEMMA WalkGivesAll ==
  ASSUME NEW T, NEW g, NEW U, Typed(T), Rooted(T, g, T.root, U), NEW w, IsWalk(T, w)
  PROVE  OnceEach(g, U, w)
<1> DEFINE D == 1..(MaxNodes + 1)
<1>0. /\ NULL \notin U /\ MaxNodes \in Nat /\ U \subseteq Node
      /\ \A m \in U : g.pos[m] \in Int
  BY NodeFacts, TreeAssumption DEF Rooted, Tree, Shape
<1>1. \A i \in D : Ascends(g, U, w, i)
  BY WalkAscends
<1>2. \A i \in D : w[i] \in U \cup {NULL}
  BY <1>1 DEF Ascends
<1>3. ASSUME NEW i \in D, NEW j \in D, i < j, w[j] # NULL
      PROVE  w[i] \in U /\ g.pos[w[i]] < g.pos[w[j]]
  <2>1. i \in 1..(j - 1)
    BY <1>0, <1>3
  <2> QED  BY <1>1, <1>3, <2>1 DEF Ascends
<1>4. \A i \in D, j \in D : w[i] \in U /\ w[i] = w[j] => i = j
  <2> SUFFICES ASSUME NEW i \in D, NEW j \in D, w[i] \in U, w[i] = w[j], i < j PROVE FALSE
    BY <1>0
  <2>1. g.pos[w[i]] < g.pos[w[j]]
    BY <1>0, <1>3
  <2> QED  BY <1>0, <2>1
<1>5. \A m \in U : \E i \in D : w[i] = m
  <2> SUFFICES ASSUME NEW m \in U, \A i \in D : w[i] # m PROVE FALSE
    OBVIOUS
  <2>1. MaxNodes + 1 \in D
    BY <1>0
  <2>2. w[MaxNodes + 1] # NULL
    BY <1>1, <2>1 DEF Ascends
  <2>3. \A i \in D : w[i] \in U
    <3> SUFFICES ASSUME NEW i \in D, i < MaxNodes + 1 PROVE w[i] \in U
      BY <1>0, <1>2, <2>2
    <3> QED  BY <1>3, <2>1, <2>2
  <2> DEFINE f == [i \in D |-> w[i]]
  <2>4. f \in Injection(D, Node)
    <3>1. f \in [D -> Node] /\ \A i \in D, j \in D : f[i] = f[j] => i = j
      BY <1>0, <1>4, <2>3
    <3> QED  BY <3>1 DEF Injection, IsInjective
  <2>5. IsFiniteSet(Node) /\ Cardinality(Node) = MaxNodes
    BY <1>0, FS_Interval DEF Node
  <2>6. Cardinality(D) <= Cardinality(Node)
    BY <2>4, <2>5, FS_Injection
  <2>7. Cardinality(D) = MaxNodes + 1
    BY <1>0, FS_Interval
  <2> QED  BY <1>0, <2>5, <2>6, <2>7
<1>6. ASSUME NEW X \in SUBSET U PROVE Cardinality({i \in D : w[i] \in X}) = Cardinality(X)
  <2> DEFINE I == {i \in D : w[i] \in X}
             f == [i \in I |-> w[i]]
  <2>1. f \in [I -> X] /\ \A i \in I, j \in I : f[i] = f[j] => i = j
    BY <1>4
  <2>2. \A m \in X : \E i \in I : f[i] = m
    <3> SUFFICES ASSUME NEW m \in X PROVE \E i \in I : f[i] = m
      OBVIOUS
    <3>1. PICK i \in D : w[i] = m
      BY <1>5
    <3> QED  BY <3>1
  <2> HIDE DEF I, f
  <2>3. f \in Injection(I, X) /\ f \in Surjection(I, X)
    BY <2>1, <2>2 DEF Injection, IsInjective, Surjection
  <2>4. IsFiniteSet(X)
    BY <1>0, NodeFacts, FS_Subset
  <2>5. Cardinality(I) = Cardinality(X)
    BY <2>3, <2>4, FS_Injection
  <2> QED  BY <2>5 DEF I
<1>7. \A i \in D, j \in D : i < j /\ w[i] \in U /\ w[j] \in U => g.pos[w[i]] < g.pos[w[j]]
  BY <1>0, <1>3
<1> QED  BY <1>2, <1>6, <1>7 DEF OnceEach

\* No key is lost or out of order: from rbtree_min on rbtree_successor gives all of
\* them, in ascending order, rbtree_node_count counts them, and rbtree_search finds
\* exactly those.
THEOREM KeysInOrder == Spec => []InOrder
<1>1. IInv => InOrder
  <2> SUFFICES ASSUME IInv, pc = "idle" PROVE InOrder
    BY DEF InOrder
  <2>1. PICK g, U, K, b : Invariant(g, U, K, b)
    BY DEF IInv
  <2> DEFINE nth == Walk
             D == 1..(MaxNodes + 1)
             reached == {i \in D : nth[i] # NULL}
  <2>2. /\ Forest(tree, g, U, pool_root, K, heap) /\ Sorted(tree, g, U) /\ Counted(tree, U)
        /\ Typed(tree) /\ Rooted(tree, g, tree.root, U)
    BY <2>1 DEF Invariant, Used, Grown, Sound, Forest
  <2>3. NULL \notin U /\ U \subseteq Node /\ IsFiniteSet(U)
    <3>1. NULL \notin U /\ U \subseteq Node
      BY <2>2, NodeFacts DEF Rooted, Tree
    <3> QED  BY <3>1, NodeFacts, FS_Subset
  <2>4. OnceEach(g, U, nth)
    <3>1. IsWalk(tree, nth)
      BY <2>2, WalkIs
    <3> HIDE DEF nth
    <3> QED  BY <2>2, <3>1, WalkGivesAll
  <2>5. InOrder <=>
          /\ Cardinality(reached) = count
          /\ \A i \in reached, j \in reached : i < j => tree.key[nth[i]] <= tree.key[nth[j]]
          /\ \A k \in Keys :
               /\ Cardinality({i \in reached : tree.key[nth[i]] = k}) = inserted[k]
               /\ (Search(tree, k) # NULL) <=> (inserted[k] > 0)
    BY DEF InOrder
  <2> HIDE DEF nth
  <2>6. /\ \A i \in D : nth[i] \in U \cup {NULL}
        /\ \A i \in D, j \in D : i < j /\ nth[i] \in U /\ nth[j] \in U => g.pos[nth[i]] < g.pos[nth[j]]
        /\ \A X \in SUBSET U : Cardinality({i \in D : nth[i] \in X}) = Cardinality(X)
    BY <2>4 DEF OnceEach
  <2>7. Cardinality(reached) = count
    <3>1. reached = {i \in D : nth[i] \in U}
      BY <2>3, <2>6
    <3>2. Cardinality({i \in D : nth[i] \in U}) = Cardinality(U)
      BY <2>6
    <3> QED  BY <2>2, <3>1, <3>2 DEF Counted
  <2>8. \A i \in reached, j \in reached : i < j => tree.key[nth[i]] <= tree.key[nth[j]]
    BY <2>2, <2>6 DEF Sorted
  <2>9. ASSUME NEW k \in Keys
        PROVE  /\ Cardinality({i \in reached : tree.key[nth[i]] = k}) = inserted[k]
               /\ (Search(tree, k) # NULL) <=> (inserted[k] > 0)
    <3> DEFINE X == {n \in U : tree.key[n] = k}
    <3>1. inserted[k] = Cardinality(X)
      BY <2>2 DEF Counted
    <3>2. {i \in reached : tree.key[nth[i]] = k} = {i \in D : nth[i] \in X}
      BY <2>3, <2>6
    <3>3. Cardinality({i \in D : nth[i] \in X}) = Cardinality(X)
      BY <2>6
    <3>4. Cardinality(X) > 0 <=> X # {}
      <4>1. IsFiniteSet(X)
        BY <2>3, FS_Subset
      <4>2. Cardinality(X) \in Nat /\ (Cardinality(X) = 0 <=> X = {})
        BY <4>1, FS_CardinalityType, FS_EmptySet
      <4> HIDE DEF X
      <4> QED  BY <4>2
    <3>5. Search(tree, k) # NULL <=> X # {}
      <4>1. k \in Int
        BY DEF Keys
      <4>2. IF \E m \in U : tree.key[m] = k THEN Search(tree, k) \in U /\ tree.key[Search(tree, k)] = k
            ELSE Search(tree, k) = NULL
        BY <2>2, <4>1, SearchIs
      <4> QED  BY <2>3, <4>2
    <3> HIDE DEF X, reached, D
    <3> QED  BY <3>1, <3>2, <3>3, <3>4, <3>5
  <2> QED  BY <2>5, <2>7, <2>8, <2>9
<1> QED  BY <1>1, InvariantHolds, PTL

=============================================================================
