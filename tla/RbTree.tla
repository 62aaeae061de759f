------------------------------- MODULE RbTree -------------------------------
(***************************************************************************)
(* rbtree.c: red-black trees whose nodes, once cleared, wait in a pool.    *)
(* The pool has no links of its own: it is the cleared trees, hung below   *)
(* one another at their leftmost node, and is taken apart from there.      *)
(*                                                                         *)
(* The program has two kinds of trees: tables, into which a key goes only  *)
(* when a search did not find it (bad_char, shift, hash), in any order;    *)
(* and the list of keyword matches, which gets the addresses of matches in *)
(* ascending order, with duplicates, and is cleared for every line.        *)
(* rbtree_remove, rbtree_insert_reverse and rbtree_predecessor have no     *)
(* caller.                                                                 *)
(***************************************************************************)
EXTENDS Integers, FiniteSets

CONSTANTS
  MaxKey,     \* bound: the keys are 1 to MaxKey
  Kinds,      \* a subset of {"table", "matches"}
  MaxNodes,   \* bound: nodes malloc can provide
  MaxMatches, \* bound: matches of a line
  MaxEqual    \* bound: matches that begin at the same place

ASSUME TreeAssumption ==
  /\ Kinds \subseteq {"table", "matches"}
  /\ MaxKey \in Nat /\ MaxNodes \in Nat /\ MaxMatches \in Nat /\ MaxEqual \in Nat

VARIABLES
  kind,
  tree,       \* root, and key, left, right, parent and color of every node
  pool_root, pool_ptr,
  count,
  heap,       \* nodes not allocated
  pc,         \* "idle" or the loop that is running: "fixup", "free", "free_pool"; "gone"
  at,         \* the node the loop is at
  inserted    \* how often each key was inserted since the tree was cleared

vars == <<kind, tree, pool_root, pool_ptr, count, heap, pc, at, inserted>>

NULL == 0
Keys == 1..MaxKey
Node == 1..MaxNodes
RED == "red"
BLACK == "black"

Fresh ==
  [root |-> NULL, key |-> [n \in Node |-> 0], color |-> [n \in Node |-> RED],
   left |-> [n \in Node |-> NULL], right |-> [n \in Node |-> NULL],
   parent |-> [n \in Node |-> NULL]]

\* new_rbtree.
Init ==
  /\ kind \in Kinds
  /\ tree = Fresh /\ pool_root = NULL /\ pool_ptr = NULL /\ count = 0
  /\ heap = Node /\ pc = "idle" /\ at = NULL
  /\ inserted = [k \in Keys |-> 0]

-----------------------------------------------------------------------------
(* Moving about in a tree.                                                  *)

\* rbtree_min.
Min(T, n) ==
  LET down[x \in Node] == IF T.left[x] = NULL THEN x ELSE down[T.left[x]]
  IN IF n = NULL THEN NULL ELSE down[n]

\* Mutant: the parent, from whichever side.
Successor_Parent(T, n) == IF T.right[n] # NULL THEN Min(T, T.right[n]) ELSE T.parent[n]

\* rbtree_successor.
Successor(T, n) ==
  LET up[x \in Node] ==
        LET p == T.parent[x] IN IF p # NULL /\ x = T.right[p] THEN up[p] ELSE p
  IN IF T.right[n] # NULL THEN Min(T, T.right[n]) ELSE up[n]

\* rbtree_search: the node found, NULL if there is none.
Search(T, k) ==
  LET from[x \in Node \cup {NULL}] ==
        IF x = NULL THEN NULL
        ELSE IF T.key[x] = k THEN x
        ELSE from[IF k < T.key[x] THEN T.left[x] ELSE T.right[x]]
  IN from[T.root]

\* The nodes at r and below.
Below(T, r) ==
  LET under[n \in Node \cup {NULL}] ==
        IF n = NULL THEN {} ELSE {n} \cup under[T.left[n]] \cup under[T.right[n]]
  IN under[r]

\* The node rbtree_insert puts a new node for k under: equal keys go left.
Place(T, k) ==
  LET from[x \in Node] ==
        LET c == IF T.key[x] < k THEN T.right[x] ELSE T.left[x]
        IN IF c = NULL THEN x ELSE from[c]
  IN IF T.root = NULL THEN NULL ELSE from[T.root]

\* Mutant: only the left children are followed.
reset_pool_ptr_Left(T, n) == Min(T, n)

\* reset_pool_ptr: along right children while there is no left one, then along
\* left children.
reset_pool_ptr(T, n) ==
  LET slide[x \in Node] ==
        IF T.left[x] = NULL /\ T.right[x] # NULL THEN slide[T.right[x]] ELSE x
  IN IF n = NULL THEN NULL ELSE Min(T, slide[n])

\* left_rotate is Rotate(T, t, "left", "right"), right_rotate the mirror image.
Rotate(T, t, a, b) ==
  LET tmp  == T[b][t]
      mid  == T[a][tmp]
      up   == T.parent[t]
      side == IF up # NULL /\ T[a][up] = t THEN a ELSE b
      hung == IF up = NULL THEN [T EXCEPT !.root = tmp] ELSE [T EXCEPT ![side][up] = tmp]
  IN [hung EXCEPT ![b][t] = mid, ![a][tmp] = t,
                  !.parent = [n \in Node |-> IF n = t THEN tmp
                                             ELSE IF n = tmp THEN up
                                             ELSE IF n = mid THEN t ELSE @[n]]]

-----------------------------------------------------------------------------
(* Nodes.                                                                   *)

Obtainable == pool_ptr # NULL \/ heap # {}

\* new_rbtree_node: the node at pool_ptr, or a new one.
NewNode == IF pool_ptr # NULL THEN pool_ptr ELSE CHOOSE n \in heap : \A m \in heap : n <= m

\* What is left of the pool: the links, and where root and ptr are then.
PoolAfter ==
  LET p    == pool_ptr
      up   == tree.parent[p]
      next == tree.right[p]
      bare == IF next = NULL THEN tree ELSE [tree EXCEPT !.parent[next] = NULL]
      cut  == [tree EXCEPT !.left[up] = NULL]
  IN IF p = NULL THEN [T |-> tree, root |-> pool_root, ptr |-> NULL]
     ELSE IF up = NULL THEN [T |-> bare, root |-> next, ptr |-> reset_pool_ptr(bare, next)]
     ELSE IF p = tree.left[up]
     THEN [T |-> cut, root |-> pool_root,
           ptr |-> IF tree.right[up] = NULL THEN up ELSE reset_pool_ptr(cut, tree.right[up])]
     ELSE [T |-> [tree EXCEPT !.right[up] = NULL], root |-> pool_root, ptr |-> up]

\* The new node n for key k below p, or as the root.
Hang(T, n, k, p) ==
  LET blank == [T EXCEPT !.key[n] = k, !.left[n] = NULL, !.right[n] = NULL, !.parent[n] = p]
  IN IF p = NULL THEN [blank EXCEPT !.root = n, !.color[n] = BLACK]
     ELSE IF T.key[p] < k THEN [blank EXCEPT !.right[p] = n, !.color[n] = RED]
     ELSE [blank EXCEPT !.left[p] = n, !.color[n] = RED]

\* A table gets a key it does not have, the match list the last one again or a
\* greater one (the next: only their order matters).
Accepts(k) ==
  IF kind = "table" THEN Search(tree, k) = NULL
  ELSE /\ Cardinality(Below(tree, tree.root)) < MaxMatches
       /\ inserted[k] < MaxEqual
       /\ k > 1 => inserted[k - 1] > 0
       /\ \A j \in Keys : j > k => inserted[j] = 0

\* rbtree_insert, up to the call of rbtree_fixup.
Insert(k) ==
  /\ pc = "idle" /\ Obtainable /\ Accepts(k)
  /\ \E n \in {NewNode}, q \in {PoolAfter} :
       /\ tree' = Hang(q.T, n, k, Place(tree, k))
       /\ pool_root' = q.root /\ pool_ptr' = q.ptr
       /\ heap' = heap \ {n}
       /\ IF tree.root = NULL THEN UNCHANGED <<pc, at>> ELSE pc' = "fixup" /\ at' = n
  /\ count' = count + 1
  /\ inserted' = [inserted EXCEPT ![k] = @ + 1]
  /\ UNCHANGED kind

IsRed(n) == n # NULL /\ tree.color[n] = RED

\* rbtree_fixup's loop: parent, grandparent and uncle of the child it is at.
Parent == tree.parent[at]
Gparent == tree.parent[Parent]
Side == IF Parent = tree.left[Gparent] THEN "left" ELSE "right"
Other == IF Side = "left" THEN "right" ELSE "left"
Uncle == tree[Other][Gparent]

\* Mutant: the grandparent stays black.
Lighter_Not(T, p, u, g) == [T EXCEPT !.color[p] = BLACK, !.color[u] = BLACK]

\* Parent and uncle take the black from the grandparent.
Lighter(T, p, u, g) == [T EXCEPT !.color[p] = BLACK, !.color[u] = BLACK, !.color[g] = RED]

Recolour ==
  /\ pc = "fixup" /\ IsRed(Parent) /\ IsRed(Uncle)
  /\ tree' = Lighter(tree, Parent, Uncle, Gparent)
  /\ at' = Gparent
  /\ UNCHANGED <<kind, pool_root, pool_ptr, count, heap, pc, inserted>>

\* The child is on the side of its parent that points inward.
Inner(T) == at = T[Other][Parent]

RotateUp ==
  /\ pc = "fixup" /\ IsRed(Parent) /\ ~IsRed(Uncle)
  /\ LET out == IF Inner(tree) THEN Rotate(tree, Parent, Side, Other) ELSE tree
         top == IF Inner(tree) THEN at ELSE Parent
         col == [out EXCEPT !.color[top] = BLACK, !.color[Gparent] = RED]
     IN tree' = Rotate(col, Gparent, Other, Side)
  /\ at' = IF Inner(tree) THEN Parent ELSE at
  /\ UNCHANGED <<kind, pool_root, pool_ptr, count, heap, pc, inserted>>

FixupEnds ==
  /\ pc = "fixup" /\ ~IsRed(Parent)
  /\ tree' = IF Parent = NULL THEN [tree EXCEPT !.root = at, !.color[at] = BLACK] ELSE tree
  /\ pc' = "idle" /\ at' = NULL
  /\ UNCHANGED <<kind, pool_root, pool_ptr, count, heap, inserted>>

\* Mutant: clearing keeps the count.
ClearedCount_Kept(c) == c

ClearedCount(c) == 0

\* Key and color of a node in the pool are dead; here they become those of Fresh.
Dead(T, S) ==
  [T EXCEPT !.root = NULL,
            !.key = [n \in Node |-> IF n \in S THEN 0 ELSE @[n]],
            !.color = [n \in Node |-> IF n \in S THEN RED ELSE @[n]]]

\* rbtree_clear: the tree becomes the pool, or hangs at its leftmost node.
Clear ==
  /\ pc = "idle" /\ kind = "matches" /\ tree.root # NULL
  /\ \E T \in {IF pool_root = NULL THEN tree
               ELSE [tree EXCEPT !.left[pool_ptr] = tree.root, !.parent[tree.root] = pool_ptr]} :
       /\ tree' = Dead(T, Below(tree, tree.root))
       /\ pool_ptr' = reset_pool_ptr(T, Min(T, tree.root))
  /\ pool_root' = IF pool_root = NULL THEN tree.root ELSE pool_root
  /\ count' = ClearedCount(count)
  /\ inserted' = [k \in Keys |-> 0]
  /\ UNCHANGED <<kind, heap, pc, at>>

-----------------------------------------------------------------------------
(* rbtree_free: the tree leaf by leaf, then the pool.                       *)

\* A freed node, and the pointer to it that its parent had if it is cut.
Release(T, n) == [T EXCEPT !.key[n] = 0, !.color[n] = RED, !.left[n] = NULL,
                           !.right[n] = NULL, !.parent[n] = NULL]

\* Mutant: the parent keeps its pointer to the freed node.
Cut_Kept(T, n) == T

Cut(T, n) ==
  LET up == T.parent[n] IN
  IF n = T.left[up] THEN [T EXCEPT !.left[up] = NULL] ELSE [T EXCEPT !.right[up] = NULL]

BeginFree ==
  /\ pc = "idle"
  /\ pc' = IF tree.root = NULL THEN "free_pool" ELSE "free"
  /\ pool_ptr' = IF tree.root = NULL THEN reset_pool_ptr(tree, pool_ptr) ELSE pool_ptr
  /\ at' = IF tree.root = NULL THEN pool_ptr'
           ELSE LET m == Min(tree, tree.root)
                IN IF m = tree.root THEN Min(tree, tree.right[m]) ELSE m
  /\ UNCHANGED <<kind, tree, pool_root, count, heap, inserted>>

\* The root is left last; from there the loop goes on on the right.
Cursor == IF at = tree.root THEN Min(tree, tree.right[at]) ELSE at
Working == pc = "free" /\ at # NULL /\ Cursor # NULL
IsLeaf(n) == tree.left[n] = NULL /\ tree.right[n] = NULL

FreeLeaf ==
  /\ Working /\ IsLeaf(Cursor)
  /\ at' = tree.parent[Cursor]
  /\ tree' = Release(Cut(tree, Cursor), Cursor)
  /\ heap' = heap \cup {Cursor}
  /\ UNCHANGED <<kind, pool_root, pool_ptr, count, pc, inserted>>

\* A node that is no leaf and has no right child is not left any more.
GoOn ==
  /\ Working /\ ~IsLeaf(Cursor)
  /\ at' = IF tree.right[Cursor] # NULL THEN Min(tree, tree.right[Cursor]) ELSE Cursor
  /\ UNCHANGED <<kind, tree, pool_root, pool_ptr, count, heap, pc, inserted>>

FreeRoot ==
  /\ pc = "free" /\ (at = NULL \/ Cursor = NULL)
  /\ tree' = [Release(tree, tree.root) EXCEPT !.root = NULL]
  /\ heap' = heap \cup {tree.root}
  /\ pc' = "free_pool"
  /\ pool_ptr' = reset_pool_ptr(tree, pool_ptr) /\ at' = pool_ptr'
  /\ UNCHANGED <<kind, pool_root, count, inserted>>

\* rbtree_free_pool: the root is passed, every other node freed on the way up.
FreePooled ==
  /\ pc = "free_pool" /\ pool_root # NULL /\ at # NULL
  /\ LET up  == tree.parent[at]
         cut == Cut(tree, at)
     IN IF up = NULL
        THEN at' = reset_pool_ptr(tree, tree.right[at]) /\ UNCHANGED <<tree, heap>>
        ELSE /\ tree' = Release(cut, at)
             /\ heap' = heap \cup {at}
             /\ at' = IF at = tree.left[up] /\ tree.right[up] # NULL
                      THEN reset_pool_ptr(cut, tree.right[up]) ELSE up
  /\ UNCHANGED <<kind, pool_root, pool_ptr, count, pc, inserted>>

FreeEnds ==
  /\ pc = "free_pool" /\ (pool_root = NULL \/ at = NULL)
  /\ tree' = IF pool_root = NULL THEN tree ELSE Release(tree, pool_root)
  /\ heap' = heap \cup ({pool_root} \ {NULL})
  /\ pc' = "gone" /\ at' = NULL
  /\ UNCHANGED <<kind, pool_root, pool_ptr, count, inserted>>

\* new_rbtree: another tree.
New ==
  /\ pc = "gone"
  /\ kind' \in Kinds
  /\ tree' = [tree EXCEPT !.root = NULL] /\ pool_root' = NULL /\ pool_ptr' = NULL /\ count' = 0
  /\ pc' = "idle" /\ inserted' = [k \in Keys |-> 0]
  /\ UNCHANGED <<heap, at>>

Fixup == Recolour \/ RotateUp \/ FixupEnds
Freeing == FreeLeaf \/ GoOn \/ FreeRoot \/ FreePooled \/ FreeEnds

Next ==
  \/ \E k \in Keys : Insert(k)
  \/ Clear \/ BeginFree \/ New
  \/ Fixup \/ Freeing

\* One thread runs the loops: each goes on until it ends.
Spec == Init /\ [][Next]_vars /\ WF_vars(Fixup \/ Freeing)

-----------------------------------------------------------------------------
(* Properties.                                                              *)

TypeOK ==
  /\ kind \in Kinds /\ pc \in {"idle", "fixup", "free", "free_pool", "gone"}
  /\ {tree.root, pool_root, pool_ptr, at} \subseteq Node \cup {NULL}
  /\ count \in 0..MaxNodes /\ heap \subseteq Node
  /\ \A n \in Node : {tree.left[n], tree.right[n], tree.parent[n]} \subseteq Node \cup {NULL}

\* The nodes from Min on by Successor, one after the other, and NULL behind the
\* last: one more of them than there can be.
Walk ==
  LET nth[i \in 1..(MaxNodes + 1)] ==
        IF i = 1 THEN Min(tree, tree.root)
        ELSE LET n == nth[i - 1] IN IF n = NULL THEN NULL ELSE Successor(tree, n)
  IN nth

\* Rotations, recolouring and recycled nodes never lose or reorder a key: going
\* from rbtree_min by rbtree_successor gives every key as often as it was
\* inserted, in ascending order, rbtree_node_count counts them, and rbtree_search
\* finds exactly the keys that are there.
InOrder ==
  pc = "idle" =>
    LET nth == Walk
        reached == {i \in 1..(MaxNodes + 1) : nth[i] # NULL}
    IN /\ Cardinality(reached) = count
       /\ \A i \in reached, j \in reached : i < j => tree.key[nth[i]] <= tree.key[nth[j]]
       /\ \A k \in Keys :
            /\ Cardinality({i \in reached : tree.key[nth[i]] = k}) = inserted[k]
            /\ (Search(tree, k) # NULL) <=> (inserted[k] > 0)

\* The tree is red-black between the calls, and while rbtree_fixup runs it is
\* so but for the node the loop is at: no red node below a red one, and the same number
\* of black nodes on every way down.  Searches stay logarithmic.
RedBlack ==
  LET height[n \in Node \cup {NULL}] ==
        IF n = NULL THEN 0
        ELSE IF height[tree.left[n]] = height[tree.right[n]] /\ height[tree.left[n]] >= 0
             THEN height[tree.left[n]] + (IF tree.color[n] = BLACK THEN 1 ELSE 0)
             ELSE -1
      nodes == Below(tree, tree.root)
  IN pc \in {"idle", "fixup"} =>
       /\ height[tree.root] >= 0
       /\ \A n \in nodes \ {at} : IsRed(n) => ~IsRed(tree.parent[n])
       /\ pc = "idle" /\ tree.root # NULL => tree.color[tree.root] = BLACK

\* A node is in the tree, in the pool or not allocated, and in one place only:
\* clearing and taking nodes back one by one loses none and hands none out
\* twice.  rbtree_free frees each node once, touches none that is freed, and
\* leaves none.
NodesAccounted ==
  /\ pc \in {"idle", "fixup"} =>
       LET used == Below(tree, tree.root)
           kept == Below(tree, pool_root)
       IN /\ used \cap kept = {} /\ (used \cup kept) \cap heap = {}
          /\ used \cup kept \cup heap = Node
  /\ pc \in {"free", "free_pool"} => at \notin heap
  /\ pc = "gone" => heap = Node

\* The loops of rbtree_fixup, rbtree_free and rbtree_free_pool come to an end.
LoopsEnd == (pc \in {"fixup", "free", "free_pool"}) ~> (pc \in {"idle", "gone"})
=============================================================================
