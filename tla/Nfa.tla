-------------------------------- MODULE Nfa --------------------------------
(***************************************************************************)
(* The graph the parser builds: the node allocator of src/nfa_alloc.c and  *)
(* the constructors of src/nfa.c, as operators on a heap.                  *)
(*                                                                         *)
(* A heap holds the nodes, the ring of free nodes in the order nfa_alloc   *)
(* takes them, and the two id counters.  An expression is known by its     *)
(* last node, whose parent is its first node: a constructor takes last     *)
(* nodes and leaves the last node of its result in ret.                    *)
(*                                                                         *)
(* Nodes are reused: concatenate_nfa copies the first node of its right    *)
(* operand over the last node of its left one and frees the original.      *)
(***************************************************************************)
EXTENDS Integers, SequencesExt

NULL == 0

Blank == [type |-> "FREE", id |-> 0, literal |-> "", range |-> {}, branches |-> <<>>,
          parent |-> NULL, out1 |-> NULL, out2 |-> NULL, min_rep |-> 0, max_rep |-> 0]

\* nfa_alloc_init.
NewHeap(num) ==
  [node |-> [i \in 1..num |-> Blank], free |-> [i \in 1..num |-> i], pool_size |-> num,
   next_seq_id |-> 1, next_interval_seq_id |-> 0, new |-> <<>>, ret |-> NULL, bad |-> FALSE]

\* nfa_alloc_expand: as many usable nodes as the last pool had entries.
Expand(h) ==
  [h EXCEPT !.node = [i \in 1..(Len(@) + h.pool_size) |->
                        IF i \in DOMAIN @ THEN @[i] ELSE Blank],
            !.free = [i \in 1..h.pool_size |-> Len(h.node) + i],
            !.pool_size = 2 * @]

\* The head of the free ring becomes a node and is appended to new.
Take(h, type) ==
  [h EXCEPT !.free = Tail(@), !.new = Append(@, Head(h.free)),
            !.node[Head(h.free)] = [@ EXCEPT !.type = type, !.id = 0, !.parent = NULL,
                                             !.out1 = NULL, !.out2 = NULL]]

\* new_nfa, from nfa_alloc.
NewNfa(h, type) == Take(IF h.free = <<>> THEN Expand(h) ELSE h, type)

NewNfas(h, types) == FoldLeft(NewNfa, [h EXCEPT !.new = <<>>], types)

\* nfa_dealloc: the node goes behind the head of the ring.
Dealloc(h, n) ==
  [h EXCEPT !.free = IF @ = <<>> THEN <<n>> ELSE <<Head(@), n>> \o Tail(@)]

MarkNfa(h, n) ==
  IF h.node[n].id = 0
  THEN [h EXCEPT !.node[n].id = h.next_seq_id, !.next_seq_id = @ + 1]
  ELSE h

\* Mutant: the counter stays.
MarkIntervalNfaSameId(h, n) == [h EXCEPT !.node[n].id = h.next_interval_seq_id]

MarkIntervalNfa(h, n) ==
  IF h.node[n].id = 0
  THEN [h EXCEPT !.node[n].id = h.next_interval_seq_id, !.next_interval_seq_id = @ + 1]
  ELSE h

\* An expression of a first and a last node.
Linked(h, start, accept) ==
  [h EXCEPT !.node[start].out1 = accept, !.node[start].out2 = accept,
            !.node[accept].parent = start, !.ret = accept]

\* A constructor allocates its nodes; the operator in front of it, on the heap
\* that has them in new, is the rest of it.
WireLiteral(h, c) ==
  Linked(MarkNfa([h EXCEPT !.node[h.new[2]].literal = c], h.new[2]), h.new[2], h.new[1])
NewLiteral(h, c, type) == WireLiteral(NewNfas(h, <<"ACCEPTING", type>>), c)

WireRange(h, set) ==
  Linked(MarkNfa([h EXCEPT !.node[h.new[1]].range = set], h.new[1]), h.new[1], h.new[2])
NewRange(h, set) == WireRange(NewNfas(h, <<"RANGE", "ACCEPTING">>), set)

WireBackreference(h, g) == Linked([h EXCEPT !.node[h.new[1]].id = g], h.new[1], h.new[2])
NewBackreference(h, g) == WireBackreference(NewNfas(h, <<"BACKREFERENCE", "ACCEPTING">>), g)

\* "tighten loop": the first node that is not an epsilon.
RECURSIVE SkipEpsilon(_, _)
SkipEpsilon(h, n) ==
  IF n # NULL /\ h.node[n].type = "EPSILON" THEN SkipEpsilon(h, h.node[n].out2) ELSE n

First(h, body) == h.node[body].parent

\* Mutant: the loop returns to the node behind the body.
LoopBackToExit(h, body, literal, accept) ==
  [h EXCEPT !.node[body] = [@ EXCEPT !.type = "SPLIT", !.literal = literal,
                                     !.out1 = accept, !.out2 = accept]]

\* The last node of a repeated body becomes a split: back, or on to accept.
LoopBack(h, body, literal, accept) ==
  LET split == [h EXCEPT !.node[body] = [@ EXCEPT !.type = "SPLIT", !.literal = literal,
                                                  !.out2 = accept]]
  IN [split EXCEPT !.node[body].out1 = SkipEpsilon(split, First(h, body))]

WireKleene(h, body) ==
  LET start == h.new[1]
      accept == h.new[2]
      entry == [h EXCEPT !.node[start] = [@ EXCEPT !.id = h.node[First(h, body)].id,
                                                   !.literal = "?", !.out1 = accept,
                                                   !.out2 = First(h, body)]]
  IN [LoopBack(entry, body, "*", accept) EXCEPT !.node[accept].parent = start, !.ret = accept]
NewKleene(h, body) == WireKleene(NewNfas(h, <<"SPLIT", "ACCEPTING">>), body)

WireQmark(h, body) ==
  LET start == h.new[1]
      accept == h.new[2]
  IN [h EXCEPT !.node[start] = [@ EXCEPT !.id = h.node[First(h, body)].id, !.literal = "?",
                                         !.out1 = accept, !.out2 = First(h, body)],
               !.node[body] = [@ EXCEPT !.type = "EPSILON", !.out1 = accept, !.out2 = accept],
               !.node[accept].parent = start, !.ret = accept]
NewQmark(h, body) == WireQmark(NewNfas(h, <<"SPLIT", "ACCEPTING">>), body)

WirePosclosure(h, body) ==
  LET start == h.new[1]
      accept == h.new[2]
      entry == [h EXCEPT !.node[start] = [@ EXCEPT !.id = h.node[First(h, body)].id,
                                                   !.out1 = First(h, body),
                                                   !.out2 = First(h, body)]]
  IN [LoopBack(entry, body, "+", accept) EXCEPT !.node[accept].parent = start, !.ret = accept]
NewPosclosure(h, body) == WirePosclosure(NewNfas(h, <<"EPSILON", "ACCEPTING">>), body)

\* The interval node is new[3]; it loops to its out1 and leaves by its out2.
WireInterval(h, body, min, max) ==
  LET start == h.new[1]
      accept == h.new[2]
      interval == h.new[3]
      first == First(h, body)
      entry == [h EXCEPT
        !.node[start] = IF min = 0
          THEN [@ EXCEPT !.id = h.node[first].id, !.type = "SPLIT", !.literal = "?",
                         !.out1 = first, !.out2 = accept]
          ELSE [@ EXCEPT !.id = h.node[first].id, !.out1 = first, !.out2 = first],
        !.node[body] = [@ EXCEPT !.type = "EPSILON", !.out2 = interval]]
      marked == MarkIntervalNfa(entry, interval)
  IN [marked EXCEPT
        !.node[interval] = [@ EXCEPT !.min_rep = IF min = 0 THEN 1 ELSE min, !.max_rep = max,
                                     !.out1 = SkipEpsilon(marked, first), !.out2 = accept],
        !.node[accept].parent = start, !.ret = accept]
NewInterval(h, body, min, max) == WireInterval(NewNfas(h, <<"EPSILON", "ACCEPTING", "INTERVAL">>), body, min, max)

\* The branch is itself an alternation: is_nfa_tree.
IsTree(h, n) == First(h, n) # NULL /\ h.node[First(h, n)].type = "TREE"

\* new_alternation_nfa for two and more branches.  The branches of a branch
\* that is an alternation are taken over and its tree node is freed.
\* list_transfer_on_match leaves list->tail on the item it freed when the last
\* branch goes and two others stay; list_transfer then writes through it: bad.
WireAlternation(h, list) ==
  LET start == h.new[1]
      terminator == h.new[2]
      plain == SelectSeq(list, LAMBDA n : ~IsTree(h, n))
      trees == SelectSeq(list, LAMBDA n : IsTree(h, n))
      taken == [i \in 1..Len(trees) |-> First(h, trees[i])]
      joined == [h EXCEPT
        !.node = [n \in DOMAIN @ |-> IF \E i \in 1..Len(list) : list[i] = n
                                     THEN [@[n] EXCEPT !.type = "EPSILON", !.out2 = terminator]
                                     ELSE @[n]],
        !.bad = @ \/ (IsTree(h, Last(list)) /\ Len(plain) >= 2)]
  IN FoldLeft(Dealloc,
       [joined EXCEPT
          !.node[start].branches =
             [i \in 1..Len(plain) |-> First(h, plain[i])]
             \o FlattenSeq([i \in 1..Len(taken) |-> h.node[taken[i]].branches]),
          !.node[terminator].parent = start, !.ret = terminator],
       taken)
NewAlternation(h, list) == WireAlternation(NewNfas(h, <<"TREE", "ACCEPTING">>), list)

\* Mutant: the freed node is the one that was written over.
ConcatenateFreesLeft(h, prev, next) ==
  IF next = NULL THEN [h EXCEPT !.ret = prev]
  ELSE IF prev = NULL THEN [h EXCEPT !.ret = next]
  ELSE Dealloc([h EXCEPT !.node[prev] = h.node[First(h, next)],
                         !.node[next].parent = First(h, prev), !.ret = next], prev)

\* concatenate_nfa.
Concatenate(h, prev, next) ==
  IF next = NULL THEN [h EXCEPT !.ret = prev]
  ELSE IF prev = NULL THEN [h EXCEPT !.ret = next]
  ELSE LET discard == First(h, next)
       IN Dealloc([h EXCEPT !.node[prev] = h.node[discard],
                            !.node[next].parent = First(h, prev),
                            !.node[discard] = [@ EXCEPT !.parent = discard, !.out1 = NULL,
                                                        !.out2 = NULL, !.literal = ""],
                            !.ret = next],
                  discard)

\* new_lliteral_nfa: a run of literals.
JoinLast(h, prev) == Concatenate(h, prev, h.ret)
NewLliteral(h, chars) ==
  FoldLeft(LAMBDA acc, c : JoinLast(NewLiteral(acc, c, "LITERAL"), acc.ret),
           NewLiteral(h, Head(chars), "LITERAL"), Tail(chars))

-----------------------------------------------------------------------------
\* What a step of the machine may do without reading a character.
Moves(h, n) ==
  CASE h.node[n].type = "EPSILON" -> {h.node[n].out2}
    [] h.node[n].type = "SPLIT"   -> {h.node[n].out1, h.node[n].out2}
    [] h.node[n].type = "TREE"    -> Range(h.node[n].branches)
    [] OTHER -> {}

RECURSIVE ClosureOf(_, _, _)
ClosureOf(h, seen, todo) ==
  IF todo = {} THEN seen
  ELSE ClosureOf(h, seen \cup todo,
                 (UNION {Moves(h, n) : n \in todo}) \ (seen \cup todo \cup {NULL}))

\* The nodes a machine at n can stand at: the reference for compile.c.
Closure(h, n) ==
  {m \in ClosureOf(h, {}, {n} \ {NULL}) : h.node[m].type \notin {"EPSILON", "SPLIT", "TREE"}}
=============================================================================
