------------------------------ MODULE Compile ------------------------------
(***************************************************************************)
(* src/compile.c: from the graph of the parser to the program the          *)
(* recognizer runs.  collect_adjacencies gives every node that can hold a  *)
(* thread the list of nodes a thread can go on to (reachable), skipping    *)
(* epsilons, splits and trees; compute_mpat_tables derives the keywords of *)
(* the prefilter from the nodes a match can begin with.                    *)
(*                                                                         *)
(* The compiler's state is a record c: the heap, the reachable lists, the  *)
(* flag bits as sets of nodes and the order in which nodes became DONE.    *)
(***************************************************************************)
EXTENDS RegexParser

\* list_search, then list_append.
AddReachable(c, current, n) ==
  [c EXCEPT !.reach[current] = IF n \in Range(@) THEN @ ELSE Append(@, n)]

NoteAccepts(c, current, n) ==
  IF c.h.node[n].type = "ACCEPTING" THEN [c EXCEPT !.accepts = @ \cup {current}] ELSE c

\* How deep the calls of collect_adjacencies_helper may nest.  A call that is
\* made again below itself never returns; a call has one of two forbidden
\* nodes, so more than twice as many calls as nodes run out of stack.
StackLimit(c) == 2 * Len(c.h.node) + 1

RECURSIVE Collect(_, _, _, _, _, _)

\* Collect through n: the VISITED flag is set while its successors are visited.
CollectAll(c, current, n, next, forbidden, calls) ==
  [FoldLeft(LAMBDA acc, m : Collect(acc, current, m, forbidden, calls + 1, TRUE),
            [c EXCEPT !.visited = @ \cup {n}], next) EXCEPT !.visited = @ \ {n}]

\* Mutant: the second way out of a split is not explored.
SplitTargetsOne(node) == <<node.out1>>

SplitTargets(node) == <<node.out1, node.out2>>

\* collect_adjacencies_helper; calls is the number of calls on the stack,
\* nested is recursion > 0.
Collect(c, current, n, forbidden, calls, nested) ==
  IF c.overflow \/ calls > StackLimit(c) THEN [c EXCEPT !.overflow = TRUE]
  ELSE IF n = forbidden THEN [c EXCEPT !.cycle = @ \cup {current}]
  ELSE LET node == c.h.node[n] IN
  CASE node.type = "EPSILON" -> CollectAll(c, current, n, <<node.out2>>, forbidden, calls)
    [] node.type \in {"TREE", "SPLIT"} /\ n \in c.visited -> c
    [] node.type = "TREE" /\ n \notin c.visited ->
         CollectAll(c, current, n, node.branches, forbidden, calls)
    [] node.type = "SPLIT" /\ n \notin c.visited ->
         IF c.h.node[current].type = "INTERVAL"
         THEN Collect(Collect(c, current, node.out1, c.h.node[current].out1, calls + 1, nested),
                      current, node.out2, forbidden, calls + 1, nested)
         ELSE CollectAll(c, current, n, SplitTargets(node), forbidden, calls)
    [] OTHER ->
         IF n \notin c.visited /\ current = n /\ ~nested
         THEN Collect(c, current, node.out2, forbidden, calls + 1, TRUE)
         ELSE NoteAccepts(AddReachable(c, current, n), current, n)

-----------------------------------------------------------------------------
(* Keywords of the prefilter.                                               *)

\* Mutant: an optional part is taken to be absent.
WaysOnAbsent(node) ==
  CASE node.type = "TREE" -> node.branches
    [] node.type = "SPLIT" -> IF node.literal = "?" THEN <<node.out1>> ELSE <<>>
    [] OTHER -> <<node.out2>>

\* The nodes synthesize_pattern goes on to; it does not enter a loop again.
WaysOn(node) ==
  CASE node.type = "TREE" -> node.branches
    [] node.type = "SPLIT" -> IF node.literal = "?" THEN <<node.out1, node.out2>> ELSE <<>>
    [] OTHER -> <<node.out2>>

\* synthesize_pattern: root holds the characters before node n; s.print is the
\* static flag print.
RECURSIVE Synthesize(_, _, _, _)
Synthesize(h, s, root, n) ==
  LET node == h.node[n]
      literal == node.type = "LITERAL"
      word == IF literal THEN Append(root, node.literal) ELSE root
      t == IF literal \/ node.type \in {"EPSILON", "CAPTUREGRP_BEGIN", "CAPTUREGRP_END",
                                       "TREE", "SPLIT"}
           THEN FoldLeft(LAMBDA acc, m : Synthesize(h, acc, word, m),
                         [s EXCEPT !.print = @ \/ literal], WaysOn(node))
           ELSE [s EXCEPT !.print = TRUE]
  IN IF t.print THEN [pats |-> Append(t.pats, word), print |-> FALSE] ELSE t

\* compute_mpat_tables: it stops at the first start node that is neither a
\* literal nor accepting, and keeps the patterns it has by then.
RECURSIVE Patterns(_, _, _)
Patterns(h, s, starts) ==
  IF starts = <<>> THEN s.pats
  ELSE CASE h.node[Head(starts)].type = "LITERAL" ->
              Patterns(h, Synthesize(h, s, <<>>, Head(starts)), Tail(starts))
         [] h.node[Head(starts)].type = "ACCEPTING" -> Patterns(h, s, Tail(starts))
         [] OTHER -> s.pats

-----------------------------------------------------------------------------
(* The reachable lists.                                                     *)

\* The list of one node.  An interval has the list of its loop, up to split,
\* and then the list of its way out.
CollectNode(c0, n) ==
  LET node == c0.h.node[n]
      c == [c0 EXCEPT !.visited = @ \cup {n}]
      loop == Collect(c, n, node.out1, NULL, 0, FALSE)
      exit == Collect([loop EXCEPT !.reach[n] = <<>>], n, node.out2, NULL, 0, FALSE)
      done == IF node.type = "INTERVAL"
              THEN [exit EXCEPT !.split[n] = Len(loop.reach[n]),
                                !.reach[n] = loop.reach[n] \o @]
              ELSE Collect(c, n, node.out2, NULL, 0, FALSE)
  IN [done EXCEPT !.visited = @ \ {n}, !.list = Append(@, n)]

\* One entry of the list of current.
CollectEntry(c, n) ==
  LET marked == [c EXCEPT !.done = Append(@, n)]
  IN CASE n \in Range(c.done) -> c
       [] n \notin Range(c.done) /\ c.h.node[n].type = "ACCEPTING" -> marked
       [] OTHER -> CollectNode(marked, n)

\* The main loop; i counts the entries of the list that were processed.
RECURSIVE CollectList(_, _, _)
CollectList(c, i, total) ==
  IF i >= Len(c.list) \/ i > total THEN c
  ELSE CollectList(FoldLeft(CollectEntry, c, c.reach[c.list[i + 1]]), i + 1, total)

Start(p) == First(p.h, Top(p))

\* collect_adjacencies: the list starts with what is left on the branch stack.
CollectAdjacencies(p) ==
  LET none == [n \in DOMAIN p.h.node |-> <<>>]
      c == Collect([h |-> p.h, reach |-> none, split |-> [n \in DOMAIN p.h.node |-> 0],
                    cycle |-> {}, accepts |-> {}, visited |-> {}, done |-> <<>>, overflow |-> FALSE,
                    list |-> Append(p.branch_stack, Start(p))],
                   Start(p), Start(p), NULL, 0, FALSE)
  IN CollectList(c, 0, p.h.next_seq_id + p.interval_count)

-----------------------------------------------------------------------------
(* The compiled program.                                                    *)

\* A node as the recognizer sees it; nodes are numbered in the order done.
CompiledNode(c, n) ==
  LET node == c.h.node[n]
      loop == node.type = "INTERVAL"
  IN [type |-> node.type, id |-> node.id,
      set |-> CASE node.type = "LITERAL" -> {node.literal}
                [] node.type = "RANGE" -> node.range
                [] OTHER -> {},
      reach |-> [k \in DOMAIN c.reach[n] |->
                   CHOOSE i \in DOMAIN c.done : c.done[i] = c.reach[n][k]],
      min |-> IF loop THEN node.min_rep ELSE 0, max |-> IF loop THEN node.max_rep ELSE 0,
      split |-> c.split[n], cycle |-> loop /\ n \in c.cycle, accepts |-> loop /\ n \in c.accepts]

\* What new_nfa_sim takes from a parser: the sizes of its arrays and the
\* keywords.
Program(p, c) ==
  [start |-> CompiledNode(c, Start(p)).reach, nids |-> p.h.next_seq_id,
   nloops |-> p.interval_count, ngroups |-> IF p.cgrp_map = {} THEN 0 ELSE p.cgrp_count,
   kws |-> Patterns(p.h, [pats |-> <<>>, print |-> FALSE], c.reach[Start(p)]),
   nodes |-> [i \in DOMAIN c.done |-> CompiledNode(c, c.done[i])]]
=============================================================================
