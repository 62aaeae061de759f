------------------------------ MODULE FrontEnd ------------------------------
(***************************************************************************)
(* From the text of an expression to a program: main.c initialises the     *)
(* parser, parse_regex builds the graph and compile_regex the reachable    *)
(* lists, and new_nfa_sim takes the result.  Each of the two is one step,  *)
(* computed by RegexParser and Compile; the properties compare what it     *)
(* leaves behind with the meaning of the expression (RegexSemantics).      *)
(*                                                                         *)
(* A case is a record of a text, whether it is an expression at all        *)
(* (valid) and, if it is, its meaning (re).                                *)
(***************************************************************************)
EXTENDS Compile

CONSTANTS
  Cases,   \* the expressions to be translated
  Lines    \* the lines their programs are compared on

VARIABLES
  pc,      \* "parse", "compile", "done" or "stopped"
  case,    \* the case being translated
  parser,  \* the parser
  prog     \* the program, or NULL

vars == <<pc, case, parser, prog>>

S == INSTANCE RegexSemantics

Init ==
  /\ case \in Cases
  /\ pc = "parse"
  /\ parser = InitParser(case.text)
  /\ prog = NULL

\* parse_regex returns.
Parse ==
  /\ pc = "parse"
  /\ \E p \in {ParseRegex(parser)} : Running(p) /\ parser' = p
  /\ pc' = "compile"
  /\ UNCHANGED <<case, prog>>

\* parser_fatal ends the program (or a NULL pointer does).
ParseFails ==
  /\ pc = "parse"
  /\ \E p \in {ParseRegex(parser)} : ~Running(p) /\ parser' = p
  /\ pc' = "stopped"
  /\ UNCHANGED <<case, prog>>

\* compile_regex, at the end of parse_regex; it may run out of stack.
CompileRegex ==
  LET c == CollectAdjacencies(parser) IN
  /\ pc = "compile"
  /\ pc' = IF c.overflow THEN "stopped" ELSE "done"
  /\ prog' = IF c.overflow THEN NULL ELSE Program(parser, c)
  /\ parser' = IF c.overflow THEN Crash(parser) ELSE parser
  /\ UNCHANGED case

\* The search that follows is Recognizer.
Finished == pc \in {"done", "stopped"} /\ UNCHANGED vars

Next == Parse \/ ParseFails \/ CompileRegex \/ Finished

Spec == Init /\ [][Next]_vars

-----------------------------------------------------------------------------
(* What a program matches: the machine the recognizer implements, without  *)
(* threads, dedupe or lookahead.  A configuration is a node, a position,   *)
(* the repetitions each interval has counted and what each group holds.    *)

Goto(c, nodes) == {[c EXCEPT !.at = n] : n \in Range(nodes)}

Repetitions(g, c) ==
  LET n == g.nodes[c.at]
      k == c.count[n.id] + 1
      held == IF n.max = -1 /\ k > n.min THEN n.min ELSE k
      back == IF n.max = -1 \/ k < n.max
              THEN Goto([c EXCEPT !.count[n.id] = held], SubSeq(n.reach, 1, n.split)) ELSE {}
      out == IF k >= n.min
             THEN Goto([c EXCEPT !.count[n.id] = 0],
                       IF n.cycle THEN n.reach ELSE SubSeq(n.reach, n.split + 1, Len(n.reach)))
             ELSE {}
  IN back \cup out

\* The configurations after the node of c.
StepFrom(g, line, c) ==
  LET n == g.nodes[c.at]
      text == c.cap[n.id]
      size == text[2] - text[1]
  IN CASE n.type \in {"LITERAL", "RANGE", "ANY"} ->
            IF c.pos <= Len(line) /\ (n.type = "ANY" \/ line[c.pos] \in n.set)
            THEN Goto([c EXCEPT !.pos = @ + 1], n.reach) ELSE {}
       [] n.type = "BOL_ANCHOR" -> IF c.pos = 1 THEN Goto(c, n.reach) ELSE {}
       [] n.type = "EOL_ANCHOR" -> IF c.pos = Len(line) + 1 THEN Goto(c, n.reach) ELSE {}
       [] n.type = "CAPTUREGRP_BEGIN" -> Goto([c EXCEPT !.open[n.id] = c.pos], n.reach)
       [] n.type = "CAPTUREGRP_END" ->
            Goto([c EXCEPT !.cap[n.id] = <<c.open[n.id], c.pos>>], n.reach)
       [] n.type = "BACKREFERENCE" ->
            IF text[1] > 0 /\ c.pos + size <= Len(line) + 1
               /\ SubSeq(line, text[1], text[2] - 1) = SubSeq(line, c.pos, c.pos + size - 1)
            THEN Goto([c EXCEPT !.pos = @ + size], n.reach) ELSE {}
       [] n.type = "INTERVAL" -> Repetitions(g, c)
       [] OTHER -> {}

RECURSIVE RunFrom(_, _, _, _)
RunFrom(g, line, seen, todo) ==
  IF todo = {} THEN seen
  ELSE RunFrom(g, line, seen \cup todo,
               (UNION {StepFrom(g, line, c) : c \in todo}) \ (seen \cup todo))

\* The ends of the matches of program g that begin at position pos.
ProgramEnds(g, line, pos) ==
  LET c == [at |-> 0, pos |-> pos, count |-> [i \in 0..g.nloops |-> 0],
            open |-> [i \in 0..g.ngroups |-> 0], cap |-> [i \in 0..g.ngroups |-> <<0, 0>>]]
  IN {d.pos - 1 : d \in {e \in RunFrom(g, line, {}, Goto(c, g.start)) :
                            g.nodes[e.at].type = "ACCEPTING"}}

-----------------------------------------------------------------------------
(* Properties.                                                              *)

\* The program of parse_regex and compile_regex matches exactly what the
\* expression means, from every position of every line: no branch, repetition
\* or group is lost, added or attached to the wrong place.
ProgramLanguage ==
  pc = "done" =>
    \A line \in Lines : \A pos \in 1..(Len(line) + 1) :
      ProgramEnds(prog, line, pos) = S!Ends(case.re, line, pos)

\* parser_fatal stops exactly the malformed expressions, and no expression
\* makes the parser follow a NULL pointer.
RefusesMalformed ==
  /\ pc \in {"compile", "done"} => case.valid
  /\ pc = "stopped" => ~case.valid /\ parser.err = "fatal"

Successors(node) ==
  (({node.out1, node.out2} \cup Range(node.branches)) \ {NULL})

RECURSIVE GraphFrom(_, _, _)
GraphFrom(h, seen, todo) ==
  IF todo = {} THEN seen
  ELSE GraphFrom(h, seen \cup todo,
                 (UNION {Successors(h.node[n]) : n \in todo}) \ (seen \cup todo))

\* Nodes and list items are not used after they were freed: no node of the
\* finished graph is on the free list, where nfa_alloc would hand it out again
\* (concatenate_nfa copies one node over another and frees the original;
\* is_nfa_tree frees the tree whose branches were taken over).
NodesLive ==
  pc \in {"compile", "done"} =>
    /\ ~parser.h.bad
    /\ GraphFrom(parser.h, {}, {Start(parser)}) \cap Range(parser.h.free) = {}

\* collect_adjacencies computes the epsilon closure: a thread that leaves a
\* node finds every node it can stand at without reading, and no other.
ReachIsClosure ==
  pc = "done" =>
    LET c == CollectAdjacencies(parser) IN
    /\ Range(c.reach[Start(parser)]) = Closure(parser.h, Start(parser))
    /\ \A n \in Range(c.done) :
         LET node == parser.h.node[n] IN
         Range(c.reach[n]) =
           CASE node.type = "ACCEPTING" -> {}
             [] node.type = "INTERVAL" ->
                  Closure(parser.h, node.out1) \cup Closure(parser.h, node.out2)
             [] OTHER -> Closure(parser.h, node.out2)

\* The recognizer finds the thread already waiting at a node by the node's id
\* (active_threads_sp) and counts by the id of an interval: ids are distinct
\* and inside the arrays new_nfa_sim allocates from the parser's counts.
IdsIndexArrays ==
  pc = "done" =>
    LET Ids(kind) == {i \in DOMAIN prog.nodes : prog.nodes[i].type \in kind}
        Marked == {"CAPTUREGRP_BEGIN", "CAPTUREGRP_END", "BACKREFERENCE"}
        Distinct(I, size) == \A i \in I :
          /\ prog.nodes[i].id \in 0..(size - 1)
          /\ \A j \in I \ {i} : prog.nodes[j].id # prog.nodes[i].id
    IN /\ Distinct(Ids({"INTERVAL"}), prog.nloops)
       /\ Distinct(Ids({"LITERAL", "RANGE", "ANY", "BOL_ANCHOR", "EOL_ANCHOR", "ACCEPTING"}),
                   prog.nids)
       /\ \A i \in Ids(Marked) : prog.nodes[i].id \in 0..(prog.ngroups - 1)

\* When every match begins with a literal, it begins with one of the keywords
\* compute_mpat_tables found: the positions the prefilter skips hold no match.
KeywordsBegin ==
  pc = "done" =>
    LET starts == CollectAdjacencies(parser).reach[Start(parser)]
        pats == Patterns(parser.h, [pats |-> <<>>, print |-> FALSE], starts)
    IN (\A n \in Range(starts) : parser.h.node[n].type = "LITERAL") =>
         \A line \in Lines : \A pos \in 1..Len(line) :
           ProgramEnds(prog, line, pos) # {} =>
             \E pat \in Range(pats) : IsPrefix(pat, SubSeq(line, pos, Len(line)))
=============================================================================
