--------------------------- MODULE RegexSemantics ---------------------------
(***************************************************************************)
(* What a regular expression matches, independent of any machine: the      *)
(* reference the recognizer is compared with.  README:122 names GNU grep   *)
(* as that reference; this is the textbook meaning grep implements, with   *)
(* leftmost-longest matches and back references to what the group captured.*)
(*                                                                         *)
(* An expression is a record with the fields                               *)
(*    op   : "set", "bol", "eol", "cat", "alt", "rep", "grp" or "ref"      *)
(*    set  : the characters of a "set"                                     *)
(*    l, r : the operands                                                  *)
(*    min, max : the bounds of a "rep" (max = -1: none)                    *)
(*    g    : the number of a group or back reference                       *)
(***************************************************************************)
EXTENDS Integers, Sequences, FiniteSetsExt

Groups == 0..1

Empty == [op |-> "eps"]
Set(s) == [op |-> "set", set |-> s]
Bol == [op |-> "bol"]
Eol == [op |-> "eol"]
Cat(l, r) == [op |-> "cat", l |-> l, r |-> r]
Alt(l, r) == [op |-> "alt", l |-> l, r |-> r]
Rep(l, min, max) == [op |-> "rep", l |-> l, min |-> min, max |-> max]
Star(l) == Rep(l, 0, -1)
Plus(l) == Rep(l, 1, -1)
Opt(l) == Rep(l, 0, 1)
Grp(g, l) == [op |-> "grp", g |-> g, l |-> l]
Ref(g) == [op |-> "ref", g |-> g]

-----------------------------------------------------------------------------
\* A configuration: the next position of the line and what each group holds
\* (<<0, 0>>: nothing yet; <<i, j>>: the text from i to j - 1).
Start(p) == [pos |-> p, cap |-> [g \in Groups |-> <<0, 0>>]]

RECURSIVE After(_, _, _), Repeat(_, _, _, _, _)

\* The configurations an expression can lead to from one configuration.
After(re, line, c) ==
  CASE re.op = "eps" -> {c}
    [] re.op = "set" -> IF c.pos <= Len(line) /\ line[c.pos] \in re.set
                        THEN {[c EXCEPT !.pos = @ + 1]} ELSE {}
    [] re.op = "bol" -> IF c.pos = 1 THEN {c} ELSE {}
    [] re.op = "eol" -> IF c.pos = Len(line) + 1 THEN {c} ELSE {}
    [] re.op = "cat" -> UNION {After(re.r, line, d) : d \in After(re.l, line, c)}
    [] re.op = "alt" -> After(re.l, line, c) \cup After(re.r, line, c)
    [] re.op = "rep" -> Repeat(re, line, {c}, IF re.min = 0 THEN {c} ELSE {}, 1)
    [] re.op = "grp" -> {[d EXCEPT !.cap[re.g] = <<c.pos, d.pos>>] : d \in After(re.l, line, c)}
    [] re.op = "ref" ->
         LET t == c.cap[re.g]
             n == t[2] - t[1]
         IN IF t # <<0, 0>> /\ c.pos + n <= Len(line) + 1
               /\ \A k \in 0..(n - 1) : line[t[1] + k] = line[c.pos + k]
            THEN {[c EXCEPT !.pos = @ + n]} ELSE {}

\* The configurations after the k-th repetition; a repetition beyond the
\* minimum that adds nothing ends the search.
Repeat(re, line, from, acc, k) ==
  LET to == UNION {After(re.l, line, c) : c \in from}
      all == IF k >= re.min THEN acc \cup to ELSE acc
  IN IF re.max # -1 /\ k > re.max THEN acc
     ELSE IF k > re.min /\ all = acc THEN acc
     ELSE Repeat(re, line, to, all, k + 1)

\* The end positions (of the last character) of the matches that begin at p.
Ends(re, line, p) == {c.pos - 1 : c \in After(re, line, Start(p))}

\* The line contains a match.
Matches(re, line) == \E p \in 1..(Len(line) + 1) : Ends(re, line, p) # {}

RECURSIVE MatchesFrom(_, _, _)

\* The nonempty leftmost-longest matches, each search beginning behind the
\* previous match: what grep -o prints.
MatchesFrom(re, line, p) ==
  IF p > Len(line) THEN <<>>
  ELSE LET ends == {e \in Ends(re, line, p) : e >= p} IN
       IF ends = {} THEN MatchesFrom(re, line, p + 1)
       ELSE <<[start |-> p, end |-> Max(ends)]>> \o MatchesFrom(re, line, Max(ends) + 1)

LongestMatches(re, line) == MatchesFrom(re, line, 1)
=============================================================================
