---------------------------- MODULE MCRecognizer ----------------------------
(***************************************************************************)
(* Instances of Recognizer for TLC.  Every program below is what           *)
(* src/regex_parser.c and src/compile.c make of the regular expression in  *)
(* the comment above it: the models of the two (RegexParser, Compile)      *)
(* compile the text of the expression to this table, CompiledFromText.     *)
(* The field re is the meaning of the expression, for the comparison with  *)
(* RegexSemantics.                                                         *)
(***************************************************************************)
EXTENDS Recognizer, RegexSemantics, TLC

\* re, reachable list of the start node, sizes of the three arrays, keywords,
\* nodes.
Prog(re, start, nids, nloops, ngroups, kws, nodes) ==
  [re |-> re, start |-> start, nids |-> nids, nloops |-> nloops, ngroups |-> ngroups,
   kws |-> kws, nodes |-> nodes]

Nd(t, id, reach) ==
  [type |-> t, id |-> id, set |-> {}, reach |-> reach, min |-> 0, max |-> 0, split |-> 0,
   cycle |-> FALSE, accepts |-> FALSE]
Chr(t, id, set, reach) == [Nd(t, id, reach) EXCEPT !.set = set]
Intv(id, reach, min, max, split, cycle, accepts) ==
  [type |-> "INTERVAL", id |-> id, set |-> {}, reach |-> reach, min |-> min, max |-> max,
   split |-> split, cycle |-> cycle, accepts |-> accepts]

-----------------------------------------------------------------------------
\* [ac]|[ab]b
AltRange == Prog(Alt(Set({"a", "c"}), Cat(Set({"a", "b"}), Set({"b"}))),
  <<1, 2>>, 5, 0, 0, <<>>,
  <<Chr("RANGE", 2, {"a", "b"}, <<3>>),
    Chr("RANGE", 1, {"a", "c"}, <<4>>),
    Chr("LITERAL", 3, {"b"}, <<4>>),
    Nd("ACCEPTING", 4, <<>>)>>)

\* (a.)\1
Echo == Prog(Cat(Grp(0, Cat(Set({"a"}), Set(Chars))), Ref(0)),
  <<1>>, 6, 0, 1, <<>>,
  <<Nd("CAPTUREGRP_BEGIN", 0, <<2>>),
    Chr("LITERAL", 2, {"a"}, <<3>>),
    Nd("ANY", 3, <<4>>),
    Nd("CAPTUREGRP_END", 0, <<5>>),
    Nd("BACKREFERENCE", 0, <<6>>),
    Nd("ACCEPTING", 5, <<>>)>>)

\* ^(a|aa){2,3}c
Counted == Prog(Cat(Cat(Bol, Rep(Alt(Set({"a"}), Cat(Set({"a"}), Set({"a"}))), 2, 3)),
    Set({"c"})),
  <<1>>, 7, 1, 0, <<>>,
  <<Nd("BOL_ANCHOR", 1, <<2, 3>>),
    Chr("LITERAL", 3, {"a"}, <<4>>),
    Chr("LITERAL", 2, {"a"}, <<5>>),
    Chr("LITERAL", 4, {"a"}, <<5>>),
    Intv(0, <<2, 3, 6>>, 2, 3, 2, FALSE, FALSE),
    Chr("LITERAL", 5, {"c"}, <<7>>),
    Nd("ACCEPTING", 6, <<>>)>>)

\* ab
OneKeyword == Prog(Cat(Set({"a"}), Set({"b"})),
  <<1>>, 4, 0, 0, << <<"a", "b">> >>,
  <<Chr("LITERAL", 1, {"a"}, <<2>>),
    Chr("LITERAL", 2, {"b"}, <<3>>),
    Nd("ACCEPTING", 3, <<>>)>>)

\* ^(a|b|ab){2,2}c
CountedAlt == Prog(Cat(Cat(Bol, Rep(Alt(Alt(Set({"a"}), Set({"b"})), Cat(Set({"a"}), Set({"b"}))),
    2, 2)), Set({"c"})),
  <<1>>, 8, 1, 0, <<>>,
  <<Nd("BOL_ANCHOR", 1, <<2, 3, 4>>),
    Chr("LITERAL", 4, {"a"}, <<5>>),
    Chr("LITERAL", 3, {"b"}, <<6>>),
    Chr("LITERAL", 2, {"a"}, <<6>>),
    Chr("LITERAL", 5, {"b"}, <<6>>),
    Intv(0, <<2, 3, 4, 7>>, 2, 2, 3, FALSE, FALSE),
    Chr("LITERAL", 6, {"c"}, <<8>>),
    Nd("ACCEPTING", 7, <<>>)>>)

\* ([ab]{1,2}c){1,2}
Nested == Prog(Rep(Cat(Rep(Set({"a", "b"}), 1, 2), Set({"c"})), 1, 2),
  <<1>>, 4, 2, 0, <<>>,
  <<Chr("RANGE", 1, {"a", "b"}, <<2>>),
    Intv(0, <<1, 3>>, 1, 2, 1, FALSE, FALSE),
    Chr("LITERAL", 2, {"c"}, <<4>>),
    Intv(1, <<1, 5>>, 1, 2, 1, FALSE, TRUE),
    Nd("ACCEPTING", 3, <<>>)>>)

\* (a|bc)*b
Looped == Prog(Cat(Star(Alt(Set({"a"}), Cat(Set({"b"}), Set({"c"})))), Set({"b"})),
  <<1, 2, 3>>, 6, 0, 0, << <<"b">>, <<"b", "c">>, <<"a">> >>,
  <<Chr("LITERAL", 4, {"b"}, <<4>>),
    Chr("LITERAL", 2, {"b"}, <<5>>),
    Chr("LITERAL", 1, {"a"}, <<2, 3, 1>>),
    Nd("ACCEPTING", 5, <<>>),
    Chr("LITERAL", 3, {"c"}, <<2, 3, 1>>)>>)

\* a{0,2}b?c
Optional == Prog(Cat(Cat(Rep(Set({"a"}), 0, 2), Opt(Set({"b"}))), Set({"c"})),
  <<1, 2, 3>>, 5, 1, 0, << <<"a">>, <<"c">>, <<"b", "c">> >>,
  <<Chr("LITERAL", 1, {"a"}, <<4>>),
    Chr("LITERAL", 3, {"c"}, <<5>>),
    Chr("LITERAL", 2, {"b"}, <<2>>),
    Intv(0, <<1, 2, 3>>, 1, 2, 1, FALSE, FALSE),
    Nd("ACCEPTING", 4, <<>>)>>)

\* (b|[ac]{1,3})+c
Cycled == Prog(Cat(Plus(Alt(Set({"b"}), Rep(Set({"a", "c"}), 1, 3))), Set({"c"})),
  <<1, 2>>, 5, 1, 0, <<>>,
  <<Chr("RANGE", 2, {"a", "c"}, <<3>>),
    Chr("LITERAL", 1, {"b"}, <<1, 2, 4>>),
    Intv(0, <<1, 2, 4>>, 1, 3, 1, TRUE, FALSE),
    Chr("LITERAL", 3, {"c"}, <<5>>),
    Nd("ACCEPTING", 4, <<>>)>>)

\* ^a.c$
Anchored == Prog(Cat(Cat(Cat(Cat(Bol, Set({"a"})), Set(Chars)), Set({"c"})), Eol),
  <<1>>, 7, 0, 0, <<>>,
  <<Nd("BOL_ANCHOR", 1, <<2>>),
    Chr("LITERAL", 2, {"a"}, <<3>>),
    Nd("ANY", 3, <<4>>),
    Chr("LITERAL", 4, {"c"}, <<5>>),
    Nd("EOL_ANCHOR", 5, <<6>>),
    Nd("ACCEPTING", 6, <<>>)>>)

\* [ac]$|[bc]
EndsLine == Prog(Alt(Cat(Set({"a", "c"}), Eol), Set({"b", "c"})),
  <<1, 2>>, 5, 0, 0, <<>>,
  <<Chr("RANGE", 3, {"b", "c"}, <<3>>),
    Chr("RANGE", 1, {"a", "c"}, <<4>>),
    Nd("ACCEPTING", 4, <<>>),
    Nd("EOL_ANCHOR", 2, <<3>>)>>)

\* .{2,}b
AtLeast == Prog(Cat(Rep(Set(Chars), 2, -1), Set({"b"})),
  <<1>>, 4, 1, 0, <<>>,
  <<Nd("ANY", 1, <<2>>),
    Intv(0, <<1, 3>>, 2, -1, 1, FALSE, FALSE),
    Chr("LITERAL", 2, {"b"}, <<4>>),
    Nd("ACCEPTING", 3, <<>>)>>)

\* aab[ab]|aabc
SharedStart ==
  LET aab == Cat(Cat(Set({"a"}), Set({"a"})), Set({"b"}))
  IN Prog(Alt(Cat(aab, Set({"a", "b"})), Cat(aab, Set({"c"}))),
       <<1, 2>>, 10, 0, 0, << <<"a", "a", "b", "c">>, <<"a", "a", "b">> >>,
       <<Chr("LITERAL", 5, {"a"}, <<3>>),
         Chr("LITERAL", 1, {"a"}, <<4>>),
         Chr("LITERAL", 6, {"a"}, <<5>>),
         Chr("LITERAL", 2, {"a"}, <<6>>),
         Chr("LITERAL", 7, {"b"}, <<7>>),
         Chr("LITERAL", 3, {"b"}, <<8>>),
         Chr("LITERAL", 8, {"c"}, <<9>>),
         Chr("RANGE", 4, {"a", "b"}, <<9>>),
         Nd("ACCEPTING", 9, <<>>)>>)

\* abab|bac
Overlapping ==
  Prog(Alt(Cat(Cat(Cat(Set({"a"}), Set({"b"})), Set({"a"})), Set({"b"})),
           Cat(Cat(Set({"b"}), Set({"a"})), Set({"c"}))),
    <<1, 2>>, 9, 0, 0, << <<"b", "a", "c">>, <<"a", "b", "a", "b">> >>,
    <<Chr("LITERAL", 5, {"b"}, <<3>>),
      Chr("LITERAL", 1, {"a"}, <<4>>),
      Chr("LITERAL", 6, {"a"}, <<5>>),
      Chr("LITERAL", 2, {"b"}, <<6>>),
      Chr("LITERAL", 7, {"c"}, <<7>>),
      Chr("LITERAL", 3, {"a"}, <<8>>),
      Nd("ACCEPTING", 8, <<>>),
      Chr("LITERAL", 4, {"b"}, <<7>>)>>)

\* a$.
PastEnd == Prog(Cat(Cat(Set({"a"}), Eol), Set(Chars)),
  <<1>>, 5, 0, 0, << <<"a">> >>,
  <<Chr("LITERAL", 1, {"a"}, <<2>>),
    Nd("EOL_ANCHOR", 2, <<3>>),
    Nd("ANY", 3, <<4>>),
    Nd("ACCEPTING", 4, <<>>)>>)

\* (a|b)c\1
LostCapture == Prog(Cat(Cat(Grp(0, Alt(Set({"a"}), Set({"b"}))), Set({"c"})), Ref(0)),
  <<1>>, 7, 0, 1, <<>>,
  <<Nd("CAPTUREGRP_BEGIN", 0, <<2, 3>>),
    Chr("LITERAL", 3, {"b"}, <<4>>),
    Chr("LITERAL", 2, {"a"}, <<4>>),
    Nd("CAPTUREGRP_END", 0, <<5>>),
    Chr("LITERAL", 5, {"c"}, <<6>>),
    Nd("BACKREFERENCE", 0, <<7>>),
    Nd("ACCEPTING", 6, <<>>)>>)

\* .b|a
StrayKeyword == Prog(Alt(Cat(Set(Chars), Set({"b"})), Set({"a"})),
  <<1, 2>>, 5, 0, 0, << <<"a">> >>,
  <<Chr("LITERAL", 3, {"a"}, <<3>>),
    Nd("ANY", 1, <<4>>),
    Nd("ACCEPTING", 4, <<>>),
    Chr("LITERAL", 2, {"b"}, <<3>>)>>)

\* (a*){2}b
EmptyLoop == Prog(Cat(Rep(Star(Set({"a"})), 2, 2), Set({"b"})),
  <<1, 2>>, 4, 1, 0, <<>>,
  <<Intv(0, <<1, 2, 3>>, 2, -1, 2, FALSE, FALSE),
    Chr("LITERAL", 1, {"a"}, <<2, 1>>),
    Chr("LITERAL", 2, {"b"}, <<4>>),
    Nd("ACCEPTING", 3, <<>>)>>)

\* ab under -i
IgnoresCase == Prog(Cat(Set({"a", "A"}), Set({"b", "B"})),
  <<1>>, 4, 0, 0, << <<"A", "B">> >>,
  <<Chr("LITERAL", 1, {"A"}, <<2>>),
    Chr("LITERAL", 2, {"B"}, <<3>>),
    Nd("ACCEPTING", 3, <<>>)>>)

-----------------------------------------------------------------------------
(* The front end compiles the texts to these programs.                      *)

\* Of the digits (of intervals and back references) and of the letters that -i
\* capitalizes the code matters.
Code == "0" :> 48 @@ "1" :> 49 @@ "2" :> 50 @@ "3" :> 51 @@ "A" :> 65 @@ "B" :> 66 @@ "Z" :> 90 @@
        "a" :> 97 @@ "b" :> 98 @@ "z" :> 122

C == INSTANCE Compile

CompiledFrom(init, re) ==
  LET parser == C!ParseRegex(init)
      p == C!Program(parser, C!CollectAdjacencies(parser))
  IN Prog(re, p.start, p.nids, p.nloops, p.ngroups, p.kws, p.nodes)

Compiled(text, re) == CompiledFrom(C!InitParser(text), re)

ASSUME CompiledFromText ==
  /\ AltRange = Compiled(<<"[", "a", "c", "]", "|", "[", "a", "b", "]", "b">>, AltRange.re)
  /\ Echo = Compiled(<<"(", "a", ".", ")", "\\", "1">>, Echo.re)
  /\ Counted = Compiled(<<"^", "(", "a", "|", "a", "a", ")", "{", "2", ",", "3", "}", "c">>,
       Counted.re)
  /\ OneKeyword = Compiled(<<"a", "b">>, OneKeyword.re)
  /\ CountedAlt = Compiled(<<"^", "(", "a", "|", "b", "|", "a", "b", ")", "{", "2", ",", "2", "}", "c">>,
       CountedAlt.re)
  /\ Nested = Compiled(<<"(", "[", "a", "b", "]", "{", "1", ",", "2", "}", "c", ")",
                          "{", "1", ",", "2", "}">>, Nested.re)
  /\ Looped = Compiled(<<"(", "a", "|", "b", "c", ")", "*", "b">>, Looped.re)
  /\ Optional = Compiled(<<"a", "{", "0", ",", "2", "}", "b", "?", "c">>, Optional.re)
  /\ Cycled = Compiled(<<"(", "b", "|", "[", "a", "c", "]", "{", "1", ",", "3", "}", ")", "+", "c">>,
       Cycled.re)
  /\ Anchored = Compiled(<<"^", "a", ".", "c", "$">>, Anchored.re)
  /\ EndsLine = Compiled(<<"[", "a", "c", "]", "$", "|", "[", "b", "c", "]">>, EndsLine.re)
  /\ AtLeast = Compiled(<<".", "{", "2", ",", "}", "b">>, AtLeast.re)
  /\ SharedStart = Compiled(<<"a", "a", "b", "[", "a", "b", "]", "|", "a", "a", "b", "c">>, SharedStart.re)
  /\ Overlapping = Compiled(<<"a", "b", "a", "b", "|", "b", "a", "c">>, Overlapping.re)
  /\ PastEnd = Compiled(<<"a", "$", ".">>, PastEnd.re)
  /\ LostCapture = Compiled(<<"(", "a", "|", "b", ")", "c", "\\", "1">>, LostCapture.re)
  /\ StrayKeyword = Compiled(<<".", "b", "|", "a">>, StrayKeyword.re)
  /\ EmptyLoop = Compiled(<<"(", "a", "*", ")", "{", "2", "}", "b">>, EmptyLoop.re)
  /\ "A" \in Chars => IgnoresCase = CompiledFrom(C!InitIgnoringCase(<<"a", "b">>), IgnoresCase.re)

-----------------------------------------------------------------------------
\* Command lines.
LineMode   == [line |-> TRUE, invert |-> FALSE, silent |-> FALSE, global |-> FALSE,
               icase |-> FALSE]
QuietMode  == [LineMode EXCEPT !.silent = TRUE]
InvertMode == [LineMode EXCEPT !.line = FALSE, !.invert = TRUE]
OnlyMode   == [LineMode EXCEPT !.line = FALSE]
GlobalMode == [OnlyMode EXCEPT !.global = TRUE]
FoldMode   == [LineMode EXCEPT !.icase = TRUE]

SoundPrograms == {AltRange, Echo, Counted, OneKeyword, CountedAlt, Nested, Looped, Optional,
                  Cycled, Anchored, EndsLine, AtLeast, SharedStart, Overlapping}
AllPrograms   == SoundPrograms \cup {PastEnd, LostCapture, StrayKeyword, EmptyLoop}

AllModes      == {LineMode, QuietMode, InvertMode, OnlyMode, GlobalMode, FoldMode}
WholeModes    == {InvertMode, GlobalMode}

\* Every line of up to three characters, and some longer ones.
LongLines  == {<<"a", "b", "a", "b">>, <<"a", "a", "a", "a">>, <<"c", "a", "b", "c">>,
               <<"b", "a", "c", "b">>, <<"a", "a", "a", "c">>, <<"a", "a", "a", "a", "c">>,
               <<"a", "b", "a", "c">>, <<"c", "a", "a", "b">>, <<"a", "a", "b", "a", "c">>,
               <<"a", "a", "b", "c", "b">>}
ShortLines == UNION {[1..k -> Chars] : k \in 0..3}
AnyLines   == ShortLines \cup LongLines

\* Lines whose order matters: shorter after longer, matching after matching.
PairLines  == {<<>>, <<"b">>, <<"a", "b">>, <<"b", "b">>, <<"a", "c", "b">>, <<"b", "b", "a", "c">>,
               <<"a", "b", "a", "b">>, <<"a", "b", "a", "c">>, <<"a", "a", "b">>, <<"a", "a", "b", "c", "b">>}

Identity  == [c \in Chars |-> c]

\* The letters of which the capitals are among Chars, for -i.
Capital   == [c \in Chars |-> CASE c = "a" -> "A" [] c = "b" -> "B" [] OTHER -> c]
CaseLines == UNION {[1..k -> {"a", "b", "A", "B"}] : k \in 0..3}

\* Values for the runs that look at one program.
LineModes      == {LineMode}
JustAltRange   == {AltRange}
JustIgnoring   == {IgnoresCase}
FoldModes      == {FoldMode}

-----------------------------------------------------------------------------
(* Comparison with the reference.                                           *)

Line == SubSeq(mem, 1, eol - 1)
Searched == pc = "idle" /\ nlines > 0

\* What holds of all lines of a sequence, and not just of the first one, holds
\* where run_nfa searches a line to its end (-v and -o -g): an early exit leaves
\* marks behind (MCStaleMark.cfg).
ToItsEnd == prog \in SoundPrograms /\ mode \in WholeModes

\* run_nfa's return value is right: it is 1 exactly for the lines that contain
\* a match of the expression, although threads are dropped by dedupe, refused
\* by the lookahead test and skipped by the prefilter.
SearchVerdict == Searched => (match_found <=> Matches(prog.re, Line))

\* The same for every line of a sequence: nothing an earlier line left in the
\* buffer, the marks, the pooled threads or the keyword records changes a verdict.
LaterVerdicts == ToItsEnd => SearchVerdict

\* With -o -g, new_match gets exactly the leftmost-longest nonempty matches, in
\* order: what grep -o prints (README:16-22).
AllMatchesReported ==
  ToItsEnd /\ Searched /\ mode.global => out = LongestMatches(prog.re, Line)

\* With -v a nonempty line is reported exactly when it has no match.
InvertReportsOthers ==
  ToItsEnd /\ Searched /\ mode.invert /\ Line # <<>> =>
    out = (IF Matches(prog.re, Line) THEN <<>> ELSE <<[start |-> 1, end |-> Len(Line)]>>)
=============================================================================
