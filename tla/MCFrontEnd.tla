---------------------------- MODULE MCFrontEnd ----------------------------
(***************************************************************************)
(* Instances of FrontEnd: families of expressions over the characters a    *)
(* and b, each built together with its meaning.                            *)
(***************************************************************************)
EXTENDS FrontEnd

Case(text, re) == [text |-> text, re |-> re, valid |-> TRUE]

Lit(c) == Case(<<c>>, S!Set({c}))
Dot == Case(<<".">>, S!Set(Chars))
Bol == Case(<<"^">>, S!Bol)
Eol == Case(<<"$">>, S!Eol)
Cat(x, y) == Case(x.text \o y.text, S!Cat(x.re, y.re))
Alt(x, y) == Case(x.text \o <<"|">> \o y.text, S!Alt(x.re, y.re))
Paren(x) == Case(<<"(">> \o x.text \o <<")">>, x.re)
Group(g, x) == Case(<<"(">> \o x.text \o <<")">>, S!Grp(g, x.re))
Ref(g, digit) == Case(<<"\\", digit>>, S!Ref(g))
Repeat(x, suffix, min, max) == Case(x.text \o suffix, S!Rep(x.re, min, max))

A == Lit("a")
B == Lit("b")
AB == Case(<<"[", "a", "b", "]">>, S!Set({"a", "b"}))
Star(x) == Repeat(x, <<"*">>, 0, -1)
Plus(x) == Repeat(x, <<"+">>, 1, -1)
Opt(x) == Repeat(x, <<"?">>, 0, 1)
OneOrTwo(x) == Repeat(x, <<"{", "1", ",", "2", "}">>, 1, 2)
UpToTwo(x) == Repeat(x, <<"{", "0", ",", "2", "}">>, 0, 2)
TwoOrMore(x) == Repeat(x, <<"{", "2", ",", "}">>, 2, -1)

Loops(x) == {Star(x), Plus(x), Opt(x), OneOrTwo(x), TwoOrMore(x)}
Repeated(x) == Loops(x) \cup {UpToTwo(x)}

-----------------------------------------------------------------------------
(* The families.                                                            *)

Atoms  == {A, B, AB, Dot}
Pieces == {A, AB, Bol, Eol} \cup Repeated(A) \cup Repeated(AB)

\* Every way two and three pieces combine.
Pairs   == {Cat(x, y) : x \in Pieces, y \in Pieces} \cup {Alt(x, y) : x \in Pieces, y \in Pieces}
Triples == {Alt(Alt(x, y), z) : x \in Atoms, y \in Atoms, z \in Repeated(A)}
             \cup {Cat(Cat(x, y), z) : x \in Atoms, y \in Repeated(A), z \in Atoms}

\* Groups: repeated, inside each other, and first, last and in the middle of a
\* sequence or a choice.
Bodies  == {Cat(A, B), Alt(A, B), Cat(A, Star(B)), Alt(Cat(A, B), B), Alt(A, Cat(B, Dot)),
            Cat(OneOrTwo(A), B)}
Groups1 == UNION {Repeated(Paren(x)) : x \in Bodies}
Groups2 == UNION {Loops(Paren(Cat(y, B))) \cup Loops(Paren(Cat(A, y))) :
                    y \in UNION {Loops(Paren(x)) : x \in Bodies}}
Placed  == UNION {{Cat(Cat(B, x), B), Alt(x, B), Alt(B, x), Alt(Cat(B, x), A), Paren(Alt(x, B)),
                   Cat(Paren(Alt(x, B)), A), Cat(Paren(Alt(B, x)), A)} : x \in Groups1}
Twice   == UNION {{Star(x), Plus(x), Opt(x), Star(Paren(x))} : x \in {Star(A), Plus(A), Opt(A)}}
             \cup {OneOrTwo(Paren(OneOrTwo(A))), TwoOrMore(Paren(Cat(OneOrTwo(A), B)))}

\* Choices inside choices.
Inner   == {Alt(x, y) : x \in {A, Paren(A), Paren(Alt(A, B)), Star(Paren(Alt(A, B)))},
                        y \in {B, Paren(B), Paren(Alt(A, Cat(A, B)))}}
Outer   == Inner \cup {Alt(B, x) : x \in Inner}
Framed  == UNION {{Cat(Paren(x), A), Cat(A, Paren(x))} : x \in Outer}
Nested  == Outer \cup Framed \cup {Alt(x, B) : x \in Framed}
             \cup {Alt(B, Cat(Paren(x), A)) : x \in Inner}

\* Back references.
Captures ==
  UNION {{Cat(Group(0, x), Ref(0, "1")), Cat(Cat(Group(0, x), B), Ref(0, "1")),
          Alt(Cat(Group(0, x), Ref(0, "1")), B), Cat(B, Cat(Group(0, x), Plus(Ref(0, "1")))),
          Plus(Paren(Cat(Group(0, x), Ref(0, "2"))))} : x \in Bodies}
  \cup {Cat(Cat(Group(0, x), Group(1, y)), Cat(Ref(1, "2"), Ref(0, "1"))) :
          x \in {A, Alt(A, B), Star(A)}, y \in {B, Dot}}

\* Bracket expressions: sets, ranges, complements, a leading ']', classes.
Brackets ==
  {Case(<<"[", "a", "-", "b", "]">>, S!Set({"a", "b"})),
   Case(<<"[", "^", "a", "]">>, S!Set({"b"})),
   Case(<<"[", "]", "a", "]">>, S!Set({"a"})),
   Case(<<"[", "^", "]", "a", "]">>, S!Set({"b"})),
   Case(<<"[", "b", "-", "B", "]">>, S!Set({"b"})),
   Case(<<"[", "A", "-", "B", "a", "]">>, S!Set({"a"})),
   Case(<<"[", "[", ":", "a", "l", "p", "h", "a", ":", "]", "]">>, S!Set({"a", "b"})),
   Case(<<"[", "^", "[", ":", "d", "i", "g", "i", "t", ":", "]", "b", "]">>, S!Set({"a"}))}

\* Other spellings: escapes, hyphens, blanks and missing bounds in intervals,
\* adjacent intervals, an empty branch.
Spellings ==
  {Case(<<"\\", "a">>, S!Set({"a"})), Case(<<"\\", "*">>, S!Set({})),
   Case(<<"a", "\\", "b", "*">>, Cat(A, Star(B)).re), Case(<<"a", "-", "b">>, S!Set({})),
   Case(<<"a", "|">>, S!Set({"a"})),
   Repeat(A, <<"{", ",", "2", "}">>, 0, 2), Repeat(A, <<"{", ",", "}">>, 0, -1),
   Repeat(A, <<"{", "0", ",", "1", "}">>, 0, 1), Repeat(A, <<"{", "1", ",", "1", "}">>, 1, 1),
   Repeat(A, <<"{", "1", ",", "}">>, 1, -1),
   Repeat(A, <<"{", " ", "2", " ", ",", " ", "3", " ", "}">>, 2, 3),
   Repeat(A, <<"{", "1", ",", "2", "}", "{", "2", ",", "2", "}">>, 2, 4)}

\* What parser_fatal has a message for.
Malformed == {[text |-> text, re |-> S!Empty, valid |-> FALSE] : text \in
  {<<"(", "a">>, <<"a", ")">>, <<"(", ")">>, <<"*", "a">>, <<"[", "a">>, <<"a", "]">>,
   <<"[", "b", "-", "a", "]">>, <<"[", "[", ":", "q", ":", "]", "]">>, <<"a", "{", "2">>,
   <<"a", "}">>, <<"a", "{", "2", ",", "1", "}">>, <<"\\", "1">>, <<"(", "a", "\\", "1", ")">>,
   <<"\\", "1", "(", "a", ")">>, <<"(", "a", ")", "|", "b", "\\", "1">>}}

AllCases == Pairs \cup Triples \cup Groups1 \cup Groups2 \cup Placed \cup Twice \cup Nested
              \cup Captures \cup Brackets \cup Spellings \cup Malformed

-----------------------------------------------------------------------------
(* Values for the constants.                                                *)

MCCode == "a" :> 97 @@ "b" :> 98 @@ "z" :> 122 @@ "A" :> 65 @@ "B" :> 66 @@ "Z" :> 90 @@
          "F" :> 70 @@ "G" :> 71 @@ "9" :> 57 @@
          "0" :> 48 @@ "1" :> 49 @@ "2" :> 50 @@ "3" :> 51
MCLines == UNION {[1..k -> Chars] : k \in 0..4}
=============================================================================
