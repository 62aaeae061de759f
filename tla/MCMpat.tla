------------------------------- MODULE MCMpat -------------------------------
(* Instances of Mpat.  97, 98 and 99 are the letters a, b and c, 65 is A.   *)
EXTENDS Mpat

Words(S, lengths) == UNION {[1..n -> S] : n \in lengths}

a == 97
b == 98
c == 99

\* Two keywords in a window, overlapping ones, one inside another, one at the
\* end of another, colliding suffixes (aa and Ab), one too short.
FewKeywords ==
  { << <<a, b, c>>, <<a, b, c, a, b>> >>, << <<a, a, a>>, <<a, a, a, a>> >>,
    << <<a, b, a, b>>, <<b, a, b>> >>, << <<b, a, a>>, <<b, 65, b>>, <<c, a, b>> >>,
    << <<a, b, c, b>>, <<b, b, c, c, a>>, <<c, c, a, b>> >>,
    << <<a, b, a, b, b, a>>, <<b, b, b, a>> >>, << <<a, b>>, <<a, b, c>> >> }
  \cup { <<p, q>> : p \in {<<a>> \o w : w \in Words({a, b}, {2})}, q \in Words({a, b}, {4}) }

FewTexts ==
  Words({a, b}, {0, 2, 3, 5, 6}) \cup Words({a, b, c}, {4}) \cup {<<x, b, y, b, a, b, c>> : x \in {a, c}, y \in {a, 65}}
    \cup {<<b, 65, b>>, <<b, a, a, b, 65, b>>}

LineEnd == -2

\* Three keywords with the same first three bytes.
ManyKeywords == { << <<a, b, c, c, a>>, <<a, b, c, b, a, c>>, <<a, b, c>> >> }
ManyTexts == Words({a, b, c}, {3, 4})
=============================================================================
