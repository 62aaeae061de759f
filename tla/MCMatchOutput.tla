--------------------------- MODULE MCMatchOutput ---------------------------
(* An instance of MatchOutput: a buffer of five bytes, lines shorter and  *)
(* longer than it, line numbers of one and two digits.                     *)
EXTENDS MatchOutput

OneName == {<<"f">>}

Letters == <<"a", "b", "c", "d", "e", "p", "q", "r", "s", "t", "u", "v", "w", "x">>
FewLines == {SubSeq(Letters, 1, n) : n \in {0, 1, 3, 9}} \cup {<<"y", NUL, "z">>}
=============================================================================
