---------------------------- MODULE MCBoyerMoore ----------------------------
(* Instances of BoyerMoore.  97, 98 and 99 are the letters a, b and c.      *)
EXTENDS BoyerMoore

Words(S, lengths) == UNION {[1..n -> S] : n \in lengths}

AsciiPatterns == Words({97, 98}, 1..4) \cup {<<97, 98, 97, 97, 98>>, <<97, 97, 98, 97, 97>>}
AsciiTexts    == Words({97, 98}, {0, 2, 5}) \cup {<<99, 97>> \o w : w \in Words({97, 98}, {3})}

=============================================================================
