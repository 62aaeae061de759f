--------------------------- MODULE KeywordFinder ---------------------------
(***************************************************************************)
(* What run_nfa expects of a search for several keywords: places at which  *)
(* a match may begin come back in ascending order, among them every        *)
(* occurrence of every keyword, so that the lines and the parts of lines   *)
(* that are skipped hold none.  A place too many only costs time, and a    *)
(* place may come twice when two keywords begin there.                     *)
(***************************************************************************)
EXTENDS Integers, Sequences

CONSTANTS KeywordLists, Texts, EOL

VARIABLES
  keywords,  \* a sequence of keywords
  phase,     \* "off", "clear", "search", "found", "spent"
  text,      \* the line searched last
  left,      \* the places not yet handed out, in order
  given      \* what kw_next_match returned last: an address or 0

vars == <<keywords, phase, text, left, given>>

OccursAt(p, t, a) ==
  a + Len(p) - 1 <= Len(t) /\ \A k \in 1..Len(p) : t[a + k - 1] = p[k]

\* The addresses at which a keyword occurs; the first byte has address 1.
Occurrences(t) == {a \in 1..Len(t) : \E i \in 1..Len(keywords) : OccursAt(keywords[i], t, a)}

Members(s) == {s[i] : i \in 1..Len(s)}
Ascending(s) == \A i \in 1..(Len(s) - 1) : s[i] <= s[i + 1]

Init ==
  /\ keywords \in KeywordLists /\ phase \in {"off", "clear"}
  /\ text = <<>> /\ left = <<>> /\ given = 0

Begin(t) ==
  /\ phase = "clear"
  /\ phase' = "search" /\ text' = Append(t, EOL) /\ left' = <<>> /\ given' = 0
  /\ UNCHANGED keywords

Finish ==
  /\ phase = "search"
  /\ phase' = "found"
  /\ Ascending(left') /\ Occurrences(text) \subseteq Members(left') /\ Members(left') \subseteq 1..Len(text)
  /\ UNCHANGED <<keywords, text, given>>

TakeNext ==
  /\ phase = "found"
  /\ \/ /\ left # <<>>
        /\ given' = Head(left) /\ left' = Tail(left)
        /\ UNCHANGED phase
     \/ /\ left = <<>>
        /\ given' = 0 /\ phase' = "spent"
        /\ UNCHANGED left
  /\ UNCHANGED <<keywords, text>>

ClearMatches ==
  /\ phase \in {"found", "spent"}
  /\ phase' = "clear" /\ left' = <<>> /\ given' = 0 /\ text' = <<>>
  /\ UNCHANGED keywords

Next == (\E t \in Texts : Begin(t)) \/ Finish \/ TakeNext \/ ClearMatches

Spec == Init /\ [][Next]_vars
=============================================================================
