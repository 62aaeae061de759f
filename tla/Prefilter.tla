----------------------------- MODULE Prefilter -----------------------------
(***************************************************************************)
(* What run_nfa expects of the keyword search behind its function pointers *)
(* kw_search, kw_match_count, kw_next_match and kw_clear_matches: after a  *)
(* search the addresses of all occurrences of the keyword are handed out   *)
(* one by one in ascending order, then NULL; clearing forgets them.        *)
(***************************************************************************)
EXTENDS Integers, Sequences

CONSTANTS Patterns, Texts, EOL

VARIABLES
  pattern,   \* the keyword
  phase,     \* "clear", "search", "found", "spent"
  text,      \* the line searched last
  left,      \* occurrences not yet handed out
  given      \* what kw_next_match returned last: an address or 0

vars == <<pattern, phase, text, left, given>>

\* The addresses at which p occurs in t; the first byte has address 1.
Occurrences(p, t) ==
  {a \in 1..Len(t) : \A k \in 1..Len(p) : a + k - 1 <= Len(t) /\ t[a + k - 1] = p[k]}

Init ==
  /\ pattern \in Patterns /\ phase = "clear" /\ text = <<>> /\ left = {} /\ given = 0

\* The searched text includes the end-of-line symbol.
Begin(t) ==
  /\ phase = "clear"
  /\ phase' = "search" /\ text' = Append(t, EOL)
  /\ UNCHANGED <<pattern, left, given>>

Finish ==
  /\ phase = "search"
  /\ phase' = "found" /\ left' = Occurrences(pattern, text) /\ given' = 0
  /\ UNCHANGED <<pattern, text>>

\* The recognizer asks for the first record only if there is one, and for no
\* more after it was given NULL.
TakeNext ==
  /\ phase = "found" /\ Occurrences(pattern, text) # {}
  /\ \/ /\ left # {}
        /\ given' \in left /\ \A a \in left : given' <= a
        /\ left' = left \ {given'}
        /\ UNCHANGED phase
     \/ /\ left = {}
        /\ given' = 0 /\ phase' = "spent"
        /\ UNCHANGED left
  /\ UNCHANGED <<pattern, text>>

ClearMatches ==
  /\ phase \in {"found", "spent"}
  /\ phase' = "clear" /\ left' = {} /\ given' = 0
  /\ UNCHANGED <<pattern, text>>

Next == (\E t \in Texts : Begin(t)) \/ Finish \/ TakeNext \/ ClearMatches

Spec == Init /\ [][Next]_vars
=============================================================================
