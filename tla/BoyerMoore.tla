---------------------------- MODULE BoyerMoore ----------------------------
(***************************************************************************)
(* boyer_moore.c: the keyword search run_nfa uses as a prefilter when      *)
(* parsing found one keyword.  Bytes are numbers; char is signed, as on    *)
(* the platforms the program is built for.                                 *)
(***************************************************************************)
EXTENDS MatchRecord

CONSTANTS
  Patterns,     \* the keywords, sequences of bytes
  Texts,        \* the lines searched
  EOL,          \* the end-of-line symbol, as an unsigned byte
  MaxSearches   \* bound: searches in one behaviour

Byte == 0..255

\* compute_suffix keeps lengths in an array of char: a keyword of more than
\* 127 bytes does not fit.
ASSUME PatternAssumption ==
  \A p \in Patterns : p \in Seq(Byte) /\ Len(p) \in 1..127
ASSUME ByteAssumption ==
  Texts \subseteq Seq(Byte) /\ EOL \in Byte /\ MaxSearches \in Nat

VARIABLES
  pattern, good_suffix, bad_char,   \* set by bm_init_obj
  input,                            \* the line with its end-of-line symbol
  j,                                \* the alignment bm_search looks at
  pc, searches

tables == <<pattern, good_suffix, bad_char>>
vars == <<tables, input, j, pc, searches, recordVars>>

-----------------------------------------------------------------------------
\* The value of a char variable that holds byte c.
SignedChar(c) == IF c > 127 THEN c - 256 ELSE c

\* compute_suffix: suff[i] after the loop has come down to i, with its f and g.
Suffix(p) ==
  LET m == Len(p)
      \* the index at which the backward comparison that starts at g stops
      Stop(f, g) == CHOOSE s \in -1..g :
                      /\ s = -1 \/ p[s + 1] # p[s + m - f]
                      /\ \A k \in (s + 1)..g : p[k + 1] = p[k + m - f]
      at[i \in 0..(m - 1)] ==
        IF i = m - 1
        THEN [g |-> m - 1, f |-> m - 2, suff |-> [k \in 0..(m - 1) |-> m]]
        ELSE LET a == at[i + 1] IN
             IF i > a.g /\ a.suff[i + m - 1 - a.f] < i - a.g
             THEN [a EXCEPT !.suff[i] = a.suff[i + m - 1 - a.f]]
             ELSE LET s == Stop(i, IF i < a.g THEN i ELSE a.g)
                  IN [g |-> s, f |-> i, suff |-> [a.suff EXCEPT ![i] = i - s]]
  IN at[0].suff

Least(S)    == CHOOSE x \in S : \A y \in S : x <= y
Greatest(S) == CHOOSE x \in S : \A y \in S : x >= y

\* Mutant: the borders of the pattern are ignored.
GoodSuffixNoBorders(p) ==
  LET m == Len(p)
      suff == Suffix(p)
  IN [k \in 0..(m - 1) |->
        LET is == {i \in 0..(m - 2) : m - 1 - suff[i] = k}
        IN IF is # {} THEN m - 1 - Greatest(is) ELSE m]

\* Mutant: only the first entry is initialised to the length of the pattern.
GoodSuffixZeroed(p) ==
  LET m == Len(p)
      suff == Suffix(p)
  IN [k \in 0..(m - 1) |->
        LET is == {i \in 0..(m - 2) : m - 1 - suff[i] = k}
        IN IF is # {} THEN m - 1 - Greatest(is) ELSE IF k = 0 THEN m ELSE 0]

\* compute_good_suffix: the last assignment to every entry.  The second loop
\* gives entry k the shorter of the shifts to a border that pass k, the third
\* one overwrites it with the last reoccurrence of the suffix.
GoodSuffix(p) ==
  LET m == Len(p)
      suff == Suffix(p)
  IN [k \in 0..(m - 1) |->
        LET is      == {i \in 0..(m - 2) : m - 1 - suff[i] = k}
            borders == {m - 1 - i : i \in {b \in 0..(m - 1) : suff[b] = b + 1 /\ k < m - 1 - b}}
        IN IF is # {} THEN m - 1 - Greatest(is)
           ELSE IF borders # {} THEN Least(borders)
           ELSE m]

\* Mutant: the last character of the pattern is entered too.
BadCharWhole(p) ==
  [c \in {SignedChar(p[i]) : i \in 1..Len(p)} |->
     Len(p) - Greatest({i \in 1..Len(p) : SignedChar(p[i]) = c})]

\* compute_bad_char: the distance of a character's last occurrence, but for
\* the end of the pattern, to the end.  The tree's key is the char.
BadChar(p) ==
  [c \in {SignedChar(p[i]) : i \in 1..(Len(p) - 1)} |->
     Len(p) - Greatest({i \in 1..(Len(p) - 1) : SignedChar(p[i]) = c})]

\* bm_get_char_shift: the character is looked up as an unsigned char.
CharShift(c) == IF c \in DOMAIN bad_char THEN bad_char[c] ELSE Len(pattern)

-----------------------------------------------------------------------------
Init ==
  /\ pattern \in Patterns
  /\ good_suffix = GoodSuffix(pattern) /\ bad_char = BadChar(pattern)
  /\ input = <<>> /\ j = 0 /\ pc = "clear" /\ searches = 0
  /\ RecordInit

\* find_keyword_start_pos calls bm_search for the next line.
BeginSearch(t) ==
  /\ pc = "clear" /\ searches < MaxSearches
  /\ searches' = searches + 1
  /\ input' = Append(t, EOL) /\ j' = 0
  /\ pc' = "search"
  /\ UNCHANGED <<tables, recordVars>>

\* The pattern is compared from its end; -1 when all of it agrees.
Mismatch == Greatest({-1} \cup {i \in 0..(Len(pattern) - 1) : pattern[i + 1] # input[i + j + 1]})

InText == j <= Len(input) - Len(pattern)

\* An occurrence is recorded and the search goes on behind its border.
RecordOccurrence ==
  /\ pc = "search" /\ InText /\ Mismatch = -1
  /\ NewMatchRecord(j + 1)
  /\ j' = j + good_suffix[0]
  /\ UNCHANGED <<tables, input, pc, searches>>

\* A mismatch at i: the larger of the two shifts.
Shift ==
  /\ pc = "search" /\ InText /\ Mismatch >= 0
  /\ LET i == Mismatch
         b == CharShift(input[i + j + 1]) - Len(pattern) + i + 1
         g == good_suffix[i]
     IN j' = j + (IF b = Len(pattern) \/ b > g THEN b ELSE g)
  /\ UNCHANGED <<tables, input, pc, searches, recordVars>>

FinishSearch ==
  /\ pc = "search" /\ ~InText
  /\ pc' = "found"
  /\ UNCHANGED <<tables, input, j, searches, recordVars>>

\* kw_next_match, as find_keyword_start_pos and update_input_pointer call it:
\* the first time if there is a record, then until it returns NULL.
TakeNext ==
  /\ pc = "found" /\ match_count > 0
  /\ NextMatch
  /\ pc' = IF ret' = NULL THEN "spent" ELSE "found"
  /\ UNCHANGED <<tables, input, j, searches>>

\* The end of run_nfa, however many records were taken.
ClearMatches ==
  /\ pc \in {"found", "spent"}
  /\ Clear
  /\ pc' = "clear"
  /\ UNCHANGED <<tables, input, j, searches>>

Searching == RecordOccurrence \/ Shift \/ FinishSearch

Exit == pc = "clear" /\ searches = MaxSearches /\ UNCHANGED vars

Next == (\E t \in Texts : BeginSearch(t)) \/ Searching \/ TakeNext \/ ClearMatches \/ Exit

Spec == Init /\ [][Next]_vars /\ WF_vars(Searching)

-----------------------------------------------------------------------------
(* Properties.                                                              *)

\* Shifts go forward and stay in range, positions are positions of the line.
TypeOK ==
  /\ pattern \in Patterns /\ pc \in {"clear", "search", "found", "spent"}
  /\ good_suffix \in [0..(Len(pattern) - 1) -> 1..Len(pattern)]
  /\ \A c \in DOMAIN bad_char : bad_char[c] \in 1..(Len(pattern) - 1)
  /\ j \in 0..(Len(input) + Len(pattern))
  /\ head \in 0..allocated /\ pool \in 0..allocated /\ iter \in 0..allocated
  /\ allocated \in 0..MaxRecords /\ match_count \in 0..allocated

\* The records bm_next_match has not reached yet.
Untaken ==
  LET h == Ring(head) IN
  IF pc # "found" THEN {}
  ELSE IF iter = NULL THEN {beg[h[i]] : i \in 1..Len(h)}
  ELSE {beg[h[i]] : i \in {k \in 1..Len(h) : \E l \in 1..(k - 1) : h[l] = iter}}

\* The search implements what run_nfa expects of it: no shift jumps over an
\* occurrence of the keyword, overlapping ones included, and the records come
\* back in the order of the text, each once, also when they are recycled from
\* earlier lines.
Abstract == INSTANCE Prefilter WITH phase <- pc, text <- input, left <- Untaken, given <- ret
FindsAllKeywords == Abstract!Spec

\* bm_search ends: every shift is positive.
SearchEnds == pc = "search" ~> pc = "found"
=============================================================================
