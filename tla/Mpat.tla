-------------------------------- MODULE Mpat --------------------------------
(***************************************************************************)
(* mpat.c: the keyword search run_nfa uses as a prefilter when parsing     *)
(* found several keywords.  A window of the length m of the shortest       *)
(* keyword moves over the line by the shift of its last B = 2 bytes; where *)
(* the shift is zero the keywords with that suffix and the prefix of the   *)
(* window are compared.  The matches go into a red-black tree by address;  *)
(* RbTree shows that it keeps its keys in order, and here it is a          *)
(* sequence.  Bytes are numbers.                                           *)
(***************************************************************************)
EXTENDS Integers, Sequences

CONSTANTS
  KeywordLists,  \* the lists of keywords, sequences of sequences of bytes
  Texts,         \* the lines searched
  EOL            \* the end-of-line symbol, -1 or -2

ASSUME KeywordAssumption ==
  /\ \A ks \in KeywordLists : ks \in Seq(Seq(0..127)) /\ ks # <<>>
  /\ Texts \subseteq Seq(0..127) /\ EOL \in {-1, -2}

VARIABLES
  keywords,
  shift, hash,   \* the tables mpat_init fills
  input,         \* the line with its end-of-line symbol
  ptr,           \* the end of the window
  todo,          \* the entries of the hash table still to be compared
  failed,        \* whether one of this window's entries failed (prev_pat_ptr is set)
  matches,       \* match_list: the addresses of the matches
  cur_mr,        \* the match mpat_next_match returned last, by its place in matches
  ret,           \* what it returned
  pc

tables == <<keywords, shift, hash>>
vars == <<tables, input, ptr, todo, failed, matches, cur_mr, ret, pc>>

-----------------------------------------------------------------------------
B == 2

\* preprocess_patterns: the length of the shortest keyword.
MinLength(ks) ==
  CHOOSE n \in {Len(ks[i]) : i \in 1..Len(ks)} : \A i \in 1..Len(ks) : n <= Len(ks[i])

m == MinLength(keywords)
default_shift == m - B + 1

\* COMPUTE_SUFFIX_HASH and COMPUTE_PREFIX_HASH of the bytes that end or begin at i.
SuffixHash(s, i) == s[i] * 32 + s[i - 1]
PrefixHash(s, i) == s[i] * 256 + s[i + 1]

\* Mutant: of several distances the greatest is kept.
ShiftTable_Greatest(ks) ==
  LET n == MinLength(ks)
      shifts(h) == {n - i : i \in {e \in 2..n : \E k \in 1..Len(ks) : SuffixHash(ks[k], e) = h}}
  IN [h \in {SuffixHash(ks[k], i) : k \in 1..Len(ks), i \in 2..n} |->
        CHOOSE d \in shifts(h) : \A e \in shifts(h) : d >= e]

\* hash_substrings and insert_shift_record: for the hash of every pair of
\* bytes in the first m bytes of a keyword its least distance from their end.
ShiftTable(ks) ==
  LET n == MinLength(ks)
      shifts(h) == {n - i : i \in {e \in 2..n : \E k \in 1..Len(ks) : SuffixHash(ks[k], e) = h}}
  IN [h \in {SuffixHash(ks[k], i) : k \in 1..Len(ks), i \in 2..n} |->
        CHOOSE d \in shifts(h) : \A e \in shifts(h) : d <= e]

\* insert_hash_record: under the hash of its last pair within m, each keyword
\* with the hash of its first one, in the order of the list.
HashTable(ks) ==
  LET n == MinLength(ks) IN
  [h \in {SuffixHash(ks[k], n) : k \in 1..Len(ks)} |->
     LET entry(k) == [key |-> PrefixHash(ks[k], 1), pattern |-> ks[k]]
         Hit(k) == SuffixHash(ks[k], n) = h
         upto[k \in 0..Len(ks)] ==
           IF k = 0 THEN <<>> ELSE IF Hit(k) THEN Append(upto[k - 1], entry(k)) ELSE upto[k - 1]
     IN upto[Len(ks)]]

\* new_mpat and mpat_init.  With a keyword of less than three bytes there is
\* no keyword search.
Init ==
  /\ keywords \in KeywordLists
  /\ IF m < 3 THEN shift = <<>> /\ hash = <<>> /\ pc = "off"
     ELSE shift = ShiftTable(keywords) /\ hash = HashTable(keywords) /\ pc = "clear"
  /\ input = <<>> /\ ptr = 0 /\ todo = <<>> /\ failed = FALSE
  /\ matches = <<>> /\ cur_mr = 0 /\ ret = 0

\* get_shift: below min_key, above max_key and between the keys the default.
get_shift(k) == IF k \in DOMAIN shift THEN shift[k] ELSE default_shift

-----------------------------------------------------------------------------
\* find_keyword_start_pos calls mpat_search for the next line.
BeginSearch(t) ==
  /\ pc = "clear"
  /\ input' = Append(t, EOL) /\ ptr' = m
  /\ pc' = "search"
  /\ UNCHANGED <<tables, todo, failed, matches, cur_mr, ret>>

\* A line shorter than m is not searched; the last window ends at the
\* end-of-line symbol.
InText == Len(input) - 1 >= m /\ ptr <= Len(input)

Slide ==
  /\ pc = "search" /\ InText
  /\ get_shift(SuffixHash(input, ptr)) # 0
  /\ ptr' = ptr + get_shift(SuffixHash(input, ptr))
  /\ UNCHANGED <<tables, input, todo, failed, matches, cur_mr, ret, pc>>

\* get_hash_patterns.
Stop ==
  /\ pc = "search" /\ InText
  /\ get_shift(SuffixHash(input, ptr)) = 0
  /\ todo' = hash[SuffixHash(input, ptr)] /\ failed' = FALSE
  /\ pc' = "compare"
  /\ UNCHANGED <<tables, input, ptr, matches, cur_mr, ret>>

Begin == ptr - m + 1      \* subtxt_begin

\* The first byte of p, from its second one on, that the text does not have;
\* Len(p) + 1 if it has them all.  The loop stops there.
Mismatch(p) ==
  CHOOSE i \in 2..(Len(p) + 1) :
    /\ \A k \in 2..(i - 1) : p[k] = input[Begin + k - 1]
    /\ i <= Len(p) => p[i] # input[Begin + i - 1]

\* Mutant: the keyword has to reach to the end of the window only.
Reached_Window(p) == Mismatch(p) > m

\* The loop left its pointer at the end of the keyword: it all agrees, or all
\* but its last byte.
Reached(p) == Mismatch(p) >= Len(p)

\* record_match, by rbtree_insert: before those with an equal key.
Recorded(a) ==
  LET n == CHOOSE i \in 0..Len(matches) :
             /\ \A k \in 1..i : matches[k] < a
             /\ i < Len(matches) => matches[i + 1] >= a
  IN SubSeq(matches, 1, n) \o <<a>> \o SubSeq(matches, n + 1, Len(matches))

Candidate == pc = "compare" /\ todo # <<>>
SamePrefix == Head(todo).key = PrefixHash(input, Begin)

OtherPrefix ==
  /\ Candidate /\ ~SamePrefix
  /\ todo' = Tail(todo)
  /\ UNCHANGED <<tables, input, ptr, failed, matches, cur_mr, ret, pc>>

Match ==
  /\ Candidate /\ SamePrefix /\ Reached(Head(todo).pattern)
  /\ matches' = Recorded(Begin)
  /\ todo' = Tail(todo)
  /\ UNCHANGED <<tables, input, ptr, failed, cur_mr, ret, pc>>

\* A keyword that fails ends the comparisons of this window if its end lies
\* below that of one that failed before.  The two are in different blocks of
\* memory, so either may be.
Fail ==
  /\ Candidate /\ SamePrefix /\ ~Reached(Head(todo).pattern)
  /\ \/ todo' = Tail(todo)
     \/ failed /\ todo' = <<>>
  /\ failed' = TRUE
  /\ UNCHANGED <<tables, input, ptr, matches, cur_mr, ret, pc>>

\* Mutant: a window where keywords were compared is left by the default shift.
AfterCompare_Far == ptr + default_shift

\* Mutant: it is left by its own shift, zero.
AfterCompare_Stays == ptr

AfterCompare == ptr + 1

Resume ==
  /\ pc = "compare" /\ todo = <<>>
  /\ ptr' = AfterCompare
  /\ pc' = "search"
  /\ UNCHANGED <<tables, input, todo, failed, matches, cur_mr, ret>>

EndSearch ==
  /\ pc = "search" /\ ~InText
  /\ pc' = "found"
  /\ ptr' = 0 /\ failed' = FALSE     \* locals of mpat_search
  /\ UNCHANGED <<tables, input, todo, matches, cur_mr, ret>>

-----------------------------------------------------------------------------
\* mpat_match_count is positive, then mpat_next_match until it returns NULL:
\* rbtree_min first, then rbtree_successor.
TakeNext ==
  /\ pc = "found" /\ matches # <<>>
  /\ cur_mr' = IF cur_mr < Len(matches) THEN cur_mr + 1 ELSE 0
  /\ ret' = IF cur_mr' = 0 THEN 0 ELSE matches[cur_mr']
  /\ pc' = IF cur_mr' = 0 THEN "spent" ELSE "found"
  /\ UNCHANGED <<tables, input, ptr, todo, failed, matches>>

\* mpat_clear_matches, at the end of run_nfa; the line is done with.
ClearMatches ==
  /\ pc \in {"found", "spent"}
  /\ IF matches = <<>> THEN UNCHANGED <<matches, cur_mr>>
     ELSE matches' = <<>> /\ cur_mr' = 0
  /\ ret' = 0 /\ input' = <<>>
  /\ pc' = "clear"
  /\ UNCHANGED <<tables, ptr, todo, failed>>

Searching == Slide \/ Stop \/ OtherPrefix \/ Match \/ Fail \/ Resume \/ EndSearch

\* Without a keyword search the engine looks at every position itself.
Unused == pc = "off" /\ UNCHANGED vars

Next == (\E t \in Texts : BeginSearch(t)) \/ Searching \/ TakeNext \/ ClearMatches \/ Unused

\* The search is one call and runs on until it returns.
Spec == Init /\ [][Next]_vars /\ WF_vars(Searching)

-----------------------------------------------------------------------------
(* Properties.                                                              *)

\* The window moves forward by 1 to m - 1 bytes and no comparison reads behind
\* the end-of-line symbol.
TypeOK ==
  /\ pc \in {"off", "clear", "search", "compare", "found", "spent"}
  /\ \A h \in DOMAIN shift : shift[h] \in 0..(m - 2) /\ (shift[h] = 0 <=> h \in DOMAIN hash)
  /\ pc = "search" => ptr \in 1..(Len(input) + m)
  /\ pc = "compare" => Begin >= 1 /\ ptr <= Len(input)
  /\ Candidate /\ SamePrefix => Begin + Mismatch(Head(todo).pattern) - 2 < Len(input)
  /\ cur_mr \in 0..Len(matches) /\ failed \in BOOLEAN

\* The matches mpat_next_match has not reached.
Untaken == IF pc # "found" THEN <<>> ELSE SubSeq(matches, cur_mr + 1, Len(matches))
Phase == IF pc = "compare" THEN "search" ELSE pc

\* mpat_search implements what run_nfa relies on when it skips the parts of a
\* line without a reported match: no occurrence of any keyword is jumped over
\* by a shift, hidden by a hash collision or lost among the candidates of a
\* window, the places come in ascending order, and a search knows nothing of the
\* one before.
Abstract == INSTANCE KeywordFinder WITH phase <- Phase, text <- input, left <- Untaken, given <- ret
FindsAllKeywords == Abstract!Spec

\* A place that is reported without an occurrence begins with all but the last
\* byte of a keyword.
NearlyKeywords ==
  \A i \in 1..Len(matches) : \E k \in 1..Len(keywords) :
    Abstract!OccursAt(SubSeq(keywords[k], 1, Len(keywords[k]) - 1), input, matches[i])

\* Every step of the window is positive and every list of candidates ends.
SearchEnds == pc \in {"search", "compare"} ~> pc = "found"
=============================================================================
