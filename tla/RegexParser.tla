---------------------------- MODULE RegexParser ----------------------------
(***************************************************************************)
(* src/regex_parser.c with the token scanner of src/scanner.c: a recursive *)
(* descent over the text of an expression that builds its graph (Nfa).     *)
(*                                                                         *)
(* The fields of Parser and of its Scanner are a record p that the         *)
(* functions take and return.  symbol_stack and branch_stack are sequences *)
(* with the top first; a NULL on the symbol stack marks where a group or a *)
(* branch begins.  A record with err # "none" is a program that has        *)
(* stopped: "fatal" by parser_fatal, "crash" at a NULL pointer.            *)
(***************************************************************************)
EXTENDS Nfa, TLC

CONSTANTS
  Chars,    \* the characters of input lines
  Code,     \* the byte of every character an expression may contain
  EOL, NUL  \* the end of line symbol and the terminator

CGRP_MAX == 9

Digits == {"0", "1", "2", "3", "4", "5", "6", "7", "8", "9"}

Meta == "$" :> "DOLLAR" @@ "^" :> "CIRCUMFLEX" @@ "." :> "DOT" @@ "*" :> "KLEENE" @@
        "+" :> "PLUS" @@ ":" :> "COLON" @@ "|" :> "PIPE" @@ "?" :> "QMARK" @@
        "(" :> "OPENPAREN" @@ ")" :> "CLOSEPAREN" @@ "-" :> "HYPHEN" @@
        "[" :> "OPENBRACKET" @@ "]" :> "CLOSEBRACKET" @@ "{" :> "OPENBRACE" @@
        "}" :> "CLOSEBRACE"

Token(type, value) == [type |-> type, value |-> value]

CharToken(c) ==
  Token(IF c \in Digits THEN "ASCIIDIGIT" ELSE IF c \in DOMAIN Meta THEN Meta[c] ELSE "ALPHA", c)

DigitValue(c) == Code[c] - Code["0"]

-----------------------------------------------------------------------------
(* The scanner.                                                             *)

\* regex_scan: one token.  A backslash is special while escp is set.
Scan(p) ==
  LET c == p.text[p.readhead]
      d == p.text[p.readhead + 1]
  IN CASE c = NUL -> p
       [] c = EOL -> [p EXCEPT !.lookahead = Token("EOF", ""), !.readhead = @ + 1]
       [] c = "\\" /\ p.escp ->
            IF d = EOL
            THEN [p EXCEPT !.lookahead = Token("EOF", ""), !.readhead = @ + 1]
            ELSE [p EXCEPT !.lookahead = IF d \in Digits
                                         THEN Token("BACKREFERENCE", DigitValue(d))
                                         ELSE Token("ALPHA", d),
                           !.readhead = @ + 2]
       [] OTHER -> [p EXCEPT !.lookahead = CharToken(c), !.readhead = @ + 1]

\* parser_backtrack: unput twice, then scan.
Backtrack(p) == Scan([p EXCEPT !.readhead = IF @ > 2 THEN @ - 2 ELSE 1])

Looking(p) == p.lookahead.type

-----------------------------------------------------------------------------
(* The stacks.                                                              *)

Fatal(p) == [p EXCEPT !.err = "fatal"]
Crash(p) == [p EXCEPT !.err = "crash"]

Push(p, n) == [p EXCEPT !.symbol_stack = <<n>> \o @]
Top(p) == IF p.symbol_stack = <<>> THEN NULL ELSE Head(p.symbol_stack)
Pop(p) == [p EXCEPT !.symbol_stack = IF @ = <<>> THEN @ ELSE Tail(@)]
PushBranch(p, n) == [p EXCEPT !.branch_stack = <<n>> \o @]

\* The result of a constructor becomes the parser's heap and is pushed.
Build(p, h) == Push([p EXCEPT !.h = h], h.ret)

\* Pop right, pop left, push their concatenation.
Join(p) == Build(Pop(Pop(p)), Concatenate(p.h, Top(Pop(p)), Top(p)))

RECURSIVE JoinToMark(_)
JoinToMark(p) == IF Top(Pop(p)) = NULL THEN p ELSE JoinToMark(Join(p))

RECURSIVE JoinToSize(_, _)
JoinToSize(p, sz) == IF Len(p.symbol_stack) <= sz THEN p ELSE JoinToSize(Join(p), sz)

-----------------------------------------------------------------------------
(* Capture groups and back references.                                      *)

\* cgrp_has_backref for the group the parser believes it is in.
HasBackref(p) == p.current_cgrp \in p.cgrp_map

\* track_capture_group: a marker node for a group that some \<n> names.
MarkGroup(p, lit, type) ==
  LET marker == First(lit, lit.ret)
      numbered == [lit EXCEPT !.node[marker].id = Last(p.paren_stack) - 1]
      tracked == Build(Pop(p), Concatenate(numbered, Top(p), lit.ret))
  IN IF type = "CAPTUREGRP_BEGIN"
     THEN [tracked EXCEPT !.next_id[p.current_cgrp] = lit.node[marker].id]
     ELSE [tracked EXCEPT !.ended = @ \cup {p.current_cgrp}]

TrackCaptureGroup(p, type) ==
  [IF HasBackref(p) THEN MarkGroup(p, NewLiteral(p.h, "", type), type) ELSE p
   EXCEPT !.current_cgrp = IF type = "CAPTUREGRP_END" THEN @ - 1 ELSE @]

\* Mutant: the branch the group is on does not matter.
ValidBackrefAnywhere(p) == p.lookahead.value # 0 /\ p.lookahead.value \in p.ended

\* validate_backref: the group has ended and is not on another branch of the
\* alternation being parsed.
ValidBackref(p) ==
  LET val == p.lookahead.value IN
  /\ val # 0 /\ val \in p.ended
  /\ p.in_alternation > 0 /\ p.h.node[First(p.h, Last(p.branch_stack))].id <= p.next_id[val] =>
       p.next_id[val] >= p.lowest_id_on_branch

-----------------------------------------------------------------------------
(* Bracket expressions.                                                     *)

\* update_range_nfa.
UpdateRange(p, n, set, negate) ==
  [p EXCEPT !.h.node[n].range = IF negate THEN @ \ set ELSE @ \cup (set \cap Chars)]

Between(lo, hi) == {c \in Chars : Code[lo] <= Code[c] /\ Code[c] <= Code[hi]}
IsLower(c) == Code[c] \in Code["a"]..Code["z"]
IsUpper(c) == Code[c] \in Code["A"]..Code["Z"]

\* The set of lo-hi, or {NUL} where parse_matching_list rejects the range.
RangeSet(lo, hi) ==
  CASE IsLower(lo) /\ IsLower(hi) /\ Code[lo] <= Code[hi] -> Between(lo, hi)
    [] IsLower(lo) /\ IsUpper(hi) -> Between(lo, "z") \cup Between("A", hi)
    [] ~IsLower(lo) /\ Code[lo] <= Code[hi] /\ (IsUpper(lo) => IsUpper(hi)) -> Between(lo, hi)
    [] OTHER -> {NUL}

\* The table of collations.c: the name of a class and its ranges of bytes.
collations ==
  <<[name |-> <<"a", "l", "n", "u", "m">>, bytes |-> 65..90 \cup 97..122 \cup 48..57],
    [name |-> <<"a", "l", "p", "h", "a">>, bytes |-> 65..90 \cup 97..122],
    [name |-> <<"b", "l", "a", "n", "k">>, bytes |-> 32..32 \cup 11..11],
    [name |-> <<"c", "n", "t", "r", "l">>, bytes |-> 0..31 \cup 127..127],
    [name |-> <<"d", "i", "g", "i", "t">>, bytes |-> 48..57],
    [name |-> <<"g", "r", "a", "p", "h">>, bytes |-> 33..126],
    [name |-> <<"l", "o", "w", "e", "r">>, bytes |-> 97..122],
    [name |-> <<"p", "r", "i", "n", "t">>, bytes |-> 32..126],
    [name |-> <<"p", "u", "n", "c", "t">>, bytes |-> 33..47 \cup 58..64 \cup 91..96 \cup 123..126],
    [name |-> <<"s", "p", "a", "c", "e">>, bytes |-> 9..13 \cup 2..32],
    [name |-> <<"u", "p", "p", "e", "r">>, bytes |-> 65..90],
    [name |-> <<"x", "d", "i", "g", "i", "t">>, bytes |-> 65..78 \cup 97..102]>>

\* update_range_w_collation compares only as many characters as the name in
\* the expression has.
CollationsNamed(name) ==
  {i \in 1..Len(collations) : IsPrefix(name, collations[i].name)}

CollationSet(i) == {c \in Chars : Code[c] \in collations[i].bytes}

\* The tokens up to the delimiter and ']' that end a [:class:].
RECURSIVE ScanClass(_, _, _)
ScanClass(p, prev, delim) ==
  IF Looking(p) = "EOF" \/ (Looking(p) = "CLOSEBRACKET" /\ prev = delim) THEN p
  ELSE ScanClass(Scan(p), Looking(p), delim)

RECURSIVE ParseMatchingList(_, _, _, _)

\* The end of [:name:]; [.x.] is scanned and ignored.
EndClass(p, delim, name, n, negate, len) ==
  LET named == CollationsNamed(name) IN
  IF Looking(p) # "CLOSEBRACKET" THEN Fatal(p)
  ELSE IF name = <<>> THEN p
  ELSE IF delim = "COLON" /\ named = {} THEN Fatal(p)
  ELSE ParseMatchingList(
         Scan(IF delim = "COLON"
              THEN UpdateRange(p, n, CollationSet(Min(named)), negate) ELSE p),
         n, negate, len + 1)

NamedClass(p, delim, from, n, negate, len) ==
  EndClass(p, delim, SubSeq(p.text, from, p.readhead - 3), n, negate, len)

\* The token p behind the delimiter, which was read up to from.  A ']' there
\* leaves a stray node on the symbol stack.
ParseClass(p, delim, from, n, negate, len) ==
  IF Looking(p) = "CLOSEBRACKET"
  THEN NamedClass(ScanClass(Scan(Build(p, NewLiteral(p.h, "]", "LITERAL"))), "CLOSEBRACKET", delim),
                  delim, p.readhead, n, negate, len)
  ELSE NamedClass(ScanClass(p, delim, delim), delim, from, n, negate, len)

\* prev-hi.
ParseRange(prev, hi, n, negate, len) ==
  LET set == RangeSet(prev.value, hi.lookahead.value) IN
  IF set = {NUL} THEN Fatal(hi)
  ELSE ParseMatchingList(Scan(UpdateRange(hi, n, set, negate)), n, negate, len + 1)

\* One item, whose first token was prev.
ParseItem(prev, p, n, negate, len) ==
  CASE prev.type = "EOF" -> p
    [] prev.type = "OPENBRACKET" /\ Looking(p) \in {"DOT", "COLON"} ->
         ParseClass(Scan(p), Looking(p), p.readhead, n, negate, len)
    [] prev.type = "CLOSEBRACKET" /\ len > 0 -> Backtrack(p)
    [] Looking(p) = "EOF" -> p
    [] Looking(p) = "HYPHEN" -> ParseRange(prev, Scan(p), n, negate, len)
    [] OTHER -> ParseMatchingList(UpdateRange(p, n, {prev.value}, negate), n, negate, len + 1)

\* parse_matching_list; len is matching_list_len.
ParseMatchingList(p, n, negate, len) ==
  IF p.err # "none" THEN p ELSE ParseItem(p.lookahead, Scan(p), n, negate, len)

-----------------------------------------------------------------------------
(* Expressions.                                                             *)

Running(p) == p.err = "none"

RECURSIVE ParseQuant(_), ParseSub(_)

\* The join at the end of a sequence, if the functions before it returned.
JoinAfter(p) == IF Running(p) THEN Join(p) ELSE p

CloseBracket(p) ==
  IF ~Running(p) THEN p
  ELSE IF Looking(p) # "CLOSEBRACKET" \/ Top(Pop(p)) # NULL THEN Fatal(p)
  ELSE ParseQuant(Push(Pop(Pop(Scan([p EXCEPT !.escp = TRUE]))), Top(p)))

MatchingList(p, negate) == ParseMatchingList(p, First(p.h, Top(p)), negate, 0)

NewList(p, negate) == Build(p, NewRange(p.h, IF negate THEN Chars ELSE {}))

OpenBracket(p) ==
  LET negate == Looking(p) = "CIRCUMFLEX"
  IN MatchingList(NewList(IF negate THEN Scan(p) ELSE p, negate), negate)

\* parse_bracket_expression.
ParseBracket(p) == CloseBracket(OpenBracket(Scan([Push(p, NULL) EXCEPT !.escp = FALSE])))

\* The end of a run of literals: a quantifier takes the last one from the run.
RECURSIVE Extend(_, _)
Extend(p, len) ==
  CASE Looking(p) \in {"ASCIIDIGIT", "ALPHA"} /\ p.lookahead.value # "\\" ->
         Extend(Scan(p), len + 1)
    [] Looking(p) \in {"OPENBRACE", "KLEENE", "QMARK", "PLUS"} /\ len > 2 ->
         [p |-> Backtrack(Backtrack(p)), len |-> len - 2]
    [] OTHER -> [p |-> Backtrack(p), len |-> len - 1]

Anchors == "DOT" :> "ANY" @@ "DOLLAR" :> "EOL_ANCHOR" @@ "CIRCUMFLEX" :> "BOL_ANCHOR"

\* parse_literal_expression.
ParseLiteral(p) ==
  LET src == p.readhead - 1
      run == Extend(Scan([p EXCEPT !.escp = FALSE]), 2)
      q == [run.p EXCEPT !.escp = TRUE]
  IN ParseQuant(
       IF Looking(p) \in DOMAIN Anchors
       THEN Build(Scan(p), NewLiteral(p.h, p.lookahead.value, Anchors[Looking(p)]))
       ELSE Build(Scan(q), NewLliteral(q.h, SubSeq(p.text, src, src + run.len - 1))))

-----------------------------------------------------------------------------
(* Intervals.                                                               *)

IsChar(p, c) == Looking(p) = "ALPHA" /\ p.lookahead.value = c

\* DISCARD_WHITESPACE.
RECURSIVE SkipBlanks(_)
SkipBlanks(p) == IF IsChar(p, " ") \/ IsChar(p, "\t") THEN SkipBlanks(Scan(p)) ELSE p

\* CONVERT_TO_UINT; dec is dec_pos.
RECURSIVE Convert(_, _, _)
Convert(p, val, dec) ==
  IF Looking(p) = "ASCIIDIGIT"
  THEN Convert(Scan(p), val * (dec * 10) + DigitValue(p.lookahead.value), dec * 10 + 1)
  ELSE [p |-> SkipBlanks(p), val |-> val]

ScanBound(p) == Convert(SkipBlanks(Scan(p)), -1, 0)

Product(a, b) == IF a = -1 THEN b ELSE IF b >= 0 THEN a * b ELSE a

\* The loop over adjacent intervals <expression>{m,n}{m,n}...
RECURSIVE ScanBounds(_, _, _)

Bounds(p, min, max, closed) == [p |-> p, min |-> min, max |-> max, closed |-> closed]

NextBounds(p, min, max) ==
  IF min # -1 /\ Looking(p) = "OPENBRACE" THEN ScanBounds(p, min, max)
  ELSE Bounds(p, min, max, TRUE)

CloseBounds(p, min, max) ==
  IF Looking(p) = "CLOSEBRACE" THEN NextBounds(Scan(p), min, max)
  ELSE Bounds(p, min, max, FALSE)

WithUpper(hi, min, max0) == CloseBounds(hi.p, min, Product(max0, hi.val))

WithLower(lo, min0, max0) ==
  WithUpper(IF IsChar(lo.p, ",") THEN ScanBound(lo.p) ELSE [lo EXCEPT !.val = -1],
            Product(min0, lo.val), max0)

ScanBounds(p, min0, max0) == WithLower(ScanBound(p), min0, max0)

\* The target is the interval made last, with nothing behind it:
\* the test of merge_intervals.
Mergeable(p, target) ==
  /\ p.prev_interval_head = SkipEpsilon(p.h, First(p.h, target))
  /\ p.h.node[p.h.node[p.prev_interval].out2].out2 = NULL

Merged(rep, bound) == IF bound = 0 \/ rep = 0 THEN rep + bound ELSE rep * bound

WithInterval(p, h) ==
  [p EXCEPT !.h = h, !.prev_interval = h.new[3], !.prev_interval_head = h.node[h.new[3]].out1,
            !.interval_count = @ + 1]

PushInterval(p, h) == Push(WithInterval(p, h), h.ret)

\* <expression>{min,max}; a missing bound is -1.
LimitedInterval(p, target, min0, max) ==
  LET min == IF min0 >= 0 THEN min0 ELSE 0
  IN IF min0 > max THEN Fatal(p) ELSE
     CASE min0 = 0 /\ max = 1 ->
            [Build(p, NewQmark(p.h, target)) EXCEPT !.interval_count = @ + 1]
       [] min0 = 1 /\ max = 1 -> Push(p, target)
       [] OTHER ->
            IF Mergeable(p, target)
            THEN Push([p EXCEPT !.h.node[p.prev_interval].min_rep = Merged(@, min),
                                !.h.node[p.prev_interval].max_rep = Merged(@, max)], target)
            ELSE PushInterval(p, NewInterval(p.h, target, min, max))

\* <expression>{M}, {M,}, {,} and {0}.  The last one drops the expression.
OpenInterval(p, target, min, max) ==
  LET dropped == [p EXCEPT !.h = Dealloc(@, target),
                           !.subtree_branch_count = IF p.in_alternation > 0 THEN @ - 1 ELSE @]
      h == NewNfas(dropped.h, <<"ACCEPTING">>)
      accept == h.new[1]
  IN CASE min = 1 /\ max = -1 -> Build(p, NewPosclosure(p.h, target))
       [] min > 1 /\ max = -1 -> Join(PushInterval(p, NewInterval(p.h, target, min, max)))
       [] min = -1 /\ max = -1 -> Build(p, NewKleene(p.h, target))
       [] OTHER -> IF p.symbol_stack = <<>> /\ p.in_alternation = 0
                   THEN Push([dropped EXCEPT !.h = [h EXCEPT !.node[accept].parent = accept]],
                             accept)
                   ELSE dropped

Interval(p, target, b) ==
  IF ~b.closed THEN Fatal(p)
  ELSE IF target = NULL THEN Crash(p)
  ELSE IF b.max > 0 THEN LimitedInterval(p, target, b.min, b.max)
  ELSE OpenInterval(p, target, b.min, b.max)

Bounded(b, target) == Interval(Pop(b.p), target, b)

\* parse_interval_expression.
ParseInterval(p) == Bounded(ScanBounds(p, -1, -1), Top(p))

-----------------------------------------------------------------------------
(* Alternation.                                                             *)

\* new_alternation_nfa for the top num branches; num is unsigned.
ReduceBranches(p, num) ==
  LET k == IF num < 0 \/ num > Len(p.branch_stack) THEN Len(p.branch_stack) ELSE num
      rest == [p EXCEPT !.branch_stack = SubSeq(@, k + 1, Len(@))]
  IN IF num \in {0, 1}
     THEN IF p.branch_stack = <<>> THEN Push(p, NULL)
          ELSE Push([p EXCEPT !.branch_stack = Tail(@)], Head(p.branch_stack))
     ELSE IF k = 0 THEN Crash(p)
     ELSE Build(rest, NewAlternation(p.h, SubSeq(p.branch_stack, 1, k)))

\* What was parsed before the '|' becomes a branch; its mark stays.
LeftBranch(p0) ==
  LET p == JoinToMark(p0)
      marked == IF Len(p.symbol_stack) = 1 THEN <<NULL>> ELSE Tail(p.symbol_stack)
  IN IF p0.symbol_stack = <<>> THEN p0
     ELSE IF Top(p) = NULL THEN [p EXCEPT !.symbol_stack = marked]
     ELSE PushBranch([p EXCEPT !.symbol_stack = marked], Top(p))

RightBranch(p0) ==
  LET p == JoinToMark(p0) IN
  IF Top(p0) = NULL THEN p0 ELSE PushBranch(Push(Pop(Pop(p)), NULL), Top(p))

\* Mutant: the branches of a nested alternation are not counted anew.
CountBranchKeepsCount(p) ==
  [p EXCEPT !.subtree_branch_count = @ + 1, !.in_new_cgrp = FALSE]

CountBranch(p) ==
  [p EXCEPT !.subtree_branch_count = IF p.in_new_cgrp THEN 2 ELSE @ + 1,
            !.in_new_cgrp = FALSE]

ReduceTree(p) ==
  [ReduceBranches(p, IF p.in_alternation = 0 THEN Len(p.branch_stack) ELSE p.subtree_branch_count)
   EXCEPT !.subtree_branch_count = 0]

EndPipe(p) ==
  IF Running(p) THEN ReduceTree([RightBranch(p) EXCEPT !.in_alternation = @ - 1]) ELSE p

\* The PIPE case of parse_quantifier_expression.
ParsePipe(p) ==
  EndPipe(ParseSub(Push(CountBranch(LeftBranch(
    Scan([p EXCEPT !.in_alternation = @ + 1, !.lowest_id_on_branch = p.h.next_seq_id]))), NULL)))

\* parse_quantifier_expression.
ParseQuant(p) ==
  LET body == Top(p)
      q == Pop(Scan(p))
      Loop(New(_, _)) == IF body = NULL THEN Crash(q) ELSE ParseQuant(Build(q, New(q.h, body)))
  IN IF ~Running(p) THEN p ELSE
     CASE Looking(p) = "PLUS"      -> Loop(NewPosclosure)
       [] Looking(p) = "KLEENE"    -> Loop(NewKleene)
       [] Looking(p) = "QMARK"     -> Loop(NewQmark)
       [] Looking(p) = "OPENBRACE" -> ParseQuant(ParseInterval(p))
       [] Looking(p) = "PIPE"      -> ParsePipe(p)
       [] OTHER -> p

-----------------------------------------------------------------------------
(* Groups and sequences.                                                    *)

\* regex_parser_start.
ParseStart(p) ==
  IF Looking(p) \in {"ALPHA", "ASCIIDIGIT", "BACKREFERENCE", "CIRCUMFLEX", "DOLLAR", "DOT",
                     "OPENBRACKET", "OPENPAREN"}
  THEN ParseSub(p) ELSE Fatal(p)

\* update_open_paren_accounting.
OpenParen(p) ==
  LET cgrp == p.cgrp_count + 1
      opened == [p EXCEPT !.in_new_cgrp = TRUE, !.paren_count = @ + 1, !.cgrp_count = cgrp,
                          !.current_cgrp = cgrp, !.paren_stack = Append(@, cgrp)]
  IN [TrackCaptureGroup(opened, "CAPTUREGRP_BEGIN") EXCEPT !.subtree_branch_count = 0]

\* What happens at the ')', update_close_paren_accounting included; count is the
\* subtree_branch_count of the caller.
CloseParen(p, count) ==
  [Scan(TrackCaptureGroup(p, "CAPTUREGRP_END")) EXCEPT
     !.paren_count = @ - 1, !.paren_stack = Front(@), !.in_new_cgrp = TRUE,
     !.subtree_branch_count = count]

\* After the body of a group that began at the given size of the symbol stack.
EndParen(p, size, count) ==
  LET group == JoinToSize(CloseParen(p, count), size + 1) IN
  IF ~Running(p) THEN p
  ELSE IF Looking(p) # "CLOSEPAREN" THEN Fatal(p)
  ELSE ParseQuant(IF HasBackref(p) THEN Join(group) ELSE group)

GroupBody(p, count) ==
  EndParen(ParseStart(Push(Scan(p), NULL)), Len(p.symbol_stack), count)

\* parse_paren_expression.
ParseParen(p) == GroupBody(OpenParen(p), p.subtree_branch_count)

ParseBackref(p) ==
  IF p.in_alternation > 0 /\ p.branch_stack = <<>> /\ p.lookahead.value \in p.ended
  THEN Crash(p)
  ELSE IF ~ValidBackref(p) THEN Fatal(p)
  ELSE ParseQuant(Build(Scan(p), NewBackreference(p.h, p.lookahead.value - 1)))

\* parse_sub_expression.
ParseSub(p) ==
  IF ~Running(p) THEN p ELSE
  CASE Looking(p) \in {"DOT", "COLON", "ALPHA", "DOLLAR", "CIRCUMFLEX", "ASCIIDIGIT"} ->
         JoinAfter(ParseSub(ParseLiteral(p)))
    [] Looking(p) = "HYPHEN" ->
         ParseSub([p EXCEPT !.lookahead.type = "ALPHA"])
    [] Looking(p) = "OPENPAREN" -> ParseSub(ParseParen(p))
    [] Looking(p) = "OPENBRACKET" -> JoinAfter(ParseSub(ParseBracket(p)))
    [] Looking(p) = "BACKREFERENCE" -> JoinAfter(ParseSub(ParseBackref(p)))
    [] Looking(p) \in {"CLOSEBRACE", "CLOSEBRACKET"} -> Fatal(p)
    [] Looking(p) = "CLOSEPAREN" /\ p.paren_count = 0 -> Fatal(p)
    [] OTHER -> p

-----------------------------------------------------------------------------
(* The whole expression.                                                    *)

RECURSIVE Escapes(_, _)
\* The positions of the backslashes prescan_input takes for an escape.
Escapes(text, i) ==
  IF i > Len(text) THEN {}
  ELSE IF text[i] = "\\" THEN {i} \cup Escapes(text, i + 2)
  ELSE Escapes(text, i + 1)

\* init_parser and prescan_input, for a text that does not end in an escape
\* (prescan_input does not return for that one).
InitParser(text) ==
  LET escapes == Escapes(text, 1)
      refs == {DigitValue(text[i + 1]) : i \in {j \in escapes : text[j + 1] \in Digits}}
  IN Scan([text |-> text \o <<EOL, NUL>>, readhead |-> 1, lookahead |-> Token("EOF", ""),
           escp |-> TRUE, err |-> "none", symbol_stack |-> <<>>, branch_stack |-> <<>>,
           h |-> NewHeap(Len(text) - Cardinality(escapes)), cgrp_map |-> refs \ {0},
           cgrp_count |-> 0, current_cgrp |-> 0, in_new_cgrp |-> FALSE, paren_count |-> 0,
           paren_stack |-> <<>>, next_id |-> [g \in 1..CGRP_MAX |-> 0], ended |-> {},
           in_alternation |-> 0, lowest_id_on_branch |-> 0, subtree_branch_count |-> 0,
           interval_count |-> 0, prev_interval |-> NULL, prev_interval_head |-> NULL])

\* toupper, on the characters of an expression.
ToUpper(c) ==
  IF c \in DOMAIN Code /\ IsLower(c) THEN CHOOSE u \in DOMAIN Code : Code[u] = Code[c] - 32 ELSE c

\* init_parser under -i: the text is capitalized behind the scanner's back, from
\* the token it has already scanned on.  Nothing is done about the input.
InitIgnoringCase(text) ==
  LET p == InitParser(text)
  IN [p EXCEPT !.text = [i \in DOMAIN @ |-> IF i >= p.readhead - 1 THEN ToUpper(@[i]) ELSE @[i]]]

\* insert_epsilon_start.
InsertEpsilonStart(p) ==
  LET accept == Top(p)
      h == NewNfas(p.h, <<"EPSILON">>)
      start == h.new[1]
      first == First(p.h, accept)
  IN IF p.h.node[first].type \in {"SPLIT", "EPSILON"} THEN p
     ELSE [p EXCEPT !.h = [h EXCEPT !.node[start].out1 = first, !.node[start].out2 = first,
                                    !.node[accept].parent = start]]

EndRegex(p) ==
  IF Top(p) = NULL THEN Crash(p) ELSE InsertEpsilonStart([p EXCEPT !.h = MarkNfa(@, Top(p))])

JoinRegex(p) == IF Running(p) THEN EndRegex(JoinToSize(p, 1)) ELSE p

\* parse_regex, for a parser of InitParser, up to compile_regex.
ParseRegex(p) == JoinRegex(ParseStart(p))
=============================================================================
