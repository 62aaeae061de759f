# A TLA+ model of the recognizer

`eaosfu/regex` is a small `grep`: `recognizer` compiles a regular expression to
a nondeterministic automaton and runs it over the lines of its input files.
This directory holds TLA+ modules translated from its C sources (`src/src/`),
TLC configurations that check them on small instances, and TLAPS proofs about
the matching engine, the match output, both keyword searches, the lists, the
trees and the command line. `PROJECT.json` lists components, runs, mutants, hazards
and theorems, and maps every definition to the lines it models.

The program is sequential and keeps nothing between runs. What makes it hard to
test is state that is carried on inside one process: one line buffer, one
population of threads, one table of marks and one output buffer serve all lines
of all files; a few fields of the parser serve all levels of nesting.

## 1. The system

| Part | State it keeps | Operations | Talks to |
|---|---|---|---|
| command line, files (`main.c`) | flags, `optind` and the permuted `argv`, open file, line buffer of `getline`, `status` | option parsing, `open_file`, `process_file`, directory walk, exit status | parser, engine, output |
| scanner (`scanner.c`, `token.c`) | `readhead`, `eol_symbol`, escape flag | `regex_scan`, `unput`, `reset_scanner`, `restart_from` | parser, engine |
| parser (`regex_parser.c`) | `symbol_stack`, `branch_stack`, counters of groups, branches and trees, back reference map | `regex_parser_start`, `parse_*` | scanner, NFA constructors |
| NFA (`nfa.c`, `nfa_alloc.c`) | pools and ring of free nodes, id counters | `new_*_nfa`, `concatenate_nfa`, `nfa_alloc`, `nfa_dealloc` | parser, compiler |
| compiler (`compile.c`) | `reachable` lists, visit flags, `synth_patterns` | `collect_adjacencies`, `synthesize_pattern`, `compute_mpat_tables` | NFA, engine, prefilter |
| matching engine (`recognizer.c`) | three intrusive thread lists, marks `active_threads_sp`, loop counts, captures, current and longest match | `run_nfa` with `load_start_states`, `thread_clone`, `load_next`, `process_adjacents`, `nfa_step`, `release_all_threads`, `update_input_pointer` | compiled program, prefilter, output |
| match output (`recognizer.c`) | `matches[]`, `match_idx`, `last_match_end` | `new_match`, `fill_output_buffer`, `flush_matches` | stdout |
| prefilter, one keyword (`boyer_moore.c`, `match_record.c`) | shift tables, two rings of records, iterator | `bm_search`, `bm_next_match`, `bm_clear_matches` | engine, through `kw_search_obj` |
| prefilter, several keywords (`mpat.c`) | hash and shift tables, tree of matches | `mpat_search`, `mpat_next_match`, `mpat_clear_matches` | same interface |
| lists (`slist.c`, `stack.h`) | items, the pool and the iterator of each list | append, push, shift, pop, chop, transfer, iterate, search | everybody |
| trees (`rbtree.c`) | nodes, pool of cleared trees | insert, search, successor, clear, free | tables and matches of the prefilters |
| bit arrays (`bits.h`) | sets of bytes and of ids | set, test | parser, engine |

What is hard, and what makes each part correct:

* **Engine.** `thread_clone`, `load_next` and `process_adjacents` are mutually
  recursive and move threads between lists on the way; a list iterator lives in
  the list, not in the loop that uses it; marks, loop counts, captures and the
  buffer survive from one position, attempt and line to the next. Correct
  means: every thread is on one list; all of them are back in the pool between
  lines; no position leaves the line; the search returns; the verdict is that
  of the expression; with `-o -g` exactly the leftmost-longest matches are
  reported; with `-v` exactly the other lines.
* **Output.** Matches are collected in a fixed buffer and joined when they
  touch. Correct means: what reaches stdout is what was reported, however a
  match meets the end of the buffer.
* **Prefilter.** A shift that is too long loses a match, one of zero hangs, and
  the records are recycled from line to line; with several keywords two hashes
  collide, keywords overlap in one window, and the loop over the candidates has
  an exit of its own. Correct means: all occurrences, in order, for every search.
* **Front end.** Nodes are copied over one another and freed while the graph is
  built, and one set of counters serves all nesting levels. Correct means: the
  program accepts what the expression means, refuses what is malformed, uses no
  freed node, and its ids stay inside the arrays the engine allocates.
* **Containers.** Items and nodes go through pools; an iterator is an address
  inside an item; the pool of a tree is made of the trees that were cleared.
  Correct means: a list is a sequence with a cursor, every item is on one chain
  or in one pool; a tree keeps its keys in order and stays red-black, and every
  node is in the tree, in the pool or free, once.
* **Command line.** `getopt_long` moves words while `main` remembers indices of
  them, one status is summed over lines, files and directories, and `-q`, `-v`,
  `-o` and `-r` change the same loop. Correct means: exit status and output are
  what the help text says.

## 2. Modules

| Module | Models |
|---|---|
| `Recognizer` | the matching engine, as one state machine |
| `RegexSemantics` | reference: the meaning of an expression on a line (not code) |
| `MCRecognizer` | programs, flags and lines for `Recognizer`; comparison with the reference |
| `RecognizerProofs` | the proofs about `Recognizer` |
| `Induction` | least elements, induction over sets and numbers, recursive functions: lemmas for the proofs below (not code) |
| `MatchOutput`, `MCMatchOutput` | the output buffer and the part of `process_file` that flushes it |
| `MatchOutputProofs` | the proofs about `MatchOutput` |
| `Prefilter` | abstract specification of the keyword search |
| `MatchRecord`, `BoyerMoore`, `MCBoyerMoore` | record rings, shift tables and search; refines `Prefilter` |
| `BoyerMooreProofs` | the proofs about `BoyerMoore` and `MatchRecord` |
| `Nfa` | node allocator and constructors, as operators on a heap |
| `RegexParser` | scanner and parser, as operators on the parser record (extends `Nfa`) |
| `Compile` | the compiler (extends `RegexParser`) |
| `FrontEnd`, `MCFrontEnd` | text to program: parse, fail or compile; comparison with the reference |
| `KeywordFinder` | abstract specification of the search for several keywords |
| `Mpat`, `MCMpat` | tables and search of `mpat.c`; refines `KeywordFinder` |
| `MpatProofs` | the proofs about `Mpat` |
| `ListSpec` | abstract specification of lists: sequences with a cursor (not code) |
| `SList`, `MCSList` | lists, pools and iterators of `slist.c` and `stack.h`; refines `ListSpec` |
| `SListProofs` | the proofs about `SList` |
| `RbTree`, `MCRbTree` | red-black trees and their pool |
| `RbTreeProofs` | the proofs about `RbTree` |
| `Main`, `MCMain` | options, targets, files, directory walk, exit status |
| `MainProofs` | the proofs about `Main` |

How they meet: `FrontEnd` composes scanner, parser, constructors and compiler.
`MCRecognizer` instantiates `Compile` and requires (assumption
`CompiledFromText`, evaluated by TLC in every run of the engine) that each
program the engine is run with is exactly what parser and compiler produce from
its text. `Recognizer` takes from the prefilter what `Prefilter` and
`KeywordFinder` promise, one record for every place of every keyword in the
order of the line (`KeywordMatches`, `Taken`), and `BoyerMoore` and `Mpat` are
shown to implement these promises. With several keywords two records may have
one place, their order is then open, and a keyword longer than the window is
also reported where only its last byte differs (`Compared`), as `Mpat` does. Left
to `Mpat` is the shortest keyword whose last two bytes are hit by another pair with
the same hash: such a pair is not in the alphabet of `MCRecognizer`.
`Recognizer` hands matches to `new_match` (its variable `out`), whose effect on
the buffer is `MatchOutput`. `Main` uses of the engine its return value and of
the buffer only that reports come out in order, at any report or at the flush.
`Mpat` keeps its matches in a sequence: that the tree behind them
(`match_list`) keeps keys in order with duplicates, from line to line, is what
`RbTree` shows. `Nfa` and `RegexParser` have lists as sequences, which is what
`SList` refines.

### Recognizer and the code

* The pending recursive calls of `thread_clone`, `load_next` and
  `process_adjacents` are the sequence `todo`; its head runs next and is
  replaced by the calls it makes. So one action is one call: `StartState`,
  `Clone`, `CloneRefused`, `LoadCapture`, `LoadInterval`, `ResetCount`,
  `ForEach`, `LoadAccepting`, `LoadQueue`, `LoadDrop`, `OutOfMemory`.
* `run_nfa` itself is `FirstThread`, the five `Step...` actions of `nfa_step`,
  the three `Switch...` actions for its result, `Advance`, `Restart`, `Fetch`,
  `EndOfLine` and `Release`. `ReadLine` is the `getline` of `process_file` with
  `reset_scanner` and the prologue of `run_nfa`.
* Addresses are offsets into the one line buffer `mem`. `ReadLine` overwrites
  only the part the new line needs; what a longer line left behind stays there.
  `QuitPos` is the string literal that ends the main loop.
* `iter` is `iter_idx` of every reachable list, shared by nested loops as in
  `slist.c`. `sp` is `active_threads_sp`. A thread `th[t]` keeps its fields in
  the pool, as the structure does.
* Left out: wording of messages, freeing at exit.

### MatchOutput and the code

The domain of `matches` is the array, `0..(B - 1)`, and whatever the last step
stored behind it (`Store` extends the domain), so an index out of bounds shows
in the state after the call that used it. There is one: the last part of a long match of
exactly `B - 1` bytes puts its NUL at `matches[B]` (`recognizer.c:232-235`). `TypeOK`
allows this one byte (`NulBehindArray`) and no other. The next call starts from
`Buffer`, the array alone: nothing reads that byte again, because `match_idx` is 0.
`Strncpy`, `Snprintf` and `Printed` do what the C functions do with NULs.
`NewMatch` is `new_match`; `FillFits`, `FillChunk`, `FillLast` are the paths of
`fill_output_buffer`; `CloseFile` is the flush at the end of `process_file`.

### BoyerMoore, MatchRecord, Prefilter

`MatchRecord` keeps the `next` and `prev` fields of the records, so the splice
of a whole list into the pool is the pointer surgery of the code.
`Suffix`, `GoodSuffix` and `BadChar` translate the table functions. The
refinement maps the records that were not yet returned by the iterator
(`Untaken`) to `left` of `Prefilter`. The tree behind `bad_char` is a function.

### Mpat, KeywordFinder

`Slide` moves the window by the shift of its last two bytes (`SuffixHash`),
`Stop` takes the candidates from the hash table, and `OtherPrefix`, `Match` and
`Fail` are the three outcomes of the loop body for one of them. `Reached` is the
code's test for success: it also accepts a keyword whose last byte differs, so
`KeywordFinder` asks for at least the occurrences and `NearlyKeywords` says what
else may be reported. The early exit of `mpat.c:392` compares addresses of
different keywords, so `Fail` may take it or not.

### SList, ListSpec

The fields are those of `List` and `ListItem`; `NULL` is 0, an iterator is the
address of the list's `head` (`HeadField`) or of an item's `next`. Each call is
one action, but `list_transfer_on_match` is a loop (`MoveMatch`, `PassItem`,
`EndMatch`), because its iterator is at risk between the steps. The guard
`Fresh` is the way the program uses the lists: a list that was
walked is not emptied into another one. When `list_transfer_on_match` moves the
last item while two others stay, `tail` is left on a freed item (`TailFreed`,
section 6). The call is in the model like any other; behind it there is only
`Astray`, because the next call through `tail` is undefined. What the parser does
with such a list is followed in `Nfa` and `RegexParser`, as the flag `bad`. A list is in `Embedded` (part of a zeroed structure, without an
iterator), in `Stacks` (used through `stack.h`), or made by `new_list`.

### RbTree

`tree` holds the fields of all nodes. `Insert` is `rbtree_insert` up to the
call of `rbtree_fixup`; `Recolour`, `RotateUp` and `FixupEnds` are that loop,
with left and right folded into `Side` and `Other`. `Clear` hangs the tree below
the leftmost node of the pool and `NewNode` takes leaves from there
(`PoolAfter`, `reset_pool_ptr`). `rbtree_free` and `rbtree_free_pool` are loops
too. `kind` separates the two ways the program uses trees: tables get keys
after a search that failed, `match_list` gets ascending addresses with
duplicates and is cleared for every line. `InOrder` walks the tree from `Min` by
`Successor`, one step more than there can be nodes (`Walk`).

### Main

`getopt_long` and `fts` are external: `Swapped` is the exchange by which getopt
moves the words it has passed, `entries` is what `fts_read` has still to return.
`Kind` says what `stat` and `open` make of a name; each value is one path of
`open_file` and of the loop over the targets. `ReadLine` is one turn of the loop
in `process_file` with the verdict of the engine given by `Accepts`. `FilesBelow`
and `Shown` restate the help text without any of this state. `Usual` leaves out
the command lines of section 6, `EmptyLineAsked` those that ask for an empty line of
a file they search, which the program does not show. `-r` is taken by its name and by
`src/README:105`, not by its line of the help text.

### -i

`InitIgnoringCase` is `init_parser` under `-i`, which capitalizes the expression
behind the token the scanner has already read; `Fold` of `Recognizer` folds
input and node where they are compared. `MCRecognizer` checks that its program
`IgnoresCase` is what parser and compiler make of a capitalized text.

### Front end

Parser and compiler are pure: an operator takes the parser record and returns
it. `err` says how a stopped program stopped (`fatal`, or a NULL pointer). A
node is freed by putting it on `free`, from where `NewNfa` takes it again, so
use after free is visible. List items that `slist.c` frees are the flag `bad`.
The classes of `collations.c` are the table `collations`.

## 3. Runs

Passing runs:

| Run | Configuration | Shows |
|---|---|---|
| `one_line` | `MCOneLine.cfg` | any line, 14 programs, 6 flag combinations: the search returns (`SearchReturns`) with the right verdict (`SearchVerdict`) |
| `lines` | `MCLines.cfg` | all 18 programs, all flags, sequences of two lines: thread lists, positions, order of reports, progress of attempts; for the searches that go to the end of a line (`-v`, `-o -g`) no mark without a thread behind it (`MarksStayLive`), and with 14 of the programs the right verdict (`LaterVerdicts`) and exactly the matches of the reference (`AllMatchesReported`, `InvertReportsOthers`) |
| `match_output` | `MCMatchOutput.cfg` | reports of every length around the size of the buffer, with and without name and line number: complete, in order, flushed; nothing is stored outside the buffer but the NUL of `recognizer.c:232-235` |
| `main` | `MCMain.cfg` | exit status (`ExitTellsMatch`) and output (`OutputIsShown`) are those of the help text for 1900 command lines over files, directories, links, locked and missing names; output where no empty line is asked for |
| `slist` | `MCSList.cfg` | lists refine sequences with a cursor (`ListsAreSequences`), items have one home, also under the `list_transfer_on_match` that breaks `tail`; queries answer from the chain |
| `rbtree` | `MCRbTree.cfg` | order, balance, nodes accounted for through insert, clear, reuse and free; the loops end |
| `mpat` | `MCMpat.cfg` | the search refines `KeywordFinder` (`FindsAllKeywords`), reports nothing but near occurrences, ends |
| `boyer_moore` | `MCBoyerMoore.cfg` | the search refines `Prefilter` over three searches, rings stay whole, the search ends |
| `front_end` | `MCFrontEnd.cfg` | about 1500 expressions: language of the program, refusals, live nodes, closure, ids, keywords |

Runs in which the code contradicts its documentation (`PROJECT.json`,
`findings`, quotes the lines):

| Run | Shows |
|---|---|
| `stale_mark` | `[ac]\|[ab]b`: a match ends a search early and leaves marks; in the next line they drop a thread and the line is not matched |
| `missed_keyword` | three keywords with a common beginning: one that fails at a lower address hides the next, and its line is not searched |
| `ignore_case` | `-i ab`: the keyword is capitalized, the line it is searched in is not |

### Bounds, and why they are enough

* Programs (`MCRecognizer`): every node type, and every branch of the interval
  code: body taken again, bounds reached, unlimited, nested, inside a cycle,
  followed by an end, optional. The properties that compare with the meaning of
  the expression speak of the fourteen programs whose searches are right; the four
  others are those of section 6, and all other properties hold for them too.
* Lines: all of up to three characters over three letters, and ten of four or
  five. A dedupe, a capture or a nested loop needs two characters to go wrong
  and a third to show it. `lines` uses ten lines of mixed
  lengths, two at a time, so that a shorter line follows a longer one in the
  buffer. Two programs have two keywords: one pair begins alike and one overlaps.
  `BufCap = 7` is the longest line plus end of line symbol and NUL.
* Threads: the other programs never need more than 7 on these lines; `(a*){2}b`
  exhausts any number. With the 20 of `lines` it alone takes `OutOfMemory`.
* `MatchOutput`: `B = 5`, texts of 0, 1, 3, 9 characters and one that contains
  a NUL, labels of 0 to 5 characters (`FirstLine = 9` gives line numbers of one
  and two digits), three reports. All relations between size of a report,
  space left and size of the buffer occur, up to a text of two buffers.
* `BoyerMoore`: patterns of 1 to 4 letters over two and two of five with
  borders; texts of up to five; three searches, so records are recycled twice;
  six records, more than any text needs.
* `FrontEnd`: operators nested two deep around every atom, alternations with
  groups in every place, sequences of three, captures, brackets, spellings, 15
  malformed texts; lines of up to four characters over two letters, all of them.
* `SList`: three lists, one embedded, one a stack, one made and freed; two data
  values, one of which is transferred; four items, so that every pool runs
  empty, every transfer meets full and empty lists, and a list of three can lose its
  last item to `list_transfer_on_match` while two stay. The fourth is only for that
  call (`Spare = 1`): it allocates before it frees. `MaxIndex = 3` bounds the
  index of a stack's iterator, which counts up with every push and is never read.
* `RbTree`: six keys, six nodes, six matches, at most two of them equal. Six
  nodes give trees of three levels, every case of the repair on both sides, and
  a pool made of up to three trees. `MaxEqual = 2` keeps the leak of section 6 out.
* `Mpat`: keyword lists with overlapping, contained, equal and nearly equal
  words, words of different lengths, two pairs of bytes with one hash, and one
  that is too short; all lines of up to six letters over two, of four over
  three, and some longer ones. A search that knew something of the one before
  would show in the second, and the searches go on for ever.
* `Main`: lists of up to two flags, expressions given as word, by `-f` and by
  `-fname`, ten lists of targets, words in front of and behind the options; a
  directory that contains itself and one that cannot be read.

Deadlock is checked in every run: a finished program takes `Exit` or `Finished`.

### Fairness

`FairSpec` of the engine has weak fairness on `Engine`: the program has one
thread of control, so as long as `run_nfa` can go on it does. Nothing is assumed
about reading further lines. `BoyerMoore` has weak fairness on the steps of
`bm_search` for the same reason, `Mpat` on those of `mpat_search`, and `RbTree` on
the turns of the loops in `rbtree_fixup`, `rbtree_free` and `rbtree_free_pool`.
All liveness properties say that a function returns, not that input arrives.

### Mutants

Each property of a passing run has a mutant: a definition changed the way a slip
in the code would change it (a count not reset, a shift table without borders,
a NUL forgotten, the wrong node freed). They stand before the definition they
change and are not used by any specification.

## 4. Proofs

What is proved holds for every value of the constants that satisfies the named
assumptions (each evaluated by TLC in the runs) and the hypotheses the table gives.

| Module | Theorem | Property | Hypothesis |
|---|---|---|---|
| `RecognizerProofs` | `Invariant` | `IInv`, the inductive invariant | |
| | `TypeCorrect` | `TypeOK` | |
| | `ThreadsHaveOneHome` | `OneHome` | |
| | `PoolIsRestored` | `PoolRestored` | |
| | `SearchStaysInLine` | `MatchesInLine` | |
| | `ReportsAreOrdered` | `ReportsOrdered` | |
| | `AttemptsAdvance` | `InputPointerAdvances` | |
| | `MarksAreLive` | `MarksStayLive` | `-v` or `-g`, `StartsAlike` (in the property) |
| `MatchOutputProofs` | `TypesHold` | `TypeOK` (stores outside `matches[]`: one NUL, `NulBehindArray`) | |
| | `OutputIsComplete` | `OutputComplete` | |
| | `FilesAreFlushed` | `FileFlushed` | |
| `BoyerMooreProofs` | `SuffixIs` | (`compute_suffix` is right) | |
| | `TypesHold` | `TypeOK` | |
| | `RingsStayWhole` | `RingsWhole` | |
| | `SearchFindsAllKeywords` | `FindsAllKeywords`, the refinement of `Prefilter` | `AsciiKeywords` |
| `MpatProofs` | `TypesHold` | `TypeOK` | |
| | `RecordsNearlyKeywords` | `NearlyKeywords` | |
| | `SearchFindsAllKeywords` | `FindsAllKeywords`, the refinement of `KeywordFinder` | `AtMostTwoAlike` |
| `SListProofs` | `InvariantHolds` | `IInv`, the inductive invariant | |
| | `TypesHold` | `TypeOK` | |
| | `EveryItemHasOneHome` | `ItemsHaveOneHome` (`tail`: not of the source of a running or `TailFreed` transfer) | |
| | `ShortcutsAgree` | `QueriesAgree` | no call behind a `TailFreed` transfer (in the model) |
| | `SequencesImplemented` | `ListsAreSequences`, the refinement of `ListSpec` | the same |
| `MainProofs` | `Invariant` | `IInv`, the inductive invariant | |
| | `ExitStatusTellsMatch` | `ExitTellsMatch` | `Usual` (in the property) |
| | `OutputIsWhatIsAsked` | `OutputIsShown` | `Usual`, no `EmptyLineAsked` (in the property) |
| `RbTreeProofs` | `InvariantHolds` | `IInv`, the inductive invariant | |
| | `TypesHold` | `TypeOK` | |
| | `KeysInOrder` | `InOrder` | |
| | `TreesStayRedBlack` | `RedBlack` | |
| | `NodesAreNeverShared` | (the part of `NodesAccounted` about one node) | |
| | `NodesAreAccounted` | `NodesAccounted` | `MaxEqual <= 2` |

The hypotheses mark where the code is right:

* `StartsAlike`: an entry of `active_threads_sp` that the last attempt of a line
  writes at the terminator, where no thread is stepped any more, is written again
  by the first attempt of the next line. Only nodes that `load_next` lets pass
  whatever the next character is (any character, anchors, back references) can be
  queued there. The hypothesis asks that those of them `load_start_states` reaches
  are reached at every attempt along captures; it excludes programs that begin
  with an interval node and come to such a node only through it, where the calls
  made depend on counts and on iterators shared with earlier calls. It holds of
  every program with a keyword search, of every program whose start states come
  to no such node, and of each of the 18 programs of the runs. The other
  condition, `-v` or `-g`, is needed: without them a match ends a search in the
  middle of a line and leaves its marks (`stale_mark`).
* `AsciiKeywords`: the keyword has no byte above 127. The bad character table is
  filled and read with different conversions of such a byte (section 6);
  `README:89` limits the program to ASCII. The rings need no such hypothesis.
* `AtMostTwoAlike`: no keyword shares both its hash bucket and its prefix hash with
  two later keywords. Then the early exit of `mpat.c:392` skips nothing that
  occurs: it is taken after a comparison that failed, and at most one candidate
  with that prefix is behind it. `missed_keyword` is a list of three keywords
  without the hypothesis, on which the property fails.
* `MaxEqual <= 2`: at most two matches of a line begin at the same place. With three
  the pool loses nodes (section 6). Only `NodesAreAccounted` needs it: that no node
  is in two places holds without.
* `Usual` and no `EmptyLineAsked`: section 6, command line and `-v`.
* No call behind a `TailFreed` transfer: the item `tail` points to is freed, so what
  the next append does is undefined. That the transfer itself loses no item, shares
  none and leaves chains, pools and counters right is proved without a hypothesis.

### Induction

The library's induction theorems have an operator as parameter, which the installed
provers cannot instantiate. `Induction` restates them with sets: a nonempty set of
numbers has a least element (`LeastNumber`, since among the initial segments of its
members one is minimal by the library's `FS_StrictSubsetOrderingWellFounded` and
`WFMin`), so a set of numbers that is closed under successor, or that contains each
number whose predecessors it contains, has all of them (`SetInduction`,
`StrongInduction`); and a recursion along a measure defines a function
(`Recursion`). A statement
is proved by induction by forming the set of numbers for which it holds. So the
recursive functions of the models (decimal numbers in the output, the table loops
of `boyer_moore.c`, the chained hash tables of `mpat.c`, the loops of `rbtree.c`
along pointers) are reasoned about too.

### The engine

Assumptions on the constants (all in `Recognizer`):
`ProgramAssumption` (what `WellFormed` says of a compiled program: ids inside
their arrays, reachable lists inside the program, an interval has nodes on both
sides of its split; `front_end` checks the first on its cases),
`ModeAssumption`, `BoundAssumption`, `LineAssumption` (a line fits into the
buffer), `CharAssumption`.

None of the properties is inductive. `IInv` is the conjunction of

* `TypeOK`;
* `Ownership`: `OneHome`, and in addition where each thread is at each `pc`:
  every allocated thread is in the pool, queued, about to be placed by a
  pending `load_next`, or `run_nfa`'s local `thread`. Two facts carry it. A
  thread has at most one pending `load`, and it is the last of the pending calls
  on its behalf (`LoadsDistinct`, `LoadLast`): otherwise a call could read a
  thread that an earlier one has already given back. And while the switch of
  `run_nfa` looks at `thread`, its status is 0 exactly if it was queued, which
  is why the code may drop it for any other status;
* `Positions`: the terminator is in place and bounds the cursor, and every
  thread outside the pool has its match inside the line. Threads in the pool
  may hold addresses of older lines; that they are reset on the way out of the
  pool is what the proof of `StartState` and `Clone` shows;
* `Attempts`: matches of live threads begin at or behind the start of the
  attempt and end at or before the cursor, the last report ends before the
  attempt, and no untaken keyword record lies behind it. Orderedness of reports
  and progress of attempts follow: an attempt begins further right, or at the
  same place with a record that is used up by it.

`MarksStayLive` has an invariant of its own, `Marks`, proved on top of `IInv`. It
says where a mark may come from. While threads are stepped, an entry is cleared, or
a thread that is listed or in `run_nfa`'s hand stands at its node, or, in the
prologue of a line, a pending call is on the way to that node and will write it again
(`Coming`, along captures alone). After the last attempt of a line the entries left
are those that `StartsAlike` says every attempt writes (`AlwaysMarked`): the attempt
is made at the terminator, where only nodes that let every character pass are queued.
`Confined` bounds what is reached there: the pending calls of `load_start_states`
stay within every set of nodes that is closed the way `StartsWithin` says. `Begins`
tells which attempts are the last. A switch of lists clears an entry or finds its thread
listed; the switch that leaves the line early is the one `-v` and `-g` exclude.

`RecognizerProofs` has four parts: the invariant with lemmas about lists and pending
calls, and the types; the ownership of threads; positions and attempts; the marks.
Each part is proved in three groups of actions (calls, steps of `nfa_step`, the rest
of `run_nfa`) and `ReadLine`.

### The match output

Assumptions: the buffer has at least three characters, names are not empty.
`IInv` of `MatchOutputProofs` has three parts. `Typed` bounds every index; its
`Inside` says that what was stored is the array, or the array and the NUL behind it.
Each lemma about a buffer operator gives the domain afterwards (`Memory(h)`), and
`FilledBytes` covers both cases.
`Handover` says what one function leaves to the next: `new_match` never takes back
a newline, because a search starts with `last_match_end` cleared;
`fill_output_buffer` has room for text, newline and NUL or starts with an empty
buffer, and is asked to flush only with nothing in front of the text; everything
else finds a NUL behind the stored text. `Delivered` is the accounting: printed,
stored and outstanding text together are what was reported. Its exception, a
reported line with a NUL byte, is that of the property.

### The keyword searches

`BoyerMooreProofs`. Assumption: keywords have 1 to 127 bytes, bytes are 0 to 255. The
invariant has two layers. `Base` (no hypothesis): the tables are those of the
keyword; the window lies where the loop can bring it; the `next` and `prev` fields
form the ring of `head` and the ring of `pool`, disjoint and covering the
allocated records (`RingsAre`); the iterator is on the ring where `ret` says. That each
splice gives rings again is proved once for the three operations (`RingJoin`,
`RingTake`, `RingSplice`). `Recorded`: the records are the occurrences to the left of
the window, in order. It is kept because no shift jumps over an occurrence
(`NoSkip`): the good suffix table comes from `compute_suffix`, which finds for
every place the longest common suffix of the keyword and its part up to there
(`SuffixIs`), so an occurrence nearer than the shift would be an earlier repetition
of what matched, or a border, that the table has seen (`GoodSuffixSafe`);
the bad character rule aligns the last place of the byte (`BadCharIs`);
after an occurrence the shift is the shortest period (`Overlap`).

`MpatProofs`. Assumption: `KeywordAssumption` (keywords and lines are ASCII, the
end of line symbol is -1 or -2, so no byte of a keyword is one, `scanner.c:156`).
`Base` (no hypothesis): the tables are those of the keywords, the matches are
ascending, in the line, and nearly keywords, and the candidates are gone through in
the order of the bucket. `Behind`: every occurrence that begins to the left of the
window is recorded; it is kept because the shift table bounds the distance
of the nearest keyword that ends in the pair of bytes read, hash collisions
included. `Compared`: within a window, all candidates passed so far that
occur are recorded, and a comparison has failed only if one of them had the
window's prefix; with `AtMostTwoAlike` that bounds what the early exit may skip.

### The lists

Assumption: `ListAssumption` (a list is not at once embedded and a stack; no NULL is
put on a list, which is what lets `list_search` and `list_get_next` answer NULL for
nothing). Number of lists, items and data are arbitrary, `MaxItems` and
`MaxIndex` included.

The invariant speaks of sequences instead of links: `HomesAre(s)` says that the
function `s` gives every list the items of its chain and those of its pool, that
`next` leads from each item to the one behind it and from the last one to NULL, that
no item is in two places and every allocated one is in some place, and that `head`,
`pool` and the two counters are those of the sequences. Such an `s` is the one that
`Chain` reads (`HomesTold`). Each call is then a few moves of items between
sequences, and a move is proved once: `Unlink`, `Insert`, `Join`, `Drop` and their
special cases at either end. So the items keep one home under all calls, although
`list_clear` puts chain and pool together in either order, `list_chop` cuts a chain,
and `list_transfer_on_match` takes an item from a pool in the same step in which
it frees another. Besides, `IInv` keeps

* `Tails`: `tail` is the last item, except of the list that is being searched;
* `Walks`: the iterator of a list that is not a stack stands behind item
  `iter_idx`, at the head, or is NULL in a zeroed list without items. Needed,
  because `list_transfer` and the end of the search write through it;
* `Scans`: the search stands behind items that do not match, and until it reaches the
  end `tail` is the last item; at the end it is that item or a freed one
  (`TailOrFreed`), and right again if at most one item stays.

For each call there is a lemma that gives the new sequences, the invariant about them
and what the lists hold afterwards (`AppendStep`, ..., `MatchStep`); `StepHolds`
puts them together and shows in the same place that the step is one of
`ListSpec`. The beginning of a search, the items it passes and its end change nothing
a caller sees and map to a `GetNext` without a walk.

### The command line

Assumptions: `NameAssumption` (names are finitely many; `stat` and `open` give every
name one kind, directories have entries and files lines) and `CommandAssumption` (no
word of a command line looks like an option, targets are names or `-`).
Command lines, trees of files, their contents and the expressions are arbitrary,
directories that contain themselves included.

`Name` is finite because the help text is restated by a recursion over directories:
`FilesBelow` exists only if going down ends, and it does because each step adds a
directory to those above (`WalkDefined`, with `Recursion`). `IInv` says nothing about
command lines that are not `Usual`, and of the others, in the order in which `main`
works:

* `OptionsRead`, while options are read: after `d` of them the flags are those
  among the first `d`, and `argv` is `Permuted(c, d - 1)` if the words came first: an
  exchange puts them behind the option read before (`Exchanged`), so that
  `NextOption` is the next one the user wrote. `Ready` is what holds behind the
  last exchange: options, then words, whatever the order was;
* `Searching`, from the first target on: there is a beginning `done` of `Files` such that
  `Files` is `done`, the open file and `Left`, what the entries and the
  targets still give; printed and buffered output together are what `done` and the
  lines read of the open file have to show; `status` is nonzero exactly if `done` has
  a match (`Searched`), and `file_status` if the open file has one so far (`InFile`).
  A file that is left early under `-q` has a match and nothing to show.

The invariant speaks of what the program shows (`Given`), which leaves out empty
lines; `GivenIsShown` says that this is what the help text names if none is asked for.
Each action has a lemma (`OpenTargetStep`, ..., `CloseFileStep`). They rest on a few facts
about `Flat`, the concatenation of the results for the entries of a sequence
(`FlatOne`, `FlatConcatenation`, `FlatPrefix`), which come from `FlattenSeq` by
induction over the length.

### The trees

Assumption: `TreeAssumption` (the bounds are numbers). How many keys, nodes and
matches there are is arbitrary, and so is the order of calls: keys into a table
in any order, matches in ascending order with duplicates, clearing, reuse and
freeing at any time, then another tree on the same heap.

Nothing in the code says how deep a tree is or where a node stands in it, so the
invariant has witnesses for it (`Invariant(g, U, K, b)`): `U` are the nodes of the
tree, `K` those of the pool, `b` the height of each node in black nodes, and `g`
gives every node a place `pos` and an interval `lo..hi` in which the places of
the nodes below it lie. `Shape` says that the left child has the part of the interval
in front of the node, and the right child the part behind it; so a
way down makes the interval shorter, and the loops along pointers are recursions
along a measure (`Looping`, `LoopExists`), for which `LoopEnds` proves the
result by induction. `Tree` adds that the nodes hang together below their root with
`parent` the way back, and that a subtree is empty only if nothing has its place in
that part of the interval. Therefore the first node of a set is the one
`rbtree_min` reaches (`MinIs`), the next one is what `rbtree_successor` gives
(`SuccessorIs`), and a search need only say on which side the places are. The places
need not be next to one another: a node taken out leaves the others
where they are; one put in, or a tree hung below another, moves those on one side away
(`Room`). The right side is the left one of the mirror image (`MirrorImage`).

The conjuncts, and why they are needed:

* `Forest`: tree and pool are such trees, disjoint, and no pointer of any node leads
  to one that is not allocated. The pointers of a node taken
  from the pool are therefore safe to keep until `Hang` overwrites them;
* `Pooled`: `pool_ptr` is where the pool is taken apart next, a node such that no node
  in front of it has a left child (`FirstLeft`). Without this, clearing a tree would
  overwrite a `left` pointer in use. The cursors of `rbtree_free` and
  `rbtree_free_pool` stand at such nodes as well (`Felled`, `Drained`);
* `Sorted` and `Counted`: keys ascend with places, and there are as many nodes with a
  key as it was inserted. From these and `SuccessorIs` follows `InOrder`: the walk
  goes through the places one by one (`Ascends`), hence meets each node once
  (`OnceEach`);
* `Coloured`: heights agree, and no red node is below a red one but the one that
  `rbtree_fixup` is at. A step of the loop moves this exception up or ends it
  (`Recoloured` for `Recolour`, `InnerTurn` and `OuterTurn` for the rotations,
  `FixEnds` at the end);
* `Kept` and `Thin`: while at most two matches begin at the same place no node is
  lost. `reset_pool_ptr` loses the right subtree of a node at which it
  ends, unless that is the root. It never does, because every left child without a left
  child is a leaf (`Lean`). Keys in ascending order make trees that lean to the right,
  and a second match at one place hangs to the left of the first only at
  the end of the tree; `Leaning` says what of this holds in each stage of the
  repair. A third one would make a left child with a right one.

`Insert` has the longest proof: the new node is one off the heap, the root of the
pool, or a leaf cut off it, and then a leaf hung below the place
found (`NodeTaken`, `NodeHung`, `InsertKeeps`). Each further action has a lemma
(`RecolourIs`, `RotateUpIs`, `FixupEndsIs`, `ClearKeeps`, `FreeLeafKeeps`, ...,
`FreePooledKeeps`).

### Only model-checked

* Liveness: fairness and `ENABLED` are outside the prover.
* Everything that compares with `RegexSemantics` or concerns parser and compiler:
  the operators of those modules are `RECURSIVE`, which the prover does not take.
* `RbTree`: that its loops end (`LoopsEnd`) is liveness. What the proofs do give is
  that every loop of one action, such as `rbtree_min`, has a value.

## 5. Not modelled

* Operations nothing calls: `list_insert_at`, `list_remove_at`,
  `list_deep_copy`, `list_reverse`, `list_get_iterator`, `list_iterate` in its two
  forms, `rbtree_remove`, `rbtree_insert_reverse`, `rbtree_predecessor`.
* Freeing at exit (`list_free_items`, `mpat_obj_free` and the like).
* The early exit of `mpat.c:392` inside the engine: `Recognizer` is run with at
  most two keywords, which that exit cannot hide from one another. `Mpat` has it,
  and `missed_keyword` shows what it does to three.
* Wording of messages; which warning goes to stderr.
* Long and clustered options (`--quiet`, `-qv`), and an empty name, for which
  `fts_open` itself fails.
* The mask arithmetic of `bits.h`: bit arrays are sets.
* `{M}` is read by the code as `{M,}`; bounds of three and more digits are
  translated (`Convert`) but not run.

## 6. Deviations outside the passing runs

Found while comparing model and program. The cases are kept out of the families
of the passing runs, or the property says that it does not speak of them
(`Usual`, `EmptyLineAsked`, `NulBehindArray`, `TailFreed`), so the properties hold
without them.

* Compiler: `a{0,2}*`, `a{0,2}+`, `(a{0,2})*` recurse without end
  (`compile.c:68-72`); `(a(ab){0,2})+` loses the keyword `a`
  (`compile.c:109-161`); `(a)\1\1\1\1\1` is compiled in part (`compile.c:238`);
  `.b|a` keeps the keyword `b`, which does not cover the expression, and misses
  lines that only have an `a` (`compile.c:185`).
* Parser: `b|(a|(b)|aa)a` counts the branches of the inner alternation wrongly
  and loses one (`regex_parser.c:332`); `b|(a|b)\1` is refused (`regex_parser.c:310`, `783-792`);
  `((a)(b))\1` is refused (`regex_parser.c:80`); `x((a)\2|b)` matches `b`
  (`regex_parser.c:63`); `a{1,2}{2,}`, `a{2,}{1,2}`, `(a{2,}){1,2}`,
  `(a{2,}){0,2}`, `(a{1,2}){0,2}` get wrong bounds (`regex_parser.c:102-126`);
  `[[:a:]]` is accepted (names are compared as prefixes, `nfa.c:61-85`);
  `(a|b)|b|aa` uses a freed list item (`slist.c:57-67`, `89`); `(a{0})*`
  dereferences NULL; an expression that ends in a backslash is scanned past its
  end.
* Engine: `(a|b)c\1` does not match `aca` while the pool is small, because
  `thread_clone` copies captures only into a thread taken from the pool
  (`recognizer.c:482`); a counted loop over a body that can be empty, `(a*){2}b`,
  recurses until memory is exhausted (`recognizer.c:527`); `a$.` matches at the
  terminator; `(^)*[bc]` does not return; `-o`
  without `-g` reports the first match found, not the longest; `-v` reports no
  empty line, because `new_match` ignores a match that ends before it begins
  (the help text, `main.c:270`: "display lines where no matches are found"), and
  without `-v` no empty line that matches is shown either;
  with `-i` also the name of a class is capitalized, so `[[:alpha:]]` is an
  unknown class.
* Prefilter: keywords of more than 127 bytes overflow `compute_suffix`
  (`boyer_moore.c:73`); bytes above 127 are looked up differently from how they
  are stored (`boyer_moore.c:134`; `README:89` limits the program to ASCII).
* Output: a NUL byte in a line cuts what is printed of the buffer. When exactly
  `MATCH_BUFFER_SIZE - 1` bytes of a report are left, `recognizer.c:232-235` stores
  the NUL one byte behind `matches[]`. This case is in the run `match_output`, whose
  `TypeOK` names it. With the usual sizes that byte is the lowest of
  `active_threads_sp[0]` (`recognizer.h:79-80`), the mark of back references to the
  first group, whose id is 0 (`nfa.c:191`); what a mark changed that way does to later
  attempts is not modelled.
* Tables: `[:blank:]` and `[:space:]` differ from `README:61` and `66`;
  `[[:xdigit:]]` accepts `A`-`N`, `a`-`f` and no digit (`collations.c:16`, against
  `README:70-71`).
* Trees: with three matches at one address and six or more on a line
  `reset_pool_ptr` stops at a node that has a right child, and the nodes below it
  are lost to the pool (`rbtree.c:34`; the comment at `rbtree.c:339` has
  `rbtree_free` "free memory used up by entire tree").
* Lists: `list_transfer_on_match` frees the tail item without moving `tail` when
  two or more items stay (`slist.c:57-67`). The call is in the run `slist`, the calls
  behind it are not.
* Command line: the help line of `-r` (`main.c:268`, "suppress all output to stdout")
  is that of `-q`; the program searches directories, as the name and `src/README:105`
  ("Recursive directory search") say, and labels its output as `-F` does. `-s` is in the help text but has no case and ends the program
  with the usage text (`main.c:330-346`); `-fname` and `--pattern-file=name` open
  the option word itself as a file; a file in front of `-f name` makes
  `pattern_file_idx` stale, and its first line becomes the expression
  (`main.c:334`); symbolic links are never searched (`O_NOFOLLOW`, `main.c:97`);
  a file that cannot be opened is always reported; two long options are called
  `--global_match` and `--show-line-number`, unlike in the help; `-v` exits with 0
  if the expression matches somewhere, not if a line was shown; `status` is an
  `int` that wraps after 2^32 matching lines.

## 7. Plan

Done: engine with both prefilters, output, front end with `-i`, lists, trees, command
line; proofs of the engine's safety invariants, of the match output, of both
keyword searches and the lists including the refinements, of the trees and of the
command line. Next:

1. A run of its own for two groups side by side inside a referenced one.
2. The trees' operations without a caller, should one get a caller: removal first.

## 8. Running it

    tlasany Recognizer.tla
    tlc -workers 2 -config MCLines.cfg MCRecognizer
    tlc -workers 2 -config MCSList.cfg MCSList
    tlapm RecognizerProofs.tla
    tlapm SListProofs.tla
    tlapm BoyerMooreProofs.tla
    tlapm MainProofs.tla
    tlapm RbTreeProofs.tla
