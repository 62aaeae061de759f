----------------------------- MODULE Recognizer -----------------------------
(***************************************************************************)
(* The matching engine of src/recognizer.c: a compiled regular expression  *)
(* is run over one input line after another by a population of simulation  *)
(* threads that move between three intrusive lists (thread_pool,           *)
(* active_threads, next_threads).                                          *)
(*                                                                         *)
(* thread_clone, load_next and process_adjacents call each other           *)
(* recursively.  The recursion is written out as a stack of pending calls, *)
(* the variable todo: the head of todo is the call that runs next, and a   *)
(* call replaces itself by the calls it makes.  While todo is not empty no *)
(* other part of run_nfa moves.                                            *)
(*                                                                         *)
(* Addresses are offsets into the one line buffer that getline reuses for  *)
(* every line (1 is scanner->buffer), NULL is 0.  Bytes behind the         *)
(* terminator of a short line still hold the text of earlier lines.        *)
(***************************************************************************)
EXTENDS Integers, Sequences, FiniteSets

CONSTANTS
  Programs,    \* the compiled regular expressions a behaviour may be run with
  Modes,       \* the command-line flag combinations a behaviour may be run with
  Chars,       \* the characters that occur in input lines
  Lines,       \* the input lines, sequences of Chars
  MaxLines,    \* bound: lines read in one behaviour
  MaxThreads,  \* bound: simulation threads xmalloc can provide
  BufCap,      \* bound: bytes of the line buffer
  EOL,         \* scanner->eol_symbol, written over the newline
  NUL,         \* the terminating '\0'
  Upper        \* toupper on Chars

-----------------------------------------------------------------------------
NULL == 0

\* The address of the string literal "\0" that update_input_pointer assigns
\* to make the main loop stop.
QuitPos == -1

Addr == {QuitPos, NULL} \cup 1..BufCap

\* nfa.value.type of the nodes that can be on a reachable list.
NodeType == {"ANY", "LITERAL", "RANGE", "BOL_ANCHOR", "EOL_ANCHOR",
             "BACKREFERENCE", "CAPTUREGRP_BEGIN", "CAPTUREGRP_END",
             "INTERVAL", "ACCEPTING"}

\* A compiled node: id, the literal or range it accepts (set), the reachable
\* list collected by compile.c and, for an interval, its repetition bounds,
\* the index that separates loop from exit nodes, and its two flags.
NodeRec == [type : NodeType, id : Nat, set : SUBSET Chars, reach : Seq(Nat),
            min : Int, max : Int, split : Nat, cycle : BOOLEAN, accepts : BOOLEAN]

\* A compiled program: its nodes, the reachable list of its start node, the
\* number of entries of active_threads_sp, loop_record and backref_match, and
\* the list of its keywords.
WellFormed(p) ==
  /\ p.nodes \in Seq(NodeRec)
  /\ p.nids \in Nat /\ p.nloops \in Nat /\ p.ngroups \in Nat
  /\ p.kws \in Seq(Seq(Chars))
  /\ \A i \in 1..Len(p.start) : p.start[i] \in 1..Len(p.nodes)
  /\ p.start \in Seq(Nat) /\ p.start # <<>>
  /\ \A n \in 1..Len(p.nodes) :
       LET r == p.nodes[n] IN
       /\ \A i \in 1..Len(r.reach) : r.reach[i] \in 1..Len(p.nodes)
       /\ r.type # "ACCEPTING" => r.reach # <<>>
       /\ r.type = "LITERAL" => \E c \in Chars : r.set = {c}
       /\ r.type = "INTERVAL" => r.split \in 1..(Len(r.reach) - 1) /\ r.id < p.nloops
       /\ r.type \in {"CAPTUREGRP_BEGIN", "CAPTUREGRP_END", "BACKREFERENCE"} =>
            r.id < p.ngroups
       /\ r.type \notin {"INTERVAL", "CAPTUREGRP_BEGIN", "CAPTUREGRP_END"} =>
            r.id < p.nids

\* ctrl_flags as the recognizer reads them (misc.h).
Mode == [line : BOOLEAN, invert : BOOLEAN, silent : BOOLEAN,
         global : BOOLEAN, icase : BOOLEAN]

ASSUME ProgramAssumption == \A p \in Programs : WellFormed(p)
ASSUME ModeAssumption == Modes \subseteq Mode
ASSUME BoundAssumption ==
  MaxLines \in Nat /\ MaxThreads \in Nat \ {0} /\ BufCap \in Nat \ {0, 1}
ASSUME LineAssumption ==
  /\ Lines \subseteq Seq(Chars)
  /\ \A l \in Lines : Len(l) + 2 <= BufCap
ASSUME CharAssumption ==
  EOL \notin Chars /\ NUL \notin Chars /\ EOL # NUL /\ Upper \in [Chars -> Chars]

-----------------------------------------------------------------------------
VARIABLES
  prog, mode,       \* fixed by the command line
  mem, eol,         \* the line buffer and the address of its EOL symbol
  nlines,           \* lines read so far
  pc,               \* where run_nfa is
  cur_pos, input_pointer, lookahead, last_interval_pos,
  kw_matches,       \* the match records not yet taken by kw_next_match
  thread,           \* run_nfa's local, NULL or a thread
  thread_pool, active_threads, next_threads,
  nthreads,         \* threads allocated so far
  th,               \* the NFASim structures
  sp,               \* active_threads_sp
  iter,             \* iter_idx of every reachable list
  todo, dst,        \* pending calls and the list they append to
  match,            \* ctrl->match
  match_found, current_run,
  out               \* the matches handed to new_match for this line

input   == <<prog, mode, mem, eol, nlines>>
lists   == <<thread_pool, active_threads, next_threads, nthreads>>
result  == <<match, match_found, current_run, out>>
cursor  == <<cur_pos, input_pointer, last_interval_pos, kw_matches>>
vars == <<input, pc, cursor, lookahead, thread, lists, th, sp, iter, todo, dst, result>>

-----------------------------------------------------------------------------
Node(n) == prog.nodes[n]

\* What dereferencing an address yields.
Char(a) == IF a = QuitPos THEN NUL ELSE mem[a]

\* INPUT(sim) and INST_TOKEN(sim): both sides are folded under -i.
Fold(c) == IF mode.icase /\ c \in Chars THEN Upper[c] ELSE c
Input == Fold(Char(cur_pos))

\* The tests of load_next, thread_clone and load_start_states on *lookahead
\* compare without folding.
AcceptsRaw(n, c) == Node(n).type \in {"LITERAL", "RANGE"} => c \in Node(n).set

Individual == ~(mode.silent \/ mode.invert \/ mode.line)

NoMatch == [start |-> NULL, end |-> NULL]

Front(s) == IF s = <<>> THEN NULL ELSE Head(s)
Rest(s)  == IF s = <<>> THEN <<>> ELSE Tail(s)

\* A pending call.  "start" is one turn of the loop in load_start_states,
\* "clone" thread_clone, "load" load_next, "each" a list_for_each over the
\* reachable list of nfa that clones sim (a: where to seek first, b: finish),
\* "reset" the assignments between the two loops of an interval (a: what
\* tracking_intervals loses).
Frame(op, nfa, sim, a, b) == [op |-> op, nfa |-> nfa, sim |-> sim, a |-> a, b |-> b]
NoSeek == -1

\* process_adjacents: clones for reachable[1..], then the thread itself for
\* the head of the list.
Adjacents(n, sim) ==
  LET r == Node(n).reach IN
  [i \in 1..Len(r) |-> IF i < Len(r) THEN Frame("clone", r[i + 1], sim, 0, 0)
                                     ELSE Frame("load", r[1], sim, 0, 0)]

StartFrames == [i \in 1..Len(prog.start) |-> Frame("start", prog.start[i], NULL, 0, 0)]

\* A calloc'ed NFASim.
FreshThread(p) ==
  [ip |-> 0, status |-> 0, match |-> NoMatch, bref |-> NULL,
   tracking_intervals |-> 0, tracking_backrefs |-> FALSE,
   loop |-> [i \in 0..(p.nloops - 1) |-> 0],
   cap  |-> [g \in 0..(p.ngroups - 1) |-> NoMatch]]

-----------------------------------------------------------------------------
(* The keyword search.                                                      *)

Several == Len(prog.kws) > 1

\* new_nfa_sim: mpat_init refuses keywords of less than three bytes.
Prefiltered == prog.kws # <<>> /\ (Several => \A k \in 1..Len(prog.kws) : Len(prog.kws[k]) >= 3)

\* mpat_search compares all but the last byte of a keyword that is longer than
\* its window.
Longer(k) == Several /\ \E j \in 1..Len(prog.kws) : Len(prog.kws[j]) < Len(prog.kws[k])
Compared(k) == IF Longer(k) THEN Len(prog.kws[k]) - 1 ELSE Len(prog.kws[k])

KeywordAt(k, l, a) == \A i \in 1..Compared(k) : a + i - 1 <= Len(l) /\ l[a + i - 1] = prog.kws[k][i]

\* The records of a search (modules BoyerMoore and Mpat): where a keyword begins
\* and which; two of them may begin at one place.
KeywordMatches(l) ==
  IF Prefiltered
  THEN {m \in [beg : 1..Len(l), kw : 1..Len(prog.kws)] : KeywordAt(m.kw, l, m.beg)}
  ELSE {}

\* Where an attempt starts with the record kw_next_match returns, in the order of
\* the line, and the records that are left.
Taken(S) ==
  {[beg |-> m.beg, left |-> S \ {m}] : m \in {n \in S : \A o \in S : n.beg <= o.beg}}

\* new_match: what it appends to the output, if anything.
Emit(m) ==
  IF ~mode.silent /\ m.start # NULL /\ m.start <= m.end
  THEN Append(out, IF mode.line THEN [start |-> 1, end |-> eol - 1] ELSE m)
  ELSE out

UpdateMatch(m) == [start |-> IF m.start = NULL THEN cur_pos ELSE m.start, end |-> cur_pos]

\* Mutant: the first match wins.
UpdateLongestFirst(m, nm) == IF m.end = NULL THEN nm ELSE m

UpdateLongest(m, nm) ==
  IF m.end = NULL \/ m.end - m.start < nm.end - nm.start THEN nm
  ELSE IF nm.start - m.end \in 0..1 THEN [m EXCEPT !.end = nm.end]
  ELSE m

-----------------------------------------------------------------------------
Init ==
  /\ prog \in Programs
  /\ mode \in Modes
  /\ mem = [a \in 1..BufCap |-> NUL]
  /\ eol = 1
  /\ nlines = 0
  /\ pc = "idle"
  /\ cur_pos = 1 /\ input_pointer = 1 /\ lookahead = 1 /\ last_interval_pos = NULL
  /\ kw_matches = {}
  /\ thread = NULL
  /\ thread_pool = <<1>> /\ active_threads = <<>> /\ next_threads = <<>>
  /\ nthreads = 1
  /\ th = [t \in 1..MaxThreads |-> FreshThread(prog)]
  /\ sp = [i \in 0..(prog.nids - 1) |-> NULL]
  /\ iter = [n \in 1..Len(prog.nodes) |-> IF Node(n).type = "INTERVAL" THEN -1 ELSE 0]
  /\ todo = <<>> /\ dst = "active"
  /\ match = NoMatch /\ match_found = FALSE /\ current_run = FALSE /\ out = <<>>

-----------------------------------------------------------------------------
(* Reading a line and the prologue of run_nfa.                              *)

\* find_keyword_start_pos: the first keyword, or the byte behind the EOL symbol
\* when there is none.
FirstStarts(l) ==
  IF ~Prefiltered THEN {[beg |-> 1, left |-> {}]}
  ELSE IF KeywordMatches(l) = {} THEN {[beg |-> Len(l) + 2, left |-> {}]}
  ELSE Taken(KeywordMatches(l))

\* getline, reset_scanner, reset_nfa_sim, and run_nfa up to its main loop.
ReadLine(l) ==
  /\ pc = "idle"
  /\ nlines < MaxLines
  /\ nlines' = nlines + 1
  /\ mem' = [a \in 1..BufCap |-> IF a <= Len(l) THEN l[a]
                                 ELSE IF a = Len(l) + 1 THEN EOL
                                 ELSE IF a = Len(l) + 2 THEN NUL
                                 ELSE mem[a]]
  /\ eol' = Len(l) + 1
  /\ \E first \in FirstStarts(l) :
       /\ cur_pos' = first.beg /\ input_pointer' = first.beg /\ lookahead' = first.beg
       /\ kw_matches' = first.left
  /\ last_interval_pos' = NULL
  /\ match' = NoMatch /\ match_found' = FALSE /\ current_run' = FALSE /\ out' = <<>>
  /\ dst' = "active"
  /\ IF Prefiltered /\ KeywordMatches(l) = {}
     THEN pc' = "release" /\ todo' = <<>>
     ELSE pc' = "prologue" /\ todo' = StartFrames
  /\ UNCHANGED <<prog, mode, thread, lists, th, sp, iter>>

\* The first sim_pool_shift; with a prefilter a line whose first keyword
\* yields no thread is given up.
FirstThread ==
  /\ pc = "prologue" /\ todo = <<>>
  /\ thread' = Front(active_threads)
  /\ active_threads' = Rest(active_threads)
  /\ pc' = IF Prefiltered /\ active_threads = <<>> THEN "release" ELSE "loop"
  /\ UNCHANGED <<input, cursor, lookahead, thread_pool, next_threads, nthreads,
                 th, sp, iter, todo, dst, result>>

-----------------------------------------------------------------------------
(* Pending calls.                                                           *)

\* The thread a start state or a clone gets: the head of the pool or, when the
\* pool is empty, a newly allocated one.
Obtainable == thread_pool # <<>> \/ nthreads < MaxThreads
IsNew      == thread_pool = <<>>
Obtained   == IF IsNew THEN nthreads + 1 ELSE Head(thread_pool)
Allocate   == nthreads' = IF IsNew THEN nthreads + 1 ELSE nthreads

Pending(op) == todo # <<>> /\ Head(todo).op = op
Call == Head(todo)

\* xmalloc fails and the program exits.
OutOfMemory ==
  /\ \/ Pending("start")
     \/ Pending("clone") /\ AcceptsRaw(Call.nfa, Char(lookahead))
  /\ ~Obtainable
  /\ pc' = "oom" /\ todo' = <<>>
  /\ UNCHANGED <<input, cursor, lookahead, thread, lists, th, sp, iter, dst, result>>

\* Mutant: load_start_states forgets to reset the match.
StartThreadKeepsMatch(t, n) ==
  [th[t] EXCEPT !.ip = n, !.status = 0, !.bref = NULL, !.tracking_backrefs = FALSE,
                !.loop = [i \in DOMAIN th[t].loop |-> 0]]

\* What load_start_states assigns; backref_match and tracking_intervals keep
\* what the thread's last use left in them.
StartThread(t, n) ==
  [th[t] EXCEPT !.ip = n, !.status = 0, !.bref = NULL, !.match = NoMatch,
                !.tracking_backrefs = FALSE,
                !.loop = [i \in DOMAIN th[t].loop |-> 0]]

\* One turn of load_start_states: a range node is tested on the spot, every
\* other node goes through load_next.
StartState ==
  /\ Pending("start") /\ Obtainable
  /\ LET n == Call.nfa
         t == Obtained
     IN
     /\ Allocate
     /\ th' = [th EXCEPT ![t] = StartThread(t, n)]
     /\ \/ /\ Node(n).type = "RANGE" /\ Char(lookahead) \in Node(n).set
           /\ thread_pool' = Rest(thread_pool)
           /\ active_threads' = Append(active_threads, t)
           /\ todo' = Tail(todo)
        \/ /\ Node(n).type = "RANGE" /\ Char(lookahead) \notin Node(n).set
           /\ thread_pool' = Append(Rest(thread_pool), t)
           /\ todo' = Tail(todo)
           /\ UNCHANGED active_threads
        \/ /\ Node(n).type # "RANGE"
           /\ thread_pool' = Rest(thread_pool)
           /\ todo' = <<Frame("load", n, t, 0, 0)>> \o Tail(todo)
           /\ UNCHANGED active_threads
  /\ UNCHANGED <<input, pc, cursor, lookahead, thread, next_threads, sp, iter, dst, result>>

\* thread_clone returns early when the literal or range cannot match.
CloneRefused ==
  /\ Pending("clone") /\ ~AcceptsRaw(Call.nfa, Char(lookahead))
  /\ todo' = Tail(todo)
  /\ UNCHANGED <<input, pc, cursor, lookahead, thread, lists, th, sp, iter, dst, result>>

\* Mutant: thread_clone does not copy the loop counts.
ClonedThreadKeepsLoops(t, sim, n) ==
  [ip |-> n, status |-> 0, match |-> sim.match, bref |-> NULL,
   tracking_backrefs |-> sim.tracking_backrefs, tracking_intervals |-> sim.tracking_intervals,
   loop |-> th[t].loop,
   cap  |-> IF sim.tracking_backrefs /\ ~IsNew THEN sim.cap ELSE th[t].cap]

\* The fields thread_clone copies: loop counts only from a thread that tracks
\* intervals, captures only into a thread that came from the pool.
ClonedThread(t, sim, n) ==
  [ip     |-> n,
   status |-> 0,
   match  |-> sim.match,
   bref   |-> NULL,
   tracking_backrefs  |-> sim.tracking_backrefs,
   tracking_intervals |-> sim.tracking_intervals,
   loop |-> IF sim.tracking_intervals # 0 THEN sim.loop
            ELSE IF ~IsNew /\ th[t].tracking_intervals # 0
            THEN [i \in DOMAIN sim.loop |-> 0]
            ELSE th[t].loop,
   cap  |-> IF sim.tracking_backrefs /\ ~IsNew THEN sim.cap ELSE th[t].cap]

Clone ==
  /\ Pending("clone") /\ AcceptsRaw(Call.nfa, Char(lookahead)) /\ Obtainable
  /\ Allocate
  /\ thread_pool' = Rest(thread_pool)
  /\ th' = [th EXCEPT ![Obtained] = ClonedThread(Obtained, th[Call.sim], Call.nfa)]
  /\ todo' = <<Frame("load", Call.nfa, Obtained, 0, 0)>> \o Tail(todo)
  /\ UNCHANGED <<input, pc, cursor, lookahead, thread, active_threads, next_threads,
                 sp, iter, dst, result>>

\* load_next at the two capture group nodes.
LoadCapture ==
  /\ Pending("load")
  /\ LET n == Call.nfa
         t == Call.sim
         g == Node(n).id
     IN
     /\ \/ /\ Node(n).type = "CAPTUREGRP_BEGIN"
           /\ th' = [th EXCEPT ![t].tracking_backrefs = TRUE,
                               ![t].cap[g] = [start |-> lookahead, end |-> NULL]]
        \/ /\ Node(n).type = "CAPTUREGRP_END"
           /\ th' = [th EXCEPT ![t].cap[g].end = lookahead - 1]
     /\ todo' = Adjacents(n, t) \o Tail(todo)
  /\ UNCHANGED <<input, pc, cursor, lookahead, thread, lists, sp, iter, dst, result>>

\* The calls an interval node makes: the clones for reachable[from..to-1], and
\* the thread itself for reachable[k] (both zero based, as in the code).
Each(n, t, from, to) == <<Frame("each", n, t, from, to)>>
Self(n, t, k)        == <<Frame("load", Node(n).reach[k + 1], t, 0, 0)>>
Leave(n, t)          == Each(n, t, Node(n).split + 1, Len(Node(n).reach)) \o Self(n, t, Node(n).split)

\* The repetitions of interval n that thread t has seen, the current one included.
Seen(n, t) == th[t].loop[Node(n).id] + 1

\* The assignments an interval makes to its thread, and the calls it makes.
Count(n, t, c, k) ==
  th' = [th EXCEPT ![t].loop[Node(n).id] = c, ![t].tracking_intervals = @ + k]
Make(calls) == todo' = calls \o Tail(todo)

\* Too few repetitions: repeat.
MustRepeat(n, t) ==
  /\ Seen(n, t) < Node(n).min
  /\ Count(n, t, Seen(n, t), 1)
  /\ Make(Each(n, t, 1, Node(n).split) \o Self(n, t, 0))
  /\ UNCHANGED last_interval_pos

\* Between the bounds: repeat and leave.  An interval inside a cycle that was
\* here before at this position only leaves.
MayRepeat(n, t) ==
  /\ Seen(n, t) >= Node(n).min /\ Node(n).max > 0 /\ Seen(n, t) < Node(n).max
  /\ IF Node(n).cycle /\ last_interval_pos = lookahead
     THEN /\ Count(n, t, 0, 0)
          /\ Make(Leave(n, t))
          /\ UNCHANGED last_interval_pos
     ELSE /\ Count(n, t, Seen(n, t), 1)
          /\ Make(Each(n, t, 0, Node(n).split) \o <<Frame("reset", n, t, 1, 0)>> \o Leave(n, t))
          /\ last_interval_pos' = IF Node(n).cycle THEN lookahead ELSE last_interval_pos

\* The upper bound is reached: leave.
MustLeave(n, t) ==
  /\ Seen(n, t) >= Node(n).min /\ Node(n).max > 0 /\ Seen(n, t) >= Node(n).max
  /\ Count(n, t, 0, -1)
  /\ Make(IF Node(n).cycle THEN Each(n, t, 1, Len(Node(n).reach)) \o Self(n, t, 0) ELSE Leave(n, t))
  /\ UNCHANGED last_interval_pos

\* No upper bound: repeat and leave.
Unlimited(n, t) ==
  /\ Seen(n, t) >= Node(n).min /\ Node(n).max <= 0
  /\ Count(n, t, Seen(n, t), 1)
  /\ Make(Each(n, t, 0, Node(n).split)
          \o (IF Node(n).accepts THEN <<>> ELSE <<Frame("reset", n, t, 0, 0)>>)
          \o Leave(n, t))
  /\ UNCHANGED last_interval_pos

\* load_next at an interval node.
LoadInterval ==
  /\ Pending("load") /\ Node(Call.nfa).type = "INTERVAL"
  /\ \/ MustRepeat(Call.nfa, Call.sim) \/ MayRepeat(Call.nfa, Call.sim)
     \/ MustLeave(Call.nfa, Call.sim) \/ Unlimited(Call.nfa, Call.sim)
  /\ UNCHANGED <<input, pc, cur_pos, input_pointer, kw_matches, lookahead, thread, lists,
                 sp, iter, dst, result>>

\* The count of an interval is cleared between its two loops.
ResetCount ==
  /\ Pending("reset")
  /\ th' = [th EXCEPT ![Call.sim].loop[Node(Call.nfa).id] = 0,
                      ![Call.sim].tracking_intervals = @ - Call.a]
  /\ todo' = Tail(todo)
  /\ UNCHANGED <<input, pc, cursor, lookahead, thread, lists, sp, iter, dst, result>>

\* list_set_iterator does nothing when the index is not in the list;
\* list_get_next returns NULL outside of it.
SeekTo(n, k) == IF k \in 0..(Len(Node(n).reach) - 1) THEN k ELSE iter[n]
\* Mutant: list_get_next does not look for the end of the list.
HasNextUnbounded(n, k) == k >= 0

HasNext(n, k) == k \in 0..(Len(Node(n).reach) - 1)

\* One turn of list_for_each.  The position lives in the list, not in the
\* loop: a nested loop over the same list moves it.
ForEach ==
  /\ Pending("each")
  /\ LET n  == Call.nfa
         at == SeekTo(n, Call.a)
     IN
     /\ iter' = [iter EXCEPT ![n] = IF HasNext(n, at) THEN at + 1 ELSE at]
     /\ todo' = IF HasNext(n, at) /\ at + 1 <= Call.b
                THEN <<Frame("clone", Node(n).reach[at + 1], Call.sim, 0, 0),
                       [Call EXCEPT !.a = NoSeek]>> \o Tail(todo)
                ELSE Tail(todo)
  /\ UNCHANGED <<input, pc, cursor, lookahead, thread, lists, th, sp, dst, result>>

\* A thread that reaches the accepting node joins active_threads, whatever
\* the destination list, so that it is stepped at the current position.
LoadAccepting ==
  /\ Pending("load") /\ Node(Call.nfa).type = "ACCEPTING"
  /\ th' = [th EXCEPT ![Call.sim].ip = Call.nfa, ![Call.sim].status = 0]
  /\ active_threads' = Append(active_threads, Call.sim)
  /\ todo' = Tail(todo)
  /\ UNCHANGED <<input, pc, cursor, lookahead, thread, thread_pool, next_threads, nthreads,
                 sp, iter, dst, result>>

Matchable(n) == Node(n).type \in {"ANY", "LITERAL", "RANGE", "BOL_ANCHOR", "EOL_ANCHOR",
                                  "BACKREFERENCE"}

\* The dedupe test of load_next: a thread that tracks no interval is dropped
\* when active_threads_sp says the node is already queued for this position.
Wanted(n, t) ==
  /\ th[t].tracking_intervals # 0 \/ sp[Node(n).id] # lookahead
  /\ AcceptsRaw(n, Char(lookahead))

LoadQueue ==
  /\ Pending("load") /\ Matchable(Call.nfa) /\ Wanted(Call.nfa, Call.sim)
  /\ sp' = [sp EXCEPT ![Node(Call.nfa).id] = lookahead]
  /\ th' = [th EXCEPT ![Call.sim].ip = Call.nfa, ![Call.sim].status = 0]
  /\ active_threads' = IF dst = "active" THEN Append(active_threads, Call.sim) ELSE active_threads
  /\ next_threads'   = IF dst = "next" THEN Append(next_threads, Call.sim) ELSE next_threads
  /\ todo' = Tail(todo)
  /\ UNCHANGED <<input, pc, cursor, lookahead, thread, thread_pool, nthreads, iter, dst, result>>

\* Mutant: load_next itself gives the thread back.
PoolAfterDropAlways(t) == Append(thread_pool, t)

PoolAfterDrop(t) == IF t = thread THEN thread_pool ELSE Append(thread_pool, t)

\* A thread that is not wanted ends with status -1; thread_clone and
\* load_start_states put theirs back into the pool, the stepped thread is
\* left to run_nfa.
LoadDrop ==
  /\ Pending("load") /\ Matchable(Call.nfa) /\ ~Wanted(Call.nfa, Call.sim)
  /\ th' = [th EXCEPT ![Call.sim].status = -1]
  /\ thread_pool' = PoolAfterDrop(Call.sim)
  /\ todo' = Tail(todo)
  /\ UNCHANGED <<input, pc, cursor, lookahead, thread, active_threads, next_threads, nthreads,
                 sp, iter, dst, result>>

-----------------------------------------------------------------------------
(* thread_step: every step clears the node's active_threads_sp entry.       *)

\* Mutant: thread_step leaves the mark.
UnmarkedNever(i) == sp

Unmarked(i) == [sp EXCEPT ![i] = NULL]

Stepping ==
  /\ pc = "loop" /\ thread # NULL /\ Char(input_pointer) # NUL
  /\ sp' = Unmarked(Node(th[thread].ip).id)
  /\ pc' = "switch"

Inst == Node(th[thread].ip)

\* The current character satisfies a consuming instruction.
Consumes ==
  \/ Inst.type = "ANY" /\ Input # EOL
  \/ Inst.type = "LITERAL" /\ \E c \in Inst.set : Input = Fold(c)
  \/ Inst.type = "RANGE" /\ Input # EOL /\ Input \in Inst.set

\* A consumed character extends the match and queues the successors for the
\* next position.
StepConsume ==
  /\ Stepping /\ Input # NUL /\ Consumes
  /\ th' = [th EXCEPT ![thread].match = UpdateMatch(@)]
  /\ todo' = Adjacents(th[thread].ip, thread)
  /\ dst' = "next" /\ lookahead' = cur_pos + 1
  /\ UNCHANGED <<input, cursor, thread, lists, iter, result>>

\* An anchor that holds is passed without consuming.  Behind BOL the
\* successors join the active list; behind EOL they join the next list.
StepAnchor ==
  /\ Stepping /\ Input # NUL
  /\ \/ Inst.type = "BOL_ANCHOR" /\ cur_pos = 1 /\ dst' = "active"
     \/ Inst.type = "EOL_ANCHOR" /\ Input = EOL /\ dst' = "next"
  /\ todo' = Adjacents(th[thread].ip, thread)
  /\ lookahead' = cur_pos
  /\ UNCHANGED <<input, cursor, thread, lists, th, iter, result>>

\* The captured text a back reference is compared with, one character per
\* step.  The thread keeps its place in bref between steps.
BrefAt == IF th[thread].bref = NULL THEN th[thread].cap[Inst.id].start ELSE th[thread].bref

BrefMatch == IF th[thread].bref = NULL THEN UpdateMatch(th[thread].match) ELSE th[thread].match

BrefHolds == BrefAt # NULL /\ Input = Char(BrefAt)

StepBackreference ==
  /\ Stepping /\ Input # NUL /\ Inst.type = "BACKREFERENCE"
  /\ \/ /\ BrefHolds /\ BrefAt = th[thread].cap[Inst.id].end
        /\ th' = [th EXCEPT ![thread].match = UpdateMatch(@), ![thread].bref = NULL]
        /\ todo' = Adjacents(th[thread].ip, thread)
        /\ dst' = "next" /\ lookahead' = cur_pos + 1
        /\ UNCHANGED next_threads
     \/ /\ BrefHolds /\ BrefAt # th[thread].cap[Inst.id].end
        /\ th' = [th EXCEPT ![thread].match = BrefMatch, ![thread].bref = BrefAt + 1,
                            ![thread].status = 0]
        /\ next_threads' = Append(next_threads, thread)
        /\ UNCHANGED <<todo, dst, lookahead>>
     \/ /\ ~BrefHolds
        /\ th' = [th EXCEPT ![thread].match = BrefMatch, ![thread].bref = BrefAt,
                            ![thread].status = -1]
        /\ UNCHANGED <<todo, dst, lookahead, next_threads>>
  /\ UNCHANGED <<input, cursor, thread, thread_pool, active_threads, nthreads, iter, result>>

\* The accepting node ends a match, and so does any node at the terminator.
StepAccept ==
  /\ Stepping /\ (Input = NUL \/ Inst.type = "ACCEPTING")
  /\ th' = [th EXCEPT ![thread].status = 1]
  /\ UNCHANGED <<input, cursor, lookahead, thread, lists, iter, todo, dst, result>>

StepFail ==
  /\ Stepping /\ Input # NUL
  /\ \/ Inst.type \in {"ANY", "LITERAL", "RANGE"} /\ ~Consumes
     \/ Inst.type = "BOL_ANCHOR" /\ cur_pos # 1
     \/ Inst.type = "EOL_ANCHOR" /\ Input # EOL
  /\ th' = [th EXCEPT ![thread].status = -1]
  /\ UNCHANGED <<input, cursor, lookahead, thread, lists, iter, todo, dst, result>>

-----------------------------------------------------------------------------
(* The switch on thread->status.                                            *)

\* thread = sim_pool_shift(&active_threads)
NextThread ==
  /\ thread' = Front(active_threads)
  /\ active_threads' = Rest(active_threads)

\* case MATCH.  The first match ends the search of the line unless -g or -v
\* asks for the others; only -o tracks the longest match.
SwitchMatch ==
  /\ pc = "switch" /\ todo = <<>> /\ th[thread].status = 1
  /\ match_found' = TRUE /\ current_run' = TRUE
  /\ match' = IF Individual THEN UpdateLongest(match, th[thread].match) ELSE match
  /\ \/ /\ IF Individual THEN ~mode.global ELSE ~(mode.invert \/ mode.global)
        /\ out' = IF Individual THEN Emit(match') ELSE out
        /\ pc' = "release"
        /\ UNCHANGED <<thread, lists>>
     \/ /\ IF Individual THEN mode.global ELSE mode.invert \/ mode.global
        /\ thread_pool' = Append(thread_pool, thread)
        /\ NextThread
        /\ pc' = "loop"
        /\ UNCHANGED <<out, next_threads, nthreads>>
  /\ UNCHANGED <<input, cursor, lookahead, th, sp, iter, todo, dst>>

\* case NO_MATCH: release_thread.
SwitchNoMatch ==
  /\ pc = "switch" /\ todo = <<>> /\ th[thread].status = -1
  /\ thread_pool' = Append(thread_pool, thread)
  /\ NextThread
  /\ pc' = "loop"
  /\ UNCHANGED <<input, cursor, lookahead, next_threads, nthreads, th, sp, iter, todo, dst, result>>

\* case CONTINUE: the thread is already on a list.
SwitchContinue ==
  /\ pc = "switch" /\ todo = <<>> /\ th[thread].status = 0
  /\ NextThread
  /\ pc' = "loop"
  /\ UNCHANGED <<input, cursor, lookahead, thread_pool, next_threads, nthreads, th, sp, iter,
                 todo, dst, result>>

-----------------------------------------------------------------------------
(* No thread is left at this position.                                      *)

\* swap_next_w_active, sim_pool_shift and ++cur_pos.
Advance ==
  /\ pc = "loop" /\ thread = NULL /\ Char(input_pointer) # NUL
  /\ next_threads # <<>>
  /\ thread' = Head(next_threads)
  /\ active_threads' = Tail(next_threads)
  /\ next_threads' = <<>>
  /\ cur_pos' = cur_pos + 1
  /\ UNCHANGED <<input, pc, input_pointer, last_interval_pos, kw_matches, lookahead, thread_pool,
                 nthreads, th, sp, iter, todo, dst, result>>

\* update_input_pointer: where the next attempt starts.  Behind a nonempty
\* match, with a prefilter at the next keyword that begins behind it.
NonemptyMatch == current_run /\ match.end # NULL

KeywordsLeft == IF NonemptyMatch THEN {m \in kw_matches : m.beg > match.end} ELSE kw_matches

\* Mutant: the next attempt begins at the last character of the match.
PlainStartOverlaps == IF NonemptyMatch THEN match.end ELSE input_pointer + 1

\* Mutant: an attempt without a match is repeated.
PlainStartRepeats == IF NonemptyMatch THEN match.end + 1 ELSE input_pointer

\* Mutant: an attempt without a match skips a character.
PlainStartSkips ==
  IF NonemptyMatch THEN match.end + 1
  ELSE IF Char(input_pointer) = EOL THEN input_pointer + 1 ELSE input_pointer + 2

PlainStart == IF NonemptyMatch THEN match.end + 1 ELSE input_pointer + 1

NextStarts ==
  IF ~Prefiltered THEN {[beg |-> PlainStart, left |-> {}]}
  ELSE IF KeywordsLeft = {} THEN {[beg |-> QuitPos, left |-> {}]}
  ELSE Taken(KeywordsLeft)

\* The attempt is over: report it, choose the next start and reset_thread.
Restart ==
  /\ pc = "loop" /\ thread = NULL /\ Char(input_pointer) # NUL
  /\ next_threads = <<>>
  /\ out' = IF mode.line \/ mode.invert THEN out ELSE Emit(match)
  /\ \E start \in NextStarts :
       /\ input_pointer' = start.beg /\ cur_pos' = start.beg /\ lookahead' = start.beg
       /\ kw_matches' = start.left
  /\ last_interval_pos' = NULL
  /\ current_run' = FALSE
  /\ match' = NoMatch
  /\ dst' = "active"
  /\ IF thread_pool # <<>>
     THEN pc' = "fetch" /\ todo' = StartFrames
     ELSE pc' = "fatal" /\ UNCHANGED todo
  /\ UNCHANGED <<input, thread, lists, th, sp, iter, match_found>>

\* The value reset_thread returns.
Fetch ==
  /\ pc = "fetch" /\ todo = <<>>
  /\ NextThread
  /\ pc' = "loop"
  /\ UNCHANGED <<input, cursor, lookahead, thread_pool, next_threads, nthreads, th, sp, iter,
                 todo, dst, result>>

\* The main loop ends when the input pointer is at a terminator.
EndOfLine ==
  /\ pc = "loop" /\ Char(input_pointer) = NUL
  /\ pc' = "release"
  /\ UNCHANGED <<input, cursor, lookahead, thread, lists, th, sp, iter, todo, dst, result>>

\* Mutant: the thread being stepped is forgotten.
AllThreadsButCurrent == thread_pool \o active_threads \o next_threads

AllThreads == thread_pool \o active_threads \o next_threads
              \o (IF thread = NULL THEN <<>> ELSE <<thread>>)

\* Mutant: -v reports the matching lines too.
LineSelectedAlways == mode.invert \/ (match_found /\ mode.line)

LineSelected == (~match_found /\ mode.invert) \/ (match_found /\ mode.line)

\* release_all_threads, the report of a selected line and kw_clear_matches.
\* Under -q a match ends the file; the next line read is then another file's.
Release ==
  /\ pc = "release"
  /\ thread_pool' = AllThreads
  /\ active_threads' = <<>> /\ next_threads' = <<>> /\ thread' = NULL
  /\ IF LineSelected
     THEN /\ match' = [start |-> 1, end |-> eol - 1]
          /\ out' = Emit(match')
     ELSE UNCHANGED <<match, out>>
  /\ kw_matches' = {}
  /\ pc' = "idle"
  /\ UNCHANGED <<input, cur_pos, input_pointer, last_interval_pos, lookahead, nthreads, th, sp,
                 iter, todo, dst, match_found, current_run>>

-----------------------------------------------------------------------------
Calls == \/ StartState \/ CloneRefused \/ Clone \/ LoadCapture \/ LoadInterval \/ ResetCount
         \/ ForEach \/ LoadAccepting \/ LoadQueue \/ LoadDrop \/ OutOfMemory

Steps == StepConsume \/ StepAnchor \/ StepBackreference \/ StepAccept \/ StepFail

Engine == \/ Calls \/ Steps \/ SwitchMatch \/ SwitchNoMatch \/ SwitchContinue
          \/ FirstThread \/ Advance \/ Restart \/ Fetch \/ EndOfLine \/ Release

\* main returns at the end of the input, fatal exits.
Exit ==
  /\ (pc = "idle" /\ nlines = MaxLines) \/ pc = "oom"
  /\ UNCHANGED vars

Next == Engine \/ (\E l \in Lines : ReadLine(l)) \/ Exit

Spec == Init /\ [][Next]_vars

\* The engine is a single sequential program: once a line is read it keeps
\* running.  Nothing forces a further line to be there.
FairSpec == Spec /\ WF_vars(Engine)

-----------------------------------------------------------------------------
(* Properties.                                                              *)

ThreadRec ==
  [ip : Nat, status : {-1, 0, 1}, bref : Addr,
   match : [start : Addr, end : Addr],
   tracking_intervals : Int, tracking_backrefs : BOOLEAN,
   loop : [0..(prog.nloops - 1) -> Nat],
   cap  : [0..(prog.ngroups - 1) -> [start : Addr, end : Addr \cup {QuitPos - 1}]]]

FrameRec ==
  {f \in [op : {"start", "clone", "load", "each", "reset"}, nfa : 1..Len(prog.nodes),
          sim : 0..nthreads, a : Int, b : Nat] : f.op # "start" => f.sim # NULL}

KeywordRec == [beg : 1..BufCap, kw : 1..Len(prog.kws)]

\* Every variable holds what its C declaration and its use promise: addresses
\* lie in the line buffer, list members are allocated threads, pending calls
\* name nodes of the program and, unless they are still to obtain one, a thread.
TypeOK ==
  /\ prog \in Programs /\ mode \in Modes
  /\ mem \in [1..BufCap -> Chars \cup {EOL, NUL}]
  /\ eol \in 1..(BufCap - 1) /\ nlines \in 0..MaxLines
  /\ pc \in {"idle", "prologue", "loop", "switch", "fetch", "release", "fatal", "oom"}
  /\ cur_pos \in Addr /\ input_pointer \in Addr /\ lookahead \in Addr
  /\ last_interval_pos \in Addr /\ kw_matches \subseteq KeywordRec
  /\ nthreads \in 1..MaxThreads /\ thread \in 0..nthreads
  /\ thread_pool \in Seq(1..nthreads)
  /\ active_threads \in Seq(1..nthreads) /\ next_threads \in Seq(1..nthreads)
  /\ th \in [1..MaxThreads -> ThreadRec]
  /\ sp \in [0..(prog.nids - 1) -> Addr]
  /\ iter \in [1..Len(prog.nodes) -> Int]
  /\ \A n \in 1..Len(prog.nodes) : iter[n] \in -1..Len(Node(n).reach)
  /\ todo \in Seq(FrameRec) /\ dst \in {"active", "next"}
  /\ match \in [start : Addr, end : Addr]
  /\ match_found \in BOOLEAN /\ current_run \in BOOLEAN
  /\ out \in Seq([start : Addr, end : Addr])

Elems(s) == {s[i] : i \in 1..Len(s)}
NoDup(s) == \A i, j \in 1..Len(s) : s[i] = s[j] => i = j

\* The threads whose load_next has been called and has not yet put them
\* anywhere.
LoadSims(s) == {s[i].sim : i \in {j \in 1..Len(s) : s[j].op = "load"}}
Loading == LoadSims(todo)

\* An intrusive list node has one next field: a thread that is on two lists,
\* or twice on one, would tie the lists together.  sim_pool_append is never
\* called for a thread that is on a list, whatever the program and the input.
OneHome ==
  /\ NoDup(thread_pool) /\ NoDup(active_threads) /\ NoDup(next_threads)
  /\ Elems(thread_pool) \cap Elems(active_threads) = {}
  /\ Elems(thread_pool) \cap Elems(next_threads) = {}
  /\ Elems(active_threads) \cap Elems(next_threads) = {}
  /\ Loading \cap (Elems(thread_pool) \cup Elems(active_threads) \cup Elems(next_threads)) = {}

\* release_all_threads and the releases before it lose no thread: between two
\* lines all threads ever allocated are in the pool and reset_thread's
\* "Unable to obtain an execution threads" is never reached.
PoolRestored ==
  /\ pc = "idle" => /\ Elems(thread_pool) = 1..nthreads
                    /\ active_threads = <<>> /\ next_threads = <<>>
  /\ pc # "fatal"

\* The engine never looks behind the terminator of the current line, and
\* everything it calls a match lies in the line it is searching: addresses
\* kept from an earlier, longer line in the same buffer are not used.
InLine(a) == a \in {QuitPos, NULL} \cup 1..(eol + 1)

MatchesInLine ==
  pc \notin {"idle", "oom"} =>
    /\ InLine(cur_pos) /\ InLine(input_pointer) /\ InLine(lookahead)
    /\ InLine(match.end)
    /\ \A t \in Elems(active_threads) \cup Elems(next_threads) : InLine(th[t].match.end)
    /\ \A i \in 1..Len(out) : 1 <= out[i].start /\ out[i].end <= eol

\* The matches new_match is given for one line come in the order of the text
\* and do not overlap: an attempt begins behind the previous match, and
\* update_longest_match never reaches back.
ReportsOrdered ==
  \A i \in 1..(Len(out) - 1) : out[i].end < out[i + 1].start

\* A mark in active_threads_sp makes load_next drop a thread because "its node
\* is already queued for this position".  Whenever a mark could do so, a
\* queued thread really stands at a node with that id.
MarksLive ==
  pc = "loop" /\ Char(input_pointer) # NUL =>
    \A i \in DOMAIN sp :
      sp[i] \in {cur_pos, cur_pos + 1} =>
        \E t \in Elems(active_threads) \cup Elems(next_threads) \cup ({thread} \ {NULL}) :
          Node(th[t].ip).id = i

\* load_next and its callers let a node of these types pass, whatever the next
\* character is.
Tolerant(n) == Node(n).type \in {"ANY", "BOL_ANCHOR", "EOL_ANCHOR", "BACKREFERENCE"}

IsCapture(n) == Node(n).type \in {"CAPTUREGRP_BEGIN", "CAPTUREGRP_END"}

\* From the nodes Q load_next comes to a tolerant node with the id i, through
\* captures alone.
Leads(Q, i) ==
  \A n \in Q : (Tolerant(n) /\ Node(n).id = i) \/ (IsCapture(n) /\ Elems(Node(n).reach) \cap Q # {})

\* load_start_states marks i at every attempt.
AlwaysMarked(i) ==
  \E Q \in SUBSET (1..Len(prog.nodes)) : Leads(Q, i) /\ Q \cap Elems(prog.start) # {}

\* The nodes load_start_states comes to are among S.
StartsWithin(S) ==
  /\ Elems(prog.start) \subseteq S
  /\ \A n \in S : IsCapture(n) \/ Node(n).type = "INTERVAL" => Elems(Node(n).reach) \subseteq S

\* The marks load_start_states leaves at the terminator, where nothing steps the
\* threads it queues, are overwritten at the beginning of the next line.
StartsAlike ==
  \/ Prefiltered
  \/ \E S \in SUBSET (1..Len(prog.nodes)) :
       StartsWithin(S) /\ \A n \in S : Tolerant(n) => AlwaysMarked(Node(n).id)

\* Where run_nfa searches a line to its end (-v and -g) no mark survives the
\* thread it stands for, on any line of any sequence.  An early exit does leave
\* marks behind (MCStaleMark.cfg).
MarksStayLive == MarksLive \/ ~(mode.invert \/ mode.global) \/ ~StartsAlike

\* Every attempt begins further right than the one before it, or is the last, or
\* begins at the same place with another keyword: what makes the outer loop of
\* run_nfa stop.
InputPointerAdvances ==
  [][pc = "loop" /\ pc' = "fetch" =>
       \/ input_pointer' = QuitPos
       \/ input_pointer' > input_pointer
       \/ input_pointer' = input_pointer /\ \E m \in kw_matches : m.beg = input_pointer /\ m \notin kw_matches']_vars

\* run_nfa returns for every line it is given: no cycle of the program keeps it
\* at one position, and it does not end in xmalloc's "Out of memory".
SearchReturns == (pc # "idle") ~> (pc = "idle")

=============================================================================
