-------------------------------- MODULE Main --------------------------------
(***************************************************************************)
(* src/main.c: the command line, the search targets, the files of a        *)
(* directory walk, the exit status.                                        *)
(*                                                                         *)
(* getopt_long and fts are external and modelled as main uses them: getopt *)
(* moves the words of argv behind its options while the options are read,  *)
(* fts returns the entries below a target one by one.  run_nfa is its      *)
(* return value, whether the line contains a match (module Recognizer),    *)
(* and the report that value leads to.  matches is the output buffer       *)
(* reduced to the reports it holds, which may reach stdout at any report   *)
(* and do so at flush_matches (module MatchOutput).  A text of the output  *)
(* is a record of label and line.                                          *)
(***************************************************************************)
EXTENDS Integers, Sequences, FiniteSets, SequencesExt

CONSTANTS
  Commands,   \* command lines: records of CommandLine
  Kind,       \* what stat and open make of every name
  Entries,    \* the names in a directory, in the order fts returns them
  Content,    \* the lines of a file
  Accepts,    \* the lines an expression matches; malformed ones have no entry
  Blank       \* the empty line

Name == DOMAIN Kind
Kinds == {"file", "link", "locked", "output", "device", "missing", "directory", "closed"}

ASSUME NameAssumption ==
  /\ Kind \in [Name -> Kinds]
  /\ IsFiniteSet(Name)
  /\ DOMAIN Entries = {f \in Name : Kind[f] \in {"directory", "closed"}}
  /\ \A f \in DOMAIN Entries : Entries[f] \in Seq(Name)
  /\ DOMAIN Content = {f \in Name : Kind[f] \in {"file", "link", "output"}}
  /\ \A f \in DOMAIN Content : Content[f] \in Seq(STRING)

VARIABLES
  argv, optind, nonopts,             \* nonopts: getopt's words already passed, [first, last)
  cfl, recurse_dirs, pattern_file_idx,
  pc,
  regex,                             \* the expression compiled from buffer
  idx, entries,                      \* next target, what fts has still to return
  file, line, file_status, status,   \* line: lines of file read so far
  matches, stdout,
  exit_code,
  command                            \* history: what the user asked for

options == <<argv, optind, nonopts, cfl, recurse_dirs, pattern_file_idx, command>>
targets == <<idx, entries>>
search  == <<file, line, file_status, status>>
output  == <<matches, stdout>>
vars    == <<options, pc, regex, targets, search, output, exit_code>>

NULL == "NULL"

-----------------------------------------------------------------------------
(* The options.                                                             *)

\* The only option with an argument is -f, and the argument may be part of the
\* word: Joined stands for any such word.
Flags == {"-F", "-g", "-h", "-i", "-n", "-o", "-q", "-r", "-s", "-v"}
Joined == "-fname"
IsOption(a) == a \in Flags \cup {"-f", Joined}

\* flags and the way the expression is given, a word or -f and a file (whose name
\* may be written behind -f at once), then the targets.  wordsFirst puts all
\* words before the options.
CommandLine == [flags : Seq(Flags), regex : STRING, by : {"word", "file", "joined"},
                targets : Seq(STRING), wordsFirst : BOOLEAN]

Opts(c) == c.flags \o (CASE c.by = "file" -> <<"-f", c.regex>>
                          [] c.by = "joined" -> <<Joined>>
                          [] OTHER -> <<>>)

Words(c) == (IF c.by = "word" THEN <<c.regex>> ELSE <<>>) \o c.targets

\* The argument vector, without argv[0].
Argv(c) == IF c.wordsFirst THEN Words(c) \o Opts(c) ELSE Opts(c) \o Words(c)

\* No word is an option to getopt; every target is a name or "-".
ASSUME CommandAssumption ==
  /\ Commands \subseteq CommandLine
  /\ \A c \in Commands : \A i \in 1..Len(Words(c)) : ~IsOption(Words(c)[i])
  /\ \A c \in Commands : c.targets \in Seq(Name \cup {"-"})

Init ==
  /\ command \in Commands /\ argv = Argv(command)
  /\ optind = 1 /\ nonopts = [first |-> 1, last |-> 1]
  /\ cfl = [line |-> TRUE, invert |-> FALSE, silent |-> FALSE, name |-> FALSE]
  /\ recurse_dirs = FALSE /\ pattern_file_idx = 0
  /\ pc = "options"
  /\ regex = NULL /\ idx = 0 /\ entries = <<>>
  /\ file = NULL /\ line = 0 /\ file_status = 0 /\ status = 0
  /\ matches = <<>> /\ stdout = <<>>
  /\ exit_code = -1

\* getopt exchanges the words it has passed with the options behind them.
Swapped ==
  LET i == nonopts.first
      j == nonopts.last
  IN SubSeq(argv, 1, i - 1) \o SubSeq(argv, j, optind - 1) \o SubSeq(argv, i, j - 1)
       \o SubSeq(argv, optind, Len(argv))

FirstWord == IF nonopts.last = optind THEN nonopts.first ELSE nonopts.first + optind - nonopts.last

NextOption ==
  CHOOSE i \in optind..(Len(argv) + 1) :
    /\ i > Len(argv) \/ IsOption(argv[i])
    /\ \A k \in optind..(i - 1) : ~IsOption(argv[k])

FlagsAfter(o) == [cfl EXCEPT !.invert = @ \/ o = "-v", !.silent = @ \/ o = "-q",
                             !.line = @ /\ o \notin {"-o", "-v"}, !.name = @ \/ o \in {"-F", "-r"}]

Exits(code) == pc' = "exit" /\ exit_code' = code

\* -f remembers the place of its argument, which later exchanges may move.
ReadOption ==
  /\ pc = "options" /\ NextOption <= Len(argv)
  /\ LET o   == argv[NextOption]
         end == NextOption + (IF o = "-f" THEN 2 ELSE 1)
     IN
     /\ argv' = Swapped /\ nonopts' = [first |-> FirstWord, last |-> NextOption]
     /\ optind' = end
     /\ cfl' = FlagsAfter(o) /\ recurse_dirs' = (recurse_dirs \/ o = "-r")
     /\ pattern_file_idx' = IF o \in {"-f", Joined} THEN end - 1 ELSE pattern_file_idx
     /\ CASE o = "-h" -> Exits(0)
          [] o = "-s" \/ end > Len(argv) + 1 -> Exits(1)
          [] OTHER -> UNCHANGED <<pc, exit_code>>
  /\ UNCHANGED <<command, regex, targets, search, output>>

\* The word behind the options is the expression, unless -f gave one.
FirstTarget(i) == IF pattern_file_idx = 0 THEN i + 1 ELSE i

EndOptions ==
  /\ pc = "options" /\ NextOption > Len(argv)
  /\ argv' = Swapped /\ optind' = FirstWord /\ idx' = FirstTarget(FirstWord)
  /\ IF idx' > Len(argv) THEN Exits(1) ELSE pc' = "regex" /\ UNCHANGED exit_code
  /\ UNCHANGED <<nonopts, cfl, recurse_dirs, pattern_file_idx, command, regex, entries, search,
                 output>>

\* The first line of a file, NULL where fopen or getline fails.
FirstLine(f) == IF f \in DOMAIN Content /\ Content[f] # <<>> THEN Content[f][1] ELSE NULL

Expression == IF pattern_file_idx = 0 THEN argv[optind] ELSE FirstLine(argv[pattern_file_idx])

\* The expression is read and compiled; a malformed one ends the program.
ReadRegex ==
  /\ pc = "regex"
  /\ regex' = Expression
  /\ IF Expression \in DOMAIN Accepts THEN pc' = "targets" /\ UNCHANGED exit_code ELSE Exits(1)
  /\ UNCHANGED <<options, targets, search, output>>

-----------------------------------------------------------------------------
(* handle_search_targets.                                                   *)

\* An entry of the walk: a name and the directories it was reached through.
Entry(f, above) == [name |-> f, above |-> above, info |-> Kind[f]]

\* fts_open, or the message that standard input cannot be searched.
OpenTarget ==
  /\ pc = "targets" /\ idx <= Len(argv)
  /\ idx' = idx + 1
  /\ IF argv[idx] = "-"
     THEN UNCHANGED <<pc, entries>>
     ELSE pc' = "walk" /\ entries' = <<Entry(argv[idx], {})>>
  /\ UNCHANGED <<options, regex, search, output, exit_code>>

CloseTarget ==
  /\ pc = "walk" /\ entries = <<>>
  /\ pc' = "targets"
  /\ UNCHANGED <<options, regex, targets, search, output, exit_code>>

Visit(kinds) == pc = "walk" /\ entries # <<>> /\ Head(entries).info \in kinds

\* FTS_F and FTS_SLNONE: process_file.  It opens with O_NOFOLLOW, so it refuses
\* every symbolic link, and what stdout is redirected to.
ProcessFile ==
  /\ Visit({"file", "link", "locked", "output"})
  /\ LET e == Head(entries) IN
     IF e.info = "file"
     THEN file' = e.name /\ line' = 0 /\ file_status' = 0 /\ pc' = "file"
     ELSE UNCHANGED <<file, line, file_status, pc>>
  /\ entries' = Tail(entries)
  /\ UNCHANGED <<options, regex, idx, status, output, exit_code>>

Loops(e) == e.name \in e.above

\* FTS_D: fts goes into the directory unless it is told to skip it.  What it
\* cannot read comes back as FTS_DNR.
EnterDirectory ==
  /\ Visit({"directory", "closed"}) /\ ~Loops(Head(entries))
  /\ LET e     == Head(entries)
         below == IF e.info = "closed" THEN <<[e EXCEPT !.info = "unread"]>>
                  ELSE [i \in DOMAIN Entries[e.name] |->
                         Entry(Entries[e.name][i], e.above \cup {e.name})]
     IN entries' = (IF recurse_dirs THEN below ELSE <<>>) \o Tail(entries)
  /\ UNCHANGED <<options, pc, regex, idx, search, output, exit_code>>

\* FTS_DEFAULT, FTS_NS, FTS_DNR and FTS_DC: a message and nothing else.
PassEntry ==
  /\ Visit({"device", "missing", "unread", "directory", "closed"})
  /\ Head(entries).info \in {"directory", "closed"} => Loops(Head(entries))
  /\ entries' = Tail(entries)
  /\ UNCHANGED <<options, pc, regex, idx, search, output, exit_code>>

-----------------------------------------------------------------------------
(* process_file.                                                            *)

Text(f, l, named) == [label |-> IF named THEN f ELSE NULL, line |-> l]

\* What new_match is asked to print for a line: with -v a line without a match,
\* by default a line with one, with -o the match (here a match is not empty).
Reported(l, hit) ==
  IF /\ ~cfl.silent /\ l # Blank
     /\ (hit => cfl.line \/ ~cfl.invert) /\ (~hit => cfl.invert)
  THEN <<Text(file, l, cfl.name)>> ELSE <<>>

\* The reports the buffer may hold when another one is added: flush_matches
\* prints all it holds, before or after.
Holding(new) == {matches \o new, new, <<>>}

Stops == file_status # 0 /\ cfl.silent

ReadLine ==
  /\ pc = "file" /\ line < Len(Content[file]) /\ ~Stops
  /\ LET l   == Content[file][line + 1]
         hit == l \in Accepts[regex]
         all == matches \o Reported(l, hit)
     IN
     /\ file_status' = file_status + (IF hit THEN 1 ELSE 0)
     /\ IF Reported(l, hit) = <<>> THEN UNCHANGED output
        ELSE \E held \in Holding(Reported(l, hit)) :
               /\ matches' = held
               /\ stdout' = stdout \o SubSeq(all, 1, Len(all) - Len(held))
  /\ line' = line + 1
  /\ UNCHANGED <<options, pc, regex, targets, file, status, exit_code>>

\* Mutant: the status of the last file counts.
AddStatusLast(s) == s

AddStatus(s) == status + s

\* Mutant: process_file forgets the last flush.
FlushAtCloseNever == FALSE

\* match_idx != 0
FlushAtClose == matches # <<>>

CloseFile ==
  /\ pc = "file" /\ (line = Len(Content[file]) \/ Stops)
  /\ IF FlushAtClose THEN matches' = <<>> /\ stdout' = stdout \o matches ELSE UNCHANGED output
  /\ status' = AddStatus(file_status)
  /\ pc' = "walk"
  /\ UNCHANGED <<options, regex, targets, file, line, file_status, exit_code>>

\* The end of main.
EndMain ==
  /\ pc = "targets" /\ idx > Len(argv)
  /\ Exits(IF status = 0 THEN 1 ELSE 0)
  /\ UNCHANGED <<options, regex, targets, search, output>>

Exited == pc = "exit" /\ UNCHANGED vars

Next ==
  \/ ReadOption \/ EndOptions \/ ReadRegex
  \/ OpenTarget \/ CloseTarget \/ ProcessFile \/ EnterDirectory \/ PassEntry
  \/ ReadLine \/ CloseFile \/ EndMain \/ Exited

Spec == Init /\ [][Next]_vars

-----------------------------------------------------------------------------
(* What the help text promises for a command line c.                        *)

Asked(c, o) == o \in Range(c.flags)

\* Command lines that getopt's exchanges leave pattern_file_idx right for, and
\* that only search: -h prints the help, -s is listed there but not accepted.
Usual(c) == /\ ~Asked(c, "-h") /\ ~Asked(c, "-s")
            /\ c.by # "joined" /\ (c.by = "file" => ~c.wordsFirst)

Wanted(c) == IF c.by = "word" THEN c.regex ELSE FirstLine(c.regex)

\* The files below a name that is reached through the directories above, in the
\* order of the walk, given those below the names in it.
Descent(c, f, above, walk) ==
  CASE Kind[f] = "file" -> <<f>>
    [] Kind[f] = "directory" /\ Asked(c, "-r") /\ f \notin above ->
         FlattenSeq([i \in DOMAIN Entries[f] |-> walk[<<Entries[f][i], above \cup {f}>>]])
    [] OTHER -> <<>>

FilesBelow(c) ==
  LET walk[d \in Name \X SUBSET Name] == Descent(c, d[1], d[2], walk)
  IN walk

TargetFiles(c, t) == IF t = "-" THEN <<>> ELSE FilesBelow(c)[<<t, {}>>]

Files(c) ==
  IF Wanted(c) \notin DOMAIN Accepts THEN <<>>
  ELSE FlattenSeq([i \in DOMAIN c.targets |-> TargetFiles(c, c.targets[i])])

IsHit(c, l) == l \in Accepts[Wanted(c)]

\* The lines c asks for: those with a match, or those without (-v).
LineAsked(c, l) == ~Asked(c, "-q") /\ (IsHit(c, l) <=> ~Asked(c, "-v"))

\* What a search of f is to show.  -r labels as -F does.
ShownLine(c, f, l) ==
  IF LineAsked(c, l) THEN <<Text(f, l, Asked(c, "-F") \/ Asked(c, "-r"))>> ELSE <<>>

Shown(c, f) == FlattenSeq([i \in DOMAIN Content[f] |-> ShownLine(c, f, Content[f][i])])

AllShown(c) == FlattenSeq([i \in DOMAIN Files(c) |-> Shown(c, Files(c)[i])])

\* c asks for an empty line of a file it searches.  new_match shows none, also
\* under -v, where the help text promises it (main.c:270; README, section 6).
EmptyLineAsked(c) ==
  \E f \in Range(Files(c)) : Blank \in Range(Content[f]) /\ LineAsked(c, Blank)

\* "Exit status is 0 if a match is found anywhere, 1 otherwise" (main.c:272):
\* whatever the options suppress or turn round, in whichever file of whichever
\* target the match is, and although -q leaves a file at its first match.
ExitTellsMatch ==
  pc = "exit" /\ Usual(command) =>
    exit_code = (IF \E f \in Range(Files(command)) : \E l \in Range(Content[f]) : IsHit(command, l)
                 THEN 0 ELSE 1)

\* What is printed is what every file has to show, file after file in the order
\* of the walk: nothing is lost in the buffer or under a later file, nothing is
\* printed under -q, and -v, -o and -r mean what they say in every combination,
\* unless an empty line is asked for.  What -r says is its name and "Recursive
\* directory search" (src/README:105); its line of the help text (main.c:268) is
\* that of -q and is not followed.
OutputIsShown ==
  Usual(command) /\ ~EmptyLineAsked(command) =>
    /\ IsPrefix(stdout \o matches, AllShown(command))
    /\ pc = "exit" => stdout = AllShown(command)
=============================================================================
