---------------------------- MODULE MatchOutput ----------------------------
(***************************************************************************)
(* How reported matches reach standard output: new_match puts a label (file *)
(* name, line number) and the matched text into the buffer                 *)
(* NFASimCtrl.matches, fill_output_buffer flushes it when it is full, and  *)
(* process_file flushes what is left at the end of each file.              *)
(*                                                                         *)
(* The search itself (module Recognizer) is reduced to what this code sees *)
(* of it: lines, attempts on a line, matches in the order of the text.     *)
(* Output is a sequence of bytes.  The domain of matches is the array,     *)
(* 0..(B - 1), and whatever the last step stored behind it.  Reporting is  *)
(* not modelled under -q, where new_match does nothing.                    *)
(***************************************************************************)
EXTENDS Integers, Sequences

CONSTANTS
  B,           \* MATCH_BUFFER_SIZE
  Files,       \* file names, sequences of bytes
  Lines,       \* input lines, sequences of bytes
  FirstLine,   \* the first line of a file in which anything is reported
  MaxLines,    \* bound: lines read from one file
  MaxFiles,    \* bound: files read in one behaviour
  MaxReports,  \* bound: calls of new_match in one behaviour
  NUL          \* the byte '\0'

ASSUME SizeAssumption == B \in Nat /\ B >= 3
ASSUME NameAssumption == \A f \in Files : f \in Seq(STRING) /\ f # <<>>
ASSUME TextAssumption == Lines \subseteq Seq(STRING) /\ NUL \in STRING
ASSUME CountAssumption == FirstLine \in Nat \ {0} /\ MaxLines \in Nat /\ MaxFiles \in Nat
                          /\ MaxReports \in Nat

VARIABLES
  mode,            \* -F, -n, and what is reported: lines, or matches (-o)
  nfiles, file,    \* files opened so far, scanner->filename
  line, line_no,   \* the current line and scanner->line_no
  pos,             \* where the next attempt on the line may begin
  pc,
  matches, match_idx, last_match_end,
  begin, end,      \* the text fill_output_buffer still has to store, match.end
  flush_buffer,
  stdout,          \* bytes written by printf
  asked            \* history: the output the reports so far stand for

where  == <<mode, nfiles, file, line, line_no>>
buffer == <<matches, match_idx, last_match_end>>
vars   == <<where, pos, pc, buffer, begin, end, flush_buffer, stdout, asked>>

-----------------------------------------------------------------------------
NULL == 0
Newline == "\n"
Colon == ":"

\* name is -F, lineno -n; unit is "first" for -o and "each" for -o -g.
Mode == [name : BOOLEAN, lineno : BOOLEAN, unit : {"line", "first", "each"}]

HasNul(s) == \E i \in 1..Len(s) : s[i] = NUL

\* The characters of "%d".
DigitChar == <<"0", "1", "2", "3", "4", "5", "6", "7", "8", "9">>
Decimal[n \in Nat] ==
  IF n < 10 THEN <<DigitChar[n + 1]>> ELSE Append(Decimal[n \div 10], DigitChar[(n % 10) + 1])

\* w, the number of digits, as new_match counts them.
Width[n \in Nat] == IF n \div 10 > 0 THEN Width[n \div 10] + 1 ELSE 1

\* char matches[MATCH_BUFFER_SIZE], as the next call finds it.
Array == 0..(B - 1)
Buffer == [k \in Array |-> matches[k]]

\* m with the bytes of s stored from index at on, be it inside the array or not.
Store(m, at, s) ==
  LET stored == at..(at + Len(s) - 1)
  IN [k \in DOMAIN m \cup stored |-> IF k \in stored THEN s[k - at + 1] ELSE m[k]]

\* strncpy pads with NULs from the first NUL of its source on.
Strncpy(m, at, s) ==
  Store(m, at, [i \in 1..Len(s) |-> IF \E k \in 1..i : s[k] = NUL THEN NUL ELSE s[i]])

\* snprintf stores at most limit - 1 bytes and a NUL.
Snprintf(m, at, limit, s) ==
  Store(m, at, Append(SubSeq(s, 1, IF Len(s) < limit THEN Len(s) ELSE limit - 1), NUL))

\* printf("%s", matches)
Printed(m) == LET n == CHOOSE k \in DOMAIN m : m[k] = NUL /\ \A i \in 0..(k - 1) : m[i] # NUL
              IN [i \in 1..n |-> m[i - 1]]

NameLabel == IF mode.name THEN file \o <<Colon>> ELSE <<>>
LineLabel == IF mode.lineno THEN Decimal[line_no] \o <<Colon>> ELSE <<>>

-----------------------------------------------------------------------------
Init ==
  /\ mode \in Mode
  /\ nfiles = 0 /\ file = <<>> /\ line = <<>> /\ line_no = 0 /\ pos = 1
  /\ pc = "closed"
  /\ matches = [k \in Array |-> NUL] /\ match_idx = 0 /\ last_match_end = NULL
  /\ begin = <<>> /\ end = NULL /\ flush_buffer = FALSE
  /\ stdout = <<>> /\ asked = <<>>

\* process_file opens the next file; nothing is reported before FirstLine.
OpenFile(f) ==
  /\ pc = "closed" /\ nfiles < MaxFiles
  /\ nfiles' = nfiles + 1 /\ file' = f /\ line_no' = FirstLine - 1
  /\ pc' = "file"
  /\ UNCHANGED <<mode, line, pos, buffer, begin, end, flush_buffer, stdout, asked>>

\* getline and reset_nfa_sim, up to the first attempt.
ReadLine(l) ==
  /\ pc = "file" /\ line_no < FirstLine + MaxLines - 1
  /\ line' = l /\ line_no' = line_no + 1 /\ pos' = 1
  /\ last_match_end' = NULL /\ end' = NULL
  /\ pc' = "search"
  /\ UNCHANGED <<mode, nfiles, file, matches, match_idx, begin, flush_buffer, stdout, asked>>

\* Mutant: the end of the last match survives load_start_states.
ForgetLastMatchNot == last_match_end

\* load_start_states clears last_match_end before every attempt.
ForgetLastMatch == NULL

LoadStartStates ==
  /\ pc = "restart"
  /\ last_match_end' = ForgetLastMatch /\ end' = NULL
  /\ pc' = "search"
  /\ UNCHANGED <<where, pos, matches, match_idx, begin, flush_buffer, stdout, asked>>

\* The line has no further match to report.
EndLine ==
  /\ pc = "search"
  /\ pc' = "file"
  /\ UNCHANGED <<where, pos, buffer, begin, end, flush_buffer, stdout, asked>>

-----------------------------------------------------------------------------
(* new_match.                                                               *)

\* A match that begins where the last one ended, or right behind it, takes
\* back its newline (and its last byte).
Joined(s) ==
  IF last_match_end = NULL THEN match_idx
  ELSE IF s - last_match_end = 0 THEN match_idx - 2
  ELSE IF s - last_match_end = 1 THEN match_idx - 1
  ELSE match_idx

\* Mutant: the newline and the NUL are not counted.
TooBigTight(idx, sz) == idx + sz > B

TooBig(idx, sz) == idx + sz + 1 >= B

\* The bytes new_match wants room for: sz counts the line number by w.
Size(text) ==
  Len(text) + Len(NameLabel) + (IF mode.lineno THEN Width[line_no] + 1 ELSE 0)

\* Both labels are stored behind each other, or printed at once when label and
\* text do not fit together into an empty buffer.
Labelled(m, idx) ==
  LET named == IF mode.name THEN Snprintf(m, idx, Len(file) + 2, NameLabel) ELSE m
      at    == idx + Len(NameLabel)
  IN IF mode.lineno THEN Snprintf(named, at, Len(file) + Width[line_no] + 1, LineLabel) ELSE named

LabelEnd(idx) ==
  idx + Len(NameLabel) + (IF mode.lineno THEN Width[line_no] + 1 ELSE 0)

Reports == Len(SelectSeq(asked, LAMBDA c : c = Newline))

NewMatch(text, s, e) ==
  LET joined  == Joined(s)
      flush   == joined # 0 /\ TooBig(joined, Size(text))
      idx     == IF flush THEN 0 ELSE joined
      tooBig  == TooBig(idx, Size(text))
      flushed == stdout \o (IF flush THEN Printed(matches) ELSE <<>>)
  IN
  /\ Reports < MaxReports
  /\ asked' = asked \o NameLabel \o LineLabel \o text \o <<Newline>>
  /\ begin' = text /\ end' = e
  /\ IF tooBig
     THEN /\ stdout' = flushed \o NameLabel \o LineLabel
          /\ match_idx' = idx /\ UNCHANGED matches
          /\ flush_buffer' = (mode.name \/ mode.lineno)
     ELSE /\ stdout' = flushed
          /\ matches' = Labelled(Buffer, idx) /\ match_idx' = LabelEnd(idx)
          /\ flush_buffer' = FALSE
  /\ last_match_end' = IF flush THEN NULL ELSE last_match_end
  /\ pc' = IF TooBig(match_idx', Len(text)) THEN "chunks" ELSE "fits"
  /\ UNCHANGED where

\* -o: a match in the text not yet searched.  A search never passes a NUL.
ReportMatch ==
  /\ pc = "search" /\ mode.unit # "line"
  /\ \E s \in pos..Len(line), e \in pos..Len(line) :
       /\ s <= e /\ ~HasNul(SubSeq(line, 1, e))
       /\ NewMatch(SubSeq(line, s, e), s, e)
       /\ pos' = e + 1

\* The line is selected and not empty: it is reported as a whole, once.
ReportLine ==
  /\ pc = "search" /\ mode.unit = "line" /\ pos = 1 /\ line # <<>>
  /\ NewMatch(line, 1, Len(line))
  /\ pos' = Len(line) + 1

-----------------------------------------------------------------------------
(* fill_output_buffer.                                                      *)

\* APPEND_NEWLINE and APPEND_NULL.
LineEnd == <<Newline, NUL>>

\* What follows new_match in run_nfa.
Return == pc' = IF mode.unit = "each" THEN "restart" ELSE "file"

\* The text and its newline fit behind what is stored.
FillFits ==
  /\ pc = "fits"
  /\ LET at == match_idx + Len(begin)
         m  == Store(Strncpy(Buffer, match_idx, begin), at, LineEnd)
     IN
     /\ matches' = m
     /\ IF flush_buffer
        THEN stdout' = stdout \o Printed(m) /\ match_idx' = 0 /\ last_match_end' = NULL
        ELSE match_idx' = at + 1 /\ last_match_end' = end /\ UNCHANGED stdout
  /\ begin' = <<>>
  /\ Return
  /\ UNCHANGED <<where, pos, end, flush_buffer, asked>>

\* One turn of the loop that fills and flushes the whole buffer.
FillChunk ==
  /\ pc = "chunks" /\ Len(begin) > B - 1
  /\ matches' = Store(Strncpy(Buffer, match_idx, SubSeq(begin, 1, B - 1)), B - 1, <<NUL>>)
  /\ stdout' = stdout \o Printed(matches') /\ match_idx' = 0 /\ last_match_end' = NULL
  /\ begin' = SubSeq(begin, B, Len(begin))
  /\ UNCHANGED <<where, pos, pc, end, flush_buffer, asked>>

\* The rest, its newline and the flush.  With B - 1 bytes left the NUL is stored
\* at index B, behind the array.
FillLast ==
  /\ pc = "chunks" /\ Len(begin) <= B - 1
  /\ matches' = Store(Strncpy(Buffer, 0, begin), Len(begin), LineEnd)
  /\ stdout' = stdout \o Printed(matches') /\ match_idx' = 0 /\ last_match_end' = NULL
  /\ begin' = <<>>
  /\ Return
  /\ UNCHANGED <<where, pos, end, flush_buffer, asked>>

\* Mutant: process_file forgets the last flush.
FlushAtCloseNever == FALSE

FlushAtClose == match_idx # 0

\* The end of process_file: what is still buffered is flushed.
CloseFile ==
  /\ pc = "file"
  /\ IF FlushAtClose
     THEN stdout' = stdout \o Printed(matches) /\ match_idx' = 0 /\ last_match_end' = NULL
     ELSE UNCHANGED <<stdout, match_idx, last_match_end>>
  /\ pc' = "closed"
  /\ UNCHANGED <<where, pos, matches, begin, end, flush_buffer, asked>>

Exit ==
  /\ pc = "closed" /\ nfiles = MaxFiles
  /\ UNCHANGED vars

Next ==
  \/ \E f \in Files : OpenFile(f)
  \/ \E l \in Lines : ReadLine(l)
  \/ LoadStartStates \/ EndLine \/ ReportMatch \/ ReportLine
  \/ FillFits \/ FillChunk \/ FillLast \/ CloseFile \/ Exit

Spec == Init /\ [][Next]_vars

-----------------------------------------------------------------------------
(* Properties.                                                              *)

\* The one store behind the array: the NUL of a report of which exactly B - 1
\* bytes were left, flushed at once (recognizer.c:232-235).
NulBehindArray ==
  /\ DOMAIN matches = 0..B /\ matches[B - 1] = Newline /\ matches[B] = NUL
  /\ match_idx = 0

\* Whatever labels, matches and fill levels meet, no call of strncpy, snprintf,
\* APPEND_NEWLINE or APPEND_NULL stores outside matches[], but for that one NUL;
\* between the calls match_idx leaves room for the NUL.
TypeOK ==
  /\ pc \in {"closed", "file", "search", "restart", "fits", "chunks"}
  /\ match_idx \in 0..(B - 1)
  /\ DOMAIN matches = Array \/ NulBehindArray
  /\ last_match_end \in 0..Len(line) /\ end \in 0..Len(line) /\ pos \in 1..(Len(line) + 1)
  /\ flush_buffer \in BOOLEAN /\ mode \in Mode

\* What the current report still has to deliver.
Outstanding == IF pc \in {"fits", "chunks"} THEN begin \o <<Newline>> ELSE <<>>

\* What is stored and not yet flushed.
Stored == [i \in 1..match_idx |-> matches[i - 1]]

\* Nothing is lost, repeated, joined or reordered on the way to stdout: what was
\* printed, what is buffered and what the current report still has to store are
\* together exactly the reports, each with its labels and its newline, however
\* full the buffer was.  (A reported line that holds a NUL byte ends the
\* claim: printf stops there.)
OutputComplete == HasNul(asked) \/ stdout \o Stored \o Outstanding = asked

\* When a file is done everything reported from it is on stdout: the next
\* file's labels cannot overtake it.
FileFlushed == pc = "closed" => match_idx = 0 /\ (HasNul(asked) \/ stdout = asked)
=============================================================================
