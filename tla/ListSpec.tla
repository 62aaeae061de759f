------------------------------ MODULE ListSpec ------------------------------
(***************************************************************************)
(* What the callers of slist.c rely on: a list is a sequence with one      *)
(* cursor.  The cursor survives appending (collect_adjacencies appends to  *)
(* the list it walks); every other change of the list ends the walk.       *)
(***************************************************************************)
EXTENDS Integers, Sequences, SequencesExt

CONSTANTS Lists, Data, Matching, NULL

VARIABLES
  live,       \* the lists that exist
  contents,   \* the data of each list
  cursor,     \* how many items the walk of a list has passed; Unset: no walk
  ret         \* what the call answered, NULL for none

vars == <<live, contents, cursor, ret>>

Unset == -1

Init ==
  /\ live \subseteq Lists
  /\ contents = [l \in Lists |-> <<>>]
  /\ cursor = [l \in Lists |-> Unset]
  /\ ret = NULL

Became(l, s) == contents' = [contents EXCEPT ![l] = s]
EndWalk(S) == cursor' = [l \in Lists |-> IF l \in S THEN Unset ELSE cursor[l]]

Create(l) ==
  /\ ret' = NULL
  /\ live' = live \cup {l}
  /\ l \notin live
  /\ UNCHANGED <<contents, cursor>>

Append_(l, d) ==
  /\ ret' = NULL
  /\ UNCHANGED <<live, cursor>>
  /\ Became(l, Append(contents[l], d))

Push(l, d) ==
  /\ ret' = NULL
  /\ UNCHANGED live
  /\ EndWalk({l})
  /\ Became(l, <<d>> \o contents[l])

Shift(l) ==
  /\ UNCHANGED live
  /\ contents[l] # <<>>
  /\ ret' = Head(contents[l])
  /\ EndWalk({l})
  /\ Became(l, Tail(contents[l]))

\* The first k items become the list c.
Chop(l, c, k) ==
  /\ ret' = NULL
  /\ live' = live \cup {c}
  /\ c \notin live /\ contents[l] # <<>> /\ k > 0
  /\ EndWalk({l, c})
  /\ LET n == IF k < Len(contents[l]) THEN k ELSE Len(contents[l])
     IN contents' = [contents EXCEPT ![c] = SubSeq(contents[l], 1, n),
                                     ![l] = SubSeq(contents[l], n + 1, Len(contents[l]))]

Transfer(dst, src) ==
  /\ ret' = NULL
  /\ UNCHANGED live
  /\ EndWalk({dst, src})
  /\ contents' = [contents EXCEPT ![dst] = @ \o contents[src], ![src] = <<>>]

\* One item that matches moves, before those behind it.
MoveMatch(dst, src, i) ==
  /\ ret' = NULL
  /\ UNCHANGED <<live, cursor>>
  /\ contents[src][i] \in Matching
  /\ \A k \in 1..(i - 1) : contents[src][k] \notin Matching
  /\ contents' = [contents EXCEPT ![dst] = Append(@, contents[src][i]), ![src] = RemoveAt(@, i)]

Clear(l) ==
  /\ ret' = NULL
  /\ UNCHANGED live
  /\ EndWalk({l})
  /\ Became(l, <<>>)

Free(l) ==
  /\ ret' = NULL
  /\ live' = live \ {l}
  /\ EndWalk({l})
  /\ Became(l, <<>>)

\* The walk starts over at item k + 1; without one it is left as it was.
SetIterator(l, k) ==
  /\ ret' = NULL
  /\ UNCHANGED <<live, contents>>
  /\ cursor' = IF k < Len(contents[l]) THEN [cursor EXCEPT ![l] = k] ELSE cursor

GetNext(l) ==
  /\ UNCHANGED <<live, contents>>
  /\ IF cursor[l] # Unset /\ cursor[l] < Len(contents[l])
     THEN ret' = contents[l][cursor[l] + 1] /\ cursor' = [cursor EXCEPT ![l] = @ + 1]
     ELSE ret' = NULL /\ UNCHANGED cursor

Next ==
  \/ \E l \in live :
       \/ \E d \in Data : Append_(l, d) \/ Push(l, d)
       \/ Shift(l) \/ Clear(l) \/ Free(l) \/ GetNext(l)
       \/ \E k \in 0..Len(contents[l]) : SetIterator(l, k)
       \/ \E c \in Lists, k \in 1..Len(contents[l]) : Chop(l, c, k)
       \/ \E src \in live \ {l} :
            Transfer(l, src) \/ \E i \in 1..Len(contents[src]) : MoveMatch(l, src, i)
  \/ \E l \in Lists : Create(l)

Spec == Init /\ [][Next]_vars
=============================================================================
