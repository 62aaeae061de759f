---------------------------- MODULE MatchRecord ----------------------------
(***************************************************************************)
(* match_record.c: the records of one search form a circular doubly linked *)
(* list (head), the unused ones another (pool).  bm_next_match walks the   *)
(* first list; its iterator is the address of a next field, written here   *)
(* as the record that field belongs to.                                    *)
(***************************************************************************)
EXTENDS Integers, Sequences, FiniteSets

CONSTANTS MaxRecords   \* bound: records malloc can provide

ASSUME RecordAssumption == MaxRecords \in Nat

VARIABLES
  head, pool, match_count,
  next, prev, beg,      \* the fields of the records
  allocated,            \* records allocated so far
  iter, ret             \* the iterator, and what bm_next_match returned last

records == <<head, pool, match_count, next, prev, beg, allocated>>
recordVars == <<records, iter, ret>>

NULL == 0
Record == 1..MaxRecords

RecordInit ==
  /\ head = NULL /\ pool = NULL /\ match_count = 0
  /\ next = [r \in Record |-> NULL] /\ prev = [r \in Record |-> NULL]
  /\ beg = [r \in Record |-> NULL]
  /\ allocated = 0 /\ iter = NULL /\ ret = NULL

-----------------------------------------------------------------------------
\* The next and prev fields after pool's first record is taken out of its ring.
PoolNext == IF pool = NULL \/ next[pool] = pool THEN next
            ELSE [next EXCEPT ![prev[pool]] = next[pool]]
PoolPrev == IF pool = NULL \/ next[pool] = pool THEN prev
            ELSE [prev EXCEPT ![next[pool]] = prev[pool]]

\* new_match_record: a record from the pool, or a new one, joins the end of
\* the list.
NewMatchRecord(b) ==
  LET r    == IF pool = NULL THEN allocated + 1 ELSE pool
      last == PoolPrev[head]
  IN
  /\ r \in Record
  /\ allocated' = IF pool = NULL THEN allocated + 1 ELSE allocated
  /\ pool' = IF pool = NULL \/ next[pool] = pool THEN NULL ELSE next[pool]
  /\ IF head = NULL
     THEN /\ next' = [PoolNext EXCEPT ![r] = r]
          /\ prev' = [PoolPrev EXCEPT ![r] = r]
          /\ head' = r
     ELSE /\ next' = [PoolNext EXCEPT ![r] = head, ![last] = r]
          /\ prev' = [PoolPrev EXCEPT ![r] = last, ![head] = r]
          /\ UNCHANGED head
  /\ beg' = [beg EXCEPT ![r] = b]
  /\ match_count' = match_count + 1
  /\ UNCHANGED <<iter, ret>>

\* Mutant: the rings are tied at the wrong record.
SpliceAtHead ==
  /\ next' = [next EXCEPT ![prev[head]] = pool, ![prev[pool]] = head]
  /\ prev' = [prev EXCEPT ![head] = prev[pool], ![pool] = head]

\* The figure 8 that ties the list and the pool into one ring.  The code's
\* separate branch for a list of one record makes the same assignments.
Splice ==
  /\ next' = [next EXCEPT ![prev[head]] = pool, ![prev[pool]] = head]
  /\ prev' = [prev EXCEPT ![head] = prev[pool], ![pool] = prev[head]]

\* bm_clear_matches with match_record_clear.
Clear ==
  /\ IF head = NULL THEN UNCHANGED <<next, prev, pool>>
     ELSE IF pool = NULL THEN pool' = head /\ UNCHANGED <<next, prev>>
     ELSE Splice /\ UNCHANGED pool
  /\ head' = NULL /\ match_count' = 0
  /\ iter' = NULL /\ ret' = NULL
  /\ UNCHANGED <<beg, allocated>>

\* bm_next_match: the address of the next record, NULL behind the last one.
NextMatch ==
  /\ IF head = NULL THEN ret' = NULL /\ UNCHANGED iter
     ELSE IF iter = NULL THEN ret' = beg[head] /\ iter' = head
     ELSE IF next[iter] = head THEN ret' = NULL /\ iter' = NULL
     ELSE ret' = beg[next[iter]] /\ iter' = next[iter]
  /\ UNCHANGED records

-----------------------------------------------------------------------------
\* The records of the ring that begins at h, in the order of next.
Walk(h) == LET at[k \in Nat] == IF k = 0 THEN h ELSE next[at[k - 1]] IN at

Ring(h) ==
  IF h = NULL THEN <<>>
  ELSE LET n == CHOOSE k \in 1..(allocated + 1) :
                  /\ k = allocated + 1 \/ Walk(h)[k] = h
                  /\ \A i \in 1..(k - 1) : Walk(h)[i] # h
       IN [i \in 1..n |-> Walk(h)[i - 1]]

Members(s) == {s[i] : i \in 1..Len(s)}

\* Taking records from the pool, appending them and tying the rings together
\* again loses no record and mixes none up: every allocated record is on
\* exactly one of the two rings, both close, prev runs against next, and the
\* list has as many records as match_count says.
RingsWhole ==
  LET h == Ring(head)
      p == Ring(pool)
  IN
  /\ Len(h) = match_count
  /\ Members(h) \cap Members(p) = {}
  /\ Members(h) \cup Members(p) = 1..allocated
  /\ Len(h) + Len(p) = allocated
  /\ \A r \in 1..allocated : next[r] # NULL /\ prev[next[r]] = r
=============================================================================
