------------------------------- MODULE SList -------------------------------
(***************************************************************************)
(* slist.c and stack.h: singly linked lists.  Each list keeps the items it *)
(* no longer needs in a pool of its own and has one iterator, the address  *)
(* of the pointer to the next item (the list's head or the next field of   *)
(* an item) together with that item's index.                               *)
(*                                                                         *)
(* The operations are those the program calls (list_insert_at,             *)
(* list_remove_at, list_deep_copy, list_reverse, list_get_iterator and the *)
(* two list_iterate have no caller).  Items are numbers; malloc hands out  *)
(* the lowest free one.                                                    *)
(***************************************************************************)
EXTENDS Integers, Sequences, FiniteSets

CONSTANTS
  Lists,      \* all lists, model values
  Embedded,   \* those that are part of a zeroed structure (NFA.reachable)
  Stacks,     \* those used through stack.h (the parser's symbol and branch stacks)
  Data,       \* what list items point to, model values
  Matching,   \* data list_transfer_on_match moves
  MaxItems,   \* bound: items malloc can provide
  MaxIndex,   \* bound: what iter_idx may grow to on a stack, which nobody walks
  Spare       \* bound: items only list_transfer_on_match may take from malloc

ASSUME ListAssumption ==
  /\ Embedded \cup Stacks \subseteq Lists /\ Embedded \cap Stacks = {}
  /\ Matching \subseteq Data /\ 0 \notin Data   \* no NULL is put on a list
  /\ MaxItems \in Nat /\ MaxIndex \in Nat /\ Spare \in Nat

VARIABLES
  head, tail, size, iter, iter_idx, pool, pool_size,   \* the fields of each list
  next, data,                                          \* the fields of each item
  heap,      \* items not allocated
  live,      \* lists that exist
  scan,      \* the loop of list_transfer_on_match: its lists and its position
  ret,       \* the item's data the last call returned, NULL for none
  walking    \* lists a caller is walking through

chains == <<head, tail, size>>
iterator == <<iter, iter_idx>>
pools == <<pool, pool_size>>
items == <<next, data, heap>>
vars == <<chains, iterator, pools, items, live, scan, ret, walking>>

-----------------------------------------------------------------------------
NULL == 0
HeadField == -1     \* the address of the list's own head; item i stands for &i->next

Item == 1..MaxItems
Least(S) == CHOOSE x \in S : \A y \in S : x <= y

\* What the pointer at address a of list l holds.
Deref(l, a) == IF a = HeadField THEN head[l] ELSE next[a]

\* The address j steps behind a.
StepsFrom(l, a, j) ==
  LET at[i \in 0..j] == IF i = 0 THEN a ELSE Deref(l, at[i - 1]) IN at[j]

\* The items from h on, in the order of next; longer than MaxItems for a cycle.
Chain(h) ==
  LET from[k \in 0..(MaxItems + 1)] ==
        [p \in Item \cup {NULL} |-> IF k = 0 \/ p = NULL THEN <<>> ELSE <<p>> \o from[k - 1][next[p]]]
  IN from[MaxItems + 1][h]

Members(s) == {s[i] : i \in 1..Len(s)}

NoScan == [dst |-> NULL, src |-> NULL, at |-> NULL]

\* new_list gives a list an iterator before its first item; a zeroed list has none.
Init ==
  /\ head = [l \in Lists |-> NULL] /\ tail = [l \in Lists |-> NULL]
  /\ size = [l \in Lists |-> 0]
  /\ iter = [l \in Lists |-> IF l \in Embedded THEN NULL ELSE HeadField]
  /\ iter_idx = [l \in Lists |-> IF l \in Embedded THEN 0 ELSE -1]
  /\ pool = [l \in Lists |-> NULL] /\ pool_size = [l \in Lists |-> 0]
  /\ next = [i \in Item |-> NULL] /\ data = [i \in Item |-> NULL] /\ heap = Item
  /\ live = Embedded \cup Stacks /\ scan = NoScan /\ ret = NULL
  /\ walking = {}

Idle == scan = NoScan

\* new_list.
Create(l) ==
  /\ Idle /\ l \notin live
  /\ live' = live \cup {l}
  /\ iter' = [iter EXCEPT ![l] = HeadField] /\ iter_idx' = [iter_idx EXCEPT ![l] = -1]
  /\ ret' = NULL
  /\ UNCHANGED <<chains, pools, items, scan, walking>>

-----------------------------------------------------------------------------
(* Items.                                                                   *)

Obtainable(l) == pool_size[l] > 0 \/ heap # {}
Spared(l) == pool_size[l] > 0 \/ Cardinality(heap) > Spare
NewItem(l) == IF pool_size[l] > 0 THEN pool[l] ELSE Least(heap)

\* new_list_item: from the list's pool, or from malloc.
TakeItem(l) ==
  IF pool_size[l] > 0
  THEN /\ pool' = [pool EXCEPT ![l] = next[pool[l]]]
       /\ pool_size' = [pool_size EXCEPT ![l] = @ - 1]
       /\ UNCHANGED heap
  ELSE heap' = heap \ {NewItem(l)} /\ UNCHANGED pools

\* Mutant: tail is only set for the first item.
NewTail_FirstOnly(l, i) == IF head[l] = NULL THEN i ELSE tail[l]

\* The item that was appended is the last one.
NewTail(l, i) == i

\* The item i with data d goes behind the tail of l; nxt and dat are the links
\* and data so far.
Link(l, i, d, nxt, dat) ==
  /\ next' = IF head[l] = NULL THEN [nxt EXCEPT ![i] = NULL]
             ELSE [nxt EXCEPT ![i] = NULL, ![tail[l]] = i]
  /\ data' = [dat EXCEPT ![i] = d]

\* list_append.
Append_(l, d) ==
  /\ Idle /\ Obtainable(l) /\ Spared(l)
  /\ TakeItem(l)
  /\ LET i == NewItem(l) IN
     /\ Link(l, i, d, next, data)
     /\ head' = [head EXCEPT ![l] = IF @ = NULL THEN i ELSE @]
     /\ tail' = [tail EXCEPT ![l] = NewTail(l, i)]
  /\ iter' = [iter EXCEPT ![l] = IF head[l] = NULL THEN HeadField ELSE @]
  /\ size' = [size EXCEPT ![l] = @ + 1]
  /\ ret' = NULL
  /\ UNCHANGED <<iter_idx, live, scan, walking>>

\* list_push.
Push(l, d) ==
  /\ Idle /\ Obtainable(l) /\ Spared(l) /\ iter_idx[l] < MaxIndex
  /\ TakeItem(l)
  /\ LET i == NewItem(l) IN
     /\ next' = [next EXCEPT ![i] = head[l]] /\ data' = [data EXCEPT ![i] = d]
     /\ head' = [head EXCEPT ![l] = i]
     /\ tail' = [tail EXCEPT ![l] = IF size[l] = 0 THEN i ELSE @]
  /\ iter' = [iter EXCEPT ![l] = IF size[l] = 0 THEN HeadField ELSE @]
  /\ iter_idx' = [iter_idx EXCEPT ![l] = IF size[l] = 0 THEN 1 ELSE IF @ >= 0 THEN @ + 1 ELSE @]
  /\ size' = [size EXCEPT ![l] = @ + 1]
  /\ ret' = NULL
  /\ UNCHANGED <<live, scan, walking>>

\* Mutant: the released item replaces the pool.
PoolLink_Dropped(l) == NULL

\* release_to_pool: the item goes in front of the list's pool, and is one of
\* the list no more.
PoolLink(l) == pool[l]

\* Mutant: the size is counted down by release_to_pool and by its caller.
ReleasedSize_Twice(l) == size[l] - 2

ReleasedSize(l) == size[l] - 1

\* list_shift.
Shift(l) ==
  /\ Idle /\ head[l] # NULL
  /\ LET i == head[l] IN
     /\ ret' = data[i]
     /\ head' = [head EXCEPT ![l] = next[i]]
     /\ tail' = [tail EXCEPT ![l] = IF @ = i THEN NULL ELSE @]
     /\ next' = [next EXCEPT ![i] = PoolLink(l)]
     /\ data' = [data EXCEPT ![i] = NULL]
     /\ pool' = [pool EXCEPT ![l] = i]
  /\ iter_idx' = [iter_idx EXCEPT ![l] = @ - 1]
  /\ pool_size' = [pool_size EXCEPT ![l] = @ + 1]
  /\ size' = [size EXCEPT ![l] = ReleasedSize(l)]
  /\ UNCHANGED <<iter, heap, live, scan, walking>>

\* list_clear: chain and pool become one pool, the shorter one in front.
Clear(l) ==
  /\ Idle /\ size[l] # 0
  /\ LET first  == IF pool_size[l] = 0 \/ size[l] < pool_size[l] THEN head[l] ELSE pool[l]
         second == IF first = head[l] THEN pool[l] ELSE head[l]
         last   == Chain(first)[Len(Chain(first))]
     IN
     /\ pool' = [pool EXCEPT ![l] = first]
     /\ next' = IF pool_size[l] = 0 THEN next ELSE [next EXCEPT ![last] = second]
     /\ data' = [i \in Item |-> IF i \in Members(Chain(head[l])) THEN NULL ELSE data[i]]
  /\ head' = [head EXCEPT ![l] = NULL] /\ tail' = [tail EXCEPT ![l] = NULL]
  /\ iter' = [iter EXCEPT ![l] = HeadField] /\ iter_idx' = [iter_idx EXCEPT ![l] = -1]
  /\ pool_size' = [pool_size EXCEPT ![l] = @ + size[l]]
  /\ size' = [size EXCEPT ![l] = 0]
  /\ walking' = walking \ {l}
  /\ ret' = NULL
  /\ UNCHANGED <<heap, live, scan>>

\* list_free: chain and pool are freed, and the list with them.
Free(l) ==
  /\ Idle
  /\ LET own == Members(Chain(head[l])) \cup Members(Chain(pool[l])) IN
     /\ heap' = heap \cup own
     /\ next' = [i \in Item |-> IF i \in own THEN NULL ELSE next[i]]
     /\ data' = [i \in Item |-> IF i \in own THEN NULL ELSE data[i]]
  /\ iter' = [iter EXCEPT ![l] = HeadField] /\ iter_idx' = [iter_idx EXCEPT ![l] = -1]
  /\ live' = live \ {l}
  /\ head' = [head EXCEPT ![l] = NULL] /\ tail' = [tail EXCEPT ![l] = NULL]
  /\ size' = [size EXCEPT ![l] = 0]
  /\ pool' = [pool EXCEPT ![l] = NULL] /\ pool_size' = [pool_size EXCEPT ![l] = 0]
  /\ walking' = walking \ {l}
  /\ ret' = NULL
  /\ UNCHANGED <<scan>>

-----------------------------------------------------------------------------
(* Moving items between lists.                                              *)

\* list_chop: the first k items become the new list c.  The iterator of l is
\* left as it is.
Chop(l, c, k) ==
  /\ Idle /\ head[l] # NULL /\ k >= 1 /\ c \notin live
  /\ LET all  == k >= size[l]
         last == StepsFrom(l, HeadField, k)
     IN
     /\ head' = [head EXCEPT ![c] = head[l], ![l] = IF all THEN NULL ELSE next[last]]
     /\ tail' = [tail EXCEPT ![c] = IF all THEN tail[l] ELSE last, ![l] = IF all THEN NULL ELSE @]
     /\ size' = [size EXCEPT ![c] = IF all THEN size[l] ELSE k, ![l] = IF all THEN 0 ELSE @ - k]
     /\ next' = IF all THEN next ELSE [next EXCEPT ![last] = NULL]
  /\ iter' = [iter EXCEPT ![c] = HeadField] /\ iter_idx' = [iter_idx EXCEPT ![c] = -1]
  /\ live' = live \cup {c}
  /\ ret' = NULL
  /\ UNCHANGED <<pools, data, heap, scan, walking>>

\* list_transfer: all items of src go behind those of dst.  src is emptied
\* through its iterator.
Transfer(dst, src) ==
  /\ Idle
  /\ walking' = walking \ {dst, src}
  /\ IF head[src] = NULL THEN UNCHANGED <<chains, iterator, next>>
     ELSE /\ head' = [head EXCEPT ![dst] = IF @ = NULL THEN head[src] ELSE @, ![src] = NULL]
          /\ tail' = [tail EXCEPT ![dst] = tail[src], ![src] = NULL]
          /\ next' = [i \in Item |->
               IF i = iter[src] THEN NULL
               ELSE IF head[dst] # NULL /\ i = tail[dst] THEN head[src]
               ELSE next[i]]
          /\ size' = [size EXCEPT ![dst] = @ + size[src], ![src] = 0]
          /\ iter_idx' = [iter_idx EXCEPT ![src] = -1]
          /\ UNCHANGED iter
  /\ ret' = NULL
  /\ UNCHANGED <<pools, data, heap, live, scan>>

\* list_transfer_on_match(dst, src) begins: its pointer to a pointer starts at
\* the head.
BeginMatch(dst, src) ==
  /\ Idle
  /\ scan' = [dst |-> dst, src |-> src, at |-> HeadField]
  /\ ret' = NULL
  /\ UNCHANGED <<chains, iterator, pools, items, live, walking>>

\* The loop is running; after TailFreed it has ended but left a bad tail.
Busy == ~Idle /\ scan.at # NULL
Scanned == Deref(scan.src, scan.at)
Scanning == Busy /\ Scanned # NULL

\* An item that matches is appended to dst, unlinked and freed.
MoveMatch ==
  /\ Scanning /\ data[Scanned] \in Matching /\ Obtainable(scan.dst)
  /\ LET d == scan.dst
         s == scan.src
         old == Scanned
         i == NewItem(d)
         unlinked == IF scan.at = HeadField THEN next ELSE [next EXCEPT ![scan.at] = next[old]]
     IN
     /\ Link(d, i, data[old], [unlinked EXCEPT ![old] = NULL], [data EXCEPT ![old] = NULL])
     /\ head' = [head EXCEPT ![d] = IF @ = NULL THEN i ELSE @,
                             ![s] = IF scan.at = HeadField THEN next[old] ELSE @]
     /\ tail' = [tail EXCEPT ![d] = i]
     /\ iter' = [iter EXCEPT ![d] = IF head[d] = NULL THEN HeadField ELSE @]
     /\ size' = [size EXCEPT ![d] = @ + 1, ![s] = @ - 1]
     /\ IF pool_size[d] > 0
        THEN /\ pool' = [pool EXCEPT ![d] = next[i]]
             /\ pool_size' = [pool_size EXCEPT ![d] = @ - 1]
             /\ heap' = heap \cup {old}
        ELSE heap' = (heap \ {i}) \cup {old} /\ UNCHANGED pools
  /\ ret' = NULL
  /\ UNCHANGED <<iter_idx, live, scan, walking>>

PassItem ==
  /\ Scanning /\ data[Scanned] \notin Matching
  /\ scan' = [scan EXCEPT !.at = Scanned]
  /\ ret' = NULL
  /\ UNCHANGED <<chains, iterator, pools, items, live, walking>>

\* The end of the loop: tail is set anew only when at most one item stays.
TailAfterMatch(s) ==
  IF size[s] = 0 THEN NULL ELSE IF size[s] = 1 THEN head[s] ELSE tail[s]

\* Two items stay and tail is left on a freed one.
TailFreed(s) == size[s] > 1 /\ tail[s] \in heap

EndMatch ==
  /\ Busy /\ Scanned = NULL
  /\ LET s == scan.src IN
     /\ tail' = [tail EXCEPT ![s] = TailAfterMatch(s)]
     /\ next' = [i \in Item |-> IF i = iter[s] /\ size[s] = 0 THEN NULL
                                ELSE IF i = iter[s] /\ size[s] = 1 THEN head[s] ELSE next[i]]
     /\ iter_idx' = [iter_idx EXCEPT ![s] = IF size[s] = 0 THEN -1 ELSE IF size[s] = 1 THEN 0 ELSE @]
  /\ scan' = IF TailFreed(scan.src) THEN [scan EXCEPT !.at = NULL] ELSE NoScan
  /\ ret' = NULL
  /\ UNCHANGED <<head, size, iter, pools, data, heap, live, walking>>

-----------------------------------------------------------------------------
(* The iterator and the other queries.                                      *)

\* The walk starts over at the head.
Restart(l, k) == iter_idx[l] > k \/ iter_idx[l] < 0

\* Mutant: the loop ends one step early.
StepCount_Short(i, k) == IF i < k THEN k - i - 1 ELSE 0

\* The steps from index i to index k.
StepCount(i, k) == k - i

\* list_set_iterator.
SetIterator(l, k) ==
  /\ Idle
  /\ IF head[l] = NULL \/ k >= size[l]
     THEN UNCHANGED <<iterator, walking>>
     ELSE /\ walking' = walking \cup {l}
          /\ IF iter_idx[l] = k THEN UNCHANGED iterator
             ELSE LET a == IF Restart(l, k) THEN HeadField ELSE iter[l]
                      i == IF Restart(l, k) THEN 0 ELSE iter_idx[l]
                  IN /\ iter' = [iter EXCEPT ![l] = StepsFrom(l, a, StepCount(i, k))]
                     /\ iter_idx' = [iter_idx EXCEPT ![l] = k]
  /\ ret' = NULL
  /\ UNCHANGED <<chains, pools, items, live, scan>>

\* list_get_next: at index 0 the head is taken, whatever the iterator holds.
GetNext(l) ==
  /\ Idle
  /\ IF head[l] = NULL \/ iter_idx[l] >= size[l] \/ iter_idx[l] < 0
     THEN ret' = NULL /\ UNCHANGED iterator
     ELSE LET i == IF iter_idx[l] = 0 THEN head[l] ELSE Deref(l, iter[l])
          IN /\ ret' = data[i]
             /\ iter' = [iter EXCEPT ![l] = i]
             /\ iter_idx' = [iter_idx EXCEPT ![l] = @ + 1]
  /\ UNCHANGED <<chains, pools, items, live, scan, walking>>

\* list_get_at, with list_get_head and peek: the last item is found by tail.
list_get_at(l, k) ==
  IF head[l] = NULL \/ k >= size[l] THEN NULL
  ELSE IF k = 0 THEN data[head[l]]
  ELSE IF k = size[l] - 1 THEN data[tail[l]]
  ELSE data[StepsFrom(l, HeadField, k + 1)]

list_get_tail(l) == IF tail[l] = NULL THEN NULL ELSE data[tail[l]]

list_search(l, d) == IF \E i \in Members(Chain(head[l])) : data[i] = d THEN d ELSE NULL

-----------------------------------------------------------------------------
(* What the program does with its lists.  A walk is only continued on a     *)
(* list that was not changed but by appending since the walk began          *)
(* (collect_adjacencies, new_alternation_nfa, load_next); stacks are not    *)
(* walked; a list that was walked is not transferred; a list that is zeroed *)
(* memory is filled by list_append first.  list_transfer_on_match is called *)
(* with the list list_chop has just made and a new one.                     *)

Fresh(l) == iter[l] = HeadField /\ l \notin walking

StackCalls(l) ==
  \/ \E d \in Data : Push(l, d)
  \/ Shift(l)
  \/ \E c \in Lists \ Stacks, k \in 1..(size[l] + 1) : Chop(l, c, k)

ListCalls(l) ==
  \/ \E d \in Data : Append_(l, d)
  \/ (l \in walking \/ iter_idx[l] < 0) /\ GetNext(l)
  \/ \E k \in 0..size[l] : (k = 0 \/ l \in Embedded) /\ SetIterator(l, k)
  \/ l \notin Embedded /\ (Clear(l) \/ Free(l))
  \/ \E src \in live \ (Stacks \cup {l}) :
       /\ Fresh(src)
       /\ \/ iter[l] # NULL /\ Transfer(l, src)
          \/ /\ size[l] = 0 /\ l \notin walking /\ Obtainable(l) /\ BeginMatch(l, src)

\* list_transfer_on_match has left tail on a freed item.  The next call that uses
\* it is undefined; no further call is followed here (but in FrontEnd).
Astray == ~Idle /\ ~Busy /\ UNCHANGED vars

Next ==
  \/ \E l \in live : IF l \in Stacks THEN StackCalls(l) ELSE ListCalls(l)
  \/ \E l \in Lists \ (Embedded \cup Stacks) : Create(l)
  \/ MoveMatch \/ PassItem \/ EndMatch \/ Astray

Spec == Init /\ [][Next]_vars

-----------------------------------------------------------------------------
(* Properties.                                                              *)

TypeOK ==
  /\ live \subseteq Lists /\ heap \subseteq Item
  /\ \A l \in Lists :
       /\ head[l] \in Item \cup {NULL} /\ tail[l] \in Item \cup {NULL}
       /\ iter[l] \in Item \cup {NULL, HeadField} /\ pool[l] \in Item \cup {NULL}
       /\ size[l] \in 0..MaxItems /\ pool_size[l] \in 0..MaxItems /\ iter_idx[l] \in Int

\* Items move between the chains and pools of several lists, by single links
\* and whole segments at a time.  None is lost, shared or used after it was
\* freed: every allocated item is on exactly one chain or pool of one list, also
\* in the middle of list_transfer_on_match.  Both counters count.  tail, which
\* list_append, list_transfer and list_get_at take for granted, is the last
\* item of the chain, but for the source of a list_transfer_on_match that is
\* running or has left tail on the freed item it moved last (TailFreed).
ItemsHaveOneHome ==
  /\ \A l \in Lists : Len(Chain(head[l])) = size[l] /\ Len(Chain(pool[l])) = pool_size[l]
  /\ \A i \in Item \ heap :
       Cardinality({l \in Lists : i \in Members(Chain(head[l]))})
       + Cardinality({l \in Lists : i \in Members(Chain(pool[l]))}) = 1
  /\ \A l \in Lists : (Members(Chain(head[l])) \cup Members(Chain(pool[l]))) \cap heap = {}
  /\ \A l \in Lists : Idle \/ l # scan.src =>
       tail[l] = IF size[l] = 0 THEN NULL ELSE Chain(head[l])[size[l]]

Contents == [l \in Lists |-> LET c == Chain(head[l]) IN [i \in 1..Len(c) |-> data[c[i]]]]
Cursor == [l \in Lists |-> IF l \in walking THEN iter_idx[l] ELSE -1]

\* The shortcuts agree with the chain: what list_get_at finds by tail or by
\* stepping, what peek, list_get_tail and list_search find, is what the list
\* holds at that place, whatever calls came before (unless one has left tail on a
\* freed item, TailFreed).
QueriesAgree ==
  Idle => \A l \in live :
    /\ \A k \in 0..size[l] :
         list_get_at(l, k) = IF k < Len(Contents[l]) THEN Contents[l][k + 1] ELSE NULL
    /\ list_get_tail(l) = IF Contents[l] = <<>> THEN NULL ELSE Contents[l][Len(Contents[l])]
    /\ \A d \in Data : (list_search(l, d) # NULL) <=> d \in Members(Contents[l])

\* Links, pools, two counters and the iterator together behave like sequences
\* with a cursor: every operation answers what it would answer on the
\* sequence, a walk meets every item once and in order, also those appended
\* while it goes on, and a new walk starts over whatever was done to the list.
Abstract == INSTANCE ListSpec WITH contents <- Contents, cursor <- Cursor
ListsAreSequences == Abstract!Spec
=============================================================================
