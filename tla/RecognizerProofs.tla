-------------------------- MODULE RecognizerProofs --------------------------
(***************************************************************************)
(* Proofs about Recognizer: the inductive invariant; lemmas about lists of *)
(* threads, pending calls and compiled programs; every step keeps the      *)
(* types (part 1), every thread in exactly one home (part 2), positions in *)
(* the line and attempts in order (part 3), the marks of queued nodes live *)
(* (part 4); the theorems that follow for every program, input and bound.  *)
(***************************************************************************)
EXTENDS Recognizer, TLAPS

-----------------------------------------------------------------------------
(* Part 1: types.                                                           *)

-----------------------------------------------------------------------------
(* Lists of threads.                                                        *)

\* sim_pool_append puts one more thread on a list.
LEMMA ElemsAppend ==
  ASSUME NEW S, NEW s \in Seq(S), NEW x \in S
  PROVE  /\ Append(s, x) \in Seq(S)
         /\ Elems(Append(s, x)) = Elems(s) \cup {x}
         /\ NoDup(s) /\ x \notin Elems(s) => NoDup(Append(s, x))
  BY DEF Elems, NoDup

\* sim_pool_shift takes the first thread off a list.
LEMMA ElemsTail ==
  ASSUME NEW S, NEW s \in Seq(S), s # <<>>
  PROVE  /\ Head(s) \in S /\ Tail(s) \in Seq(S)
         /\ Elems(s) = {Head(s)} \cup Elems(Tail(s))
         /\ NoDup(s) => NoDup(Tail(s)) /\ Head(s) \notin Elems(Tail(s))
<1>1. Head(s) \in S /\ Tail(s) \in Seq(S) /\ Len(s) \in Nat \ {0} /\ Len(Tail(s)) = Len(s) - 1
  OBVIOUS
<1>2. Head(s) = s[1] /\ \A i \in 1..Len(Tail(s)) : Tail(s)[i] = s[i + 1]
  OBVIOUS
<1>3. Elems(s) \subseteq {Head(s)} \cup Elems(Tail(s))
  <2> SUFFICES ASSUME NEW i \in 1..Len(s) PROVE s[i] \in {Head(s)} \cup Elems(Tail(s))
    BY DEF Elems
  <2>1. CASE i = 1
    BY <2>1, <1>2
  <2>2. CASE i # 1
    <3>1. i - 1 \in 1..Len(Tail(s)) /\ Tail(s)[i - 1] = s[i]
      BY <2>2, <1>1, <1>2
    <3> QED BY <3>1 DEF Elems
  <2> QED BY <2>1, <2>2
<1>4. {Head(s)} \cup Elems(Tail(s)) \subseteq Elems(s)
  BY <1>1, <1>2 DEF Elems
<1>5. ASSUME NoDup(s) PROVE NoDup(Tail(s)) /\ Head(s) \notin Elems(Tail(s))
  BY <1>1, <1>2, <1>5 DEF Elems, NoDup
<1> QED BY <1>1, <1>3, <1>4, <1>5

\* An empty list has no threads.
LEMMA ElemsEmpty ==
  /\ Elems(<<>>) = {} /\ NoDup(<<>>)
  /\ \A S : \A s \in Seq(S) : Elems(s) = {} => s = <<>>
  BY DEF Elems, NoDup

\* The threads of a list are among those it may hold.
LEMMA ElemsSubset ==
  ASSUME NEW S, NEW s \in Seq(S)
  PROVE  Elems(s) \subseteq S
  BY DEF Elems

\* release_all_threads joins lists.
LEMMA ElemsConcat ==
  ASSUME NEW S, NEW s \in Seq(S), NEW t \in Seq(S)
  PROVE  /\ s \o t \in Seq(S)
         /\ Elems(s \o t) = Elems(s) \cup Elems(t)
         /\ NoDup(s) /\ NoDup(t) /\ Elems(s) \cap Elems(t) = {} => NoDup(s \o t)
<1>1. s \o t \in Seq(S) /\ Len(s \o t) = Len(s) + Len(t) /\ Len(s) \in Nat /\ Len(t) \in Nat
  OBVIOUS
<1>2. /\ \A i \in 1..Len(s) : (s \o t)[i] = s[i]
      /\ \A i \in 1..Len(t) : (s \o t)[Len(s) + i] = t[i]
  OBVIOUS
<1>3. \A i \in 1..Len(s \o t) : i \in 1..Len(s) \/ i - Len(s) \in 1..Len(t)
  BY <1>1
<1>3a. \A i \in 1..Len(s \o t) : i \notin 1..Len(s) => (s \o t)[i] = t[i - Len(s)]
  BY <1>1, <1>2, <1>3
<1>4. Elems(s \o t) \subseteq Elems(s) \cup Elems(t)
  BY <1>1, <1>2, <1>3, <1>3a DEF Elems
<1>5. Elems(s) \cup Elems(t) \subseteq Elems(s \o t)
  <2>1. \A i \in 1..Len(s) : i \in 1..Len(s \o t)
    BY <1>1
  <2>2. \A i \in 1..Len(t) : Len(s) + i \in 1..Len(s \o t)
    BY <1>1
  <2> QED BY <2>1, <2>2, <1>2 DEF Elems
<1>6. ASSUME NoDup(s), NoDup(t), Elems(s) \cap Elems(t) = {} PROVE NoDup(s \o t)
  <2> SUFFICES ASSUME NEW i \in 1..Len(s \o t), NEW j \in 1..Len(s \o t),
                      (s \o t)[i] = (s \o t)[j]
               PROVE  i = j
    BY DEF NoDup
  <2>1. CASE i \in 1..Len(s) /\ j \in 1..Len(s)
    BY <2>1, <1>2, <1>6 DEF NoDup
  <2>2. CASE i \notin 1..Len(s) /\ j \notin 1..Len(s)
    <3>1. t[i - Len(s)] = t[j - Len(s)] /\ i - Len(s) \in 1..Len(t) /\ j - Len(s) \in 1..Len(t)
      BY <2>2, <1>3, <1>3a
    <3>2. i - Len(s) = j - Len(s)
      BY <3>1, <1>6 DEF NoDup
    <3> QED BY <3>2, <1>1
  <2>3. ASSUME NEW k \in 1..Len(s \o t)
        PROVE  IF k \in 1..Len(s) THEN (s \o t)[k] \in Elems(s) ELSE (s \o t)[k] \in Elems(t)
    BY <1>2, <1>3, <1>3a DEF Elems
  <2>4. (i \in 1..Len(s)) <=> (j \in 1..Len(s))
    BY <2>3, <1>6
  <2> QED BY <2>1, <2>2, <2>4
<1> QED BY <1>1, <1>4, <1>5, <1>6

\* sim_pool_shift of a list that may be empty.
LEMMA FrontRest ==
  ASSUME NEW S, NEW s \in Seq(S)
  PROVE  /\ Rest(s) \in Seq(S) /\ Elems(Rest(s)) \subseteq Elems(s)
         /\ NoDup(s) => NoDup(Rest(s))
         /\ s = <<>> => Front(s) = NULL /\ Rest(s) = <<>>
         /\ s # <<>> => /\ Front(s) = Head(s) /\ Rest(s) = Tail(s) /\ Front(s) \in S
                        /\ Elems(s) = {Front(s)} \cup Elems(Rest(s))
                        /\ NoDup(s) => Front(s) \notin Elems(Rest(s))
<1>1. CASE s = <<>>
  <2>1. Front(s) = NULL /\ Rest(s) = s
    BY <1>1 DEF Front, Rest
  <2> QED BY <1>1, <2>1
<1>2. CASE s # <<>>
  <2>1. Front(s) = Head(s) /\ Rest(s) = Tail(s)
    BY <1>2 DEF Front, Rest
  <2> QED BY <1>2, <2>1, ElemsTail
<1> QED BY <1>1, <1>2

\* A function on 1..n is a sequence of length n.
LEMMA FunctionIsSeq ==
  ASSUME NEW S, NEW n \in Nat, NEW f \in [1..n -> S]
  PROVE  f \in Seq(S) /\ Len(f) = n
  OBVIOUS

-----------------------------------------------------------------------------
(* The stack of pending calls.                                              *)

IsOnBehalf(f) == f.op \in {"clone", "each", "reset"}

\* A thread is passed to at most one pending load_next.
LoadsDistinct(s) ==
  \A i, j \in 1..Len(s) :
    s[i].op = "load" /\ s[j].op = "load" /\ s[i].sim = s[j].sim => i = j

\* What is done on behalf of a thread is done before the thread moves itself.
LoadLast(s) ==
  \A i \in 1..Len(s) : IsOnBehalf(s[i]) =>
    \E j \in 1..Len(s) : i < j /\ s[j].op = "load" /\ s[j].sim = s[i].sim

\* The calls one call makes for thread t: work on its behalf, then its own
\* load_next.
Segment(s, t) ==
  /\ Len(s) > 0
  /\ s[Len(s)].op = "load"
  /\ \A i \in 1..Len(s) : s[i].sim = t /\ (i # Len(s) => IsOnBehalf(s[i]))

\* Element access in a concatenation.
LEMMA ConcatAt ==
  ASSUME NEW F, NEW s \in Seq(F), NEW r \in Seq(F)
  PROVE  /\ s \o r \in Seq(F) /\ Len(s) \in Nat /\ Len(r) \in Nat
         /\ Len(s \o r) = Len(s) + Len(r)
         /\ \A i \in 1..Len(s) : i \in 1..Len(s \o r) /\ (s \o r)[i] = s[i]
         /\ \A i \in 1..Len(r) : Len(s) + i \in 1..Len(s \o r) /\ (s \o r)[Len(s) + i] = r[i]
         /\ \A i \in 1..Len(s \o r) :
              i \notin 1..Len(s) => i - Len(s) \in 1..Len(r) /\ (s \o r)[i] = r[i - Len(s)]
  OBVIOUS

\* Element access in a tail.
LEMMA TailAt ==
  ASSUME NEW F, NEW s \in Seq(F), s # <<>>
  PROVE  /\ Head(s) \in F /\ Tail(s) \in Seq(F) /\ Head(s) = s[1] /\ Len(s) \in Nat \ {0}
         /\ Len(Tail(s)) = Len(s) - 1
         /\ \A i \in 1..Len(Tail(s)) : i + 1 \in 1..Len(s) /\ Tail(s)[i] = s[i + 1]
         /\ \A i \in 1..Len(s) : i # 1 => i - 1 \in 1..Len(Tail(s)) /\ s[i] = Tail(s)[i - 1]
  OBVIOUS

\* A call that returns without making calls.
LEMMA FramesTail ==
  ASSUME NEW F, NEW s \in Seq(F), s # <<>>, LoadsDistinct(s), LoadLast(s)
  PROVE  /\ LoadsDistinct(Tail(s)) /\ LoadLast(Tail(s))
         /\ Head(s).op # "load" => LoadSims(Tail(s)) = LoadSims(s)
         /\ Head(s).op = "load" => /\ LoadSims(s) = {Head(s).sim} \cup LoadSims(Tail(s))
                                   /\ Head(s).sim \notin LoadSims(Tail(s))
         /\ IsOnBehalf(Head(s)) => Head(s).sim \in LoadSims(Tail(s))
<1> DEFINE r == Tail(s)
<1>1. /\ Head(s) = s[1] /\ Len(s) \in Nat \ {0} /\ Len(r) = Len(s) - 1
      /\ \A i \in 1..Len(r) : i + 1 \in 1..Len(s) /\ r[i] = s[i + 1]
      /\ \A i \in 1..Len(s) : i # 1 => i - 1 \in 1..Len(r) /\ s[i] = r[i - 1]
  BY TailAt
<1> HIDE DEF r
<1>2. LoadsDistinct(r)
  <2> SUFFICES ASSUME NEW i \in 1..Len(r), NEW j \in 1..Len(r),
                      r[i].op = "load", r[j].op = "load", r[i].sim = r[j].sim
               PROVE  i = j
    BY DEF LoadsDistinct
  <2>1. i + 1 = j + 1
    BY <1>1 DEF LoadsDistinct
  <2> QED BY <2>1, <1>1
<1>3. LoadLast(r)
  <2> SUFFICES ASSUME NEW i \in 1..Len(r), IsOnBehalf(r[i])
               PROVE  \E j \in 1..Len(r) : i < j /\ r[j].op = "load" /\ r[j].sim = r[i].sim
    BY DEF LoadLast
  <2>1. PICK j \in 1..Len(s) : i + 1 < j /\ s[j].op = "load" /\ s[j].sim = s[i + 1].sim
    BY <1>1 DEF LoadLast
  <2>2. j - 1 \in 1..Len(r) /\ r[j - 1] = s[j] /\ i < j - 1
    BY <2>1, <1>1
  <2> QED BY <2>1, <2>2, <1>1
<1>4. LoadSims(r) \subseteq LoadSims(s)
  BY <1>1 DEF LoadSims
<1>5. \A x \in LoadSims(s) : x \in LoadSims(r) \/ (Head(s).op = "load" /\ x = Head(s).sim)
  <2> SUFFICES ASSUME NEW i \in 1..Len(s), s[i].op = "load"
               PROVE  s[i].sim \in LoadSims(r) \/ (Head(s).op = "load" /\ s[i].sim = Head(s).sim)
    BY DEF LoadSims
  <2>1. CASE i = 1
    BY <2>1, <1>1
  <2>2. CASE i # 1
    BY <2>2, <1>1 DEF LoadSims
  <2> QED BY <2>1, <2>2
<1>6. ASSUME Head(s).op = "load"
      PROVE  Head(s).sim \in LoadSims(s) /\ Head(s).sim \notin LoadSims(r)
  <2>1. Head(s).sim \in LoadSims(s)
    BY <1>1, <1>6 DEF LoadSims
  <2>2. ASSUME NEW i \in 1..Len(r), r[i].op = "load", r[i].sim = Head(s).sim PROVE FALSE
    <3>1. /\ i + 1 \in 1..Len(s) /\ s[i + 1].op = "load" /\ s[i + 1].sim = s[1].sim
          /\ 1 \in 1..Len(s) /\ s[1].op = "load"
      BY <2>2, <1>1, <1>6
    <3>2. i + 1 = 1
      BY <3>1 DEF LoadsDistinct
    <3> QED BY <3>2, <1>1
  <2> QED BY <2>1, <2>2 DEF LoadSims
<1>7. ASSUME IsOnBehalf(Head(s)) PROVE Head(s).sim \in LoadSims(r)
  <2>1. PICK j \in 1..Len(s) : 1 < j /\ s[j].op = "load" /\ s[j].sim = s[1].sim
    BY <1>1, <1>7 DEF LoadLast
  <2>2. j - 1 \in 1..Len(r) /\ r[j - 1] = s[j]
    BY <2>1, <1>1
  <2> QED BY <2>1, <2>2, <1>1 DEF LoadSims
<1> QED BY <1>2, <1>3, <1>4, <1>5, <1>6, <1>7 DEF r

\* A call that is replaced by the calls it makes for a thread.
LEMMA FramesSegment ==
  ASSUME NEW F, NEW s \in Seq(F), NEW r \in Seq(F), NEW t,
         Segment(s, t), LoadsDistinct(r), LoadLast(r), t \notin LoadSims(r)
  PROVE  /\ LoadsDistinct(s \o r) /\ LoadLast(s \o r)
         /\ LoadSims(s \o r) = LoadSims(r) \cup {t}
<1> DEFINE q == s \o r
           m == Len(s)
<1>1. /\ m \in Nat \ {0} /\ Len(r) \in Nat /\ Len(q) = m + Len(r)
      /\ \A i \in 1..m : i \in 1..Len(q) /\ q[i] = s[i]
      /\ \A i \in 1..Len(r) : m + i \in 1..Len(q) /\ q[m + i] = r[i]
      /\ \A i \in 1..Len(q) : i \notin 1..m => i - m \in 1..Len(r) /\ q[i] = r[i - m]
  BY ConcatAt DEF Segment
<1>2. /\ s[m].op = "load" /\ m \in 1..m
      /\ \A i \in 1..m : s[i].sim = t /\ (s[i].op = "load" => i = m)
  BY <1>1 DEF Segment, IsOnBehalf
<1>3. \A i \in 1..Len(r) : r[i].op = "load" => r[i].sim # t
  BY DEF LoadSims
<1> HIDE DEF q, m
<1>4. LoadsDistinct(q)
  <2> SUFFICES ASSUME NEW i \in 1..Len(q), NEW j \in 1..Len(q),
                      q[i].op = "load", q[j].op = "load", q[i].sim = q[j].sim
               PROVE  i = j
    BY DEF LoadsDistinct
  <2>1. i \in 1..m <=> j \in 1..m
    BY <1>1, <1>2, <1>3
  <2>2. CASE i \in 1..m
    BY <2>1, <2>2, <1>1, <1>2
  <2>3. CASE i \notin 1..m
    <3>1. /\ i - m \in 1..Len(r) /\ q[i] = r[i - m]
          /\ j - m \in 1..Len(r) /\ q[j] = r[j - m]
      BY <2>1, <2>3, <1>1
    <3>2. i - m = j - m
      BY <3>1 DEF LoadsDistinct
    <3> QED BY <3>2, <1>1
  <2> QED BY <2>2, <2>3
<1>5. LoadLast(q)
  <2> SUFFICES ASSUME NEW i \in 1..Len(q), IsOnBehalf(q[i])
               PROVE  \E j \in 1..Len(q) : i < j /\ q[j].op = "load" /\ q[j].sim = q[i].sim
    BY DEF LoadLast
  <2>1. CASE i \in 1..m
    <3>1. i # m
      BY <2>1, <1>1, <1>2 DEF IsOnBehalf
    <3>2. i < m /\ m \in 1..Len(q) /\ q[m].op = "load" /\ q[m].sim = q[i].sim
      BY <2>1, <3>1, <1>1, <1>2
    <3> QED BY <3>2
  <2>2. CASE i \notin 1..m
    <3>1. PICK j \in 1..Len(r) : i - m < j /\ r[j].op = "load" /\ r[j].sim = r[i - m].sim
      BY <2>2, <1>1 DEF LoadLast
    <3>2. m + j \in 1..Len(q) /\ q[m + j] = r[j] /\ i < m + j /\ q[i] = r[i - m]
      BY <2>2, <3>1, <1>1
    <3> QED BY <3>1, <3>2
  <2> QED BY <2>1, <2>2
<1>6. LoadSims(q) \subseteq LoadSims(r) \cup {t}
  <2> SUFFICES ASSUME NEW i \in 1..Len(q), q[i].op = "load" PROVE q[i].sim \in LoadSims(r) \cup {t}
    BY DEF LoadSims
  <2>1. CASE i \in 1..m
    BY <2>1, <1>1, <1>2
  <2>2. CASE i \notin 1..m
    BY <2>2, <1>1 DEF LoadSims
  <2> QED BY <2>1, <2>2
<1>7. LoadSims(r) \cup {t} \subseteq LoadSims(q)
  <2>1. m \in 1..Len(q) /\ q[m].op = "load" /\ q[m].sim = t
    BY <1>1, <1>2
  <2>2. ASSUME NEW i \in 1..Len(r), r[i].op = "load" PROVE r[i].sim \in LoadSims(q)
    <3>1. m + i \in 1..Len(q) /\ q[m + i] = r[i]
      BY <1>1
    <3> QED BY <2>2, <3>1 DEF LoadSims
  <2> QED BY <2>1, <2>2 DEF LoadSims
<1> QED BY <1>4, <1>5, <1>6, <1>7 DEF q

\* A loop that goes on, or starts one more clone, for a thread that waits below.
LEMMA FramesOnBehalf ==
  ASSUME NEW F, NEW s \in Seq(F), NEW r \in Seq(F), LoadsDistinct(r), LoadLast(r),
         \A i \in 1..Len(s) : IsOnBehalf(s[i]) /\ s[i].sim \in LoadSims(r)
  PROVE  /\ LoadsDistinct(s \o r) /\ LoadLast(s \o r)
         /\ LoadSims(s \o r) = LoadSims(r)
<1> DEFINE q == s \o r
           m == Len(s)
<1>1. /\ m \in Nat /\ Len(r) \in Nat /\ Len(q) = m + Len(r)
      /\ \A i \in 1..m : i \in 1..Len(q) /\ q[i] = s[i]
      /\ \A i \in 1..Len(r) : m + i \in 1..Len(q) /\ q[m + i] = r[i]
      /\ \A i \in 1..Len(q) : i \notin 1..m => i - m \in 1..Len(r) /\ q[i] = r[i - m]
  BY ConcatAt
<1>2. \A i \in 1..m : s[i].op # "load" /\ s[i].sim \in LoadSims(r)
  BY DEF IsOnBehalf
<1> HIDE DEF q, m
<1>3. \A i \in 1..Len(q) : q[i].op = "load" => i - m \in 1..Len(r) /\ q[i] = r[i - m]
  BY <1>1, <1>2
<1>4. LoadsDistinct(q)
  <2> SUFFICES ASSUME NEW i \in 1..Len(q), NEW j \in 1..Len(q),
                      q[i].op = "load", q[j].op = "load", q[i].sim = q[j].sim
               PROVE  i = j
    BY DEF LoadsDistinct
  <2>1. i - m = j - m
    BY <1>3 DEF LoadsDistinct
  <2> QED BY <2>1, <1>1
<1>5. LoadLast(q)
  <2> SUFFICES ASSUME NEW i \in 1..Len(q), IsOnBehalf(q[i])
               PROVE  \E j \in 1..Len(q) : i < j /\ q[j].op = "load" /\ q[j].sim = q[i].sim
    BY DEF LoadLast
  <2>1. CASE i \in 1..m
    <3>1. PICK j \in 1..Len(r) : r[j].op = "load" /\ r[j].sim = s[i].sim
      BY <2>1, <1>2 DEF LoadSims
    <3>2. m + j \in 1..Len(q) /\ q[m + j] = r[j] /\ i < m + j /\ q[i] = s[i]
      BY <2>1, <3>1, <1>1
    <3> QED BY <3>1, <3>2
  <2>2. CASE i \notin 1..m
    <3>1. PICK j \in 1..Len(r) : i - m < j /\ r[j].op = "load" /\ r[j].sim = r[i - m].sim
      BY <2>2, <1>1 DEF LoadLast
    <3>2. m + j \in 1..Len(q) /\ q[m + j] = r[j] /\ i < m + j /\ q[i] = r[i - m]
      BY <2>2, <3>1, <1>1
    <3> QED BY <3>1, <3>2
  <2> QED BY <2>1, <2>2
<1>6. LoadSims(q) \subseteq LoadSims(r)
  BY <1>3 DEF LoadSims
<1>7. LoadSims(r) \subseteq LoadSims(q)
  <2> SUFFICES ASSUME NEW i \in 1..Len(r), r[i].op = "load" PROVE r[i].sim \in LoadSims(q)
    BY DEF LoadSims
  <2>1. m + i \in 1..Len(q) /\ q[m + i] = r[i]
    BY <1>1
  <2> QED BY <2>1 DEF LoadSims
<1> QED BY <1>4, <1>5, <1>6, <1>7 DEF q

\* A stack without calls on behalf of threads, or without calls at all.
LEMMA FramesFlat ==
  ASSUME NEW F, NEW s \in Seq(F), \A i \in 1..Len(s) : s[i].op = "start"
  PROVE  LoadsDistinct(s) /\ LoadLast(s) /\ LoadSims(s) = {}
  BY DEF LoadsDistinct, LoadLast, LoadSims, IsOnBehalf

-----------------------------------------------------------------------------
(* The inductive invariant: where threads are.                              *)

Listed == Elems(active_threads) \cup Elems(next_threads)

Ownership ==
  /\ OneHome
  /\ LoadsDistinct(todo) /\ LoadLast(todo)
  /\ pc # "oom" =>
       \A t \in 1..nthreads : t \in Elems(thread_pool) \cup Listed \cup Loading \cup {thread}
  /\ thread \notin Elems(thread_pool)
  /\ pc \in {"idle", "prologue", "fetch"} => thread = NULL
  /\ pc \in {"idle", "loop", "release", "oom"} => todo = <<>>
  /\ pc \in {"loop", "release"} => thread \notin Listed
  /\ pc = "switch" =>
       /\ thread # NULL
       /\ thread \notin Loading => (th[thread].status = 0 <=> thread \in Listed)
  /\ pc = "loop" /\ thread = NULL => active_threads = <<>>
  /\ pc = "idle" => active_threads = <<>>
  /\ pc \in {"idle", "prologue", "fetch"} => next_threads = <<>>
  /\ pc \in {"prologue", "fetch"} => dst = "active"
  /\ pc # "fatal"

\* Addresses: the terminator bounds every position, and whatever a thread that
\* is not in the pool has matched lies in the line.
Place == {QuitPos} \cup 1..(eol + 1)
InText(m) == m.start \in 0..eol /\ m.end \in 0..eol
Live == (1..nthreads) \ Elems(thread_pool)

Positions ==
  /\ mem[BufCap] = NUL
  /\ pc # "idle" =>
       /\ mem[eol + 1] = NUL
       /\ cur_pos \in Place /\ input_pointer \in Place /\ lookahead \in Place
       /\ \A m \in kw_matches : m.beg \in 1..eol
       /\ InText(match)
  /\ next_threads # <<>> => cur_pos \in 1..eol
  /\ todo # <<>> /\ dst = "next" => cur_pos \in 1..eol
  /\ \A t \in Live : th[t].ip \in 1..Len(prog.nodes) /\ InText(th[t].match)
  /\ \A i \in 1..Len(out) : 1 <= out[i].start /\ out[i].end <= eol

\* Attempts move to the right.  Searching excludes the last, empty attempt at
\* the string literal that update_input_pointer uses to stop the loop.
Searching == pc \in {"prologue", "loop", "switch", "fetch"} /\ input_pointer # QuitPos
FromHere(m) ==
  m = NoMatch \/ (input_pointer <= m.start /\ m.start <= m.end /\ m.end <= cur_pos)

Attempts ==
  /\ ReportsOrdered
  /\ (mode.line \/ mode.invert) /\ pc # "idle" => out = <<>>
  /\ pc = "switch" => input_pointer # QuitPos
  /\ ~Prefiltered => kw_matches = {}
  /\ Searching =>
       /\ input_pointer <= cur_pos
       /\ out # <<>> => out[Len(out)].end < input_pointer
       /\ \A m \in kw_matches : input_pointer <= m.beg
       /\ FromHere(match)
       /\ match # NoMatch => current_run
       /\ \A t \in Live : FromHere(th[t].match)

IInv == TypeOK /\ Ownership /\ Positions /\ Attempts

-----------------------------------------------------------------------------
(* Compiled programs and the calls their nodes make.                        *)

\* What ProgramAssumption says of a node.
LEMMA NodeFacts ==
  ASSUME prog \in Programs, NEW n \in 1..Len(prog.nodes)
  PROVE  /\ Len(prog.nodes) \in Nat
         /\ Node(n).type \in NodeType /\ Node(n).id \in Nat
         /\ Node(n).min \in Int /\ Node(n).max \in Int
         /\ Node(n).cycle \in BOOLEAN /\ Node(n).accepts \in BOOLEAN
         /\ Node(n).reach \in Seq(Nat) /\ Len(Node(n).reach) \in Nat
         /\ \A i \in 1..Len(Node(n).reach) : Node(n).reach[i] \in 1..Len(prog.nodes)
         /\ Node(n).type # "ACCEPTING" => Len(Node(n).reach) > 0
         /\ Node(n).type = "INTERVAL" =>
              Node(n).split \in 1..(Len(Node(n).reach) - 1) /\ Node(n).id < prog.nloops
         /\ Node(n).type \in {"CAPTUREGRP_BEGIN", "CAPTUREGRP_END", "BACKREFERENCE"} =>
              Node(n).id < prog.ngroups
         /\ prog.nids \in Nat /\ prog.nloops \in Nat /\ prog.ngroups \in Nat
<1>1. WellFormed(prog)
  BY ProgramAssumption
<1>2. prog.nodes \in Seq(NodeRec) /\ Node(n) \in NodeRec
  BY <1>1 DEF WellFormed, Node
<1>3. \A i \in 1..Len(Node(n).reach) : Node(n).reach[i] \in 1..Len(prog.nodes)
  BY <1>1 DEF WellFormed, Node
<1>4. /\ Node(n).type # "ACCEPTING" => Node(n).reach # <<>>
      /\ Node(n).type = "INTERVAL" =>
           Node(n).split \in 1..(Len(Node(n).reach) - 1) /\ Node(n).id < prog.nloops
      /\ Node(n).type \in {"CAPTUREGRP_BEGIN", "CAPTUREGRP_END", "BACKREFERENCE"} =>
           Node(n).id < prog.ngroups
      /\ prog.nids \in Nat /\ prog.nloops \in Nat /\ prog.ngroups \in Nat
  BY <1>1 DEF WellFormed, Node
<1>5. /\ Node(n).type \in NodeType /\ Node(n).id \in Nat
      /\ Node(n).min \in Int /\ Node(n).max \in Int
      /\ Node(n).cycle \in BOOLEAN /\ Node(n).accepts \in BOOLEAN
      /\ Node(n).reach \in Seq(Nat)
  BY <1>2 DEF NodeRec
<1>6. Len(prog.nodes) \in Nat
  BY <1>2
<1>7. Len(Node(n).reach) \in Nat /\ (Node(n).reach # <<>> => Len(Node(n).reach) > 0)
  BY <1>5
<1> QED BY <1>3, <1>4, <1>5, <1>6, <1>7

\* process_adjacents makes a segment of calls.
LEMMA AdjacentsSegment ==
  ASSUME prog \in Programs, nthreads \in Nat, NEW n \in 1..Len(prog.nodes),
         Node(n).type # "ACCEPTING", NEW t \in 1..nthreads
  PROVE  Adjacents(n, t) \in Seq(FrameRec) /\ Segment(Adjacents(n, t), t)
<1> DEFINE r == Node(n).reach
<1>1. /\ r \in Seq(Nat) /\ Len(r) \in Nat /\ Len(r) > 0
      /\ \A i \in 1..Len(r) : r[i] \in 1..Len(prog.nodes)
  BY NodeFacts
<1> HIDE DEF r
<1>2. Adjacents(n, t) = [i \in 1..Len(r) |-> IF i < Len(r) THEN Frame("clone", r[i + 1], t, 0, 0)
                                             ELSE Frame("load", r[1], t, 0, 0)]
  BY DEF Adjacents, r
<1>3. \A i \in 1..Len(r) : (i < Len(r) => i + 1 \in 1..Len(r)) /\ 1 \in 1..Len(r)
  BY <1>1
<1>4. \A i \in 1..Len(r) : Adjacents(n, t)[i] \in FrameRec
  BY <1>1, <1>2, <1>3 DEF FrameRec, Frame, NULL
<1>5. Len(Adjacents(n, t)) = Len(r) /\ Adjacents(n, t) \in Seq(FrameRec)
  <2>1. Adjacents(n, t) \in [1..Len(r) -> FrameRec]
    BY <1>2, <1>4
  <2> QED BY <2>1, <1>1, FunctionIsSeq
<1>6. Segment(Adjacents(n, t), t)
  <2>1. \A i \in 1..Len(r) :
          /\ Adjacents(n, t)[i].sim = t
          /\ Adjacents(n, t)[i].op = IF i < Len(r) THEN "clone" ELSE "load"
    BY <1>2 DEF Frame
  <2>2. Len(r) \in 1..Len(r) /\ \A i \in 1..Len(r) : i # Len(r) => i < Len(r)
    BY <1>1
  <2> QED BY <2>1, <2>2, <1>1, <1>5 DEF Segment, IsOnBehalf
<1> QED BY <1>5, <1>6

\* Frames stay frames when threads are added.
LEMMA FrameRecGrows ==
  ASSUME prog' = prog, nthreads \in Nat, nthreads' \in Nat, nthreads <= nthreads'
  PROVE  /\ \A s : s \in Seq(FrameRec) => s \in Seq(FrameRec')
         /\ \A s : s \in Seq(1..nthreads) => s \in Seq(1..nthreads')
  BY DEF FrameRec

OnBehalfOf(s, t) == \A i \in 1..Len(s) : IsOnBehalf(s[i]) /\ s[i].sim = t

\* Work on behalf of a thread in front of a segment of that thread.
LEMMA SegmentPrefix ==
  ASSUME NEW F, NEW s \in Seq(F), NEW r \in Seq(F), NEW t, OnBehalfOf(s, t)
  PROVE  /\ Segment(r, t) => Segment(s \o r, t)
         /\ OnBehalfOf(r, t) => OnBehalfOf(s \o r, t)
<1> DEFINE q == s \o r
           m == Len(s)
<1>1. /\ m \in Nat /\ Len(r) \in Nat /\ Len(q) = m + Len(r)
      /\ \A i \in 1..m : q[i] = s[i]
      /\ \A i \in 1..Len(r) : q[m + i] = r[i]
      /\ \A i \in 1..Len(q) : i \notin 1..m => i - m \in 1..Len(r) /\ q[i] = r[i - m]
  BY ConcatAt
<1> HIDE DEF q, m
<1>2. ASSUME OnBehalfOf(r, t) PROVE OnBehalfOf(q, t)
  <2> SUFFICES ASSUME NEW i \in 1..Len(q) PROVE IsOnBehalf(q[i]) /\ q[i].sim = t
    BY DEF OnBehalfOf
  <2>1. CASE i \in 1..m
    BY <2>1, <1>1 DEF OnBehalfOf, m
  <2>2. CASE i \notin 1..m
    BY <2>2, <1>1, <1>2 DEF OnBehalfOf
  <2> QED BY <2>1, <2>2
<1>3. ASSUME Segment(r, t) PROVE Segment(q, t)
  <2>1. Len(q) > 0 /\ q[Len(q)] = r[Len(r)]
    BY <1>1, <1>3 DEF Segment
  <2>2. ASSUME NEW i \in 1..Len(q), i \notin 1..m
        PROVE  q[i].sim = t /\ (i # Len(q) => IsOnBehalf(q[i]))
    <3>1. i - m \in 1..Len(r) /\ q[i] = r[i - m] /\ (i # Len(q) => i - m # Len(r))
      BY <2>2, <1>1
    <3> QED BY <3>1, <1>3 DEF Segment
  <2>3. ASSUME NEW i \in 1..Len(q), i \in 1..m
        PROVE  q[i].sim = t /\ IsOnBehalf(q[i])
    BY <2>3, <1>1 DEF OnBehalfOf, m
  <2> QED BY <2>1, <2>2, <2>3, <1>3 DEF Segment
<1> QED BY <1>2, <1>3 DEF q

\* The frames an interval node is unfolded into.
LEMMA IntervalPieces ==
  ASSUME prog \in Programs, nthreads \in Nat, NEW n \in 1..Len(prog.nodes),
         Node(n).type = "INTERVAL", NEW t \in 1..nthreads, NEW a \in Int, NEW b \in Nat,
         NEW k \in {0, Node(n).split}
  PROVE  /\ Each(n, t, a, b) \in Seq(FrameRec) /\ OnBehalfOf(Each(n, t, a, b), t)
         /\ <<Frame("reset", n, t, a, 0)>> \in Seq(FrameRec)
         /\ OnBehalfOf(<<Frame("reset", n, t, a, 0)>>, t)
         /\ Self(n, t, k) \in Seq(FrameRec) /\ Segment(Self(n, t, k), t)
<1>1. Frame("each", n, t, a, b) \in FrameRec /\ Frame("reset", n, t, a, 0) \in FrameRec
  BY DEF Frame, FrameRec, NULL
<1>2. Node(n).reach[k + 1] \in 1..Len(prog.nodes)
  <2>1. /\ Node(n).split \in 1..(Len(Node(n).reach) - 1) /\ Len(Node(n).reach) \in Nat
        /\ \A i \in 1..Len(Node(n).reach) : Node(n).reach[i] \in 1..Len(prog.nodes)
    BY NodeFacts
  <2>2. k + 1 \in 1..Len(Node(n).reach)
    BY <2>1
  <2> QED BY <2>1, <2>2
<1>3. Frame("load", Node(n).reach[k + 1], t, 0, 0) \in FrameRec
  BY <1>2 DEF Frame, FrameRec, NULL
<1>4. \A f \in FrameRec : <<f>> \in Seq(FrameRec) /\ Len(<<f>>) = 1 /\ <<f>>[1] = f
  OBVIOUS
<1>5. OnBehalfOf(Each(n, t, a, b), t) /\ OnBehalfOf(<<Frame("reset", n, t, a, 0)>>, t)
  BY <1>1, <1>4 DEF OnBehalfOf, Each, Frame, IsOnBehalf
<1>6. Segment(Self(n, t, k), t)
  BY <1>3, <1>4 DEF Segment, Self, Frame
<1> QED BY <1>1, <1>3, <1>4, <1>5, <1>6 DEF Each, Self

\* Every way load_next goes on at an interval node is a segment.
LEMMA IntervalSegments ==
  ASSUME prog \in Programs, nthreads \in Nat, NEW n \in 1..Len(prog.nodes),
         Node(n).type = "INTERVAL", NEW t \in 1..nthreads
  PROVE  /\ Leave(n, t) \in Seq(FrameRec) /\ Segment(Leave(n, t), t)
         /\ \A a \in Int, b \in Nat :
              /\ Each(n, t, a, b) \o Self(n, t, 0) \in Seq(FrameRec)
              /\ Segment(Each(n, t, a, b) \o Self(n, t, 0), t)
         /\ \A a, c \in Int, b \in Nat :
              /\ Each(n, t, a, b) \o <<Frame("reset", n, t, c, 0)>> \o Leave(n, t) \in Seq(FrameRec)
              /\ Segment(Each(n, t, a, b) \o <<Frame("reset", n, t, c, 0)>> \o Leave(n, t), t)
         /\ \A a \in Int, b \in Nat :
              /\ Each(n, t, a, b) \o <<>> \o Leave(n, t) \in Seq(FrameRec)
              /\ Segment(Each(n, t, a, b) \o <<>> \o Leave(n, t), t)
<1>1. /\ Node(n).split + 1 \in Int /\ Len(Node(n).reach) \in Nat
      /\ 0 \in {0, Node(n).split} /\ Node(n).split \in {0, Node(n).split}
  BY NodeFacts
<1>2. \A s, r \in Seq(FrameRec) : s \o r \in Seq(FrameRec)
  BY ConcatAt
<1>3. Leave(n, t) \in Seq(FrameRec) /\ Segment(Leave(n, t), t)
  <2> DEFINE s == Each(n, t, Node(n).split + 1, Len(Node(n).reach))
             r == Self(n, t, Node(n).split)
  <2>1. s \in Seq(FrameRec) /\ OnBehalfOf(s, t) /\ r \in Seq(FrameRec) /\ Segment(r, t)
    BY <1>1, IntervalPieces
  <2> HIDE DEF s, r
  <2>2. Segment(s \o r, t) /\ s \o r \in Seq(FrameRec)
    BY <2>1, <1>2, SegmentPrefix
  <2> QED BY <2>2 DEF Leave, s, r
<1>4. ASSUME NEW a \in Int, NEW b \in Nat
      PROVE  /\ Each(n, t, a, b) \o Self(n, t, 0) \in Seq(FrameRec)
             /\ Segment(Each(n, t, a, b) \o Self(n, t, 0), t)
  <2>1. /\ Each(n, t, a, b) \in Seq(FrameRec) /\ OnBehalfOf(Each(n, t, a, b), t)
        /\ Self(n, t, 0) \in Seq(FrameRec) /\ Segment(Self(n, t, 0), t)
    BY <1>1, IntervalPieces
  <2> QED BY <2>1, <1>2, SegmentPrefix
<1>5. ASSUME NEW a \in Int, NEW b \in Nat, NEW m \in Seq(FrameRec), OnBehalfOf(m, t)
      PROVE  /\ Each(n, t, a, b) \o m \o Leave(n, t) \in Seq(FrameRec)
             /\ Segment(Each(n, t, a, b) \o m \o Leave(n, t), t)
  <2>1. Each(n, t, a, b) \in Seq(FrameRec) /\ OnBehalfOf(Each(n, t, a, b), t)
    BY <1>1, IntervalPieces
  <2>2. Each(n, t, a, b) \o m \in Seq(FrameRec) /\ OnBehalfOf(Each(n, t, a, b) \o m, t)
    BY <2>1, <1>2, <1>5, SegmentPrefix
  <2> QED BY <2>2, <1>2, <1>3, SegmentPrefix
<1>6. \A c \in Int : <<Frame("reset", n, t, c, 0)>> \in Seq(FrameRec)
                   /\ OnBehalfOf(<<Frame("reset", n, t, c, 0)>>, t)
  BY <1>1, IntervalPieces
<1>7. <<>> \in Seq(FrameRec) /\ OnBehalfOf(<<>>, t)
  BY DEF OnBehalfOf
<1>8. \A a, c \in Int, b \in Nat :
        /\ Each(n, t, a, b) \o <<Frame("reset", n, t, c, 0)>> \o Leave(n, t) \in Seq(FrameRec)
        /\ Segment(Each(n, t, a, b) \o <<Frame("reset", n, t, c, 0)>> \o Leave(n, t), t)
  BY <1>5, <1>6
<1>9. \A a \in Int, b \in Nat :
        /\ Each(n, t, a, b) \o <<>> \o Leave(n, t) \in Seq(FrameRec)
        /\ Segment(Each(n, t, a, b) \o <<>> \o Leave(n, t), t)
  BY <1>5, <1>7
<1> QED BY <1>3, <1>4, <1>8, <1>9

-----------------------------------------------------------------------------
(* Type correctness.                                                        *)

\* What the pending call names.
LEMMA CallFacts ==
  ASSUME TypeOK, todo # <<>>
  PROVE  /\ Call \in FrameRec /\ Call.nfa \in 1..Len(prog.nodes)
         /\ Call.op \in {"start", "clone", "load", "each", "reset"}
         /\ Call.sim \in 0..nthreads /\ Call.a \in Int /\ Call.b \in Nat
         /\ Call.op # "start" => Call.sim \in 1..nthreads /\ Call.sim \in 1..MaxThreads
         /\ Tail(todo) \in Seq(FrameRec) /\ nthreads \in Nat
<1>1. Call \in FrameRec /\ Tail(todo) \in Seq(FrameRec)
  BY DEF TypeOK, Call
<1>2. nthreads \in 1..MaxThreads /\ MaxThreads \in Nat
  BY BoundAssumption DEF TypeOK
<1> QED BY <1>1, <1>2 DEF FrameRec, NULL

\* The record of a thread after the assignments the engine makes to it.
LEMMA ThreadFields ==
  ASSUME prog \in Programs, NEW r \in ThreadRec
  PROVE  /\ r.ip \in Nat /\ r.status \in {-1, 0, 1} /\ r.bref \in Addr
         /\ r.match.start \in Addr /\ r.match.end \in Addr
         /\ r.match \in [start : Addr, end : Addr]
         /\ r.tracking_intervals \in Int /\ r.tracking_backrefs \in BOOLEAN
         /\ \A i \in Nat : i < prog.nloops => i \in DOMAIN r.loop /\ r.loop[i] \in Nat
         /\ \A g \in Nat : g < prog.ngroups =>
              /\ g \in DOMAIN r.cap
              /\ r.cap[g].start \in Addr /\ r.cap[g].end \in Addr \cup {QuitPos - 1}
<1>1. prog.nloops \in Nat /\ prog.ngroups \in Nat
  BY ProgramAssumption DEF WellFormed
<1>2. /\ r.ip \in Nat /\ r.status \in {-1, 0, 1} /\ r.bref \in Addr
      /\ r.match \in [start : Addr, end : Addr] /\ r.tracking_intervals \in Int
      /\ r.loop \in [0..(prog.nloops - 1) -> Nat]
      /\ r.cap \in [0..(prog.ngroups - 1) -> [start : Addr, end : Addr \cup {QuitPos - 1}]]
  BY DEF ThreadRec
<1>3. r.tracking_backrefs \in BOOLEAN
  BY DEF ThreadRec
<1>4. r.match.start \in Addr /\ r.match.end \in Addr
  BY <1>2
<1>5. \A i \in Nat : i < prog.nloops => i \in DOMAIN r.loop /\ r.loop[i] \in Nat
  BY <1>1, <1>2
<1>6. \A g \in Nat : g < prog.ngroups => g \in DOMAIN r.cap /\ g \in 0..(prog.ngroups - 1)
  BY <1>1, <1>2
<1>7. \A g \in 0..(prog.ngroups - 1) :
        r.cap[g].start \in Addr /\ r.cap[g].end \in Addr \cup {QuitPos - 1}
  BY <1>2
<1> QED BY <1>2, <1>3, <1>4, <1>5, <1>6, <1>7

Threads == [1..MaxThreads -> ThreadRec]

\* An assignment to one field of one thread.
LEMMA ThreadsAssign ==
  ASSUME NEW f \in Threads, NEW t \in 1..MaxThreads
  PROVE  /\ \A r \in ThreadRec : [f EXCEPT ![t] = r] \in Threads
         /\ \A n \in Nat : [f EXCEPT ![t].ip = n] \in Threads
         /\ \A v \in {-1, 0, 1} : [f EXCEPT ![t].status = v] \in Threads
         /\ \A b \in Addr : [f EXCEPT ![t].bref = b] \in Threads
         /\ \A m \in [start : Addr, end : Addr] : [f EXCEPT ![t].match = m] \in Threads
         /\ \A k \in Int : [f EXCEPT ![t].tracking_intervals = k] \in Threads
         /\ [f EXCEPT ![t].tracking_backrefs = TRUE] \in Threads
         /\ \A i \in Nat, c \in Nat : [f EXCEPT ![t].loop[i] = c] \in Threads
         /\ \A g \in Nat, a \in Addr : [f EXCEPT ![t].cap[g] = [start |-> a, end |-> NULL]] \in Threads
         /\ \A g \in Nat, a \in Addr : [f EXCEPT ![t].cap[g].end = a - 1] \in Threads
<1> USE DEF Threads
<1>1. BufCap \in Nat /\ f[t] \in ThreadRec
  BY BoundAssumption
<1>2. \A r \in ThreadRec : [f EXCEPT ![t] = r] \in Threads
  OBVIOUS
<1>3. \A n \in Nat : [f[t] EXCEPT !.ip = n] \in ThreadRec
  BY <1>1 DEF ThreadRec
<1>4. \A v \in {-1, 0, 1} : [f[t] EXCEPT !.status = v] \in ThreadRec
  BY <1>1 DEF ThreadRec
<1>5. \A b \in Addr : [f[t] EXCEPT !.bref = b] \in ThreadRec
  BY <1>1 DEF ThreadRec
<1>6. \A m \in [start : Addr, end : Addr] : [f[t] EXCEPT !.match = m] \in ThreadRec
  BY <1>1 DEF ThreadRec
<1>7. \A k \in Int : [f[t] EXCEPT !.tracking_intervals = k] \in ThreadRec
  BY <1>1 DEF ThreadRec
<1>8. [f[t] EXCEPT !.tracking_backrefs = TRUE] \in ThreadRec
  BY <1>1 DEF ThreadRec
<1>9. \A i \in Nat, c \in Nat : [f[t] EXCEPT !.loop[i] = c] \in ThreadRec
  BY <1>1 DEF ThreadRec
<1>10. \A g \in Nat, a \in Addr : [f[t] EXCEPT !.cap[g] = [start |-> a, end |-> NULL]] \in ThreadRec
  BY <1>1 DEF ThreadRec, Addr
<1>11. \A a \in Addr : a - 1 \in Addr \cup {QuitPos - 1}
  BY <1>1 DEF Addr, QuitPos, NULL
<1>12. ASSUME NEW g \in Nat, NEW a \in Addr PROVE [f[t] EXCEPT !.cap[g].end = a - 1] \in ThreadRec
  <2> DEFINE D == 0..(prog.ngroups - 1)
             M == [start : Addr, end : Addr \cup {QuitPos - 1}]
  <2>1. f[t].cap \in [D -> M]
    BY <1>1 DEF ThreadRec
  <2>2. [f[t].cap EXCEPT ![g].end = a - 1] \in [D -> M]
    BY <2>1, <1>11
  <2>3. \A c \in [D -> M] : [f[t] EXCEPT !.cap = c] \in ThreadRec
    BY <1>1 DEF ThreadRec
  <2>4. [f[t] EXCEPT !.cap = [f[t].cap EXCEPT ![g].end = a - 1]] \in ThreadRec
    BY <2>2, <2>3
  <2> QED BY <2>4
<1>13. \A n \in Nat : [f EXCEPT ![t].ip = n] \in Threads
  BY <1>2, <1>3
<1>14. \A v \in {-1, 0, 1} : [f EXCEPT ![t].status = v] \in Threads
  BY <1>2, <1>4
<1>15. \A b \in Addr : [f EXCEPT ![t].bref = b] \in Threads
  BY <1>2, <1>5
<1>16. \A m \in [start : Addr, end : Addr] : [f EXCEPT ![t].match = m] \in Threads
  BY <1>2, <1>6
<1>17. \A k \in Int : [f EXCEPT ![t].tracking_intervals = k] \in Threads
  BY <1>2, <1>7
<1>18. \A i \in Nat, c \in Nat : [f EXCEPT ![t].loop[i] = c] \in Threads
  BY <1>2, <1>9
<1>19. \A g \in Nat, a \in Addr : [f EXCEPT ![t].cap[g] = [start |-> a, end |-> NULL]] \in Threads
  BY <1>2, <1>10
<1>20. \A g \in Nat, a \in Addr : [f EXCEPT ![t].cap[g].end = a - 1] \in Threads
  BY <1>2, <1>12
<1>21. [f EXCEPT ![t].tracking_backrefs = TRUE] \in Threads
  BY <1>2, <1>8
<1> HIDE DEF Threads
<1> QED BY <1>2, <1>13, <1>14, <1>15, <1>16, <1>17, <1>18, <1>19, <1>20, <1>21

\* A step that leaves the input alone and gives every other variable a value of
\* its type.
LEMMA TypeKeeps ==
  ASSUME TypeOK, UNCHANGED input,
         pc' \in {"idle", "prologue", "loop", "switch", "fetch", "release", "fatal", "oom"},
         cur_pos' \in Addr, input_pointer' \in Addr, lookahead' \in Addr,
         last_interval_pos' \in Addr, kw_matches' \subseteq KeywordRec,
         nthreads' \in 1..MaxThreads, thread' \in 0..nthreads',
         thread_pool' \in Seq(1..nthreads'), active_threads' \in Seq(1..nthreads'),
         next_threads' \in Seq(1..nthreads'), th' \in [1..MaxThreads -> ThreadRec],
         sp' \in [0..(prog.nids - 1) -> Addr], iter' \in [1..Len(prog.nodes) -> Int],
         \A n \in 1..Len(prog.nodes) : iter'[n] \in -1..Len(Node(n).reach),
         todo' \in Seq(FrameRec'), dst' \in {"active", "next"},
         match' \in [start : Addr, end : Addr],
         match_found' \in BOOLEAN, current_run' \in BOOLEAN,
         out' \in Seq([start : Addr, end : Addr])
  PROVE  TypeOK'
<1>1. ThreadRec' = ThreadRec /\ \A n : Node(n)' = Node(n)
  BY DEF ThreadRec, input, Node
<1>2. /\ prog' \in Programs /\ mode' \in Modes /\ eol' \in 1..(BufCap - 1) /\ nlines' \in 0..MaxLines
      /\ mem' \in [1..BufCap -> Chars \cup {EOL, NUL}]
  BY DEF TypeOK, input
<1>3. prog' = prog
  BY DEF input
<1>4. /\ th' \in [1..MaxThreads -> ThreadRec'] /\ iter' \in [1..Len(prog'.nodes) -> Int]
      /\ sp' \in [0..(prog'.nids - 1) -> Addr]
      /\ \A n \in 1..Len(prog'.nodes) : iter'[n] \in -1..Len(Node(n)'.reach)
  BY <1>1, <1>3
<1>5. kw_matches' \subseteq KeywordRec'
  BY <1>3 DEF KeywordRec
<1> QED BY <1>2, <1>4, <1>5, Zenon DEF TypeOK


\* The thread a start state or a clone obtains.
LEMMA ObtainFacts ==
  ASSUME TypeOK, Obtainable, Allocate
  PROVE  /\ Obtained \in 1..nthreads' /\ Obtained \in 1..MaxThreads /\ nthreads' \in 1..MaxThreads
         /\ nthreads' \in Nat /\ nthreads <= nthreads' /\ nthreads \in Nat
         /\ Rest(thread_pool) \in Seq(1..nthreads)
         /\ \A s : s \in Seq(1..nthreads) => s \in Seq(1..nthreads')
         /\ prog' = prog => \A s : s \in Seq(FrameRec) => s \in Seq(FrameRec')
<1>1. nthreads \in 1..MaxThreads /\ MaxThreads \in Nat /\ thread_pool \in Seq(1..nthreads)
  BY BoundAssumption DEF TypeOK
<1>2. Rest(thread_pool) \in Seq(1..nthreads)
  BY <1>1, FrontRest
<1>3. CASE thread_pool = <<>>
  <2>1. Obtained = nthreads + 1 /\ nthreads' = nthreads + 1 /\ nthreads < MaxThreads
    BY <1>3 DEF Obtained, Allocate, IsNew, Obtainable
  <2>2. /\ Obtained \in 1..nthreads' /\ Obtained \in 1..MaxThreads /\ nthreads' \in 1..MaxThreads
        /\ nthreads' \in Nat /\ nthreads <= nthreads' /\ nthreads \in Nat
    BY <2>1, <1>1
  <2>3. \A s : s \in Seq(1..nthreads) => s \in Seq(1..nthreads')
    BY <2>2
  <2> QED BY <2>2, <2>3, <1>2, FrameRecGrows
<1>4. CASE thread_pool # <<>>
  <2>1. Obtained = Head(thread_pool) /\ nthreads' = nthreads /\ Head(thread_pool) \in 1..nthreads
    BY <1>4, <1>1 DEF Obtained, Allocate, IsNew
  <2> QED BY <2>1, <1>1, <1>2, FrameRecGrows
<1> QED BY <1>3, <1>4

\* The two ways a thread is set up.
LEMMA SetUpThread ==
  ASSUME TypeOK, NEW t \in 1..MaxThreads, NEW u \in 1..MaxThreads, NEW n \in Nat
  PROVE  /\ StartThread(t, n) \in ThreadRec
         /\ ClonedThread(t, th[u], n) \in ThreadRec
<1>1. th[t] \in ThreadRec /\ th[u] \in ThreadRec /\ BufCap \in Nat
  BY BoundAssumption DEF TypeOK
<1>2. NoMatch \in [start : Addr, end : Addr] /\ NULL \in Addr
  BY DEF NoMatch, Addr
<1>3. prog.nloops \in Nat
  BY ProgramAssumption DEF WellFormed, TypeOK
<1>4. StartThread(t, n) \in ThreadRec
  BY <1>1, <1>2, <1>3 DEF StartThread, ThreadRec
<1>5. ClonedThread(t, th[u], n) \in ThreadRec
  BY <1>1, <1>2, <1>3 DEF ClonedThread, ThreadRec, FreshThread
<1> QED BY <1>4, <1>5


SameProgress(f, g, u) == g[u].status = f[u].status /\ g[u].match = f[u].match /\ g[u].ip = f[u].ip

\* Captures and counts are beside the fields that say where a thread is.
LEMMA ProgressKept ==
  ASSUME NEW f \in Threads, NEW t \in 1..MaxThreads, NEW u \in 1..MaxThreads
  PROVE  /\ SameProgress(f, [f EXCEPT ![t].tracking_backrefs = TRUE], u)
         /\ \A g, v : SameProgress(f, [f EXCEPT ![t].cap[g] = v], u)
         /\ \A g, v : SameProgress(f, [f EXCEPT ![t].cap[g].end = v], u)
         /\ \A i, c : SameProgress(f, [f EXCEPT ![t].loop[i] = c], u)
         /\ \A k : SameProgress(f, [f EXCEPT ![t].tracking_intervals = k], u)
<1>1. f[u] \in ThreadRec /\ u \in DOMAIN f
  BY DEF Threads
<1>2. SameProgress(f, [f EXCEPT ![t].tracking_backrefs = TRUE], u)
  BY <1>1 DEF SameProgress, ThreadRec
<1>3. \A v : SameProgress(f, [f EXCEPT ![t].cap = v], u)
  BY <1>1 DEF SameProgress, ThreadRec
<1>4. \A v : SameProgress(f, [f EXCEPT ![t].loop = v], u)
  BY <1>1 DEF SameProgress, ThreadRec
<1>5. \A k : SameProgress(f, [f EXCEPT ![t].tracking_intervals = k], u)
  BY <1>1 DEF SameProgress, ThreadRec
<1>6. \A g, v : SameProgress(f, [f EXCEPT ![t].cap[g] = v], u)
  BY <1>3
<1>7. \A g, v : SameProgress(f, [f EXCEPT ![t].cap[g].end = v], u)
  BY <1>3
<1>8. \A i, c : SameProgress(f, [f EXCEPT ![t].loop[i] = c], u)
  BY <1>4
<1> QED BY <1>2, <1>5, <1>6, <1>7, <1>8

\* load_next at a capture group, and the reset of a count, move no thread.
LEMMA CallProgress ==
  ASSUME TypeOK, LoadCapture \/ ResetCount
  PROVE  \A u \in 1..MaxThreads : SameProgress(th, th', u)
<1> SUFFICES ASSUME NEW u \in 1..MaxThreads PROVE SameProgress(th, th', u)
  OBVIOUS
<1>1. th \in Threads /\ Call.sim \in 1..MaxThreads /\ lookahead \in Addr
  BY CallFacts DEF TypeOK, Threads, LoadCapture, ResetCount, Pending, Call
<1>1a. Node(Call.nfa).id \in Nat
  BY CallFacts, NodeFacts DEF TypeOK, LoadCapture, ResetCount, Pending
<1>2. CASE LoadCapture
  <2>1. PICK f : f = [th EXCEPT ![Call.sim].tracking_backrefs = TRUE]
    OBVIOUS
  <2>2. f \in Threads /\ SameProgress(th, f, u)
    BY <2>1, <1>1, ThreadsAssign, ProgressKept
  <2>3. \/ th' = [f EXCEPT ![Call.sim].cap[Node(Call.nfa).id] = [start |-> lookahead, end |-> NULL]]
        \/ th' = [th EXCEPT ![Call.sim].cap[Node(Call.nfa).id].end = lookahead - 1]
    BY <1>2, <2>1 DEF LoadCapture
  <2>4. SameProgress(f, [f EXCEPT ![Call.sim].cap[Node(Call.nfa).id] = [start |-> lookahead, end |-> NULL]], u)
    BY <2>2, <1>1, ProgressKept
  <2>5. SameProgress(th, [th EXCEPT ![Call.sim].cap[Node(Call.nfa).id].end = lookahead - 1], u)
    BY <1>1, ProgressKept
  <2> QED BY <2>2, <2>3, <2>4, <2>5 DEF SameProgress
<1>3. CASE ResetCount
  <2>1. PICK f : f = [th EXCEPT ![Call.sim].loop[Node(Call.nfa).id] = 0]
    OBVIOUS
  <2>2. f \in Threads /\ SameProgress(th, f, u)
    BY <2>1, <1>1, <1>1a, ThreadsAssign, ProgressKept
  <2>3. \E k : th' = [f EXCEPT ![Call.sim].tracking_intervals = k]
    BY <1>3, <2>1 DEF ResetCount
  <2> QED BY <2>2, <2>3, <1>1, ProgressKept DEF SameProgress
<1> QED BY <1>2, <1>3

\* The assignments of an interval, and of the reset between its loops.
LEMMA CountAssign ==
  ASSUME TypeOK, NEW t \in 1..MaxThreads, NEW i \in Nat, NEW c \in Nat, NEW k \in Int
  PROVE  /\ [th EXCEPT ![t].loop[i] = c, ![t].tracking_intervals = @ + k] \in Threads
         /\ [th EXCEPT ![t].loop[i] = c, ![t].tracking_intervals = @ - k] \in Threads
<1> DEFINE f == [th EXCEPT ![t].loop[i] = c]
<1>1. f \in Threads
  BY ThreadsAssign DEF TypeOK, Threads
<1>2. f[t].tracking_intervals + k \in Int /\ f[t].tracking_intervals - k \in Int
  <2>1. f[t] \in ThreadRec
    BY <1>1 DEF Threads
  <2> HIDE DEF f
  <2> QED BY <2>1, ThreadFields DEF TypeOK
<1> HIDE DEF f
<1>3. /\ [f EXCEPT ![t].tracking_intervals = f[t].tracking_intervals + k] \in Threads
      /\ [f EXCEPT ![t].tracking_intervals = f[t].tracking_intervals - k] \in Threads
  BY <1>1, <1>2, ThreadsAssign
<1> QED BY <1>3 DEF f

\* What an interval node does to its thread and to the stack.
LEMMA IntervalFacts ==
  ASSUME TypeOK, NEW n \in 1..Len(prog.nodes), Node(n).type = "INTERVAL", NEW t \in 1..nthreads,
         \/ MustRepeat(n, t) \/ MayRepeat(n, t) \/ MustLeave(n, t) \/ Unlimited(n, t)
  PROVE  /\ th' \in Threads /\ last_interval_pos' \in Addr
         /\ \A u \in 1..MaxThreads :
              th'[u].status = th[u].status /\ th'[u].match = th[u].match /\ th'[u].ip = th[u].ip
         /\ \E calls \in Seq(FrameRec) : Segment(calls, t) /\ todo' = calls \o Tail(todo)
<1>1. /\ prog \in Programs /\ nthreads \in Nat /\ t \in 1..MaxThreads
      /\ lookahead \in Addr /\ last_interval_pos \in Addr /\ th \in Threads
  BY BoundAssumption DEF TypeOK, Threads
<1>2. Node(n).id \in Nat /\ Node(n).id < prog.nloops /\ Node(n).split \in Nat /\ Len(Node(n).reach) \in Nat
  BY <1>1, NodeFacts
<1>3. Seen(n, t) \in Nat
  <2>1. th[t] \in ThreadRec
    BY <1>1 DEF Threads
  <2> QED BY <2>1, <1>1, <1>2, ThreadFields DEF Seen
<1>4. \E c \in Nat, k \in Int : Count(n, t, c, k)
  BY <1>3 DEF MustRepeat, MayRepeat, MustLeave, Unlimited
<1>5. PICK c \in Nat, k \in Int :
        th' = [th EXCEPT ![t].loop[Node(n).id] = c, ![t].tracking_intervals = @ + k]
  BY <1>4 DEF Count
<1>6. th' \in Threads
  BY <1>1, <1>2, <1>5, CountAssign
<1>7. \A u \in 1..MaxThreads :
        th'[u].status = th[u].status /\ th'[u].match = th[u].match /\ th'[u].ip = th[u].ip
  BY <1>1, <1>5 DEF Threads, ThreadRec
<1>8. last_interval_pos' \in Addr
  BY <1>1 DEF MustRepeat, MayRepeat, MustLeave, Unlimited
<1>9. \E calls \in Seq(FrameRec) : Segment(calls, t) /\ Make(calls)
  <2>1. 0 \in Int /\ 1 \in Int
    OBVIOUS
  <2>2. CASE MustRepeat(n, t)
    BY <2>1, <2>2, <1>1, <1>2, IntervalSegments DEF MustRepeat
  <2>3. CASE MayRepeat(n, t)
    <3>1. \/ Make(Leave(n, t))
          \/ Make(Each(n, t, 0, Node(n).split) \o <<Frame("reset", n, t, 1, 0)>> \o Leave(n, t))
      BY <2>3 DEF MayRepeat
    <3> QED BY <3>1, <2>1, <1>1, <1>2, IntervalSegments
  <2>4. CASE MustLeave(n, t)
    <3>1. Make(Each(n, t, 1, Len(Node(n).reach)) \o Self(n, t, 0)) \/ Make(Leave(n, t))
      BY <2>4 DEF MustLeave
    <3> QED BY <3>1, <2>1, <1>1, <1>2, IntervalSegments
  <2>5. CASE Unlimited(n, t)
    <3>1. \/ Make(Each(n, t, 0, Node(n).split) \o <<>> \o Leave(n, t))
          \/ Make(Each(n, t, 0, Node(n).split) \o <<Frame("reset", n, t, 0, 0)>> \o Leave(n, t))
      BY <2>5 DEF Unlimited
    <3> QED BY <3>1, <2>1, <1>1, <1>2, IntervalSegments
  <2> QED BY <2>2, <2>3, <2>4, <2>5
<1> QED BY <1>6, <1>7, <1>8, <1>9 DEF Make

\* One turn of list_for_each stays in its list.
LEMMA TurnFacts ==
  ASSUME TypeOK, NEW n \in 1..Len(prog.nodes), NEW k \in Int,
         NEW at, at = SeekTo(n, k)
  PROVE  /\ at \in Int
         /\ (IF HasNext(n, at) THEN at + 1 ELSE at) \in -1..Len(Node(n).reach)
         /\ HasNext(n, at) => Node(n).reach[at + 1] \in 1..Len(prog.nodes)
<1>1. /\ Len(Node(n).reach) \in Nat /\ iter[n] \in -1..Len(Node(n).reach)
      /\ \A i \in 1..Len(Node(n).reach) : Node(n).reach[i] \in 1..Len(prog.nodes)
  BY NodeFacts DEF TypeOK
<1>2. at \in -1..Len(Node(n).reach)
  BY <1>1 DEF SeekTo
<1>3. HasNext(n, at) => at + 1 \in 1..Len(Node(n).reach)
  BY <1>1, <1>2 DEF HasNext
<1> QED BY <1>1, <1>2, <1>3

\* The frames of that turn.
LEMMA TurnFrames ==
  ASSUME prog \in Programs, nthreads \in Nat, NEW f \in FrameRec, f.op = "each",
         NEW m \in 1..Len(prog.nodes)
  PROVE  LET s == <<Frame("clone", m, f.sim, 0, 0), [f EXCEPT !.a = NoSeek]>> IN
         s \in Seq(FrameRec) /\ OnBehalfOf(s, f.sim)
<1> DEFINE c == Frame("clone", m, f.sim, 0, 0)
           e == [f EXCEPT !.a = NoSeek]
<1>1. c \in FrameRec /\ c.op = "clone" /\ c.sim = f.sim
  BY DEF Frame, FrameRec
<1>2. e \in FrameRec /\ e.op = "each" /\ e.sim = f.sim
  BY DEF FrameRec, NoSeek
<1> HIDE DEF c, e
<1>3. <<c, e>> \in Seq(FrameRec) /\ OnBehalfOf(<<c, e>>, f.sim)
  BY <1>1, <1>2 DEF OnBehalfOf, IsOnBehalf
<1> QED BY <1>3 DEF c, e

\* The part of TypeOK that a step with prog, mode and the threads unchanged has to show.
LEMMA FrameSame == UNCHANGED <<prog, nthreads>> => FrameRec' = FrameRec
  BY DEF FrameRec

\* The calls that thread_clone, load_next and process_adjacents make keep the types.
LEMMA TypeCalls ==
  ASSUME TypeOK, Calls
  PROVE  TypeOK'
<1> USE DEF cursor, lists, result
<1>a. UNCHANGED input /\ prog' = prog
  BY DEF Calls, StartState, CloneRefused, Clone, LoadCapture, LoadInterval, ResetCount,
         ForEach, LoadAccepting, LoadQueue, LoadDrop, OutOfMemory, input
<1>b. todo # <<>>
  BY DEF Calls, StartState, CloneRefused, Clone, LoadCapture, LoadInterval, ResetCount,
         ForEach, LoadAccepting, LoadQueue, LoadDrop, OutOfMemory, Pending
<1>c. /\ Call.nfa \in 1..Len(prog.nodes) /\ Call.a \in Int
      /\ Call.op # "start" => Call.sim \in 1..nthreads /\ Call.sim \in 1..MaxThreads
      /\ Tail(todo) \in Seq(FrameRec) /\ nthreads \in Nat /\ Call \in FrameRec /\ Call.nfa \in Nat
  BY <1>b, CallFacts
<1>d. \A r \in ThreadRec, t \in 1..MaxThreads : [th EXCEPT ![t] = r] \in [1..MaxThreads -> ThreadRec]
  BY DEF TypeOK
<1>1. CASE StartState
  <2>1. Obtainable /\ Allocate /\ Pending("start")
    BY <1>1 DEF StartState
  <2>2. /\ Obtained \in 1..nthreads' /\ Obtained \in 1..MaxThreads /\ nthreads' \in 1..MaxThreads
        /\ nthreads' \in Nat /\ nthreads <= nthreads'
        /\ Rest(thread_pool) \in Seq(1..nthreads') /\ active_threads \in Seq(1..nthreads')
        /\ next_threads \in Seq(1..nthreads') /\ Tail(todo) \in Seq(FrameRec')
    BY <2>1, <1>a, <1>c, ObtainFacts DEF TypeOK
  <2>3. th' \in [1..MaxThreads -> ThreadRec]
    BY <1>1, <1>c, <1>d, <2>2, SetUpThread DEF StartState
  <2>4. Frame("load", Call.nfa, Obtained, 0, 0) \in FrameRec'
    BY <1>a, <1>c, <2>2 DEF Frame, FrameRec, NULL
  <2>5. <<Frame("load", Call.nfa, Obtained, 0, 0)>> \o Tail(todo) \in Seq(FrameRec')
    BY <2>2, <2>4
  <2>6. todo' \in Seq(FrameRec')
    BY <1>1, <2>2, <2>5 DEF StartState
  <2>7. /\ Append(Rest(thread_pool), Obtained) \in Seq(1..nthreads')
        /\ Append(active_threads, Obtained) \in Seq(1..nthreads')
    BY <2>2, ElemsAppend
  <2>8. thread_pool' \in Seq(1..nthreads') /\ active_threads' \in Seq(1..nthreads')
    BY <1>1, <2>2, <2>7 DEF StartState
  <2>9. UNCHANGED <<pc, cursor, lookahead, thread, next_threads, sp, iter, dst, result>>
    BY <1>1 DEF StartState
  <2>10. thread' \in 0..nthreads'
    BY <2>2, <2>9, <1>c DEF TypeOK
  <2> QED BY <2>9, <1>a, <2>2, <2>3, <2>6, <2>8, <2>10, TypeKeeps DEF TypeOK
<1>2. CASE CloneRefused
  BY <1>2, <1>a, <1>c, FrameSame, TypeKeeps DEF CloneRefused, TypeOK
<1>3. CASE Clone
  <2>1. Obtainable /\ Allocate /\ Pending("clone")
    BY <1>3 DEF Clone
  <2>2. /\ Obtained \in 1..nthreads' /\ Obtained \in 1..MaxThreads /\ nthreads' \in 1..MaxThreads
        /\ nthreads' \in Nat /\ nthreads <= nthreads'
        /\ Rest(thread_pool) \in Seq(1..nthreads') /\ active_threads \in Seq(1..nthreads')
        /\ next_threads \in Seq(1..nthreads') /\ Tail(todo) \in Seq(FrameRec')
    BY <2>1, <1>a, <1>c, ObtainFacts DEF TypeOK
  <2>3. th' \in [1..MaxThreads -> ThreadRec]
    BY <1>3, <1>c, <1>d, <2>1, <2>2, SetUpThread DEF Clone, Pending, Call
  <2>4. Frame("load", Call.nfa, Obtained, 0, 0) \in FrameRec'
    BY <1>a, <1>c, <2>2 DEF Frame, FrameRec, NULL
  <2>5. todo' \in Seq(FrameRec')
    BY <1>3, <2>2, <2>4 DEF Clone
  <2>6. /\ UNCHANGED <<pc, cursor, lookahead, thread, active_threads, next_threads, sp, iter, dst, result>>
        /\ thread_pool' = Rest(thread_pool)
    BY <1>3 DEF Clone
  <2>7. thread' \in 0..nthreads'
    BY <2>2, <2>6, <1>c DEF TypeOK
  <2> QED BY <2>6, <1>a, <2>2, <2>3, <2>5, <2>7, TypeKeeps DEF TypeOK
<1>4. CASE LoadCapture
  <2>1. /\ Call.op = "load" /\ Node(Call.nfa).type \in {"CAPTUREGRP_BEGIN", "CAPTUREGRP_END"}
        /\ Node(Call.nfa).id \in Nat /\ lookahead \in Addr /\ prog \in Programs
    BY <1>4, <1>c, NodeFacts DEF LoadCapture, Pending, Call, TypeOK
  <2>2. th[Call.sim] \in ThreadRec
    BY <2>1, <1>c DEF TypeOK
  <2>3. th' \in [1..MaxThreads -> ThreadRec]
    <3> DEFINE f == [th EXCEPT ![Call.sim].tracking_backrefs = TRUE]
    <3>1. Call.sim \in 1..MaxThreads /\ th \in Threads
      BY <2>1, <1>c DEF TypeOK, Threads
    <3>2. f \in Threads
      BY <3>1, ThreadsAssign
    <3> HIDE DEF f
    <3>3. \/ th' = [f EXCEPT ![Call.sim].cap[Node(Call.nfa).id] = [start |-> lookahead, end |-> NULL]]
          \/ th' = [th EXCEPT ![Call.sim].cap[Node(Call.nfa).id].end = lookahead - 1]
      BY <1>4 DEF LoadCapture, f
    <3>4. [f EXCEPT ![Call.sim].cap[Node(Call.nfa).id] = [start |-> lookahead, end |-> NULL]] \in Threads
      BY <3>1, <3>2, <2>1, ThreadsAssign
    <3>5. [th EXCEPT ![Call.sim].cap[Node(Call.nfa).id].end = lookahead - 1] \in Threads
      BY <3>1, <2>1, ThreadsAssign
    <3> QED BY <3>3, <3>4, <3>5 DEF Threads
  <2>4. Adjacents(Call.nfa, Call.sim) \in Seq(FrameRec)
    BY <2>1, <1>c, AdjacentsSegment
  <2>5. UNCHANGED <<pc, cursor, lookahead, thread, lists, sp, iter, dst, result>>
    BY <1>4 DEF LoadCapture
  <2>6. todo' \in Seq(FrameRec')
    BY <1>4, <2>4, <2>5, <1>a, <1>c, FrameSame, ConcatAt DEF LoadCapture
  <2> QED BY <2>3, <2>5, <2>6, <1>a, TypeKeeps DEF TypeOK
<1>5. CASE LoadInterval
  <2>1. /\ Call.sim \in 1..nthreads /\ Node(Call.nfa).type = "INTERVAL"
        /\ \/ MustRepeat(Call.nfa, Call.sim) \/ MayRepeat(Call.nfa, Call.sim)
           \/ MustLeave(Call.nfa, Call.sim) \/ Unlimited(Call.nfa, Call.sim)
    BY <1>5, <1>c DEF LoadInterval, Pending, Call
  <2>2. /\ th' \in Threads /\ last_interval_pos' \in Addr
        /\ \E calls \in Seq(FrameRec) : todo' = calls \o Tail(todo)
    BY <2>1, <1>c, IntervalFacts
  <2>3. UNCHANGED <<pc, cur_pos, input_pointer, kw_matches, lookahead, thread, lists, sp, iter, dst, result>>
    BY <1>5 DEF LoadInterval
  <2>4. todo' \in Seq(FrameRec')
    BY <2>2, <2>3, <1>a, <1>c, FrameSame, ConcatAt
  <2> QED BY <2>2, <2>3, <2>4, <1>a, TypeKeeps DEF TypeOK, Threads
<1>6. CASE ResetCount
  <2>1. /\ Call.op = "reset" /\ Node(Call.nfa).id \in Nat /\ prog \in Programs
    BY <1>6, <1>c, NodeFacts DEF ResetCount, Pending, Call, TypeOK
  <2>2. th[Call.sim] \in ThreadRec /\ th[Call.sim].tracking_intervals \in Int
    BY <2>1, <1>c, ThreadFields DEF TypeOK
  <2>3. th' \in [1..MaxThreads -> ThreadRec]
    <3>1. th' = [th EXCEPT ![Call.sim].loop[Node(Call.nfa).id] = 0,
                           ![Call.sim].tracking_intervals = @ - Call.a]
      BY <1>6 DEF ResetCount
    <3> QED BY <3>1, <2>1, <1>c, CountAssign DEF Threads
  <2>4. UNCHANGED <<pc, cursor, lookahead, thread, lists, sp, iter, dst, result>> /\ todo' = Tail(todo)
    BY <1>6 DEF ResetCount
  <2> QED BY <2>3, <2>4, <1>a, <1>c, FrameSame, TypeKeeps DEF TypeOK
<1>7. CASE ForEach
  <2>1. PICK n, at : n = Call.nfa /\ at = SeekTo(n, Call.a)
    OBVIOUS
  <2>2. /\ (IF HasNext(n, at) THEN at + 1 ELSE at) \in -1..Len(Node(n).reach) /\ at \in Int
        /\ HasNext(n, at) => Node(n).reach[at + 1] \in 1..Len(prog.nodes)
        /\ n \in 1..Len(prog.nodes)
    BY <2>1, <1>c, TurnFacts
  <2>3. /\ iter' = [iter EXCEPT ![n] = IF HasNext(n, at) THEN at + 1 ELSE at]
        /\ todo' = IF HasNext(n, at) /\ at + 1 <= Call.b
                   THEN <<Frame("clone", Node(n).reach[at + 1], Call.sim, 0, 0),
                          [Call EXCEPT !.a = NoSeek]>> \o Tail(todo)
                   ELSE Tail(todo)
        /\ Call.op = "each"
    BY <1>7, <2>1 DEF ForEach, Pending, Call
  <2>4. iter' \in [1..Len(prog.nodes) -> Int] /\ \A m \in 1..Len(prog.nodes) : iter'[m] \in -1..Len(Node(m).reach)
    <3>1. PICK v \in Int : v = IF HasNext(n, at) THEN at + 1 ELSE at
      BY <2>2
    <3>2. iter' = [iter EXCEPT ![n] = v] /\ v \in -1..Len(Node(n).reach)
      BY <3>1, <2>2, <2>3
    <3>3. iter \in [1..Len(prog.nodes) -> Int] /\ \A m \in 1..Len(prog.nodes) : iter[m] \in -1..Len(Node(m).reach)
      BY DEF TypeOK
    <3> QED BY <3>2, <3>3, <2>2
  <2>5. todo' \in Seq(FrameRec)
    <3>1. ASSUME HasNext(n, at)
          PROVE  <<Frame("clone", Node(n).reach[at + 1], Call.sim, 0, 0), [Call EXCEPT !.a = NoSeek]>>
                   \in Seq(FrameRec)
      BY <3>1, <2>2, <2>3, <1>c, TurnFrames DEF TypeOK
    <3> QED BY <3>1, <2>3, <1>c, ConcatAt
  <2>6. UNCHANGED <<pc, cursor, lookahead, thread, lists, th, sp, dst, result>>
    BY <1>7 DEF ForEach
  <2> QED BY <2>4, <2>5, <2>6, <1>a, FrameSame, TypeKeeps DEF TypeOK
<1>8. CASE LoadAccepting \/ LoadQueue \/ LoadDrop
  <2>1. /\ Call.op = "load" /\ prog \in Programs /\ lookahead \in Addr
    BY <1>8 DEF LoadAccepting, LoadQueue, LoadDrop, Pending, Call, TypeOK
  <2>2. th[Call.sim] \in ThreadRec
    BY <2>1, <1>c DEF TypeOK
  <2>3. th' \in [1..MaxThreads -> ThreadRec]
    <3> DEFINE f == [th EXCEPT ![Call.sim].ip = Call.nfa]
    <3>1. Call.sim \in 1..MaxThreads /\ th \in Threads /\ Call.nfa \in Nat
      BY <2>1, <1>c DEF TypeOK, Threads
    <3>2. f \in Threads
      BY <3>1, ThreadsAssign
    <3> HIDE DEF f
    <3>3. th' = [f EXCEPT ![Call.sim].status = 0] \/ th' = [th EXCEPT ![Call.sim].status = -1]
      BY <1>8 DEF LoadAccepting, LoadQueue, LoadDrop, f
    <3>4. [f EXCEPT ![Call.sim].status = 0] \in Threads
      BY <3>1, <3>2, ThreadsAssign
    <3>5. [th EXCEPT ![Call.sim].status = -1] \in Threads
      BY <3>1, ThreadsAssign
    <3> QED BY <3>3, <3>4, <3>5 DEF Threads
  <2>4. sp' \in [0..(prog.nids - 1) -> Addr]
    BY <1>8, <2>1 DEF LoadAccepting, LoadQueue, LoadDrop, TypeOK
  <2>5. \A q \in Seq(1..nthreads) : Append(q, Call.sim) \in Seq(1..nthreads)
    BY <2>1, <1>c, ElemsAppend
  <2>6. /\ thread_pool' \in Seq(1..nthreads) /\ active_threads' \in Seq(1..nthreads)
        /\ next_threads' \in Seq(1..nthreads)
    BY <1>8, <2>5 DEF LoadAccepting, LoadQueue, LoadDrop, PoolAfterDrop, TypeOK
  <2>7. UNCHANGED <<pc, cursor, lookahead, thread, nthreads, iter, dst, result>> /\ todo' = Tail(todo)
    BY <1>8 DEF LoadAccepting, LoadQueue, LoadDrop
  <2> QED BY <2>3, <2>4, <2>6, <2>7, <1>a, <1>c, FrameSame, TypeKeeps DEF TypeOK
<1>10. CASE OutOfMemory
  <2>1. todo' \in Seq(FrameRec') /\ pc' = "oom"
    BY <1>10 DEF OutOfMemory
  <2>2. UNCHANGED <<cursor, lookahead, thread, lists, th, sp, iter, dst, result>>
    BY <1>10 DEF OutOfMemory
  <2> QED BY <2>1, <2>2, <1>a, TypeKeeps DEF TypeOK
<1> QED BY <1>1, <1>2, <1>3, <1>4, <1>5, <1>6, <1>7, <1>8, <1>10 DEF Calls


\* A character that is not the terminator is in the line.
LEMMA InsideLine ==
  ASSUME IInv, pc # "idle", NEW a \in Place, Char(a) # NUL
  PROVE  a \in 1..eol /\ a + 1 \in Addr /\ a \in Addr /\ a # NULL /\ a + 1 \in Place
<1>1. mem[eol + 1] = NUL /\ eol \in 1..(BufCap - 1) /\ BufCap \in Nat
  BY BoundAssumption DEF IInv, Positions, TypeOK
<1>2. a # QuitPos /\ a # eol + 1
  BY <1>1 DEF Char, QuitPos
<1> QED BY <1>1, <1>2 DEF Place, Addr, QuitPos, NULL

\* Folding does not invent a character where there is none.
LEMMA InputInside ==
  ASSUME IInv, pc # "idle", Input # NUL
  PROVE  cur_pos \in 1..eol /\ cur_pos + 1 \in Addr /\ cur_pos + 1 \in Place
<1>1. cur_pos \in Place
  BY DEF IInv, Positions
<1>2. Char(cur_pos) # NUL
  BY CharAssumption DEF Input, Fold
<1> QED BY <1>1, <1>2, InsideLine

\* The thread that is stepped.
LEMMA SteppedThread ==
  ASSUME IInv, thread # NULL
  PROVE  /\ thread \in 1..nthreads /\ thread \in 1..MaxThreads /\ nthreads \in Nat
         /\ thread \in Live /\ th[thread] \in ThreadRec /\ th \in Threads
         /\ th[thread].ip \in 1..Len(prog.nodes) /\ InText(th[thread].match)
         /\ prog \in Programs
<1>1. /\ thread \in 0..nthreads /\ nthreads \in 1..MaxThreads /\ MaxThreads \in Nat
      /\ th \in Threads /\ prog \in Programs
  BY BoundAssumption DEF IInv, TypeOK, Threads
<1>2. thread \in 1..nthreads /\ thread \in 1..MaxThreads
  BY <1>1 DEF NULL
<1>3. thread \notin Elems(thread_pool)
  BY DEF IInv, Ownership
<1> QED BY <1>1, <1>2, <1>3 DEF IInv, Positions, Live, Threads

\* What thread_step writes into the match is a pair of addresses of the line.
LEMMA UpdateMatchFacts ==
  ASSUME IInv, pc # "idle", Input # NUL, NEW m \in [start : Addr, end : Addr], InText(m)
  PROVE  UpdateMatch(m) \in [start : Addr, end : Addr] /\ InText(UpdateMatch(m))
<1>1. cur_pos \in 1..eol /\ cur_pos \in Addr /\ eol \in Nat
  BY InputInside DEF IInv, TypeOK
<1> QED BY <1>1 DEF UpdateMatch, InText, NULL

\* A back reference that holds is not at the end of the buffer.
LEMMA BrefFacts ==
  ASSUME IInv, thread # NULL, Inst.type = "BACKREFERENCE", Input # NUL
  PROVE  BrefAt \in Addr /\ (BrefHolds => BrefAt + 1 \in Addr)
<1>1. /\ th[thread] \in ThreadRec /\ th[thread].ip \in 1..Len(prog.nodes) /\ prog \in Programs
  BY SteppedThread
<1>2. Inst.id \in Nat /\ Inst.id < prog.ngroups
  BY <1>1, NodeFacts DEF Inst
<1>3. BrefAt \in Addr
  BY <1>1, <1>2, ThreadFields DEF BrefAt
<1>4. mem[BufCap] = NUL /\ BufCap \in Nat
  BY BoundAssumption DEF IInv, Positions
<1>5. ASSUME BrefHolds PROVE BrefAt + 1 \in Addr
  <2>1. BrefAt # NULL /\ Char(BrefAt) # NUL
    BY <1>5 DEF BrefHolds
  <2> QED BY <2>1, <1>3, <1>4 DEF Char, Addr, QuitPos, NULL
<1> QED BY <1>3, <1>5

\* thread_step keeps the types.
LEMMA TypeSteps ==
  ASSUME IInv, Steps
  PROVE  TypeOK'
<1> USE DEF cursor, lists, result
<1> DEFINE t == thread
<1>a. /\ Stepping /\ UNCHANGED <<input, cursor, thread, thread_pool, active_threads, nthreads, iter, result>>
  BY DEF Steps, StepConsume, StepAnchor, StepBackreference, StepAccept, StepFail
<1>b. TypeOK /\ prog' = prog /\ thread # NULL /\ pc = "loop" /\ pc' = "switch" /\ sp' = Unmarked(Inst.id)
  BY <1>a DEF IInv, input, Stepping, Inst
<1>c. /\ t \in 1..nthreads /\ t \in 1..MaxThreads /\ nthreads \in Nat
      /\ th[t] \in ThreadRec /\ th \in Threads
      /\ th[t].ip \in 1..Len(prog.nodes) /\ InText(th[t].match) /\ prog \in Programs
      /\ th[t].match \in [start : Addr, end : Addr]
  BY <1>b, SteppedThread, ThreadFields
<1>d. sp' \in [0..(prog.nids - 1) -> Addr]
  BY <1>b DEF Unmarked, TypeOK, Addr
<1>e. \A v \in {-1, 0, 1} : [th EXCEPT ![t].status = v] \in Threads
  BY <1>c, ThreadsAssign
<1>f. \A m \in [start : Addr, end : Addr] : [th EXCEPT ![t].match = m] \in Threads
  BY <1>c, ThreadsAssign
<1>g. \A m \in [start : Addr, end : Addr], b \in Addr : [th EXCEPT ![t].match = m, ![t].bref = b] \in Threads
  <2> SUFFICES ASSUME NEW m \in [start : Addr, end : Addr], NEW b \in Addr
               PROVE  [th EXCEPT ![t].match = m, ![t].bref = b] \in Threads
    OBVIOUS
  <2>1. PICK f \in Threads : f = [th EXCEPT ![t].match = m]
    BY <1>f
  <2>2. [f EXCEPT ![t].bref = b] \in Threads
    BY <1>c, ThreadsAssign
  <2> QED BY <2>1, <2>2
<1>h. \A m \in [start : Addr, end : Addr], b \in Addr, v \in {-1, 0, 1} :
        [th EXCEPT ![t].match = m, ![t].bref = b, ![t].status = v] \in Threads
  <2> SUFFICES ASSUME NEW m \in [start : Addr, end : Addr], NEW b \in Addr, NEW v \in {-1, 0, 1}
               PROVE  [th EXCEPT ![t].match = m, ![t].bref = b, ![t].status = v] \in Threads
    OBVIOUS
  <2>1. PICK f \in Threads : f = [th EXCEPT ![t].match = m, ![t].bref = b]
    BY <1>g
  <2>2. [f EXCEPT ![t].status = v] \in Threads
    BY <1>c, ThreadsAssign
  <2> QED BY <2>1, <2>2
<1>i. ASSUME Inst.type # "ACCEPTING" PROVE Adjacents(th[t].ip, t) \in Seq(FrameRec)
  BY <1>c, <1>i, AdjacentsSegment DEF Inst
<1>j. ASSUME th' \in Threads, todo' \in Seq(FrameRec), lookahead' \in Addr, dst' \in {"active", "next"},
             next_threads' \in Seq(1..nthreads)
      PROVE  TypeOK'
  BY <1>a, <1>b, <1>d, <1>j, FrameSame, TypeKeeps DEF TypeOK, Threads
<1>k. ASSUME Input # NUL PROVE cur_pos + 1 \in Addr /\ UpdateMatch(th[t].match) \in [start : Addr, end : Addr]
  BY <1>b, <1>c, <1>k, InputInside, UpdateMatchFacts
<1>l. UNCHANGED <<todo, lookahead, dst, next_threads>> =>
        /\ todo' \in Seq(FrameRec) /\ lookahead' \in Addr /\ dst' \in {"active", "next"}
        /\ next_threads' \in Seq(1..nthreads)
  BY <1>b DEF TypeOK
<1>m. next_threads \in Seq(1..nthreads) /\ cur_pos \in Addr /\ "active" \in {"active", "next"}
      /\ "next" \in {"active", "next"}
  BY <1>b DEF TypeOK
<1>1. CASE StepConsume
  <2>1. Inst.type # "ACCEPTING" /\ Input # NUL
    BY <1>1 DEF StepConsume, Consumes
  <2>2. /\ th' = [th EXCEPT ![t].match = UpdateMatch(th[t].match)]
        /\ todo' = Adjacents(th[t].ip, t) /\ dst' = "next" /\ lookahead' = cur_pos + 1
        /\ next_threads' = next_threads
    BY <1>1 DEF StepConsume
  <2> QED BY <2>1, <2>2, <1>f, <1>i, <1>j, <1>k, <1>m
<1>2. CASE StepAnchor
  <2>1. Inst.type # "ACCEPTING" /\ dst' \in {"active", "next"}
    BY <1>2 DEF StepAnchor
  <2>2. th' = th /\ todo' = Adjacents(th[t].ip, t) /\ lookahead' = cur_pos /\ next_threads' = next_threads
    BY <1>2 DEF StepAnchor
  <2> QED BY <2>1, <2>2, <1>c, <1>i, <1>j, <1>m
<1>3. CASE StepBackreference
  <2>1. Inst.type = "BACKREFERENCE" /\ Input # NUL
    BY <1>3 DEF StepBackreference
  <2>2. BrefAt \in Addr /\ (BrefHolds => BrefAt + 1 \in Addr) /\ NULL \in Addr
    BY <2>1, <1>b, BrefFacts DEF Addr
  <2>3. BrefMatch \in [start : Addr, end : Addr]
    BY <2>1, <1>c, <1>k DEF BrefMatch
  <2>4. Append(next_threads, t) \in Seq(1..nthreads)
    BY <1>c, <1>m, ElemsAppend
  <2>5. CASE /\ th' = [th EXCEPT ![t].match = UpdateMatch(th[t].match), ![t].bref = NULL]
             /\ todo' = Adjacents(th[t].ip, t) /\ dst' = "next" /\ lookahead' = cur_pos + 1
             /\ next_threads' = next_threads
    <3>1. th' \in Threads
      BY <2>1, <2>2, <2>5, <1>g, <1>k
    <3> QED BY <3>1, <2>1, <2>5, <1>i, <1>j, <1>k, <1>m
  <2>6. CASE /\ BrefHolds
             /\ th' = [th EXCEPT ![t].match = BrefMatch, ![t].bref = BrefAt + 1, ![t].status = 0]
             /\ next_threads' = Append(next_threads, t) /\ UNCHANGED <<todo, dst, lookahead>>
    <3>1. th' \in Threads
      BY <2>2, <2>3, <2>6, <1>h
    <3> QED BY <3>1, <2>4, <2>6, <1>b, <1>j DEF TypeOK
  <2>7. CASE /\ th' = [th EXCEPT ![t].match = BrefMatch, ![t].bref = BrefAt, ![t].status = -1]
             /\ UNCHANGED <<todo, dst, lookahead, next_threads>>
    <3>1. th' \in Threads
      BY <2>2, <2>3, <2>7, <1>h
    <3> QED BY <3>1, <2>7, <1>j, <1>l
  <2> QED BY <1>3, <2>5, <2>6, <2>7 DEF StepBackreference
<1>4. CASE StepAccept \/ StepFail
  <2>1. th' \in Threads
    BY <1>4, <1>e DEF StepAccept, StepFail
  <2>2. UNCHANGED <<todo, lookahead, dst, next_threads>>
    BY <1>4 DEF StepAccept, StepFail
  <2> QED BY <2>1, <2>2, <1>j, <1>l
<1> QED BY <1>1, <1>2, <1>3, <1>4 DEF Steps


MatchRec == [start : Addr, end : Addr]

\* A matched thread extends the match of the attempt within the line.
LEMMA LongestFacts ==
  ASSUME NEW m \in MatchRec, NEW k \in MatchRec
  PROVE  /\ UpdateLongest(m, k) \in MatchRec
         /\ InText(m) /\ InText(k) => InText(UpdateLongest(m, k))
  BY DEF MatchRec, UpdateLongest, InText

\* What is reported is a pair of addresses.
LEMMA EmitFacts ==
  ASSUME TypeOK, NEW m \in MatchRec
  PROVE  /\ Emit(m) \in Seq(MatchRec)
         /\ [start |-> 1, end |-> eol - 1] \in MatchRec
<1>1. [start |-> 1, end |-> eol - 1] \in MatchRec
  BY BoundAssumption DEF TypeOK, Addr, NULL, MatchRec
<1>2. (IF mode.line THEN [start |-> 1, end |-> eol - 1] ELSE m) \in MatchRec
  BY <1>1
<1>3. out \in Seq(MatchRec)
  BY DEF TypeOK, MatchRec
<1>4. Append(out, IF mode.line THEN [start |-> 1, end |-> eol - 1] ELSE m) \in Seq(MatchRec)
  BY <1>2, <1>3
<1> QED BY <1>1, <1>3, <1>4 DEF Emit

\* The frames of load_start_states.
LEMMA StartFramesFacts ==
  ASSUME prog \in Programs, nthreads \in Nat
  PROVE  StartFrames \in Seq(FrameRec) /\ \A i \in 1..Len(StartFrames) : StartFrames[i].op = "start"
<1>1. Len(prog.start) \in Nat /\ \A i \in 1..Len(prog.start) : prog.start[i] \in 1..Len(prog.nodes)
  BY ProgramAssumption DEF WellFormed
<1>2. \A i \in 1..Len(prog.start) : StartFrames[i] \in FrameRec /\ StartFrames[i].op = "start"
  BY <1>1 DEF StartFrames, Frame, FrameRec, NULL
<1>3. StartFrames \in [1..Len(prog.start) -> FrameRec]
  BY <1>2 DEF StartFrames
<1>4. StartFrames \in Seq(FrameRec) /\ Len(StartFrames) = Len(prog.start)
  BY <1>1, <1>3, FunctionIsSeq
<1> QED BY <1>2, <1>4

\* kw_next_match returns one of the first records and leaves the others.
LEMMA TakenFacts ==
  ASSUME NEW S, NEW a \in Taken(S)
  PROVE  \E m \in S : /\ a.beg = m.beg /\ a.left = S \ {m}
                      /\ \A o \in S : a.beg <= o.beg
  BY DEF Taken

\* Every attempt starts in the line, at its terminator or at the string literal.
LEMMA NextStartsFacts ==
  ASSUME IInv, pc = "loop", Char(input_pointer) # NUL, NEW a \in NextStarts
  PROVE  a.beg \in Addr /\ a.beg \in Place /\ a.left \subseteq kw_matches
<1>1. /\ input_pointer \in Place /\ InText(match) /\ \A m \in kw_matches : m.beg \in 1..eol
      /\ eol \in 1..(BufCap - 1) /\ BufCap \in Nat
  BY BoundAssumption DEF IInv, Positions, TypeOK
<1>2. input_pointer + 1 \in Place
  BY <1>1, InsideLine
<1>3. PlainStart \in Place
  BY <1>1, <1>2 DEF PlainStart, InText, Place
<1>4. KeywordsLeft \subseteq kw_matches
  BY DEF KeywordsLeft
<1>5. \/ a = [beg |-> PlainStart, left |-> {}]
      \/ a = [beg |-> QuitPos, left |-> {}]
      \/ a \in Taken(KeywordsLeft)
  BY DEF NextStarts
<1>6. a.beg \in Place /\ a.left \subseteq kw_matches
  <2>1. CASE a = [beg |-> PlainStart, left |-> {}]
    BY <2>1, <1>3
  <2>2. CASE a = [beg |-> QuitPos, left |-> {}]
    BY <2>2 DEF Place
  <2>3. CASE a \in Taken(KeywordsLeft)
    <3>1. PICK m \in KeywordsLeft : a.beg = m.beg /\ a.left = KeywordsLeft \ {m}
      BY <2>3, TakenFacts
    <3> QED BY <3>1, <1>1, <1>4 DEF Place
  <2> QED BY <1>5, <2>1, <2>2, <2>3
<1>7. Place \subseteq Addr
  BY <1>1 DEF Place, Addr
<1> QED BY <1>6, <1>7

\* The switch and the steps between positions, attempts and lines keep the types.
LEMMA TypeRest ==
  ASSUME IInv,
         \/ SwitchMatch \/ SwitchNoMatch \/ SwitchContinue
         \/ FirstThread \/ Advance \/ Restart \/ Fetch \/ EndOfLine \/ Release
  PROVE  TypeOK'
<1> USE DEF cursor, lists, result
<1>a. TypeOK /\ UNCHANGED <<input, nthreads, th, sp, iter>> /\ prog' = prog /\ nthreads \in Nat
  <2>1. UNCHANGED <<input, nthreads, th, sp, iter>>
    BY DEF SwitchMatch, SwitchNoMatch, SwitchContinue, FirstThread, Advance, Restart,
           Fetch, EndOfLine, Release
  <2> QED BY <2>1, BoundAssumption DEF IInv, TypeOK, input
<1>b. /\ Front(active_threads) \in 0..nthreads /\ Rest(active_threads) \in Seq(1..nthreads)
      /\ thread_pool \in Seq(1..nthreads) /\ active_threads \in Seq(1..nthreads)
      /\ next_threads \in Seq(1..nthreads) /\ 0 \in 0..nthreads /\ 1..nthreads \subseteq 0..nthreads
  <2>1. active_threads \in Seq(1..nthreads)
    BY <1>a DEF TypeOK
  <2>2. Rest(active_threads) \in Seq(1..nthreads) /\ Front(active_threads) \in {NULL} \cup 1..nthreads
    <3>1. Rest(active_threads) \in Seq(1..nthreads)
      BY <2>1, FrontRest
    <3>2. CASE active_threads = <<>>
      BY <3>1, <3>2 DEF Front
    <3>3. CASE active_threads # <<>>
      <4>1. Head(active_threads) \in 1..nthreads
        BY <3>3, <2>1, TailAt
      <4>2. Front(active_threads) = Head(active_threads)
        BY <3>3 DEF Front
      <4> QED BY <3>1, <4>1, <4>2
    <3> QED BY <3>2, <3>3
  <2>3. {NULL} \cup 1..nthreads \subseteq 0..nthreads /\ 0 \in 0..nthreads
    BY <1>a DEF NULL
  <2> QED BY <2>1, <2>2, <2>3, <1>a DEF TypeOK
<1>c. ASSUME thread # NULL PROVE Append(thread_pool, thread) \in Seq(1..nthreads)
  BY <1>b, <1>c, SteppedThread, ElemsAppend
<1>d. ASSUME pc' \in {"idle", "loop", "release", "fatal", "fetch"}, UNCHANGED <<cursor, lookahead, todo, dst, result>>,
             thread' \in 0..nthreads, thread_pool' \in Seq(1..nthreads),
             active_threads' \in Seq(1..nthreads), next_threads' \in Seq(1..nthreads)
      PROVE  TypeOK'
  BY <1>a, <1>d, FrameSame, TypeKeeps DEF TypeOK
<1>1. CASE SwitchMatch
  <2>1. thread # NULL /\ pc = "switch"
    BY <1>1 DEF SwitchMatch, IInv, Ownership
  <2>2. match \in MatchRec /\ th[thread].match \in MatchRec /\ out \in Seq(MatchRec)
    BY <2>1, <1>a, SteppedThread, ThreadFields DEF TypeOK, MatchRec
  <2>3. match' \in MatchRec
    BY <1>1, <2>2, LongestFacts DEF SwitchMatch
  <2>4. Emit(match') \in Seq(MatchRec)
    BY <1>a, <2>3, EmitFacts
  <2>5. out' \in Seq(MatchRec)
    BY <1>1, <2>2, <2>4 DEF SwitchMatch
  <2>6. /\ thread_pool' \in Seq(1..nthreads) /\ active_threads' \in Seq(1..nthreads)
        /\ next_threads' \in Seq(1..nthreads) /\ thread' \in 0..nthreads
    BY <1>1, <2>1, <1>a, <1>b, <1>c DEF SwitchMatch, NextThread, TypeOK
  <2>7. /\ UNCHANGED <<cursor, lookahead, todo, dst>> /\ match_found' = TRUE /\ current_run' = TRUE
        /\ pc' \in {"loop", "release"}
    BY <1>1 DEF SwitchMatch
  <2> QED BY <2>3, <2>5, <2>6, <2>7, <1>a, FrameSame, TypeKeeps DEF TypeOK, MatchRec
<1>2. CASE SwitchNoMatch
  <2>1. thread # NULL
    BY <1>2 DEF SwitchNoMatch, IInv, Ownership
  <2>2. /\ thread_pool' = Append(thread_pool, thread) /\ pc' = "loop" /\ NextThread
        /\ UNCHANGED <<cursor, lookahead, next_threads, todo, dst, result>>
    BY <1>2 DEF SwitchNoMatch
  <2> QED BY <2>1, <2>2, <1>b, <1>c, <1>d DEF NextThread
<1>3. CASE SwitchContinue
  BY <1>3, <1>b, <1>d DEF SwitchContinue, NextThread
<1>4. CASE FirstThread
  BY <1>4, <1>b, <1>d DEF FirstThread
<1>5. CASE Fetch
  BY <1>5, <1>b, <1>d DEF Fetch, NextThread
<1>6. CASE EndOfLine
  BY <1>6, <1>a, <1>b, <1>d DEF EndOfLine, TypeOK
<1>7. CASE Advance
  <2>1. cur_pos \in 1..eol /\ eol \in 1..(BufCap - 1) /\ BufCap \in Nat
    BY <1>7, BoundAssumption DEF Advance, IInv, Positions, TypeOK
  <2>2. cur_pos + 1 \in Addr
    BY <2>1 DEF Addr
  <2>3. Head(next_threads) \in 0..nthreads /\ Tail(next_threads) \in Seq(1..nthreads) /\ <<>> \in Seq(1..nthreads)
    BY <1>7, <1>a, <1>b DEF Advance
  <2>4. /\ thread' = Head(next_threads) /\ active_threads' = Tail(next_threads) /\ next_threads' = <<>>
        /\ cur_pos' = cur_pos + 1
        /\ UNCHANGED <<pc, input_pointer, last_interval_pos, kw_matches, lookahead, thread_pool, todo, dst, result>>
    BY <1>7 DEF Advance
  <2> QED BY <2>2, <2>3, <2>4, <1>a, FrameSame, TypeKeeps DEF TypeOK
<1>8. CASE Restart
  <2>1. PICK start \in NextStarts :
          /\ input_pointer' = start.beg /\ cur_pos' = start.beg /\ lookahead' = start.beg
          /\ kw_matches' = start.left
    BY <1>8 DEF Restart
  <2>2. start.beg \in Addr /\ start.left \subseteq kw_matches
    BY <1>8, NextStartsFacts DEF Restart
  <2>3. Emit(match) \in Seq(MatchRec) /\ out \in Seq(MatchRec)
    BY <1>a, EmitFacts DEF TypeOK, MatchRec
  <2>4. NoMatch \in MatchRec /\ NULL \in Addr
    BY DEF NoMatch, MatchRec, Addr
  <2>5. StartFrames \in Seq(FrameRec) /\ todo \in Seq(FrameRec)
    BY <1>a, StartFramesFacts DEF TypeOK
  <2>6. /\ out' \in Seq(MatchRec) /\ last_interval_pos' = NULL /\ current_run' = FALSE /\ match' = NoMatch
        /\ dst' = "active" /\ todo' \in Seq(FrameRec) /\ pc' \in {"fetch", "fatal"}
        /\ UNCHANGED <<thread, thread_pool, active_threads, next_threads, match_found>>
    BY <1>8, <2>3, <2>5 DEF Restart
  <2> QED BY <2>1, <2>2, <2>4, <2>6, <1>a, FrameSame, TypeKeeps DEF TypeOK, MatchRec
<1>9. CASE Release
  <2>1. (IF thread = NULL THEN <<>> ELSE <<thread>>) \in Seq(1..nthreads)
    <3>1. thread # NULL => <<thread>> \in Seq(1..nthreads)
      BY SteppedThread
    <3>2. CASE thread = NULL
      BY <3>2
    <3>3. CASE thread # NULL
      BY <3>1, <3>3
    <3> QED BY <3>2, <3>3
  <2>2. AllThreads \in Seq(1..nthreads)
    BY <2>1, <1>b, ConcatAt DEF AllThreads
  <2>3. match' \in MatchRec /\ out' \in Seq(MatchRec)
    <3>1. match \in MatchRec /\ out \in Seq(MatchRec)
      BY <1>a DEF TypeOK, MatchRec
    <3>2. [start |-> 1, end |-> eol - 1] \in MatchRec
      BY <1>a, <3>1, EmitFacts
    <3>3. match' \in MatchRec
      BY <1>9, <3>1, <3>2 DEF Release
    <3>4. Emit(match') \in Seq(MatchRec)
      BY <1>a, <3>3, EmitFacts
    <3> QED BY <1>9, <3>1, <3>3, <3>4 DEF Release
  <2>4. /\ thread_pool' = AllThreads /\ active_threads' = <<>> /\ next_threads' = <<>> /\ thread' = NULL
        /\ kw_matches' = {} /\ pc' = "idle"
        /\ UNCHANGED <<cur_pos, input_pointer, last_interval_pos, lookahead, todo, dst, match_found, current_run>>
    BY <1>9 DEF Release
  <2>5. thread' \in 0..nthreads /\ <<>> \in Seq(1..nthreads)
    BY <2>4, <1>b DEF NULL
  <2> QED BY <2>2, <2>3, <2>4, <2>5, <1>a, FrameSame, TypeKeeps DEF TypeOK, MatchRec
<1> QED BY <1>1, <1>2, <1>3, <1>4, <1>5, <1>6, <1>7, <1>8, <1>9


\* What getline leaves in the buffer and where the search of the line starts.
LEMMA LineFacts ==
  ASSUME TypeOK, NEW l \in Lines, ReadLine(l)
  PROVE  /\ Len(l) \in Nat /\ eol' = Len(l) + 1 /\ eol' \in 1..(BufCap - 1)
         /\ mem' \in [1..BufCap -> Chars \cup {EOL, NUL}] /\ mem'[eol' + 1] = NUL
         /\ mem[BufCap] = NUL => mem'[BufCap] = NUL
         /\ \E first \in FirstStarts(l) :
              /\ first.beg \in 1..(eol' + 1) /\ first.beg \in Addr
              /\ cur_pos' = first.beg /\ input_pointer' = first.beg /\ lookahead' = first.beg
              /\ \A m \in kw_matches' : first.beg <= m.beg
         /\ kw_matches' \subseteq KeywordMatches(l)
         /\ KeywordMatches(l) \subseteq [beg : 1..Len(l), kw : 1..Len(prog.kws)]
<1>1. l \in Seq(Chars) /\ Len(l) \in Nat /\ Len(l) + 2 <= BufCap /\ BufCap \in Nat
  BY LineAssumption, BoundAssumption
<1>2. eol' = Len(l) + 1 /\ eol' \in 1..(BufCap - 1)
  BY <1>1 DEF ReadLine
<1>3. mem' = [a \in 1..BufCap |-> IF a <= Len(l) THEN l[a]
                                  ELSE IF a = Len(l) + 1 THEN EOL
                                  ELSE IF a = Len(l) + 2 THEN NUL ELSE mem[a]]
  BY DEF ReadLine
<1>4. \A a \in 1..BufCap : a <= Len(l) => l[a] \in Chars
  BY <1>1
<1>5. mem \in [1..BufCap -> Chars \cup {EOL, NUL}]
  BY DEF TypeOK
<1>6. mem' \in [1..BufCap -> Chars \cup {EOL, NUL}]
  BY <1>1, <1>3, <1>4, <1>5
<1>7. mem'[eol' + 1] = NUL /\ (mem[BufCap] = NUL => mem'[BufCap] = NUL)
  <2>1. eol' + 1 = Len(l) + 2 /\ eol' + 1 \in 1..BufCap /\ BufCap \in 1..BufCap
    BY <1>1, <1>2
  <2>2. mem'[eol' + 1] = NUL
    BY <2>1, <1>1, <1>3
  <2>3. mem[BufCap] = NUL => mem'[BufCap] = NUL
    BY <2>1, <1>1, <1>3
  <2> QED BY <2>2, <2>3
<1>8. KeywordMatches(l) \subseteq [beg : 1..Len(l), kw : 1..Len(prog.kws)]
  BY DEF KeywordMatches
<1>9. PICK first \in FirstStarts(l) :
        /\ cur_pos' = first.beg /\ input_pointer' = first.beg /\ lookahead' = first.beg
        /\ kw_matches' = first.left
  BY DEF ReadLine
<1>10. /\ first.beg \in 1..(eol' + 1) /\ first.left \subseteq KeywordMatches(l)
       /\ \A m \in first.left : first.beg <= m.beg
  <2>1. CASE ~Prefiltered
    <3>1. first = [beg |-> 1, left |-> {}]
      BY <2>1 DEF FirstStarts
    <3> QED BY <3>1, <1>1, <1>2
  <2>2. CASE Prefiltered /\ KeywordMatches(l) = {}
    <3>1. first = [beg |-> Len(l) + 2, left |-> {}]
      BY <2>2 DEF FirstStarts
    <3> QED BY <3>1, <1>1, <1>2
  <2>3. CASE Prefiltered /\ KeywordMatches(l) # {}
    <3>1. first \in Taken(KeywordMatches(l))
      BY <2>3 DEF FirstStarts
    <3>2. PICK m \in KeywordMatches(l) :
            /\ first.beg = m.beg /\ first.left = KeywordMatches(l) \ {m}
            /\ \A o \in KeywordMatches(l) : first.beg <= o.beg
      BY <3>1, TakenFacts
    <3>3. m.beg \in 1..Len(l)
      BY <1>8
    <3> QED BY <3>2, <3>3, <1>1, <1>2
  <2> QED BY <2>1, <2>2, <2>3
<1>11. first.beg \in Addr
  BY <1>2, <1>10, <1>1 DEF Addr
<1>12. kw_matches' \subseteq KeywordMatches(l)
  BY <1>9, <1>10
<1> QED BY <1>1, <1>2, <1>6, <1>7, <1>8, <1>9, <1>10, <1>11, <1>12

\* Reading a line keeps the types.
LEMMA TypeReadLine ==
  ASSUME IInv, NEW l \in Lines, ReadLine(l)
  PROVE  TypeOK'
<1> USE DEF lists
<1>1. TypeOK /\ UNCHANGED <<prog, mode, thread, lists, th, sp, iter>>
  BY DEF IInv, ReadLine
<1>2. /\ eol' \in 1..(BufCap - 1) /\ mem' \in [1..BufCap -> Chars \cup {EOL, NUL}]
      /\ cur_pos' \in Addr /\ input_pointer' \in Addr /\ lookahead' \in Addr
  BY <1>1, LineFacts
<1>3. kw_matches' \subseteq KeywordRec'
  <2>1. /\ kw_matches' \subseteq [beg : 1..Len(l), kw : 1..Len(prog.kws)] /\ Len(l) \in Nat
    BY <1>1, LineFacts
  <2>2. Len(l) <= BufCap /\ BufCap \in Nat
    BY <2>1, LineAssumption, BoundAssumption
  <2>3. 1..Len(l) \subseteq 1..BufCap
    BY <2>1, <2>2
  <2> QED BY <2>1, <2>3, <1>1 DEF KeywordRec
<1>4. nlines' \in 0..MaxLines
  BY <1>1, BoundAssumption DEF ReadLine, TypeOK
<1>5. /\ NoMatch \in [start : Addr, end : Addr] /\ NULL \in Addr
      /\ match' = NoMatch /\ match_found' = FALSE /\ current_run' = FALSE /\ out' = <<>>
      /\ dst' = "active" /\ last_interval_pos' = NULL /\ pc' \in {"release", "prologue"}
      /\ todo' \in {<<>>, StartFrames}
  BY DEF ReadLine, NoMatch, Addr
<1>6. FrameRec' = FrameRec /\ ThreadRec' = ThreadRec /\ \A n : Node(n)' = Node(n)
  BY <1>1, FrameSame DEF ThreadRec, Node
<1>7. todo' \in Seq(FrameRec')
  <2>1. StartFrames \in Seq(FrameRec)
    BY <1>1, StartFramesFacts, BoundAssumption DEF TypeOK
  <2>2. <<>> \in Seq(FrameRec)
    OBVIOUS
  <2> QED BY <2>1, <2>2, <1>5, <1>6
<1>8. /\ th' \in [1..MaxThreads -> ThreadRec'] /\ iter' \in [1..Len(prog'.nodes) -> Int]
      /\ sp' \in [0..(prog'.nids - 1) -> Addr]
      /\ \A n \in 1..Len(prog'.nodes) : iter'[n] \in -1..Len(Node(n)'.reach)
  BY <1>1, <1>6 DEF TypeOK
<1>9. /\ nthreads' \in 1..MaxThreads /\ thread' \in 0..nthreads' /\ prog' \in Programs /\ mode' \in Modes
      /\ thread_pool' \in Seq(1..nthreads') /\ active_threads' \in Seq(1..nthreads')
      /\ next_threads' \in Seq(1..nthreads')
  BY <1>1 DEF TypeOK
<1>10. /\ match' \in [start : Addr, end : Addr] /\ match_found' \in BOOLEAN /\ current_run' \in BOOLEAN
       /\ out' \in Seq([start : Addr, end : Addr]) /\ dst' \in {"active", "next"}
       /\ last_interval_pos' \in Addr
       /\ pc' \in {"idle", "prologue", "loop", "switch", "fetch", "release", "fatal", "oom"}
  <2>1. \A S : <<>> \in Seq(S)
    OBVIOUS
  <2> QED BY <2>1, <1>5, Zenon
<1> QED BY <1>2, <1>3, <1>4, <1>7, <1>8, <1>9, <1>10, Zenon DEF TypeOK

\* Every step keeps the types.
LEMMA TypeStep ==
  ASSUME IInv, [Next]_vars
  PROVE  TypeOK'
<1>1. CASE Calls
  BY <1>1, TypeCalls DEF IInv
<1>2. CASE Steps
  BY <1>2, TypeSteps
<1>3. CASE \/ SwitchMatch \/ SwitchNoMatch \/ SwitchContinue
           \/ FirstThread \/ Advance \/ Restart \/ Fetch \/ EndOfLine \/ Release
  BY <1>3, TypeRest
<1>4. CASE \E l \in Lines : ReadLine(l)
  BY <1>4, TypeReadLine
<1>5. CASE UNCHANGED vars
  <2>1. UNCHANGED <<prog, mode, mem, eol, nlines>> /\ UNCHANGED <<pc, lookahead, thread, th, sp, iter, todo, dst>>
        /\ UNCHANGED <<cur_pos, input_pointer, last_interval_pos, kw_matches>>
        /\ UNCHANGED <<thread_pool, active_threads, next_threads, nthreads>>
        /\ UNCHANGED <<match, match_found, current_run, out>>
    BY <1>5 DEF vars, input, cursor, lists, result
  <2> QED BY <2>1, FrameSame, TypeKeeps DEF IInv, TypeOK, input
<1> QED BY <1>1, <1>2, <1>3, <1>4, <1>5 DEF Next, Engine, Exit

-----------------------------------------------------------------------------
(* Part 2: ownership.                                                       *)

-----------------------------------------------------------------------------
(* Ownership.                                                               *)

\* Threads named by lists and by pending calls have been allocated.
LEMMA Allocated ==
  ASSUME TypeOK
  PROVE  /\ Elems(thread_pool) \subseteq 1..nthreads /\ Elems(active_threads) \subseteq 1..nthreads
         /\ Elems(next_threads) \subseteq 1..nthreads /\ Loading \subseteq 1..nthreads
         /\ Listed \subseteq 1..nthreads
<1>1. /\ thread_pool \in Seq(1..nthreads) /\ active_threads \in Seq(1..nthreads)
      /\ next_threads \in Seq(1..nthreads) /\ todo \in Seq(FrameRec)
  BY DEF TypeOK
<1>2. \A q \in Seq(1..nthreads) : Elems(q) \subseteq 1..nthreads
  BY ElemsSubset
<1>3. nthreads \in Nat
  BY BoundAssumption DEF TypeOK
<1>4. \A i \in 1..Len(todo) : todo[i] \in FrameRec
  BY <1>1
<1>5. \A f \in FrameRec : f.op = "load" => f.sim \in 1..nthreads
  BY <1>3 DEF FrameRec, NULL
<1>6. Loading \subseteq 1..nthreads
  BY <1>4, <1>5 DEF Loading, LoadSims
<1> QED BY <1>1, <1>2, <1>6 DEF Listed

\* Four disjoint homes of a thread.
Apart(P, A, N, L) ==
  P \cap A = {} /\ P \cap N = {} /\ A \cap N = {} /\ L \cap (P \cup A \cup N) = {}

\* A pending call leaves run_nfa where it is; what it has to keep.
LEMMA OwnershipKeeps ==
  ASSUME Ownership, todo # <<>>, UNCHANGED <<pc, thread, dst>>,
         NoDup(thread_pool'), NoDup(active_threads'), NoDup(next_threads'),
         Apart(Elems(thread_pool'), Elems(active_threads'), Elems(next_threads'), LoadSims(todo')),
         LoadsDistinct(todo'), LoadLast(todo'),
         \A t \in 1..nthreads' : t \in Elems(thread_pool') \cup Elems(active_threads')
                                       \cup Elems(next_threads') \cup LoadSims(todo') \cup {thread},
         thread \notin Elems(thread_pool'),
         pc = "switch" /\ thread \notin LoadSims(todo') =>
           (th'[thread].status = 0 <=> thread \in Elems(active_threads') \cup Elems(next_threads')),
         dst = "active" => next_threads' = next_threads
  PROVE  Ownership'
<1>1. OneHome'
  BY DEF OneHome, Loading, Apart
<1>2. pc \notin {"idle", "loop", "release", "oom"}
  BY DEF Ownership
<1>3. pc \in {"prologue", "fetch"} => next_threads' = <<>> /\ thread' = NULL /\ dst' = "active"
  BY DEF Ownership
<1>4. pc = "switch" => thread # NULL
  BY DEF Ownership
<1>5. pc # "fatal"
  BY DEF Ownership
<1> QED BY <1>1, <1>2, <1>3, <1>4, <1>5 DEF Ownership, Listed, Loading

\* What Ownership says before a pending call runs.
LEMMA OwnershipNow ==
  ASSUME IInv, todo # <<>>
  PROVE  /\ Apart(Elems(thread_pool), Elems(active_threads), Elems(next_threads), Loading)
         /\ NoDup(thread_pool) /\ NoDup(active_threads) /\ NoDup(next_threads)
         /\ LoadsDistinct(todo) /\ LoadLast(todo)
         /\ \A t \in 1..nthreads : t \in Elems(thread_pool) \cup Elems(active_threads)
                                         \cup Elems(next_threads) \cup Loading \cup {thread}
         /\ thread \notin Elems(thread_pool)
         /\ pc = "switch" /\ thread \notin Loading =>
              (th[thread].status = 0 <=> thread \in Elems(active_threads) \cup Elems(next_threads))
         /\ pc = "switch" => thread # NULL
<1>1. Ownership /\ OneHome
  BY DEF IInv, Ownership
<1>2. pc # "oom"
  BY <1>1 DEF Ownership
<1> QED BY <1>1, <1>2 DEF Ownership, OneHome, Apart, Listed

\* A start state or a clone takes a thread out of the pool, or a new one.
LEMMA ObtainedHome ==
  ASSUME IInv, todo # <<>>, Obtainable, Allocate
  PROVE  /\ Obtained \notin Elems(active_threads) \cup Elems(next_threads) \cup Loading
         /\ Obtained # thread /\ Obtained \notin Elems(Rest(thread_pool))
         /\ Elems(Rest(thread_pool)) \subseteq Elems(thread_pool)
         /\ NoDup(Rest(thread_pool)) /\ Rest(thread_pool) \in Seq(1..nthreads)
         /\ \A t \in 1..nthreads' : t \in {Obtained} \cup Elems(Rest(thread_pool)) \cup Elems(active_threads)
                                         \cup Elems(next_threads) \cup Loading \cup {thread}
<1>1. TypeOK /\ thread_pool \in Seq(1..nthreads) /\ nthreads \in Nat /\ thread \in 0..nthreads
  BY BoundAssumption DEF IInv, TypeOK
<1>2. /\ Apart(Elems(thread_pool), Elems(active_threads), Elems(next_threads), Loading)
      /\ NoDup(thread_pool) /\ thread \notin Elems(thread_pool)
      /\ \A t \in 1..nthreads : t \in Elems(thread_pool) \cup Elems(active_threads)
                                      \cup Elems(next_threads) \cup Loading \cup {thread}
  BY OwnershipNow
<1>3. /\ Elems(thread_pool) \subseteq 1..nthreads /\ Elems(active_threads) \subseteq 1..nthreads
      /\ Elems(next_threads) \subseteq 1..nthreads /\ Loading \subseteq 1..nthreads
  BY <1>1, Allocated
<1>4. /\ Rest(thread_pool) \in Seq(1..nthreads) /\ Elems(Rest(thread_pool)) \subseteq Elems(thread_pool)
      /\ NoDup(Rest(thread_pool))
  BY <1>1, <1>2, FrontRest
<1>5. CASE thread_pool = <<>>
  <2>1. Obtained = nthreads + 1 /\ nthreads' = nthreads + 1 /\ Rest(thread_pool) = <<>>
    BY <1>5 DEF Obtained, Allocate, IsNew, Rest
  <2>2. Obtained \notin 1..nthreads /\ Obtained # thread /\ \A t \in 1..nthreads' : t \in 1..nthreads \/ t = Obtained
    BY <2>1, <1>1
  <2>3. Elems(thread_pool) = {} /\ Elems(Rest(thread_pool)) = {}
    BY <1>5, <2>1, ElemsEmpty
  <2> QED BY <2>2, <2>3, <1>2, <1>3, <1>4
<1>6. CASE thread_pool # <<>>
  <2>1. /\ Obtained = Head(thread_pool) /\ nthreads' = nthreads /\ Rest(thread_pool) = Tail(thread_pool)
    BY <1>6 DEF Obtained, Allocate, IsNew, Rest
  <2>2. /\ Elems(thread_pool) = {Obtained} \cup Elems(Rest(thread_pool))
        /\ Obtained \notin Elems(Rest(thread_pool))
    BY <2>1, <1>1, <1>2, <1>6, ElemsTail
  <2>3. Obtained \notin Elems(active_threads) \cup Elems(next_threads) \cup Loading /\ Obtained # thread
    BY <2>2, <1>2 DEF Apart
  <2> QED BY <2>1, <2>2, <2>3, <1>2, <1>4
<1> QED BY <1>5, <1>6


\* A call that replaces itself by a segment of calls for its thread, and changes
\* no thread's status.
LEMMA SegmentOwnership ==
  ASSUME IInv, Pending("load"), UNCHANGED <<pc, thread, dst, lists>>,
         NEW calls \in Seq(FrameRec), Segment(calls, Call.sim), todo' = calls \o Tail(todo),
         thread # NULL => th'[thread].status = th[thread].status
  PROVE  Ownership'
<1>1. /\ todo # <<>> /\ Call.op = "load" /\ todo \in Seq(FrameRec) /\ Tail(todo) \in Seq(FrameRec)
      /\ Ownership
  BY DEF IInv, TypeOK, Pending, Call, Ownership
<1>2. /\ Apart(Elems(thread_pool), Elems(active_threads), Elems(next_threads), Loading)
      /\ NoDup(thread_pool) /\ NoDup(active_threads) /\ NoDup(next_threads)
      /\ LoadsDistinct(todo) /\ LoadLast(todo)
      /\ \A t \in 1..nthreads : t \in Elems(thread_pool) \cup Elems(active_threads)
                                      \cup Elems(next_threads) \cup Loading \cup {thread}
      /\ thread \notin Elems(thread_pool)
      /\ pc = "switch" /\ thread \notin Loading =>
           (th[thread].status = 0 <=> thread \in Elems(active_threads) \cup Elems(next_threads))
      /\ pc = "switch" => thread # NULL
  BY <1>1, OwnershipNow
<1>3. /\ LoadsDistinct(Tail(todo)) /\ LoadLast(Tail(todo))
      /\ Loading = {Call.sim} \cup LoadSims(Tail(todo)) /\ Call.sim \notin LoadSims(Tail(todo))
  BY <1>1, <1>2, FramesTail DEF Call, Loading
<1>4. LoadsDistinct(todo') /\ LoadLast(todo') /\ LoadSims(todo') = Loading
  <2>1. PICK r, t : r = Tail(todo) /\ t = Call.sim
    OBVIOUS
  <2>2. r \in Seq(FrameRec) /\ Segment(calls, t) /\ LoadsDistinct(r) /\ LoadLast(r) /\ t \notin LoadSims(r)
    BY <2>1, <1>1, <1>3
  <2>3. /\ LoadsDistinct(calls \o r) /\ LoadLast(calls \o r)
        /\ LoadSims(calls \o r) = LoadSims(r) \cup {t}
    BY <2>2, FramesSegment
  <2> QED BY <2>1, <2>3, <1>3
<1>5. UNCHANGED <<pc, thread, dst, thread_pool, active_threads, next_threads, nthreads>>
  BY DEF lists
<1> QED BY <1>1, <1>2, <1>4, <1>5, OwnershipKeeps

\* A call on behalf of a thread, or one that has no thread yet, that changes no list.
LEMMA BehalfOwnership ==
  ASSUME IInv, todo # <<>>, Call.op # "load", UNCHANGED <<pc, thread, dst, lists>>,
         NEW calls \in Seq(FrameRec), OnBehalfOf(calls, Call.sim),
         calls = <<>> \/ IsOnBehalf(Call), todo' = calls \o Tail(todo),
         thread # NULL => th'[thread].status = th[thread].status
  PROVE  Ownership'
<1>1. /\ todo \in Seq(FrameRec) /\ Tail(todo) \in Seq(FrameRec) /\ Ownership
  BY DEF IInv, TypeOK, Ownership
<1>2. /\ Apart(Elems(thread_pool), Elems(active_threads), Elems(next_threads), Loading)
      /\ NoDup(thread_pool) /\ NoDup(active_threads) /\ NoDup(next_threads)
      /\ LoadsDistinct(todo) /\ LoadLast(todo)
      /\ \A t \in 1..nthreads : t \in Elems(thread_pool) \cup Elems(active_threads)
                                      \cup Elems(next_threads) \cup Loading \cup {thread}
      /\ thread \notin Elems(thread_pool)
      /\ pc = "switch" /\ thread \notin Loading =>
           (th[thread].status = 0 <=> thread \in Elems(active_threads) \cup Elems(next_threads))
      /\ pc = "switch" => thread # NULL
  BY OwnershipNow
<1>3. /\ LoadsDistinct(Tail(todo)) /\ LoadLast(Tail(todo)) /\ LoadSims(Tail(todo)) = Loading
      /\ IsOnBehalf(Call) => Call.sim \in LoadSims(Tail(todo))
  BY <1>1, <1>2, FramesTail DEF Call, Loading
<1>4. \A i \in 1..Len(calls) : IsOnBehalf(calls[i]) /\ calls[i].sim \in LoadSims(Tail(todo))
  <2>1. CASE calls = <<>>
    BY <2>1
  <2>2. CASE IsOnBehalf(Call)
    BY <2>2, <1>3 DEF OnBehalfOf
  <2> QED BY <2>1, <2>2
<1>5. LoadsDistinct(todo') /\ LoadLast(todo') /\ LoadSims(todo') = Loading
  BY <1>1, <1>3, <1>4, FramesOnBehalf
<1>6. UNCHANGED <<pc, thread, dst, thread_pool, active_threads, next_threads, nthreads>>
  BY DEF lists
<1> QED BY <1>1, <1>2, <1>5, <1>6, OwnershipKeeps

\* load_next puts its thread somewhere.
LEMMA LoadOwnership ==
  ASSUME IInv, LoadAccepting \/ LoadQueue \/ LoadDrop
  PROVE  Ownership'
<1> USE DEF lists
<1> DEFINE P == Elems(thread_pool)
           A == Elems(active_threads)
           N == Elems(next_threads)
           x == Call.sim
           R == LoadSims(Tail(todo))
<1>1. /\ todo # <<>> /\ Call.op = "load" /\ todo \in Seq(FrameRec) /\ Tail(todo) \in Seq(FrameRec)
      /\ Ownership /\ TypeOK /\ thread_pool \in Seq(1..nthreads)
      /\ active_threads \in Seq(1..nthreads) /\ next_threads \in Seq(1..nthreads)
  <2>1. todo # <<>> /\ Call.op = "load"
    BY DEF Pending, Call, LoadAccepting, LoadQueue, LoadDrop
  <2>2. /\ todo \in Seq(FrameRec) /\ Ownership /\ TypeOK /\ thread_pool \in Seq(1..nthreads)
        /\ active_threads \in Seq(1..nthreads) /\ next_threads \in Seq(1..nthreads)
    BY DEF IInv, TypeOK
  <2> QED BY <2>1, <2>2
<1>2. x \in 1..nthreads /\ x \in 1..MaxThreads
  BY <1>1, CallFacts
<1>3. /\ Apart(P, A, N, Loading) /\ NoDup(thread_pool) /\ NoDup(active_threads) /\ NoDup(next_threads)
      /\ LoadsDistinct(todo) /\ LoadLast(todo)
      /\ \A t \in 1..nthreads : t \in P \cup A \cup N \cup Loading \cup {thread}
      /\ thread \notin P
      /\ pc = "switch" /\ thread \notin Loading => (th[thread].status = 0 <=> thread \in A \cup N)
      /\ pc = "switch" => thread # NULL
  BY <1>1, OwnershipNow
<1>4. LoadsDistinct(Tail(todo)) /\ LoadLast(Tail(todo)) /\ Loading = {x} \cup R /\ x \notin R
  BY <1>1, <1>3, FramesTail DEF Call, Loading
<1>5. todo' = Tail(todo) /\ UNCHANGED <<pc, thread, dst, nthreads>>
  BY DEF LoadAccepting, LoadQueue, LoadDrop
<1>6. x \notin P \cup A \cup N
  BY <1>3, <1>4 DEF Apart
<1>7. /\ Elems(Append(thread_pool, x)) = P \cup {x} /\ NoDup(Append(thread_pool, x))
      /\ Elems(Append(active_threads, x)) = A \cup {x} /\ NoDup(Append(active_threads, x))
      /\ Elems(Append(next_threads, x)) = N \cup {x} /\ NoDup(Append(next_threads, x))
  <2>1. \A q \in Seq(1..nthreads) : NoDup(q) /\ x \notin Elems(q) =>
          Elems(Append(q, x)) = Elems(q) \cup {x} /\ NoDup(Append(q, x))
    <3> SUFFICES ASSUME NEW q \in Seq(1..nthreads), NEW y \in 1..nthreads, NoDup(q), y \notin Elems(q)
                 PROVE  Elems(Append(q, y)) = Elems(q) \cup {y} /\ NoDup(Append(q, y))
      BY <1>2
    <3>1. PICK S : S = 1..nthreads
      OBVIOUS
    <3>2. q \in Seq(S) /\ y \in S
      BY <3>1
    <3> QED BY <3>2, ElemsAppend
  <2> QED BY <2>1, <1>1, <1>3, <1>6
<1>8. thread # NULL => thread \in 1..MaxThreads /\ th \in Threads
  BY SteppedThread
<1>9. CASE LoadAccepting \/ LoadQueue
  <2>1. th' = [th EXCEPT ![x].ip = Call.nfa, ![x].status = 0] /\ thread_pool' = thread_pool
    BY <1>9 DEF LoadAccepting, LoadQueue
  <2>2. \/ active_threads' = Append(active_threads, x) /\ next_threads' = next_threads
        \/ active_threads' = active_threads /\ next_threads' = Append(next_threads, x) /\ dst # "active"
    BY <1>9, <1>1 DEF LoadAccepting, LoadQueue, TypeOK
  <2>3. /\ Apart(Elems(thread_pool'), Elems(active_threads'), Elems(next_threads'), R)
        /\ Elems(active_threads') \cup Elems(next_threads') = A \cup N \cup {x}
        /\ NoDup(active_threads') /\ NoDup(next_threads')
    <3>1. CASE active_threads' = Append(active_threads, x) /\ next_threads' = next_threads
      <4>1. Elems(thread_pool') = P /\ Elems(active_threads') = A \cup {x} /\ Elems(next_threads') = N
        BY <3>1, <2>1, <1>7
      <4>2. Apart(P, A \cup {x}, N, R)
        BY <1>3, <1>4, <1>6 DEF Apart
      <4> QED BY <4>1, <4>2, <3>1, <1>3, <1>7
    <3>2. CASE active_threads' = active_threads /\ next_threads' = Append(next_threads, x)
      <4>1. Elems(thread_pool') = P /\ Elems(active_threads') = A /\ Elems(next_threads') = N \cup {x}
        BY <3>2, <2>1, <1>7
      <4>2. Apart(P, A, N \cup {x}, R)
        BY <1>3, <1>4, <1>6 DEF Apart
      <4> QED BY <4>1, <4>2, <3>2, <1>3, <1>7
    <3> QED BY <3>1, <3>2, <2>2
  <2>4. pc = "switch" => /\ thread = x => th'[thread].status = 0
                         /\ thread # x => th'[thread].status = th[thread].status
    BY <2>1, <1>3, <1>8 DEF Threads, ThreadRec
  <2>5. pc = "switch" /\ thread \notin R =>
          (th'[thread].status = 0 <=> thread \in Elems(active_threads') \cup Elems(next_threads'))
    <3>1. CASE thread = x
      BY <3>1, <2>3, <2>4
    <3>2. CASE thread # x
      BY <3>2, <2>3, <2>4, <1>3, <1>4
    <3> QED BY <3>1, <3>2
  <2>6. \A t \in 1..nthreads' : t \in Elems(thread_pool') \cup Elems(active_threads')
                                       \cup Elems(next_threads') \cup R \cup {thread}
    BY <2>1, <2>3, <1>3, <1>4, <1>5
  <2>7. dst = "active" => next_threads' = next_threads
    BY <2>2
  <2> QED BY <2>1, <2>3, <2>5, <2>6, <2>7, <1>1, <1>3, <1>4, <1>5, OwnershipKeeps
<1>10. CASE LoadDrop
  <2>1. /\ th' = [th EXCEPT ![x].status = -1] /\ UNCHANGED <<active_threads, next_threads>>
        /\ thread_pool' = IF x = thread THEN thread_pool ELSE Append(thread_pool, x)
    BY <1>10 DEF LoadDrop, PoolAfterDrop
  <2>2. pc = "switch" => /\ thread = x => th'[thread].status = -1
                         /\ thread # x => th'[thread].status = th[thread].status
    BY <2>1, <1>3, <1>8 DEF Threads, ThreadRec
  <2>3. CASE x = thread
    <3>1. thread_pool' = thread_pool /\ (pc = "switch" => th'[thread].status # 0)
      BY <2>1, <2>2, <2>3
    <3>2. Apart(P, A, N, R) /\ \A t \in 1..nthreads : t \in P \cup A \cup N \cup R \cup {thread}
      BY <2>3, <1>3, <1>4 DEF Apart
    <3> QED BY <3>1, <3>2, <2>1, <2>3, <1>1, <1>3, <1>4, <1>5, <1>6, OwnershipKeeps
  <2>4. CASE x # thread
    <3>1. /\ Elems(thread_pool') = P \cup {x} /\ NoDup(thread_pool') /\ thread \notin P \cup {x}
          /\ pc = "switch" => th'[thread].status = th[thread].status
      BY <2>1, <2>2, <2>4, <1>3, <1>7
    <3>2. /\ Apart(P \cup {x}, A, N, R)
          /\ \A t \in 1..nthreads : t \in (P \cup {x}) \cup A \cup N \cup R \cup {thread}
      BY <1>3, <1>4, <1>6 DEF Apart
    <3>3. pc = "switch" /\ thread \notin R => (th'[thread].status = 0 <=> thread \in A \cup N)
      BY <3>1, <2>4, <1>3, <1>4
    <3> QED BY <3>1, <3>2, <3>3, <2>1, <1>1, <1>3, <1>4, <1>5, OwnershipKeeps
  <2> QED BY <2>3, <2>4
<1> QED BY <1>9, <1>10


\* A start state or a clone gives its new thread a home: a pending load_next, the
\* active list or the pool.
LEMMA ObtainOwnership ==
  ASSUME IInv, StartState \/ Clone
  PROVE  Ownership'
<1> DEFINE P == Elems(Rest(thread_pool))
           A == Elems(active_threads)
           N == Elems(next_threads)
           x == Obtained
           f == Frame("load", Call.nfa, x, 0, 0)
<1>1. /\ todo # <<>> /\ Call.op \in {"start", "clone"} /\ Obtainable /\ Allocate
      /\ UNCHANGED <<pc, thread, next_threads, dst>> /\ prog' = prog
  BY DEF StartState, Clone, Pending, Call, input
<1>2. /\ todo \in Seq(FrameRec) /\ Tail(todo) \in Seq(FrameRec) /\ Ownership /\ TypeOK
      /\ active_threads \in Seq(1..nthreads) /\ Call.nfa \in 1..Len(prog.nodes)
  BY <1>1, CallFacts DEF IInv, TypeOK
<1>3. /\ x \notin A \cup N \cup Loading /\ x # thread /\ x \notin P
      /\ P \subseteq Elems(thread_pool) /\ NoDup(Rest(thread_pool)) /\ Rest(thread_pool) \in Seq(1..nthreads)
      /\ \A t \in 1..nthreads' : t \in {x} \cup P \cup A \cup N \cup Loading \cup {thread}
  BY <1>1, ObtainedHome
<1>4. /\ Apart(Elems(thread_pool), A, N, Loading) /\ NoDup(active_threads) /\ NoDup(next_threads)
      /\ LoadsDistinct(todo) /\ LoadLast(todo) /\ thread \notin Elems(thread_pool)
      /\ pc = "switch" /\ thread \notin Loading => (th[thread].status = 0 <=> thread \in A \cup N)
      /\ pc = "switch" => thread # NULL
  BY <1>1, OwnershipNow
<1>5. /\ LoadsDistinct(Tail(todo)) /\ LoadLast(Tail(todo)) /\ LoadSims(Tail(todo)) = Loading
  <2>1. Head(todo).op # "load"
    BY <1>1 DEF Call
  <2> QED BY <2>1, <1>1, <1>2, <1>4, FramesTail DEF Loading
<1>6. Apart(P, A, N, Loading) /\ thread \notin P
  BY <1>3, <1>4 DEF Apart
<1>7. /\ x \in 1..nthreads' /\ x \in 1..MaxThreads
      /\ Rest(thread_pool) \in Seq(1..nthreads') /\ active_threads \in Seq(1..nthreads')
  BY <1>1, <1>2, <1>3, ObtainFacts
<1>8. pc = "switch" => th'[thread].status = th[thread].status
  <2> SUFFICES ASSUME pc = "switch" PROVE th'[thread].status = th[thread].status
    OBVIOUS
  <2>1. thread \in 1..MaxThreads /\ th \in Threads
    BY <1>4, SteppedThread
  <2>2. th' = [th EXCEPT ![x] = StartThread(x, Call.nfa)]
        \/ th' = [th EXCEPT ![x] = ClonedThread(x, th[Call.sim], Call.nfa)]
    BY DEF StartState, Clone
  <2> QED BY <2>1, <2>2, <1>3 DEF Threads
<1>9. CASE thread_pool' = Rest(thread_pool) /\ active_threads' = active_threads /\ todo' = <<f>> \o Tail(todo)
  <2>1. <<f>> \in Seq(FrameRec') /\ Tail(todo) \in Seq(FrameRec') /\ Segment(<<f>>, x)
    <3>1. f \in FrameRec' /\ f.op = "load" /\ f.sim = x
      BY <1>1, <1>2, <1>7 DEF Frame, FrameRec, NULL
    <3>2. Tail(todo) \in Seq(FrameRec')
      BY <1>1, <1>2, ObtainFacts
    <3> HIDE DEF f
    <3> QED BY <3>1, <3>2 DEF Segment
  <2>2. LoadsDistinct(todo') /\ LoadLast(todo') /\ LoadSims(todo') = Loading \cup {x}
    <3>1. PICK F, r, q, y : F = FrameRec' /\ r = Tail(todo) /\ q = <<f>> /\ y = x
      OBVIOUS
    <3>2. q \in Seq(F) /\ r \in Seq(F) /\ Segment(q, y) /\ LoadsDistinct(r) /\ LoadLast(r) /\ y \notin LoadSims(r)
      BY <3>1, <2>1, <1>3, <1>5
    <3>3. LoadsDistinct(q \o r) /\ LoadLast(q \o r) /\ LoadSims(q \o r) = LoadSims(r) \cup {y}
      BY <3>2, FramesSegment
    <3> QED BY <3>1, <3>3, <1>5, <1>9
  <2>3. Apart(P, A, N, Loading \cup {x})
    BY <1>3, <1>6 DEF Apart
  <2>4. \A t \in 1..nthreads' : t \in P \cup A \cup N \cup (Loading \cup {x}) \cup {thread}
    BY <1>3
  <2> HIDE DEF P, A, N, x, f
  <2> QED BY <2>2, <2>3, <2>4, <1>1, <1>2, <1>3, <1>4, <1>6, <1>8, <1>9, OwnershipKeeps DEF P, A, N
<1>10. CASE thread_pool' = Rest(thread_pool) /\ active_threads' = Append(active_threads, x) /\ todo' = Tail(todo)
  <2>1. Elems(active_threads') = A \cup {x} /\ NoDup(active_threads')
    <3>1. PICK S, q, y : S = 1..nthreads' /\ q = active_threads /\ y = x
      OBVIOUS
    <3>2. q \in Seq(S) /\ y \in S /\ NoDup(q) /\ y \notin Elems(q)
      BY <3>1, <1>3, <1>4, <1>7
    <3>3. Elems(Append(q, y)) = Elems(q) \cup {y} /\ NoDup(Append(q, y))
      BY <3>2, ElemsAppend
    <3> QED BY <3>1, <3>3, <1>10
  <2>2. Apart(P, A \cup {x}, N, Loading)
    BY <1>3, <1>6 DEF Apart
  <2>3. \A t \in 1..nthreads' : t \in P \cup (A \cup {x}) \cup N \cup Loading \cup {thread}
    BY <1>3
  <2>4. pc = "switch" /\ thread \notin Loading => (th'[thread].status = 0 <=> thread \in (A \cup {x}) \cup N)
    BY <1>3, <1>4, <1>8
  <2> HIDE DEF P, A, N, x, f
  <2> QED BY <2>1, <2>2, <2>3, <2>4, <1>1, <1>2, <1>3, <1>4, <1>5, <1>6, <1>10, OwnershipKeeps DEF P, A, N
<1>11. CASE thread_pool' = Append(Rest(thread_pool), x) /\ active_threads' = active_threads /\ todo' = Tail(todo)
  <2>1. Elems(thread_pool') = P \cup {x} /\ NoDup(thread_pool')
    <3>1. PICK S, q, y : S = 1..nthreads' /\ q = Rest(thread_pool) /\ y = x
      OBVIOUS
    <3>2. q \in Seq(S) /\ y \in S /\ NoDup(q) /\ y \notin Elems(q)
      BY <3>1, <1>3, <1>4, <1>7
    <3>3. Elems(Append(q, y)) = Elems(q) \cup {y} /\ NoDup(Append(q, y))
      BY <3>2, ElemsAppend
    <3> QED BY <3>1, <3>3, <1>11
  <2>2. Apart(P \cup {x}, A, N, Loading) /\ thread \notin P \cup {x}
    BY <1>3, <1>6 DEF Apart
  <2>3. \A t \in 1..nthreads' : t \in (P \cup {x}) \cup A \cup N \cup Loading \cup {thread}
    BY <1>3
  <2> HIDE DEF P, A, N, x, f
  <2> QED BY <2>1, <2>2, <2>3, <1>1, <1>2, <1>3, <1>4, <1>5, <1>6, <1>8, <1>11, OwnershipKeeps DEF P, A, N
<1>12. \/ thread_pool' = Rest(thread_pool) /\ active_threads' = active_threads /\ todo' = <<f>> \o Tail(todo)
       \/ thread_pool' = Rest(thread_pool) /\ active_threads' = Append(active_threads, x) /\ todo' = Tail(todo)
       \/ thread_pool' = Append(Rest(thread_pool), x) /\ active_threads' = active_threads /\ todo' = Tail(todo)
  BY DEF StartState, Clone
<1> QED BY <1>9, <1>10, <1>11, <1>12

\* No pending call gives a thread two homes or none.
LEMMA OwnershipCalls ==
  ASSUME IInv, Calls
  PROVE  Ownership'
<1>1. CASE StartState \/ Clone
  BY <1>1, ObtainOwnership
<1>2. CASE LoadAccepting \/ LoadQueue \/ LoadDrop
  BY <1>2, LoadOwnership
<1>3. CASE CloneRefused \/ ResetCount
  <2>1. /\ todo # <<>> /\ Call.op # "load" /\ IsOnBehalf(Call) /\ UNCHANGED <<pc, thread, dst, lists>>
        /\ todo' = Tail(todo)
    BY <1>3 DEF CloneRefused, ResetCount, Pending, Call, IsOnBehalf
  <2>2. <<>> \in Seq(FrameRec) /\ OnBehalfOf(<<>>, Call.sim) /\ todo' = <<>> \o Tail(todo)
    <3>1. Tail(todo) \in Seq(FrameRec)
      BY <2>1, CallFacts DEF IInv
    <3> QED BY <2>1, <3>1 DEF OnBehalfOf
  <2>3. thread # NULL => th'[thread].status = th[thread].status
    <3>1. CASE CloneRefused
      BY <3>1 DEF CloneRefused
    <3>2. CASE ResetCount
      BY <3>2, CallProgress, SteppedThread DEF SameProgress, IInv
    <3> QED BY <1>3, <3>1, <3>2
  <2> QED BY <2>1, <2>2, <2>3, BehalfOwnership
<1>4. CASE ForEach
  <2>1. /\ todo # <<>> /\ Call.op = "each" /\ IsOnBehalf(Call) /\ UNCHANGED <<pc, thread, dst, lists, th>>
    BY <1>4 DEF ForEach, Pending, Call, IsOnBehalf
  <2>2. PICK n, at : n = Call.nfa /\ at = SeekTo(n, Call.a)
    OBVIOUS
  <2>3. /\ HasNext(n, at) => Node(n).reach[at + 1] \in 1..Len(prog.nodes)
        /\ Tail(todo) \in Seq(FrameRec) /\ Call \in FrameRec /\ prog \in Programs /\ nthreads \in Nat
    BY <2>1, <2>2, CallFacts, TurnFacts DEF IInv, TypeOK
  <2>4. todo' = IF HasNext(n, at) /\ at + 1 <= Call.b
                THEN <<Frame("clone", Node(n).reach[at + 1], Call.sim, 0, 0),
                       [Call EXCEPT !.a = NoSeek]>> \o Tail(todo)
                ELSE Tail(todo)
    BY <1>4, <2>2 DEF ForEach
  <2>5. CASE HasNext(n, at) /\ at + 1 <= Call.b
    <3>1. PICK s : s = <<Frame("clone", Node(n).reach[at + 1], Call.sim, 0, 0), [Call EXCEPT !.a = NoSeek]>>
      OBVIOUS
    <3>2. s \in Seq(FrameRec) /\ OnBehalfOf(s, Call.sim)
      BY <3>1, <2>1, <2>3, <2>5, TurnFrames
    <3>3. todo' = s \o Tail(todo)
      BY <3>1, <2>4, <2>5
    <3> QED BY <3>2, <3>3, <2>1, BehalfOwnership
  <2>6. CASE ~(HasNext(n, at) /\ at + 1 <= Call.b)
    <3>1. <<>> \in Seq(FrameRec) /\ OnBehalfOf(<<>>, Call.sim) /\ todo' = <<>> \o Tail(todo)
      BY <2>3, <2>4, <2>6 DEF OnBehalfOf
    <3> QED BY <3>1, <2>1, BehalfOwnership
  <2> QED BY <2>5, <2>6
<1>5. CASE LoadCapture
  <2>1. /\ Pending("load") /\ todo # <<>> /\ Call.op = "load" /\ UNCHANGED <<pc, thread, dst, lists>>
        /\ todo' = Adjacents(Call.nfa, Call.sim) \o Tail(todo) /\ Node(Call.nfa).type # "ACCEPTING"
    BY <1>5 DEF LoadCapture, Pending, Call
  <2>2. Adjacents(Call.nfa, Call.sim) \in Seq(FrameRec) /\ Segment(Adjacents(Call.nfa, Call.sim), Call.sim)
    <3>1. Call.nfa \in 1..Len(prog.nodes) /\ Call.sim \in 1..nthreads /\ nthreads \in Nat /\ prog \in Programs
      BY <2>1, CallFacts DEF IInv, TypeOK
    <3> QED BY <3>1, <2>1, AdjacentsSegment
  <2>3. thread # NULL => th'[thread].status = th[thread].status
    BY <1>5, CallProgress, SteppedThread DEF SameProgress, IInv
  <2> QED BY <2>1, <2>2, <2>3, SegmentOwnership
<1>6. CASE LoadInterval
  <2>1. /\ Pending("load") /\ todo # <<>> /\ Call.op = "load" /\ UNCHANGED <<pc, thread, dst, lists>>
        /\ Node(Call.nfa).type = "INTERVAL"
        /\ \/ MustRepeat(Call.nfa, Call.sim) \/ MayRepeat(Call.nfa, Call.sim)
           \/ MustLeave(Call.nfa, Call.sim) \/ Unlimited(Call.nfa, Call.sim)
    BY <1>6 DEF LoadInterval, Pending, Call
  <2>2. Call.nfa \in 1..Len(prog.nodes) /\ Call.sim \in 1..nthreads /\ TypeOK
    BY <2>1, CallFacts DEF IInv
  <2>3. /\ \A u \in 1..MaxThreads : th'[u].status = th[u].status
        /\ \E calls \in Seq(FrameRec) : Segment(calls, Call.sim) /\ todo' = calls \o Tail(todo)
    BY <2>1, <2>2, IntervalFacts
  <2>4. thread # NULL => th'[thread].status = th[thread].status
    BY <2>3, SteppedThread
  <2> QED BY <2>1, <2>3, <2>4, SegmentOwnership
<1>7. CASE OutOfMemory
  <2>1. pc' = "oom" /\ todo' = <<>> /\ UNCHANGED <<thread, dst, lists, th>>
    BY <1>7 DEF OutOfMemory
  <2>2. LoadsDistinct(<<>>) /\ LoadLast(<<>>) /\ LoadSims(<<>>) = {}
    BY DEF LoadsDistinct, LoadLast, LoadSims
  <2>3. Ownership /\ OneHome
    BY DEF IInv, Ownership
  <2>4. OneHome'
    BY <2>1, <2>2, <2>3 DEF OneHome, lists, Loading
  <2> QED BY <2>1, <2>2, <2>3, <2>4 DEF Ownership, lists
<1> QED BY <1>1, <1>2, <1>3, <1>4, <1>5, <1>6, <1>7 DEF Calls


\* Empty stack, and a stack of start states.
LEMMA NoLoads ==
  /\ LoadsDistinct(<<>>) /\ LoadLast(<<>>) /\ LoadSims(<<>>) = {}
  /\ prog \in Programs /\ nthreads \in Nat =>
       LoadsDistinct(StartFrames) /\ LoadLast(StartFrames) /\ LoadSims(StartFrames) = {}
<1>1. LoadsDistinct(<<>>) /\ LoadLast(<<>>) /\ LoadSims(<<>>) = {}
  BY DEF LoadsDistinct, LoadLast, LoadSims
<1>2. ASSUME prog \in Programs, nthreads \in Nat
      PROVE  LoadsDistinct(StartFrames) /\ LoadLast(StartFrames) /\ LoadSims(StartFrames) = {}
  BY <1>2, StartFramesFacts, FramesFlat
<1> QED BY <1>1, <1>2

\* What Ownership says between calls.
LEMMA OwnershipIdle ==
  ASSUME IInv, todo = <<>>, pc # "oom"
  PROVE  /\ NoDup(thread_pool) /\ NoDup(active_threads) /\ NoDup(next_threads) /\ Loading = {}
         /\ Apart(Elems(thread_pool), Elems(active_threads), Elems(next_threads), {})
         /\ \A t \in 1..nthreads : t \in Elems(thread_pool) \cup Elems(active_threads)
                                         \cup Elems(next_threads) \cup {thread}
         /\ thread \notin Elems(thread_pool)
         /\ thread_pool \in Seq(1..nthreads) /\ active_threads \in Seq(1..nthreads)
         /\ next_threads \in Seq(1..nthreads) /\ nthreads \in Nat \ {0} /\ thread \in 0..nthreads
         /\ thread # NULL => thread \in 1..nthreads
         /\ NULL \notin Elems(thread_pool) /\ NULL \notin Elems(active_threads)
         /\ NULL \notin Elems(next_threads)
<1>1. Loading = {}
  BY NoLoads DEF Loading
<1>2. Ownership /\ OneHome /\ TypeOK
  BY DEF IInv, Ownership
<1>3. /\ thread_pool \in Seq(1..nthreads) /\ active_threads \in Seq(1..nthreads)
      /\ next_threads \in Seq(1..nthreads) /\ nthreads \in Nat \ {0} /\ thread \in 0..nthreads
  BY <1>2, BoundAssumption DEF TypeOK
<1>4. /\ Elems(thread_pool) \subseteq 1..nthreads /\ Elems(active_threads) \subseteq 1..nthreads
      /\ Elems(next_threads) \subseteq 1..nthreads
  BY <1>2, Allocated
<1>5. NULL \notin 1..nthreads /\ (thread # NULL => thread \in 1..nthreads)
  BY <1>3 DEF NULL
<1>6. /\ NoDup(thread_pool) /\ NoDup(active_threads) /\ NoDup(next_threads)
      /\ Apart(Elems(thread_pool), Elems(active_threads), Elems(next_threads), {})
  BY <1>2 DEF OneHome, Apart
<1>7. /\ \A t \in 1..nthreads : t \in Elems(thread_pool) \cup Elems(active_threads)
                                         \cup Elems(next_threads) \cup {thread}
      /\ thread \notin Elems(thread_pool)
  BY <1>1, <1>2 DEF Ownership, Listed
<1> QED BY <1>1, <1>3, <1>4, <1>5, <1>6, <1>7

\* What is left to show when a step ends without pending calls in load_next.
LEMMA OwnershipEnds ==
  ASSUME LoadsDistinct(todo'), LoadLast(todo'), LoadSims(todo') = {},
         NoDup(thread_pool'), NoDup(active_threads'), NoDup(next_threads'),
         Apart(Elems(thread_pool'), Elems(active_threads'), Elems(next_threads'), {}),
         \A t \in 1..nthreads' : t \in Elems(thread_pool') \cup Elems(active_threads')
                                       \cup Elems(next_threads') \cup {thread'},
         thread' \notin Elems(thread_pool'),
         pc' \in {"loop", "release", "prologue", "fetch", "idle"},
         pc' \in {"loop", "release", "idle"} => todo' = <<>>,
         pc' \in {"loop", "release"} =>
           thread' \notin Elems(active_threads') /\ thread' \notin Elems(next_threads'),
         pc' = "loop" /\ thread' = NULL => active_threads' = <<>>,
         pc' \in {"idle", "prologue", "fetch"} => thread' = NULL /\ next_threads' = <<>>,
         pc' = "idle" => active_threads' = <<>>,
         pc' \in {"prologue", "fetch"} => dst' = "active"
  PROVE  Ownership'
<1>1. OneHome'
  BY DEF OneHome, Apart, Loading
<1>2. /\ pc' \notin {"switch", "oom", "fatal"}
  OBVIOUS
<1> QED BY <1>1, <1>2 DEF Ownership, Listed, Loading

\* thread_step leaves its thread with a pending call, on the next list, or with a
\* status that tells run_nfa to release it.
LEMMA OwnershipSteps ==
  ASSUME IInv, Steps
  PROVE  Ownership'
<1> USE DEF lists
<1>1. /\ pc = "loop" /\ pc' = "switch" /\ thread # NULL /\ todo = <<>> /\ Ownership
      /\ UNCHANGED <<thread, thread_pool, active_threads, nthreads>>
      /\ thread \notin Elems(active_threads) /\ thread \notin Elems(next_threads)
  <2>1. /\ pc = "loop" /\ pc' = "switch" /\ thread # NULL
        /\ UNCHANGED <<thread, thread_pool, active_threads, nthreads>>
    BY DEF Steps, StepConsume, StepAnchor, StepBackreference, StepAccept, StepFail, Stepping
  <2> QED BY <2>1 DEF IInv, Ownership, Listed
<1>2. /\ NoDup(thread_pool) /\ NoDup(active_threads) /\ NoDup(next_threads)
      /\ Apart(Elems(thread_pool), Elems(active_threads), Elems(next_threads), {})
      /\ \A t \in 1..nthreads : t \in Elems(thread_pool) \cup Elems(active_threads)
                                      \cup Elems(next_threads) \cup {thread}
      /\ thread \notin Elems(thread_pool) /\ next_threads \in Seq(1..nthreads) /\ thread \in 1..nthreads
  BY <1>1, OwnershipIdle
<1>3. /\ thread \in 1..MaxThreads /\ th \in Threads /\ th[thread] \in ThreadRec
      /\ th[thread].ip \in 1..Len(prog.nodes) /\ prog \in Programs /\ nthreads \in Nat
  BY <1>1, SteppedThread
<1>4. CASE Inst.type # "ACCEPTING" /\ todo' = Adjacents(th[thread].ip, thread) /\ next_threads' = next_threads
  <2>1. todo' \in Seq(FrameRec) /\ Segment(todo', thread)
    BY <1>2, <1>3, <1>4, AdjacentsSegment DEF Inst
  <2>2. LoadsDistinct(todo') /\ LoadLast(todo') /\ LoadSims(todo') = {thread}
    <3>1. PICK s, e, t : s = todo' /\ e = <<>> /\ t = thread
      OBVIOUS
    <3>2. /\ s \in Seq(FrameRec) /\ e \in Seq(FrameRec) /\ Segment(s, t)
          /\ LoadsDistinct(e) /\ LoadLast(e) /\ t \notin LoadSims(e)
      BY <3>1, <2>1, NoLoads
    <3>3. LoadsDistinct(s \o e) /\ LoadLast(s \o e) /\ LoadSims(s \o e) = LoadSims(e) \cup {t}
      BY <3>2, FramesSegment
    <3>4. s \o e = s
      BY <3>1, <3>2
    <3> QED BY <3>1, <3>3, <3>4, NoLoads
  <2>3. OneHome'
    BY <2>2, <1>1, <1>2, <1>4 DEF OneHome, Apart, Loading
  <2> QED BY <2>2, <2>3, <1>1, <1>2, <1>4 DEF Ownership, Listed, Loading
<1>5. CASE todo' = todo /\ next_threads' = next_threads /\ th'[thread].status # 0
  <2>1. OneHome'
    BY <1>1, <1>2, <1>5, NoLoads DEF OneHome, Apart, Loading
  <2> QED BY <2>1, <1>1, <1>2, <1>5, NoLoads DEF Ownership, Listed, Loading
<1>6. CASE todo' = todo /\ next_threads' = Append(next_threads, thread) /\ th'[thread].status = 0
  <2>1. Elems(next_threads') = Elems(next_threads) \cup {thread} /\ NoDup(next_threads')
    <3>1. PICK S, q, y : S = 1..nthreads /\ q = next_threads /\ y = thread
      OBVIOUS
    <3>2. q \in Seq(S) /\ y \in S /\ NoDup(q) /\ y \notin Elems(q)
      BY <3>1, <1>1, <1>2
    <3>3. Elems(Append(q, y)) = Elems(q) \cup {y} /\ NoDup(Append(q, y))
      BY <3>2, ElemsAppend
    <3> QED BY <3>1, <3>3, <1>6
  <2>2. OneHome'
    BY <2>1, <1>1, <1>2, <1>6, NoLoads DEF OneHome, Apart, Loading
  <2> QED BY <2>1, <2>2, <1>1, <1>2, <1>6, NoLoads DEF Ownership, Listed, Loading
<1>7. CASE StepConsume
  BY <1>7, <1>4 DEF StepConsume, Consumes
<1>8. CASE StepAnchor
  BY <1>8, <1>4 DEF StepAnchor
<1>9. CASE StepAccept \/ StepFail
  <2>1. todo' = todo /\ next_threads' = next_threads
    BY <1>9 DEF StepAccept, StepFail
  <2>2. \E v \in {-1, 1} : th' = [th EXCEPT ![thread].status = v]
    BY <1>9 DEF StepAccept, StepFail
  <2>3. th'[thread].status # 0
    BY <2>2, <1>3 DEF Threads, ThreadRec
  <2> QED BY <2>1, <2>3, <1>5
<1>10. CASE StepBackreference
  <2>1. \/ Inst.type # "ACCEPTING" /\ todo' = Adjacents(th[thread].ip, thread) /\ next_threads' = next_threads
        \/ /\ \E m, b : th' = [th EXCEPT ![thread].match = m, ![thread].bref = b, ![thread].status = 0]
           /\ todo' = todo /\ next_threads' = Append(next_threads, thread)
        \/ /\ \E m, b : th' = [th EXCEPT ![thread].match = m, ![thread].bref = b, ![thread].status = -1]
           /\ todo' = todo /\ next_threads' = next_threads
    BY <1>10 DEF StepBackreference
  <2>2. ASSUME NEW m, NEW b, NEW v, th' = [th EXCEPT ![thread].match = m, ![thread].bref = b, ![thread].status = v]
        PROVE  th'[thread].status = v
    BY <2>2, <1>3 DEF Threads, ThreadRec
  <2>3. CASE /\ \E m, b : th' = [th EXCEPT ![thread].match = m, ![thread].bref = b, ![thread].status = 0]
             /\ todo' = todo /\ next_threads' = Append(next_threads, thread)
    <3>1. th'[thread].status = 0
      BY <2>2, <2>3
    <3> QED BY <3>1, <2>3, <1>6
  <2>4. CASE /\ \E m, b : th' = [th EXCEPT ![thread].match = m, ![thread].bref = b, ![thread].status = -1]
             /\ todo' = todo /\ next_threads' = next_threads
    <3>1. th'[thread].status = -1
      BY <2>2, <2>4
    <3> QED BY <3>1, <2>4, <1>5
  <2> QED BY <2>1, <2>3, <2>4, <1>4
<1> QED BY <1>7, <1>8, <1>9, <1>10 DEF Steps


\* run_nfa moves threads between the lists, and release_all_threads collects them.
LEMMA OwnershipRest ==
  ASSUME IInv,
         \/ SwitchMatch \/ SwitchNoMatch \/ SwitchContinue
         \/ FirstThread \/ Advance \/ Restart \/ Fetch \/ EndOfLine \/ Release
  PROVE  Ownership'
<1> USE DEF lists
<1> DEFINE P == Elems(thread_pool)
           A == Elems(active_threads)
           N == Elems(next_threads)
           A2 == Elems(Rest(active_threads))
           h == Front(active_threads)
<1>1. todo = <<>> /\ pc \notin {"oom", "idle"} /\ Ownership /\ nthreads' = nthreads
  <2>1. pc \notin {"oom", "idle"} /\ (todo = <<>> \/ pc \in {"loop", "release"}) /\ nthreads' = nthreads
    BY DEF SwitchMatch, SwitchNoMatch, SwitchContinue, FirstThread, Advance, Restart, Fetch, EndOfLine, Release
  <2> QED BY <2>1 DEF IInv, Ownership
<1>2. /\ NoDup(thread_pool) /\ NoDup(active_threads) /\ NoDup(next_threads) /\ Apart(P, A, N, {})
      /\ \A t \in 1..nthreads : t \in P \cup A \cup N \cup {thread}
      /\ thread \notin P /\ (thread # NULL => thread \in 1..nthreads)
      /\ thread_pool \in Seq(1..nthreads) /\ active_threads \in Seq(1..nthreads)
      /\ next_threads \in Seq(1..nthreads) /\ nthreads \in Nat \ {0}
      /\ NULL \notin P /\ NULL \notin A /\ NULL \notin N /\ Loading = {}
  BY <1>1, OwnershipIdle
<1>3. LoadsDistinct(todo) /\ LoadLast(todo) /\ LoadSims(todo) = {}
  BY <1>1, NoLoads
<1>4. /\ Rest(active_threads) \in Seq(1..nthreads) /\ A2 \subseteq A /\ NoDup(Rest(active_threads))
      /\ h \notin A2 /\ A \subseteq A2 \cup {h} /\ (h = NULL => Rest(active_threads) = <<>>)
      /\ h = NULL \/ h \in A
  <2>1. CASE active_threads = <<>>
    <3>1. h = NULL /\ Rest(active_threads) = active_threads /\ A = {} /\ A2 = {}
      BY <2>1, ElemsEmpty DEF Front, Rest
    <3> QED BY <3>1, <2>1, <1>2
  <2>2. CASE active_threads # <<>>
    <3>1. h = Head(active_threads) /\ Rest(active_threads) = Tail(active_threads)
      BY <2>2 DEF Front, Rest
    <3>2. /\ Tail(active_threads) \in Seq(1..nthreads) /\ A = {h} \cup A2 /\ NoDup(Tail(active_threads))
          /\ h \notin A2
      BY <3>1, <2>2, <1>2, ElemsTail
    <3> HIDE DEF h, A, A2
    <3>3. h # NULL
      BY <3>2, <1>2 DEF A
    <3> QED BY <3>1, <3>2, <3>3
  <2> QED BY <2>1, <2>2
<1>5. h \notin P /\ h \notin N /\ Apart(P, A2, N, {})
  BY <1>2, <1>4 DEF Apart
<1> HIDE DEF P, A, N, A2, h
\* sim_pool_shift, the old thread being on a list or given to the pool.
<1>6. ASSUME NextThread, UNCHANGED <<next_threads, todo>>, pc' = "loop" \/ (pc' = "release" /\ h = NULL),
             thread_pool' = thread_pool, thread = NULL \/ thread \in A \cup N
      PROVE  Ownership'
  <2>1. thread' = h /\ active_threads' = Rest(active_threads) /\ Elems(active_threads') = A2
    BY <1>6 DEF NextThread, h, A2
  <2>2. \A t \in 1..nthreads' : t \in P \cup A2 \cup N \cup {h}
    <3>1. NULL \notin 1..nthreads
      BY <1>2 DEF NULL
    <3> QED BY <3>1, <1>1, <1>2, <1>4, <1>6
  <2> QED BY <2>1, <2>2, <1>1, <1>2, <1>3, <1>4, <1>5, <1>6, OwnershipEnds DEF P, N
<1>7. ASSUME NextThread, UNCHANGED <<next_threads, todo>>, pc' = "loop",
             thread_pool' = Append(thread_pool, thread), thread # NULL, thread \notin A \cup N
      PROVE  Ownership'
  <2>1. thread' = h /\ active_threads' = Rest(active_threads) /\ Elems(active_threads') = A2
    BY <1>7 DEF NextThread, h, A2
  <2>2. Elems(thread_pool') = P \cup {thread} /\ NoDup(thread_pool')
    <3>1. PICK S, q, y : S = 1..nthreads /\ q = thread_pool /\ y = thread
      OBVIOUS
    <3>2. q \in Seq(S) /\ y \in S /\ NoDup(q) /\ y \notin Elems(q)
      BY <3>1, <1>2, <1>7 DEF P
    <3>3. Elems(Append(q, y)) = Elems(q) \cup {y} /\ NoDup(Append(q, y))
      BY <3>2, ElemsAppend
    <3> QED BY <3>1, <3>3, <1>7 DEF P
  <2>3. Apart(P \cup {thread}, A2, N, {}) /\ h \notin P \cup {thread}
    BY <1>4, <1>5, <1>7 DEF Apart
  <2>4. \A t \in 1..nthreads' : t \in (P \cup {thread}) \cup A2 \cup N \cup {h}
    BY <1>1, <1>2, <1>4
  <2> QED BY <2>1, <2>2, <2>3, <2>4, <1>1, <1>2, <1>3, <1>4, <1>5, <1>7, OwnershipEnds DEF N
<1>8. pc = "switch" => thread # NULL /\ (th[thread].status = 0 <=> thread \in A \cup N)
  BY <1>1, <1>2 DEF Ownership, Listed, A, N
<1>9. CASE SwitchMatch
  <2>1. th[thread].status = 1 /\ pc = "switch" /\ todo' = todo
    BY <1>9 DEF SwitchMatch
  <2>2. thread # NULL /\ thread \notin A \cup N
    BY <2>1, <1>8
  <2>3. CASE UNCHANGED <<thread, thread_pool, active_threads, next_threads>> /\ pc' = "release"
    BY <2>1, <2>2, <2>3, <1>1, <1>2, <1>3, OwnershipEnds DEF P, A, N
  <2>4. CASE NextThread /\ thread_pool' = Append(thread_pool, thread) /\ next_threads' = next_threads /\ pc' = "loop"
    BY <2>1, <2>2, <2>4, <1>7
  <2> QED BY <1>9, <2>3, <2>4 DEF SwitchMatch
<1>10. CASE SwitchNoMatch
  <2>1. th[thread].status = -1 /\ pc = "switch"
    BY <1>10 DEF SwitchNoMatch
  <2>2. thread # NULL /\ thread \notin A \cup N
    BY <2>1, <1>8
  <2> QED BY <2>2, <1>10, <1>7 DEF SwitchNoMatch
<1>11. CASE SwitchContinue
  <2>1. thread \in A \cup N
    BY <1>11, <1>8 DEF SwitchContinue
  <2> QED BY <2>1, <1>11, <1>6 DEF SwitchContinue
<1>12. CASE FirstThread
  <2>1. thread = NULL /\ (active_threads = <<>> => h = NULL)
    BY <1>12, <1>1 DEF FirstThread, Ownership, h, Front
  <2> QED BY <2>1, <1>12, <1>6 DEF FirstThread, NextThread
<1>13. CASE Fetch
  <2>1. thread = NULL
    BY <1>13, <1>1 DEF Fetch, Ownership
  <2> QED BY <2>1, <1>13, <1>6 DEF Fetch
<1>14. CASE EndOfLine
  <2>1. thread \notin A /\ thread \notin N
    BY <1>14, <1>1 DEF EndOfLine, Ownership, Listed, A, N
  <2>2. UNCHANGED <<thread, thread_pool, active_threads, next_threads, todo>> /\ pc' = "release"
    BY <1>14 DEF EndOfLine
  <2> QED BY <2>1, <2>2, <1>1, <1>2, <1>3, OwnershipEnds DEF P, A, N
<1>15. CASE Advance
  <2>1. /\ active_threads = <<>> /\ next_threads # <<>> /\ thread' = Head(next_threads)
        /\ active_threads' = Tail(next_threads) /\ next_threads' = <<>> /\ thread = NULL
        /\ UNCHANGED <<pc, todo, thread_pool>> /\ pc = "loop"
    BY <1>15, <1>1 DEF Advance, Ownership
  <2>2. /\ N = {thread'} \cup Elems(active_threads') /\ thread' \notin Elems(active_threads')
        /\ NoDup(active_threads')
    BY <2>1, <1>2, ElemsTail DEF N
  <2>3. A = {} /\ Elems(next_threads') = {} /\ NoDup(next_threads') /\ thread' # NULL
    BY <2>1, <2>2, <1>2, ElemsEmpty DEF A
  <2>4. /\ Apart(P, Elems(active_threads'), {}, {}) /\ thread' \notin P
        /\ \A t \in 1..nthreads' : t \in P \cup Elems(active_threads') \cup {thread'}
    <3>1. NULL \notin 1..nthreads
      BY <1>2 DEF NULL
    <3> QED BY <2>1, <2>2, <2>3, <3>1, <1>1, <1>2 DEF Apart
  <2> QED BY <2>1, <2>2, <2>3, <2>4, <1>1, <1>2, <1>3, OwnershipEnds DEF P
<1>16. CASE Restart
  <2>1. pc = "loop" /\ thread = NULL /\ next_threads = <<>> /\ active_threads = <<>>
    BY <1>16, <1>1 DEF Restart, Ownership
  <2>2. A = {} /\ N = {}
    BY <2>1, ElemsEmpty DEF A, N
  <2>3. 1 \in P
    <3>1. 1 \in 1..nthreads /\ 1 # NULL
      BY <1>2 DEF NULL
    <3> QED BY <3>1, <2>1, <2>2, <1>2
  <2>4. thread_pool # <<>>
    BY <2>3, ElemsEmpty DEF P
  <2>5. /\ pc' = "fetch" /\ todo' = StartFrames /\ dst' = "active"
        /\ UNCHANGED <<thread, thread_pool, active_threads, next_threads>>
    BY <2>4, <1>16 DEF Restart
  <2>6. LoadsDistinct(todo') /\ LoadLast(todo') /\ LoadSims(todo') = {}
    BY <2>5, <1>2, NoLoads DEF IInv, TypeOK
  <2> QED BY <2>1, <2>2, <2>5, <2>6, <1>1, <1>2, OwnershipEnds DEF P, A, N
<1>17. CASE Release
  <2>1. /\ thread_pool' = AllThreads /\ active_threads' = <<>> /\ next_threads' = <<>> /\ thread' = NULL
        /\ pc' = "idle" /\ todo' = todo /\ thread \notin A /\ thread \notin N
    BY <1>17, <1>1 DEF Release, Ownership, Listed, A, N
  <2>2. PICK c : c = IF thread = NULL THEN <<>> ELSE <<thread>>
    OBVIOUS
  <2>3. c \in Seq(1..nthreads) /\ NoDup(c) /\ Elems(c) = {thread} \ {NULL}
    <3>1. CASE thread = NULL
      <4>1. c = <<>>
        BY <2>2, <3>1
      <4> QED BY <3>1, <4>1, ElemsEmpty
    <3>2. CASE thread # NULL
      <4>1. c = <<thread>> /\ thread \in 1..nthreads
        BY <2>2, <3>2, <1>2
      <4>2. NoDup(c) /\ Elems(c) = {thread}
        BY <4>1 DEF NoDup, Elems
      <4>3. c \in Seq(1..nthreads)
        BY <4>1
      <4> QED BY <3>2, <4>2, <4>3
    <3> QED BY <3>1, <3>2
  <2>4. PICK S, p, a, n : S = 1..nthreads /\ p = thread_pool /\ a = active_threads /\ n = next_threads
    OBVIOUS
  <2>5. /\ p \in Seq(S) /\ a \in Seq(S) /\ n \in Seq(S) /\ c \in Seq(S)
        /\ NoDup(p) /\ NoDup(a) /\ NoDup(n) /\ NoDup(c) /\ Elems(p) = P /\ Elems(a) = A /\ Elems(n) = N
    BY <2>3, <2>4, <1>2 DEF P, A, N
  <2>6. p \o a \in Seq(S) /\ Elems(p \o a) = P \cup A /\ NoDup(p \o a)
    BY <2>5, <1>2, ElemsConcat DEF Apart
  <2>7. (p \o a) \o n \in Seq(S) /\ Elems((p \o a) \o n) = P \cup A \cup N /\ NoDup((p \o a) \o n)
    <3>1. (P \cup A) \cap N = {}
      BY <1>2 DEF Apart
    <3>2. PICK q \in Seq(S) : q = p \o a
      BY <2>6
    <3>3. NoDup(q) /\ Elems(q) = P \cup A /\ Elems(q) \cap Elems(n) = {}
      BY <2>5, <2>6, <3>1, <3>2
    <3>4. q \o n \in Seq(S) /\ Elems(q \o n) = Elems(q) \cup Elems(n) /\ NoDup(q \o n)
      BY <2>5, <3>3, ElemsConcat
    <3> QED BY <2>5, <3>2, <3>3, <3>4
  <2>8. /\ Elems(((p \o a) \o n) \o c) = P \cup A \cup N \cup ({thread} \ {NULL})
        /\ NoDup(((p \o a) \o n) \o c)
    <3>1. (P \cup A \cup N) \cap ({thread} \ {NULL}) = {}
      BY <2>1, <1>2
    <3>2. PICK q \in Seq(S) : q = (p \o a) \o n
      BY <2>7
    <3>3. NoDup(q) /\ Elems(q) = P \cup A \cup N /\ Elems(q) \cap Elems(c) = {}
      BY <2>3, <2>7, <3>1, <3>2
    <3>4. Elems(q \o c) = Elems(q) \cup Elems(c) /\ NoDup(q \o c)
      BY <2>5, <3>3, ElemsConcat
    <3> QED BY <2>3, <3>2, <3>3, <3>4
  <2>9. AllThreads = ((p \o a) \o n) \o c
    BY <2>2, <2>4 DEF AllThreads
  <2>10. Elems(thread_pool') = P \cup A \cup N \cup ({thread} \ {NULL}) /\ NoDup(thread_pool')
    BY <2>1, <2>8, <2>9
  <2>11. \A t \in 1..nthreads' : t \in Elems(thread_pool')
    <3>1. NULL \notin 1..nthreads
      BY <1>2 DEF NULL
    <3> QED BY <3>1, <2>10, <1>1, <1>2
  <2>12. Elems(active_threads') = {} /\ Elems(next_threads') = {} /\ NoDup(active_threads') /\ NoDup(next_threads')
    BY <2>1, ElemsEmpty
  <2>13. Apart(Elems(thread_pool'), {}, {}, {}) /\ NULL \notin Elems(thread_pool')
    BY <2>10, <1>2 DEF Apart
  <2> QED BY <2>1, <2>10, <2>11, <2>12, <2>13, <1>1, <1>3, OwnershipEnds
<1> QED BY <1>9, <1>10, <1>11, <1>12, <1>13, <1>14, <1>15, <1>16, <1>17


\* A new line starts with every thread in the pool.
LEMMA OwnershipReadLine ==
  ASSUME IInv, NEW l \in Lines, ReadLine(l)
  PROVE  Ownership'
<1> USE DEF lists
<1>1. pc = "idle" /\ todo = <<>> /\ thread = NULL /\ active_threads = <<>> /\ next_threads = <<>>
  BY DEF ReadLine, IInv, Ownership
<1>2. /\ UNCHANGED <<thread, thread_pool, active_threads, next_threads, nthreads>> /\ dst' = "active"
      /\ (pc' = "release" /\ todo' = <<>>) \/ (pc' = "prologue" /\ todo' = StartFrames)
  <2>1. UNCHANGED <<thread, thread_pool, active_threads, next_threads, nthreads>> /\ dst' = "active"
    BY DEF ReadLine
  <2>2. IF Prefiltered /\ KeywordMatches(l) = {}
        THEN pc' = "release" /\ todo' = <<>>
        ELSE pc' = "prologue" /\ todo' = StartFrames
    BY DEF ReadLine
  <2> QED BY <2>1, <2>2
<1>3. prog \in Programs /\ nthreads \in Nat
  BY BoundAssumption DEF IInv, TypeOK
<1>4. LoadsDistinct(todo') /\ LoadLast(todo') /\ LoadSims(todo') = {}
  BY <1>2, <1>3, NoLoads
<1>5. /\ NoDup(thread_pool) /\ NoDup(active_threads) /\ NoDup(next_threads)
      /\ Apart(Elems(thread_pool), Elems(active_threads), Elems(next_threads), {})
      /\ \A t \in 1..nthreads : t \in Elems(thread_pool) \cup Elems(active_threads)
                                      \cup Elems(next_threads) \cup {thread}
      /\ thread \notin Elems(thread_pool)
      /\ NULL \notin Elems(active_threads) /\ NULL \notin Elems(next_threads)
  BY <1>1, OwnershipIdle
<1> QED BY <1>1, <1>2, <1>4, <1>5, OwnershipEnds

\* Every step keeps every thread in one home.
LEMMA OwnershipStep ==
  ASSUME IInv, [Next]_vars
  PROVE  Ownership'
<1>1. CASE Calls
  BY <1>1, OwnershipCalls
<1>2. CASE Steps
  BY <1>2, OwnershipSteps
<1>3. CASE \/ SwitchMatch \/ SwitchNoMatch \/ SwitchContinue
           \/ FirstThread \/ Advance \/ Restart \/ Fetch \/ EndOfLine \/ Release
  BY <1>3, OwnershipRest
<1>4. CASE \E l \in Lines : ReadLine(l)
  BY <1>4, OwnershipReadLine
<1>5. CASE UNCHANGED vars
  <2>1. UNCHANGED <<pc, thread, th, todo, dst, thread_pool, active_threads, next_threads, nthreads>>
    BY <1>5 DEF vars, lists
  <2> QED BY <2>1 DEF IInv, Ownership, OneHome, Listed, Loading
<1> QED BY <1>1, <1>2, <1>3, <1>4, <1>5 DEF Next, Engine, Exit

-----------------------------------------------------------------------------
(* Part 3: positions and attempts.                                          *)

-----------------------------------------------------------------------------
(* Positions.                                                               *)

\* What a step within a line has to keep.
LEMMA PositionsKeeps ==
  ASSUME IInv, pc # "idle", UNCHANGED <<prog, mem, eol>>,
         cur_pos' \in Place, input_pointer' \in Place, lookahead' \in Place,
         kw_matches' \subseteq kw_matches, InText(match'),
         next_threads' # <<>> => cur_pos' \in 1..eol,
         todo' # <<>> /\ dst' = "next" => cur_pos' \in 1..eol,
         \A t \in Live' : th'[t].ip \in 1..Len(prog.nodes) /\ InText(th'[t].match),
         \A i \in 1..Len(out') : 1 <= out'[i].start /\ out'[i].end <= eol
  PROVE  Positions'
<1>1. mem[BufCap] = NUL /\ mem[eol + 1] = NUL /\ \A m \in kw_matches : m.beg \in 1..eol
  BY DEF IInv, Positions
<1>2. Place' = Place /\ \A m : InText(m)' = InText(m)
  BY DEF Place, InText
<1>3. mem'[BufCap] = NUL /\ mem'[eol' + 1] = NUL /\ \A m \in kw_matches' : m.beg \in 1..eol'
  BY <1>1
<1>4. InText(match)' /\ \A t \in Live' : (th[t].ip)' \in 1..Len(prog'.nodes) /\ InText(th[t].match)'
  BY DEF InText
<1> QED BY <1>2, <1>3, <1>4 DEF Positions

\* Where the progress of a thread comes from when a pending call has run: the
\* thread that is set up copies another one or starts afresh.
LEMMA LiveCalls ==
  ASSUME IInv, Calls
  PROVE  \A t \in Live' : /\ th'[t].ip \in 1..Len(prog.nodes)
                          /\ th'[t].match = NoMatch \/ \E u \in Live : th'[t].match = th[u].match
<1> USE DEF lists
<1>1. todo # <<>>
  BY DEF Calls, StartState, CloneRefused, Clone, LoadCapture, LoadInterval, ResetCount,
         ForEach, LoadAccepting, LoadQueue, LoadDrop, OutOfMemory, Pending
<1>2. /\ Call.nfa \in 1..Len(prog.nodes) /\ TypeOK /\ nthreads \in Nat
      /\ Call.op # "start" => Call.sim \in 1..nthreads /\ Call.sim \in 1..MaxThreads
  BY <1>1, CallFacts DEF IInv
<1>3. /\ th \in Threads /\ thread_pool \in Seq(1..nthreads) /\ nthreads \in 1..MaxThreads
      /\ MaxThreads \in Nat
  BY <1>2, BoundAssumption DEF TypeOK, Threads
<1>4. \A t \in Live : th[t].ip \in 1..Len(prog.nodes) /\ t \in 1..MaxThreads
  BY <1>3 DEF IInv, Positions, Live
<1>5. ASSUME Live' \subseteq Live, \A t \in Live : th'[t].ip \in {th[t].ip, Call.nfa} /\ th'[t].match = th[t].match
      PROVE  \A t \in Live' : th'[t].ip \in 1..Len(prog.nodes) /\ \E u \in Live : th'[t].match = th[u].match
  BY <1>2, <1>4, <1>5
<1>6. CASE StartState \/ Clone
  <2>1. Obtainable /\ Allocate /\ Call.op \in {"start", "clone"}
    BY <1>6 DEF StartState, Clone, Pending, Call
  <2>2. /\ Obtained \in 1..MaxThreads /\ Obtained \in 1..nthreads'
        /\ Elems(Rest(thread_pool)) \subseteq Elems(thread_pool)
        /\ \A t \in 1..nthreads' : t \in {Obtained} \cup Elems(Rest(thread_pool)) \cup Elems(active_threads)
                                         \cup Elems(next_threads) \cup Loading \cup {thread}
    BY <2>1, <1>1, <1>2, ObtainFacts, ObtainedHome
  <2>3. Elems(Rest(thread_pool)) \subseteq Elems(thread_pool')
    <3>1. thread_pool' = Rest(thread_pool) \/ thread_pool' = Append(Rest(thread_pool), Obtained)
      BY <1>6 DEF StartState, Clone
    <3>2. Rest(thread_pool) \in Seq(1..nthreads')
      BY <2>1, <1>2, ObtainFacts
    <3>3. Elems(Append(Rest(thread_pool), Obtained)) = Elems(Rest(thread_pool)) \cup {Obtained}
      <4>1. PICK S, q, y : S = 1..nthreads' /\ q = Rest(thread_pool) /\ y = Obtained
        OBVIOUS
      <4>2. q \in Seq(S) /\ y \in S
        BY <4>1, <3>2, <2>2
      <4>3. Elems(Append(q, y)) = Elems(q) \cup {y}
        BY <4>2, ElemsAppend
      <4> QED BY <4>1, <4>3
    <3> QED BY <3>1, <3>3
  <2>4. ASSUME NEW t \in Live', t # Obtained PROVE t \in Live
    <3>1. t \in 1..nthreads' /\ t \notin Elems(Rest(thread_pool))
      BY <2>3 DEF Live
    <3>2. t \in Elems(active_threads) \cup Elems(next_threads) \cup Loading \cup {thread}
      BY <3>1, <2>2, <2>4
    <3>3. /\ Apart(Elems(thread_pool), Elems(active_threads), Elems(next_threads), Loading)
          /\ thread \notin Elems(thread_pool)
      BY <1>1, OwnershipNow
    <3>4. t \notin Elems(thread_pool)
      BY <3>2, <3>3 DEF Apart
    <3>5. t \in 1..nthreads
      <4>1. Listed \cup Loading \subseteq 1..nthreads /\ thread \in 0..nthreads
        BY <1>2, Allocated DEF TypeOK
      <4>2. t # NULL
        BY <3>1 DEF NULL
      <4> QED BY <4>1, <4>2, <3>2, <1>2 DEF Listed, NULL
    <3> QED BY <3>4, <3>5 DEF Live
  <2>5. CASE StartState
    <3>1. th' = [th EXCEPT ![Obtained] = StartThread(Obtained, Call.nfa)]
      BY <2>5 DEF StartState
    <3>2. StartThread(Obtained, Call.nfa).ip = Call.nfa /\ StartThread(Obtained, Call.nfa).match = NoMatch
      BY <1>3, <2>2 DEF StartThread, Threads, ThreadRec
    <3>3. th'[Obtained].ip = Call.nfa /\ th'[Obtained].match = NoMatch
      BY <3>1, <3>2, <2>2, <1>3 DEF Threads
    <3>4. \A t \in Live : t # Obtained => th'[t] = th[t]
      BY <3>1, <1>4, <1>3 DEF Threads
    <3> QED BY <3>3, <3>4, <2>4, <1>2, <1>4
  <2>6. CASE Clone
    <3>1. th' = [th EXCEPT ![Obtained] = ClonedThread(Obtained, th[Call.sim], Call.nfa)]
      BY <2>6 DEF Clone
    <3>2. /\ ClonedThread(Obtained, th[Call.sim], Call.nfa).ip = Call.nfa
          /\ ClonedThread(Obtained, th[Call.sim], Call.nfa).match = th[Call.sim].match
      BY DEF ClonedThread
    <3>3. th'[Obtained].ip = Call.nfa /\ th'[Obtained].match = th[Call.sim].match
      BY <3>1, <3>2, <2>2, <1>3 DEF Threads
    <3>4. \A t \in Live : t # Obtained => th'[t] = th[t]
      BY <3>1, <1>4, <1>3 DEF Threads
    <3>5. Call.op = "clone"
      BY <2>6 DEF Clone, Pending, Call
    <3>6. Call.sim \in Live
      <4>1. Call.sim \in Loading
        <5>1. /\ LoadsDistinct(todo) /\ LoadLast(todo) /\ IsOnBehalf(Head(todo)) /\ Head(todo).op # "load"
              /\ todo \in Seq(FrameRec)
          BY <3>5, <1>1, <1>2, OwnershipNow DEF Call, IsOnBehalf, TypeOK
        <5> QED BY <5>1, <1>1, FramesTail DEF Loading, Call
      <4>2. Apart(Elems(thread_pool), Elems(active_threads), Elems(next_threads), Loading)
        BY <1>1, OwnershipNow
      <4> QED BY <4>1, <4>2, <3>5, <1>2 DEF Live, Apart
    <3> QED BY <3>3, <3>4, <3>6, <2>4, <1>2, <1>4
  <2> QED BY <1>6, <2>5, <2>6
<1>7. CASE LoadAccepting \/ LoadQueue \/ LoadDrop
  <2>1. Call.sim \in 1..MaxThreads /\ Call.sim \in 1..nthreads /\ nthreads' = nthreads
    BY <1>7, <1>2 DEF LoadAccepting, LoadQueue, LoadDrop, Pending, Call
  <2>2. Elems(thread_pool) \subseteq Elems(thread_pool')
    <3>1. Elems(Append(thread_pool, Call.sim)) = Elems(thread_pool) \cup {Call.sim}
      BY <2>1, <1>3, ElemsAppend
    <3>2. thread_pool' \in {thread_pool, Append(thread_pool, Call.sim)}
      BY <1>7 DEF LoadAccepting, LoadQueue, LoadDrop, PoolAfterDrop
    <3> QED BY <3>1, <3>2
  <2>3. Live' \subseteq Live
    BY <2>1, <2>2 DEF Live
  <2>4. \/ th' = [th EXCEPT ![Call.sim].ip = Call.nfa, ![Call.sim].status = 0]
        \/ th' = [th EXCEPT ![Call.sim].status = -1]
    BY <1>7 DEF LoadAccepting, LoadQueue, LoadDrop
  <2>5. \A t \in 1..MaxThreads : th'[t].ip \in {th[t].ip, Call.nfa} /\ th'[t].match = th[t].match
    <3>1. PICK f : f = [th EXCEPT ![Call.sim].ip = Call.nfa]
      OBVIOUS
    <3>1a. Call.nfa \in Nat
      BY <1>2
    <3>2. f \in Threads
      BY <3>1, <3>1a, <2>1, <1>3, ThreadsAssign
    <3>3. \A t \in 1..MaxThreads : f[t].ip \in {th[t].ip, Call.nfa} /\ f[t].match = th[t].match
      BY <3>1, <2>1, <1>3 DEF Threads, ThreadRec
    <3>4. ASSUME NEW g \in Threads, NEW v, NEW t \in 1..MaxThreads
          PROVE  /\ [g EXCEPT ![Call.sim].status = v][t].ip = g[t].ip
                 /\ [g EXCEPT ![Call.sim].status = v][t].match = g[t].match
      BY <2>1 DEF Threads, ThreadRec
    <3>5. CASE th' = [f EXCEPT ![Call.sim].status = 0]
      BY <3>2, <3>3, <3>4, <3>5
    <3>6. CASE th' = [th EXCEPT ![Call.sim].status = -1]
      BY <3>4, <3>6, <1>3
    <3> QED BY <3>1, <3>5, <3>6, <2>4
  <2> QED BY <2>3, <2>5, <1>4, <1>5
<1>8. CASE LoadCapture \/ ResetCount
  <2>1. Live' = Live
    BY <1>8 DEF LoadCapture, ResetCount, Live
  <2> QED BY <2>1, <1>8, <1>2, <1>4, <1>5, CallProgress DEF SameProgress
<1>9. CASE LoadInterval
  <2>1. Live' = Live
    BY <1>9 DEF LoadInterval, Live
  <2>2. /\ Node(Call.nfa).type = "INTERVAL" /\ Call.sim \in 1..nthreads
        /\ \/ MustRepeat(Call.nfa, Call.sim) \/ MayRepeat(Call.nfa, Call.sim)
           \/ MustLeave(Call.nfa, Call.sim) \/ Unlimited(Call.nfa, Call.sim)
    BY <1>9, <1>2 DEF LoadInterval, Pending, Call
  <2>3. \A u \in 1..MaxThreads : th'[u].match = th[u].match /\ th'[u].ip = th[u].ip
    BY <2>2, <1>2, IntervalFacts
  <2> QED BY <2>1, <2>3, <1>4, <1>5
<1>10. CASE CloneRefused \/ ForEach \/ OutOfMemory
  <2>1. Live' = Live /\ th' = th
    BY <1>10 DEF CloneRefused, ForEach, OutOfMemory, Live
  <2> QED BY <2>1, <1>5
<1> QED BY <1>6, <1>7, <1>8, <1>9, <1>10 DEF Calls

\* Pending calls keep positions in the line.
LEMMA PositionsCalls ==
  ASSUME IInv, Calls
  PROVE  Positions'
<1> USE DEF lists
<1>1. todo # <<>> /\ UNCHANGED <<prog, mem, eol, cur_pos, input_pointer, lookahead, kw_matches, match, out, dst>>
  BY DEF Calls, StartState, CloneRefused, Clone, LoadCapture, LoadInterval, ResetCount,
         ForEach, LoadAccepting, LoadQueue, LoadDrop, OutOfMemory, Pending, input, cursor, result
<1>2. pc # "idle" /\ Positions /\ eol \in Nat
  BY <1>1 DEF IInv, Ownership, TypeOK
<1>3. /\ cur_pos \in Place /\ input_pointer \in Place /\ lookahead \in Place /\ InText(match)
      /\ \A i \in 1..Len(out) : 1 <= out[i].start /\ out[i].end <= eol
      /\ next_threads # <<>> => cur_pos \in 1..eol
      /\ dst = "next" => cur_pos \in 1..eol
  BY <1>1, <1>2 DEF Positions
<1>4. next_threads' = next_threads \/ dst = "next"
  BY DEF Calls, StartState, CloneRefused, Clone, LoadCapture, LoadInterval, ResetCount,
         ForEach, LoadAccepting, LoadQueue, LoadDrop, OutOfMemory
<1>5. \A t \in Live' : th'[t].ip \in 1..Len(prog.nodes) /\ InText(th'[t].match)
  <2>1. InText(NoMatch)
    BY <1>2 DEF InText, NoMatch, NULL
  <2>2. \A u \in Live : InText(th[u].match)
    BY <1>2 DEF Positions
  <2> QED BY <2>1, <2>2, LiveCalls
<1>6. next_threads' # <<>> => cur_pos' \in 1..eol
  BY <1>1, <1>3, <1>4
<1>7. InText(match')
  BY <1>1, <1>3
<1> QED BY <1>1, <1>2, <1>3, <1>5, <1>6, <1>7, PositionsKeeps

\* A step of thread_step moves the match of the stepped thread to the current
\* character or leaves it.
LEMMA LiveSteps ==
  ASSUME IInv, Steps
  PROVE  /\ Live' = Live
         /\ \A t \in Live :
              /\ th'[t].ip = th[t].ip
              /\ \/ th'[t].match = th[t].match
                 \/ Input # NUL /\ th'[t].match = UpdateMatch(th[t].match)
<1>1. thread # NULL /\ UNCHANGED <<thread_pool, nthreads>>
  BY DEF Steps, StepConsume, StepAnchor, StepBackreference, StepAccept, StepFail, Stepping, lists
<1>2. Live' = Live
  BY <1>1 DEF Live
<1>3. th \in Threads /\ thread \in 1..MaxThreads /\ th[thread] \in ThreadRec
  BY <1>1, SteppedThread
<1>4. nthreads \in 1..MaxThreads /\ MaxThreads \in Nat
  BY BoundAssumption DEF IInv, TypeOK
<1>5. Live \subseteq 1..MaxThreads
  BY <1>4 DEF Live
<1>8. ASSUME NEW m, NEW f, f = [th EXCEPT ![thread].match = m]
      PROVE  \A t \in Live : f[t].ip = th[t].ip /\ (f[t].match = th[t].match \/ (t = thread /\ f[t].match = m))
  BY <1>3, <1>5, <1>8 DEF Threads, ThreadRec
<1>9. ASSUME NEW v, NEW f, f = [th EXCEPT ![thread].status = v]
      PROVE  \A t \in Live : f[t].ip = th[t].ip /\ f[t].match = th[t].match
  BY <1>3, <1>5, <1>9 DEF Threads, ThreadRec
<1>10. CASE StepConsume
  <2>1. th' = [th EXCEPT ![thread].match = UpdateMatch(th[thread].match)] /\ Input # NUL
    BY <1>10 DEF StepConsume
  <2> QED BY <2>1, <1>2, <1>8
<1>11. CASE StepAnchor
  BY <1>11, <1>2 DEF StepAnchor
<1>12. CASE StepAccept \/ StepFail
  <2>1. \E v : th' = [th EXCEPT ![thread].status = v]
    BY <1>12 DEF StepAccept, StepFail
  <2> QED BY <2>1, <1>2, <1>9
<1>13. CASE StepBackreference
  <2>1. Input # NUL
    BY <1>13 DEF StepBackreference
  <2>2. BrefMatch \in {th[thread].match, UpdateMatch(th[thread].match)}
    BY DEF BrefMatch
  <2>3. \/ th' = [th EXCEPT ![thread].match = UpdateMatch(th[thread].match), ![thread].bref = NULL]
        \/ \E b, v : th' = [th EXCEPT ![thread].match = BrefMatch, ![thread].bref = b, ![thread].status = v]
    BY <1>13 DEF StepBackreference
  <2>4. CASE th' = [th EXCEPT ![thread].match = UpdateMatch(th[thread].match), ![thread].bref = NULL]
    <3>1. PICK m : m = UpdateMatch(th[thread].match)
      OBVIOUS
    <3>2. th' = [th EXCEPT ![thread].match = m, ![thread].bref = NULL]
      BY <2>4, <3>1
    <3>3. \A t \in Live : th'[t].ip = th[t].ip /\ (th'[t].match = th[t].match \/ (t = thread /\ th'[t].match = m))
      BY <3>2, <1>3, <1>5 DEF Threads, ThreadRec
    <3> QED BY <3>1, <3>3, <2>1, <1>2
  <2>5. CASE \E b, v : th' = [th EXCEPT ![thread].match = BrefMatch, ![thread].bref = b, ![thread].status = v]
    <3>1. PICK m : m = BrefMatch
      OBVIOUS
    <3>2. PICK b, v : th' = [th EXCEPT ![thread].match = m, ![thread].bref = b, ![thread].status = v]
      BY <2>5, <3>1
    <3>3. \A t \in Live : th'[t].ip = th[t].ip /\ (th'[t].match = th[t].match \/ (t = thread /\ th'[t].match = m))
      BY <3>2, <1>3, <1>5 DEF Threads, ThreadRec
    <3> QED BY <3>1, <3>3, <2>1, <2>2, <1>2
  <2> QED BY <2>3, <2>4, <2>5
<1> QED BY <1>10, <1>11, <1>12, <1>13 DEF Steps

\* thread_step keeps positions in the line.
LEMMA PositionsSteps ==
  ASSUME IInv, Steps
  PROVE  Positions'
<1>1. /\ pc = "loop" /\ thread # NULL
      /\ UNCHANGED <<prog, mem, eol, cur_pos, input_pointer, kw_matches, match, out>>
  BY DEF Steps, StepConsume, StepAnchor, StepBackreference, StepAccept, StepFail, Stepping,
         input, cursor, result
<1>2. Positions /\ todo = <<>> /\ TypeOK /\ pc # "idle"
  BY <1>1 DEF IInv, Ownership
<1>3. /\ cur_pos \in Place /\ input_pointer \in Place /\ lookahead \in Place /\ InText(match)
      /\ \A i \in 1..Len(out) : 1 <= out[i].start /\ out[i].end <= eol
      /\ next_threads # <<>> => cur_pos \in 1..eol
  BY <1>1, <1>2 DEF Positions
<1>4. Input # NUL => cur_pos \in 1..eol /\ cur_pos + 1 \in Place
  BY <1>2, InputInside
<1>5. \/ UNCHANGED <<lookahead, todo, next_threads>>
      \/ Input # NUL /\ lookahead' \in {lookahead, cur_pos, cur_pos + 1}
  BY DEF Steps, StepConsume, StepAnchor, StepBackreference, StepAccept, StepFail, lists
<1>6. lookahead' \in Place
  BY <1>3, <1>4, <1>5
<1>7. \A t \in Live' : th'[t].ip \in 1..Len(prog.nodes) /\ InText(th'[t].match)
  <2> SUFFICES ASSUME NEW t \in Live PROVE th'[t].ip \in 1..Len(prog.nodes) /\ InText(th'[t].match)
    BY LiveSteps
  <2>1. th[t].ip \in 1..Len(prog.nodes) /\ InText(th[t].match)
    BY <1>2 DEF Positions
  <2>2. th[t].match \in [start : Addr, end : Addr]
    <3>1. nthreads \in 1..MaxThreads /\ MaxThreads \in Nat /\ th \in Threads
      BY <1>2, BoundAssumption DEF TypeOK, Threads
    <3>2. t \in 1..MaxThreads
      BY <3>1 DEF Live
    <3> QED BY <3>1, <3>2 DEF Threads, ThreadRec
  <2>3. Input # NUL => InText(UpdateMatch(th[t].match))
    BY <2>1, <2>2, <1>2, UpdateMatchFacts
  <2> QED BY <2>1, <2>3, LiveSteps
<1>8. /\ next_threads' # <<>> => cur_pos' \in 1..eol
      /\ todo' # <<>> => cur_pos' \in 1..eol
  BY <1>1, <1>2, <1>3, <1>4, <1>5
<1>9. InText(match') /\ \A i \in 1..Len(out') : 1 <= out'[i].start /\ out'[i].end <= eol
  BY <1>1, <1>3
<1> QED BY <1>1, <1>2, <1>3, <1>6, <1>7, <1>8, <1>9, PositionsKeeps

\* Outside of the calls and thread_step no thread changes, and none leaves the pool.
LEMMA LiveRest ==
  ASSUME IInv,
         \/ SwitchMatch \/ SwitchNoMatch \/ SwitchContinue
         \/ FirstThread \/ Advance \/ Restart \/ Fetch \/ EndOfLine \/ Release
  PROVE  Live' \subseteq Live /\ th' = th
<1> USE DEF lists
<1>1. th' = th /\ nthreads' = nthreads
  BY DEF SwitchMatch, SwitchNoMatch, SwitchContinue, FirstThread, Advance, Restart, Fetch, EndOfLine, Release
<1>2. /\ thread_pool \in Seq(1..nthreads) /\ active_threads \in Seq(1..nthreads)
      /\ next_threads \in Seq(1..nthreads) /\ thread \in 0..nthreads /\ nthreads \in Nat
  BY BoundAssumption DEF IInv, TypeOK
<1>3. Elems(thread_pool) \subseteq Elems(thread_pool')
  <2>1. CASE thread_pool' = thread_pool
    BY <2>1
  <2>2. CASE thread_pool' = Append(thread_pool, thread) /\ thread # NULL
    <3>1. thread \in 1..nthreads
      BY <2>2, <1>2 DEF NULL
    <3>2. PICK S, q, y : S = 1..nthreads /\ q = thread_pool /\ y = thread
      OBVIOUS
    <3>3. q \in Seq(S) /\ y \in S
      BY <3>1, <3>2, <1>2
    <3>4. Elems(Append(q, y)) = Elems(q) \cup {y}
      BY <3>3, ElemsAppend
    <3> QED BY <2>2, <3>2, <3>4
  <2>3. CASE thread_pool' = AllThreads
    <3>1. PICK S, p, a, n, c : /\ S = 1..nthreads /\ p = thread_pool /\ a = active_threads /\ n = next_threads
                               /\ c = IF thread = NULL THEN <<>> ELSE <<thread>>
      OBVIOUS
    <3>2. p \in Seq(S) /\ a \in Seq(S) /\ n \in Seq(S)
      BY <3>1, <1>2
    <3>3. c \in Seq(S)
      <4>1. CASE thread = NULL
        BY <4>1, <3>1
      <4>2. CASE thread # NULL
        BY <4>2, <3>1, <1>2 DEF NULL
      <4> QED BY <4>1, <4>2
    <3>4. p \o a \in Seq(S) /\ Elems(p \o a) = Elems(p) \cup Elems(a)
      BY <3>2, ElemsConcat
    <3>5. PICK pa \in Seq(S) : pa = p \o a
      BY <3>4
    <3>6. pa \o n \in Seq(S) /\ Elems(pa \o n) = Elems(pa) \cup Elems(n)
      BY <3>2, <3>5, ElemsConcat
    <3>7. PICK pan \in Seq(S) : pan = pa \o n
      BY <3>6
    <3>8. Elems(pan \o c) = Elems(pan) \cup Elems(c)
      BY <3>3, <3>7, ElemsConcat
    <3>9. thread_pool' = pan \o c
      BY <2>3, <3>1, <3>5, <3>7 DEF AllThreads
    <3> QED BY <3>1, <3>4, <3>5, <3>6, <3>7, <3>8, <3>9
  <2>4. pc = "switch" => thread # NULL
    BY DEF IInv, Ownership
  <2> QED BY <2>1, <2>2, <2>3, <2>4
       DEF SwitchMatch, SwitchNoMatch, SwitchContinue, FirstThread, Advance, Restart, Fetch, EndOfLine, Release
<1> QED BY <1>1, <1>3 DEF Live

\* What is reported lies in the line.
LEMMA EmitInText ==
  ASSUME TypeOK, NEW m \in MatchRec, InText(m),
         \A i \in 1..Len(out) : 1 <= out[i].start /\ out[i].end <= eol
  PROVE  \A i \in 1..Len(Emit(m)) : 1 <= Emit(m)[i].start /\ Emit(m)[i].end <= eol
<1>1. eol \in Nat \ {0} /\ out \in Seq(MatchRec)
  BY BoundAssumption DEF TypeOK, MatchRec
<1>2. CASE Emit(m) = out
  BY <1>2
<1>3. CASE Emit(m) # out
  <2>1. PICK r : r = IF mode.line THEN [start |-> 1, end |-> eol - 1] ELSE m
    OBVIOUS
  <2>2. Emit(m) = Append(out, r) /\ m.start # NULL
    BY <1>3, <2>1 DEF Emit
  <2>3. 1 <= r.start /\ r.end <= eol
    <3>1. CASE mode.line
      BY <3>1, <2>1, <1>1
    <3>2. CASE ~mode.line
      BY <3>2, <2>1, <2>2, <1>1 DEF InText, NULL
    <3> QED BY <3>1, <3>2
  <2>4. r \in MatchRec
    BY <2>1, EmitFacts
  <2>5. Len(Append(out, r)) = Len(out) + 1 /\ Len(out) \in Nat
        /\ \A i \in 1..Len(Append(out, r)) : Append(out, r)[i] = IF i <= Len(out) THEN out[i] ELSE r
    BY <2>4, <1>1
  <2> QED BY <2>2, <2>3, <2>5
<1> QED BY <1>2, <1>3

\* The rest of run_nfa keeps positions in the line.
LEMMA PositionsRest ==
  ASSUME IInv,
         \/ SwitchMatch \/ SwitchNoMatch \/ SwitchContinue
         \/ FirstThread \/ Advance \/ Restart \/ Fetch \/ EndOfLine \/ Release
  PROVE  Positions'
<1> USE DEF lists
<1>1. /\ pc # "idle" /\ UNCHANGED <<prog, mem, eol>>
      /\ todo = <<>> \/ pc \in {"loop", "release"}
  BY DEF SwitchMatch, SwitchNoMatch, SwitchContinue, FirstThread, Advance, Restart, Fetch, EndOfLine, Release, input
<1>2. Positions /\ todo = <<>> /\ TypeOK /\ eol \in Nat \ {0}
  <2>1. Positions /\ todo = <<>> /\ TypeOK
    BY <1>1 DEF IInv, Ownership
  <2> QED BY <2>1, BoundAssumption DEF TypeOK
<1>3. /\ cur_pos \in Place /\ input_pointer \in Place /\ lookahead \in Place /\ InText(match)
      /\ \A i \in 1..Len(out) : 1 <= out[i].start /\ out[i].end <= eol
      /\ next_threads # <<>> => cur_pos \in 1..eol
      /\ \A t \in Live : th[t].ip \in 1..Len(prog.nodes) /\ InText(th[t].match)
      /\ match \in MatchRec
  BY <1>1, <1>2 DEF Positions, TypeOK, MatchRec
<1>4. \A t \in Live' : th'[t].ip \in 1..Len(prog.nodes) /\ InText(th'[t].match)
  BY <1>3, LiveRest
<1>5. InText(NoMatch) /\ InText([start |-> 1, end |-> eol - 1]) /\ [start |-> 1, end |-> eol - 1] \in MatchRec
  BY <1>2, <1>3, EmitFacts DEF InText, NoMatch, NULL
<1>6. CASE SwitchNoMatch \/ SwitchContinue \/ FirstThread \/ Fetch \/ EndOfLine
  <2>1. /\ UNCHANGED <<cur_pos, input_pointer, lookahead, kw_matches, match, out, next_threads>>
        /\ todo' = todo
    BY <1>6 DEF SwitchNoMatch, SwitchContinue, FirstThread, Fetch, EndOfLine, cursor, result
  <2> QED BY <2>1, <1>1, <1>2, <1>3, <1>4, PositionsKeeps
<1>7. CASE SwitchMatch
  <2>1. /\ UNCHANGED <<cur_pos, input_pointer, lookahead, kw_matches, next_threads, todo>>
        /\ match' \in {match, UpdateLongest(match, th[thread].match)} /\ out' \in {out, Emit(match')}
        /\ pc = "switch"
    BY <1>7 DEF SwitchMatch, cursor
  <2>2. th[thread].match \in MatchRec /\ InText(th[thread].match)
    <3>1. thread # NULL
      BY <2>1 DEF IInv, Ownership
    <3> QED BY <3>1, SteppedThread DEF ThreadRec, MatchRec
  <2>3. match' \in MatchRec /\ InText(match')
    BY <2>1, <2>2, <1>3, LongestFacts
  <2>4. \A i \in 1..Len(out') : 1 <= out'[i].start /\ out'[i].end <= eol
    BY <2>1, <2>3, <1>2, <1>3, EmitInText
  <2> QED BY <2>1, <2>3, <2>4, <1>1, <1>2, <1>3, <1>4, PositionsKeeps
<1>8. CASE Advance
  <2>1. /\ UNCHANGED <<input_pointer, lookahead, kw_matches, match, out, todo>>
        /\ next_threads # <<>> /\ next_threads' = <<>> /\ cur_pos' = cur_pos + 1
    BY <1>8 DEF Advance, result
  <2>2. cur_pos' \in Place
    BY <2>1, <1>2, <1>3 DEF Place
  <2> QED BY <2>1, <2>2, <1>1, <1>2, <1>3, <1>4, PositionsKeeps
<1>9. CASE Restart
  <2>1. /\ pc = "loop" /\ Char(input_pointer) # NUL
        /\ next_threads = <<>> /\ next_threads' = <<>> /\ dst' = "active" /\ match' = NoMatch
        /\ out' \in {out, Emit(match)}
    BY <1>9 DEF Restart
  <2>2. PICK start \in NextStarts :
          /\ input_pointer' = start.beg /\ cur_pos' = start.beg /\ lookahead' = start.beg
          /\ kw_matches' = start.left
    BY <1>9 DEF Restart
  <2>3. start.beg \in Place /\ kw_matches' \subseteq kw_matches
    BY <2>1, <2>2, NextStartsFacts
  <2>4. \A i \in 1..Len(out') : 1 <= out'[i].start /\ out'[i].end <= eol
    BY <2>1, <1>2, <1>3, EmitInText
  <2> QED BY <2>1, <2>2, <2>3, <2>4, <1>1, <1>4, <1>5, PositionsKeeps
<1>10. CASE Release
  <2>1. /\ UNCHANGED <<cur_pos, input_pointer, lookahead, todo>> /\ kw_matches' = {}
        /\ next_threads' = <<>>
        /\ \/ match' = [start |-> 1, end |-> eol - 1] /\ out' = Emit(match')
           \/ UNCHANGED <<match, out>>
    BY <1>10 DEF Release
  <2>2. InText(match') /\ match' \in MatchRec
    BY <2>1, <1>3, <1>5
  <2>3. \A i \in 1..Len(out') : 1 <= out'[i].start /\ out'[i].end <= eol
    BY <2>1, <2>2, <1>2, <1>3, EmitInText
  <2> QED BY <2>1, <2>2, <2>3, <1>1, <1>2, <1>3, <1>4, PositionsKeeps
<1> QED BY <1>6, <1>7, <1>8, <1>9, <1>10

\* A new line starts with no thread outside of the pool.
LEMMA PositionsReadLine ==
  ASSUME IInv, NEW l \in Lines, ReadLine(l)
  PROVE  Positions'
<1> USE DEF lists
<1>1. TypeOK /\ Positions /\ pc = "idle" /\ todo = <<>> /\ thread = NULL /\ next_threads = <<>>
  BY DEF ReadLine, IInv, Ownership
<1>2. /\ eol' = Len(l) + 1 /\ eol' \in 1..(BufCap - 1) /\ mem'[eol' + 1] = NUL /\ Len(l) \in Nat
      /\ mem[BufCap] = NUL => mem'[BufCap] = NUL
      /\ \E first \in 1..(eol' + 1) : cur_pos' = first /\ input_pointer' = first /\ lookahead' = first
      /\ kw_matches' \subseteq [beg : 1..Len(l), kw : 1..Len(prog.kws)]
  BY <1>1, LineFacts
<1>3. Place' = {QuitPos} \cup 1..(eol' + 1)
  BY DEF Place
<1>4. cur_pos' \in Place' /\ input_pointer' \in Place' /\ lookahead' \in Place'
      /\ \A m \in kw_matches' : m.beg \in 1..eol'
  BY <1>2, <1>3
<1>5. match' = NoMatch /\ out' = <<>> /\ dst' = "active" /\ UNCHANGED <<next_threads, thread_pool, nthreads, th, prog>>
  BY DEF ReadLine
<1>6. InText(match)'
  BY <1>2, <1>5 DEF InText, NoMatch, NULL
<1>7. Live' = {}
  <2>1. active_threads = <<>>
    BY <1>1 DEF IInv, Ownership
  <2>2. \A t \in 1..nthreads : t \in Elems(thread_pool)
    <3>1. \A t \in 1..nthreads : t \in Elems(thread_pool) \cup Elems(active_threads)
                                      \cup Elems(next_threads) \cup {thread}
      BY <1>1, OwnershipIdle
    <3>2. Elems(active_threads) = {} /\ Elems(next_threads) = {} /\ NULL \notin 1..nthreads
      BY <2>1, <1>1, ElemsEmpty DEF NULL
    <3> QED BY <3>1, <3>2, <1>1
  <2> QED BY <2>2, <1>5 DEF Live
<1>8. mem'[BufCap] = NUL
  BY <1>1, <1>2 DEF Positions
<1>9. Len(out') = 0
  BY <1>5
<1> QED BY <1>1, <1>2, <1>4, <1>5, <1>6, <1>7, <1>8, <1>9 DEF Positions

\* Every step keeps positions in the line.
LEMMA PositionsStep ==
  ASSUME IInv, [Next]_vars
  PROVE  Positions'
<1>1. CASE Calls
  BY <1>1, PositionsCalls
<1>2. CASE Steps
  BY <1>2, PositionsSteps
<1>3. CASE \/ SwitchMatch \/ SwitchNoMatch \/ SwitchContinue
           \/ FirstThread \/ Advance \/ Restart \/ Fetch \/ EndOfLine \/ Release
  BY <1>3, PositionsRest
<1>4. CASE \E l \in Lines : ReadLine(l)
  BY <1>4, PositionsReadLine
<1>5. CASE UNCHANGED vars
  <2>1. /\ UNCHANGED <<prog, mem, eol, pc, cur_pos, input_pointer, lookahead, kw_matches, match, out>>
        /\ UNCHANGED <<next_threads, thread_pool, nthreads, th, todo, dst>>
    BY <1>5 DEF vars, input, cursor, lists, result
  <2> QED BY <2>1 DEF IInv, Positions, Place, InText, Live
<1> QED BY <1>1, <1>2, <1>3, <1>4, <1>5 DEF Next, Engine, Exit

-----------------------------------------------------------------------------
(* Attempts.                                                                *)

\* Whether there is a keyword search depends on the program alone.
LEMMA PrefilteredSame == prog' = prog => Prefiltered' = Prefiltered
  BY DEF Prefiltered, Several

\* What a step that starts no new attempt and reports nothing has to keep.
LEMMA AttemptsKeeps ==
  ASSUME IInv, UNCHANGED <<prog, mode, input_pointer, kw_matches, out>>,
         pc # "idle", Searching' => Searching, pc' = "switch" => input_pointer # QuitPos,
         Searching => /\ cur_pos <= cur_pos' /\ cur_pos' \in Int
                      /\ FromHere(match)' /\ (match' # NoMatch => current_run')
                      /\ \A t \in Live' : FromHere(th[t].match)'
  PROVE  Attempts'
<1>1. Attempts /\ cur_pos \in Int /\ input_pointer \in Int
  BY BoundAssumption DEF IInv, TypeOK, Addr, QuitPos, NULL
<1>2. ReportsOrdered' /\ ((mode'.line \/ mode'.invert) /\ pc' # "idle" => out' = <<>>)
  BY <1>1 DEF Attempts, ReportsOrdered
<1>3. (~Prefiltered' => kw_matches' = {}) /\ (pc' = "switch" => input_pointer' # QuitPos)
  BY <1>1, PrefilteredSame DEF Attempts
<1>4. ASSUME Searching'
      PROVE  /\ input_pointer' <= cur_pos'
             /\ out' # <<>> => out'[Len(out')].end < input_pointer'
             /\ \A m \in kw_matches' : input_pointer' <= m.beg
             /\ FromHere(match)' /\ (match' # NoMatch => current_run')
             /\ \A t \in Live' : FromHere(th[t].match)'
  <2>1. Searching
    BY <1>4
  <2> QED BY <2>1, <1>1 DEF Attempts
<1> QED BY <1>2, <1>3, <1>4 DEF Attempts

\* FromHere depends on the input pointer and the current position only.
LEMMA FromHereMoves ==
  ASSUME TypeOK, input_pointer' = input_pointer, cur_pos <= cur_pos', cur_pos' \in Int,
         NEW m \in MatchRec, FromHere(m), NEW k, k = m
  PROVE  k = NoMatch \/ (input_pointer' <= k.start /\ k.start <= k.end /\ k.end <= cur_pos')
<1>1. cur_pos \in Int /\ m.start \in Int /\ m.end \in Int /\ input_pointer \in Int
  BY BoundAssumption DEF TypeOK, MatchRec, Addr, QuitPos, NULL
<1> QED BY <1>1 DEF FromHere

\* The match of a thread that is not in the pool is a pair of addresses.
LEMMA LiveMatch ==
  ASSUME TypeOK, NEW t \in Live
  PROVE  th[t].match \in MatchRec
<1>1. nthreads \in 1..MaxThreads /\ MaxThreads \in Nat /\ th \in Threads
  BY BoundAssumption DEF TypeOK, Threads
<1>2. t \in 1..MaxThreads
  BY <1>1 DEF Live
<1> QED BY <1>1, <1>2 DEF Threads, ThreadRec, MatchRec

\* Pending calls copy matches and make none.
LEMMA AttemptsCalls ==
  ASSUME IInv, Calls
  PROVE  Attempts'
<1>1. /\ todo # <<>> /\ UNCHANGED <<prog, mode, input_pointer, cur_pos, kw_matches, match, current_run, out>>
      /\ pc' \in {pc, "oom"}
  BY DEF Calls, StartState, CloneRefused, Clone, LoadCapture, LoadInterval, ResetCount,
         ForEach, LoadAccepting, LoadQueue, LoadDrop, OutOfMemory, Pending, input, cursor, result
<1>2. pc # "idle" /\ Attempts /\ TypeOK
  BY <1>1 DEF IInv, Ownership
<1>3. cur_pos \in Int /\ match \in MatchRec
  BY <1>2, BoundAssumption DEF TypeOK, Addr, QuitPos, NULL, MatchRec
<1>4. Searching' => Searching
  BY <1>1 DEF Searching
<1>5. pc' = "switch" => input_pointer # QuitPos
  BY <1>1, <1>2 DEF Attempts
<1>6. ASSUME Searching
      PROVE  /\ FromHere(match)' /\ (match' # NoMatch => current_run')
             /\ \A t \in Live' : FromHere(th[t].match)'
  <2>1. FromHere(match) /\ (match # NoMatch => current_run) /\ \A t \in Live : FromHere(th[t].match)
    BY <1>2, <1>6 DEF Attempts
  <2>2. FromHere(match)' /\ (match' # NoMatch => current_run')
    BY <2>1, <1>1 DEF FromHere
  <2>3. ASSUME NEW t \in Live' PROVE FromHere(th[t].match)'
    <3>1. th'[t].match = NoMatch \/ \E u \in Live : th'[t].match = th[u].match
      BY LiveCalls
    <3> QED BY <3>1, <2>1, <1>1 DEF FromHere
  <2> QED BY <2>2, <2>3
<1> QED BY <1>1, <1>2, <1>3, <1>4, <1>5, <1>6, AttemptsKeeps

\* thread_step extends a match to the current position.
LEMMA AttemptsSteps ==
  ASSUME IInv, Steps
  PROVE  Attempts'
<1>1. /\ UNCHANGED <<prog, mode, input_pointer, cur_pos, kw_matches, match, current_run, out>>
      /\ pc = "loop" /\ Char(input_pointer) # NUL
  BY DEF Steps, StepConsume, StepAnchor, StepBackreference, StepAccept, StepFail, Stepping,
         input, cursor, result
<1>2. Attempts /\ TypeOK /\ pc # "idle"
  BY <1>1 DEF IInv
<1>3. input_pointer # QuitPos
  BY <1>1 DEF Char
<1>4. cur_pos \in Int /\ input_pointer \in 1..eol /\ eol \in Nat
  <2>1. input_pointer \in Place
    BY <1>2 DEF IInv, Positions
  <2> QED BY <2>1, <1>1, <1>2, InsideLine, BoundAssumption DEF TypeOK, Addr, QuitPos, NULL
<1>5. Searching
  BY <1>1, <1>3 DEF Searching
<1>6. /\ FromHere(match) /\ (match # NoMatch => current_run) /\ \A t \in Live : FromHere(th[t].match)
      /\ input_pointer <= cur_pos
  BY <1>2, <1>5 DEF Attempts
<1>7. FromHere(match)' /\ (match' # NoMatch => current_run')
  BY <1>1, <1>6 DEF FromHere
<1>8. ASSUME NEW t \in Live' PROVE FromHere(th[t].match)'
  <2>1. t \in Live /\ (th'[t].match = th[t].match \/ th'[t].match = UpdateMatch(th[t].match))
    BY LiveSteps
  <2>2. PICK m : m = th[t].match
    OBVIOUS
  <2>3. FromHere(m) /\ m \in MatchRec
    BY <2>1, <2>2, <1>2, <1>6, LiveMatch
  <2>4. m.start \in Int /\ m.end \in Int
    BY <2>3, BoundAssumption DEF MatchRec, Addr, QuitPos, NULL
  <2>5. FromHere(UpdateMatch(m))
    BY <2>3, <2>4, <1>4, <1>6 DEF FromHere, UpdateMatch, NoMatch, NULL
  <2>6. FromHere(th'[t].match)
    BY <2>1, <2>2, <2>3, <2>5
  <2> QED BY <2>6, <1>1 DEF FromHere
<1>9. Searching' => Searching
  BY <1>5
<1> QED BY <1>1, <1>2, <1>3, <1>4, <1>7, <1>8, <1>9, AttemptsKeeps

\* update_longest_match keeps the match of the attempt within the attempt.
LEMMA LongestFromHere ==
  ASSUME TypeOK, input_pointer \in Nat \ {0}, NEW m \in MatchRec, NEW k \in MatchRec,
         FromHere(m), FromHere(k)
  PROVE  FromHere(UpdateLongest(m, k))
<1>1. /\ m.start \in Int /\ m.end \in Int /\ k.start \in Int /\ k.end \in Int /\ cur_pos \in Int
      /\ m = [start |-> m.start, end |-> m.end]
  BY BoundAssumption DEF TypeOK, MatchRec, Addr, QuitPos, NULL
<1>2. CASE UpdateLongest(m, k) = k \/ UpdateLongest(m, k) = m
  BY <1>2
<1>3. CASE ~(UpdateLongest(m, k) = k \/ UpdateLongest(m, k) = m)
  <2>1. m.end # NULL /\ k.start - m.end \in 0..1 /\ UpdateLongest(m, k) = [m EXCEPT !.end = k.end]
    BY <1>3 DEF UpdateLongest
  <2>2. m # NoMatch
    BY <2>1 DEF NoMatch
  <2>3. k # NoMatch
    BY <2>1, <2>2, <1>1 DEF FromHere, NoMatch, NULL
  <2>4. [m EXCEPT !.end = k.end].start = m.start /\ [m EXCEPT !.end = k.end].end = k.end
    BY <1>1
  <2>5. input_pointer <= m.start /\ m.start <= k.end /\ k.end <= cur_pos
    BY <2>1, <2>2, <2>3, <1>1 DEF FromHere
  <2> QED BY <2>1, <2>4, <2>5 DEF FromHere
<1> QED BY <1>2, <1>3

\* A report of the attempt's match comes behind the reports before it.
LEMMA EmitOrdered ==
  ASSUME TypeOK, ReportsOrdered, ~mode.line, NEW m \in MatchRec, FromHere(m), input_pointer \in Nat \ {0},
         out # <<>> => out[Len(out)].end < input_pointer
  PROVE  /\ \A i \in 1..(Len(Emit(m)) - 1) : Emit(m)[i].end < Emit(m)[i + 1].start
         /\ Emit(m) # <<>> => \/ Emit(m)[Len(Emit(m))].end < input_pointer
                              \/ m.end # NULL /\ Emit(m)[Len(Emit(m))].end <= m.end
<1>1. out \in Seq(MatchRec) /\ Len(out) \in Nat
  BY DEF TypeOK, MatchRec
<1>2. \A r \in MatchRec : r.start \in Int /\ r.end \in Int
  BY BoundAssumption DEF MatchRec, Addr, QuitPos, NULL
<1>3. CASE Emit(m) = out
  <2>1. \A i \in 1..(Len(out) - 1) : out[i].end < out[i + 1].start
    BY DEF ReportsOrdered
  <2> QED BY <1>3, <2>1
<1>4. CASE Emit(m) # out
  <2>1. Emit(m) = Append(out, m) /\ m.start # NULL /\ m.start <= m.end
    BY <1>4 DEF Emit
  <2>2. m # NoMatch /\ input_pointer <= m.start /\ m.end # NULL
    <3>1. m # NoMatch
      BY <2>1 DEF NoMatch
    <3>2. input_pointer <= m.start /\ m.start <= m.end
      BY <3>1 DEF FromHere
    <3> QED BY <3>1, <3>2, <1>2 DEF NULL
  <2>3. Len(Append(out, m)) = Len(out) + 1
        /\ \A i \in 1..(Len(out) + 1) : Append(out, m)[i] = IF i <= Len(out) THEN out[i] ELSE m
    BY <1>1
  <2>4. ASSUME NEW i \in 1..Len(out) PROVE Append(out, m)[i].end < Append(out, m)[i + 1].start
    <3>1. CASE i = Len(out)
      <4>1. out[i].end < input_pointer /\ out[i] \in MatchRec
        BY <3>1, <1>1
      <4>2. Append(out, m)[i] = out[i] /\ Append(out, m)[i + 1] = m
        BY <3>1, <1>1, <2>3
      <4> QED BY <4>1, <4>2, <2>2, <1>2
    <3>2. CASE i # Len(out)
      <4>1. i \in 1..(Len(out) - 1) /\ i + 1 \in 1..Len(out) /\ i <= Len(out) /\ i + 1 <= Len(out)
        BY <3>2, <1>1
      <4>2. Append(out, m)[i] = out[i] /\ Append(out, m)[i + 1] = out[i + 1]
        BY <4>1, <1>1, <2>3
      <4> QED BY <4>1, <4>2 DEF ReportsOrdered
    <3> QED BY <3>1, <3>2
  <2>5. Append(out, m)[Len(out) + 1] = m /\ m.end <= m.end
    BY <2>3, <1>1, <1>2
  <2> QED BY <2>1, <2>2, <2>3, <2>4, <2>5, <1>1
<1> QED BY <1>3, <1>4

\* Within the loop every attempt has its input pointer in the line.
LEMMA SearchFacts ==
  ASSUME IInv, Searching
  PROVE  /\ input_pointer \in Nat \ {0} /\ input_pointer <= cur_pos /\ cur_pos \in Nat \ {0}
         /\ out # <<>> => out[Len(out)].end < input_pointer
         /\ \A m \in kw_matches : input_pointer <= m.beg
         /\ FromHere(match) /\ match \in MatchRec
         /\ match # NoMatch => current_run /\ match.end # NULL /\ input_pointer <= match.end
         /\ \A t \in Live : FromHere(th[t].match)
         /\ ReportsOrdered /\ pc # "idle"
         /\ (mode.line \/ mode.invert) => out = <<>>
<1>1. TypeOK /\ Attempts /\ Positions /\ pc # "idle"
  BY DEF IInv, Searching
<1>2. input_pointer \in Place /\ input_pointer # QuitPos /\ cur_pos \in Int
  BY <1>1, BoundAssumption DEF Positions, Searching, TypeOK, Addr, QuitPos, NULL
<1>3. input_pointer \in Nat \ {0}
  BY <1>2 DEF Place
<1>4. /\ input_pointer <= cur_pos /\ (out # <<>> => out[Len(out)].end < input_pointer)
      /\ \A m \in kw_matches : input_pointer <= m.beg
      /\ FromHere(match) /\ (match # NoMatch => current_run)
      /\ \A t \in Live : FromHere(th[t].match)
      /\ ReportsOrdered /\ ((mode.line \/ mode.invert) => out = <<>>)
  BY <1>1 DEF Attempts
<1>5. match \in MatchRec /\ match.start \in Int /\ match.end \in Int
  BY <1>1, BoundAssumption DEF TypeOK, MatchRec, Addr, QuitPos, NULL
<1>6. match # NoMatch => match.end # NULL /\ input_pointer <= match.end
  BY <1>3, <1>4, <1>5 DEF FromHere, NULL
<1> QED BY <1>1, <1>2, <1>3, <1>4, <1>5, <1>6

\* When no thread is left at a position, all are in the pool.
LEMMA NoneLive ==
  ASSUME IInv, todo = <<>>, pc # "oom", thread = NULL, active_threads = <<>>, next_threads = <<>>
  PROVE  Live = {}
<1>1. \A t \in 1..nthreads : t \in Elems(thread_pool) \cup Elems(active_threads)
                                  \cup Elems(next_threads) \cup {thread}
  BY OwnershipIdle
<1>2. Elems(active_threads) = {} /\ Elems(next_threads) = {} /\ NULL \notin 1..nthreads
  BY ElemsEmpty DEF NULL
<1> QED BY <1>1, <1>2 DEF Live

\* The next attempt starts behind the input pointer or with another keyword at
\* the same place, behind the match and not behind the keywords that are left.
LEMMA NextStartsAhead ==
  ASSUME IInv, pc = "loop", Char(input_pointer) # NUL, NEW a \in NextStarts, a.beg # QuitPos
  PROVE  /\ a.beg \in Int /\ input_pointer <= a.beg /\ match.end < a.beg
         /\ \A m \in a.left : a.beg <= m.beg
         /\ \/ input_pointer < a.beg
            \/ \E m \in kw_matches : m.beg = a.beg /\ m \notin a.left
<1>1. input_pointer # QuitPos
  BY DEF Char
<1>2. Searching
  BY <1>1 DEF Searching
<1>3. /\ input_pointer \in Nat \ {0} /\ match \in MatchRec /\ \A m \in kw_matches : input_pointer <= m.beg
      /\ match # NoMatch => current_run /\ match.end # NULL /\ input_pointer <= match.end
  BY <1>2, SearchFacts
<1>4. match.end \in Int /\ \A m \in kw_matches : m.beg \in Int
  BY <1>3, BoundAssumption DEF MatchRec, Addr, QuitPos, NULL, IInv, TypeOK, KeywordRec
<1>5. ~NonemptyMatch => match.end = NULL
  BY <1>3 DEF NonemptyMatch, NoMatch
<1>6. NonemptyMatch => input_pointer <= match.end
  BY <1>3 DEF NonemptyMatch, NoMatch
<1>7. \A m \in KeywordsLeft : m \in kw_matches /\ m.beg \in Int /\ input_pointer <= m.beg /\ match.end < m.beg
  <2>1. CASE NonemptyMatch
    BY <2>1, <1>3, <1>4 DEF KeywordsLeft
  <2>2. CASE ~NonemptyMatch
    BY <2>2, <1>3, <1>4, <1>5 DEF KeywordsLeft, NULL
  <2> QED BY <2>1, <2>2
<1>8. CASE ~Prefiltered
  <2>1. a = [beg |-> PlainStart, left |-> {}]
    BY <1>8 DEF NextStarts
  <2>2. PlainStart \in Int /\ input_pointer < PlainStart /\ match.end < PlainStart
    BY <1>3, <1>4, <1>5, <1>6 DEF PlainStart, NULL
  <2> QED BY <2>1, <2>2, <1>3
<1>9. CASE Prefiltered
  <2>1. a \in Taken(KeywordsLeft)
    BY <1>9 DEF NextStarts
  <2>2. PICK m \in KeywordsLeft : /\ a.beg = m.beg /\ a.left = KeywordsLeft \ {m}
                                  /\ \A o \in KeywordsLeft : a.beg <= o.beg
    BY <2>1, TakenFacts
  <2>3. m \in kw_matches /\ m \notin a.left
    BY <2>2, <1>7
  <2> QED BY <2>2, <2>3, <1>7
<1> QED BY <1>8, <1>9

\* The switch, the end of an attempt and the end of a line keep reports ordered.
LEMMA AttemptsRest ==
  ASSUME IInv,
         \/ SwitchMatch \/ SwitchNoMatch \/ SwitchContinue
         \/ FirstThread \/ Advance \/ Restart \/ Fetch \/ EndOfLine \/ Release
  PROVE  Attempts'
<1> USE DEF lists
<1>1. /\ pc # "idle" /\ pc # "oom" /\ UNCHANGED <<prog, mode>> /\ pc' # "switch"
      /\ todo = <<>> \/ pc \in {"loop", "release"}
  BY DEF SwitchMatch, SwitchNoMatch, SwitchContinue, FirstThread, Advance, Restart, Fetch, EndOfLine, Release, input
<1>2. TypeOK /\ Attempts /\ Ownership /\ todo = <<>>
  BY <1>1 DEF IInv, Ownership
<1>3. cur_pos \in Int /\ match \in MatchRec
  BY <1>2, BoundAssumption DEF TypeOK, Addr, QuitPos, NULL, MatchRec
<1>4. CASE SwitchNoMatch \/ SwitchContinue \/ FirstThread \/ Fetch \/ EndOfLine
  <2>1. /\ UNCHANGED <<cur_pos, input_pointer, kw_matches, match, current_run, out>>
        /\ pc \in {"prologue", "loop", "switch", "fetch"}
    BY <1>4 DEF SwitchNoMatch, SwitchContinue, FirstThread, Fetch, EndOfLine, cursor, result
  <2>2. Searching' => Searching
    BY <2>1 DEF Searching
  <2>3. ASSUME Searching
        PROVE  /\ FromHere(match)' /\ (match' # NoMatch => current_run')
               /\ \A t \in Live' : FromHere(th[t].match)'
    <3>1. FromHere(match) /\ (match # NoMatch => current_run) /\ \A t \in Live : FromHere(th[t].match)
      BY <1>2, <2>3 DEF Attempts
    <3> QED BY <3>1, <2>1, LiveRest DEF FromHere
  <2> QED BY <2>1, <2>2, <2>3, <1>1, <1>3, AttemptsKeeps
<1>5. CASE Advance
  <2>1. UNCHANGED <<pc, input_pointer, kw_matches, match, current_run, out>> /\ cur_pos' = cur_pos + 1
    BY <1>5 DEF Advance, result
  <2>2. Searching' => Searching
    BY <2>1 DEF Searching
  <2>3. cur_pos <= cur_pos' /\ cur_pos' \in Int
    BY <2>1, <1>3
  <2>4. ASSUME Searching
        PROVE  /\ FromHere(match)' /\ (match' # NoMatch => current_run')
               /\ \A t \in Live' : FromHere(th[t].match)'
    <3>1. FromHere(match) /\ (match # NoMatch => current_run) /\ \A t \in Live : FromHere(th[t].match)
      BY <1>2, <2>4 DEF Attempts
    <3>2. FromHere(match)'
      BY <3>1, <2>1, <2>3, <1>2, <1>3, FromHereMoves DEF FromHere
    <3>3. ASSUME NEW t \in Live' PROVE FromHere(th[t].match)'
      <4>1. t \in Live /\ th'[t].match = th[t].match /\ th[t].match \in MatchRec
        BY LiveRest, LiveMatch, <1>2
      <4> QED BY <4>1, <3>1, <2>1, <2>3, <1>2, FromHereMoves DEF FromHere
    <3> QED BY <3>1, <3>2, <3>3, <2>1
  <2> QED BY <2>1, <2>2, <2>3, <2>4, <1>1, AttemptsKeeps
<1>6. CASE SwitchMatch
  <2>1. /\ UNCHANGED <<cur_pos, input_pointer, kw_matches>> /\ pc = "switch" /\ current_run' = TRUE
        /\ match' = IF Individual THEN UpdateLongest(match, th[thread].match) ELSE match
        /\ \/ pc' = "release" /\ out' = IF Individual THEN Emit(match') ELSE out
           \/ pc' = "loop" /\ out' = out
    BY <1>6 DEF SwitchMatch, cursor
  <2>2. Searching /\ thread # NULL
    BY <2>1, <1>2 DEF Searching, Attempts, Ownership
  <2>3. thread \in Live
    BY <2>2, SteppedThread
  <2>4. /\ FromHere(match) /\ FromHere(th[thread].match) /\ th[thread].match \in MatchRec
        /\ input_pointer \in Nat \ {0} /\ ReportsOrdered
        /\ out # <<>> => out[Len(out)].end < input_pointer
    BY <2>2, <2>3, <1>2, SearchFacts, LiveMatch
  <2>5. match' \in MatchRec /\ FromHere(match')
    <3>1. UpdateLongest(match, th[thread].match) \in MatchRec /\ FromHere(UpdateLongest(match, th[thread].match))
      BY <2>4, <1>2, <1>3, LongestFacts, LongestFromHere
    <3> QED BY <3>1, <2>1, <2>4, <1>3
  <2>6. CASE out' = out
    <3>1. FromHere(match)'
      BY <2>1, <2>5 DEF FromHere
    <3>2. \A t \in Live' : FromHere(th[t].match)'
      <4>1. \A t \in Live : FromHere(th[t].match)
        BY <2>2, SearchFacts
      <4> QED BY <4>1, <2>1, LiveRest DEF FromHere
    <3> QED BY <3>1, <3>2, <2>1, <2>2, <2>6, <1>1, <1>3, AttemptsKeeps
  <2>7. CASE pc' = "release" /\ Individual /\ out' = Emit(match')
    <3>1. ~mode.line /\ ~mode.invert
      BY <2>7 DEF Individual
    <3>2. PICK m \in MatchRec : m = match' /\ FromHere(m)
      BY <2>5
    <3>3. \A i \in 1..(Len(Emit(m)) - 1) : Emit(m)[i].end < Emit(m)[i + 1].start
      BY <3>1, <3>2, <2>4, <1>2, EmitOrdered
    <3>4. ReportsOrdered'
      BY <3>2, <3>3, <2>7 DEF ReportsOrdered
    <3>5. ~Searching' /\ (~Prefiltered' => kw_matches' = {})
      BY <2>1, <2>7, <1>1, <1>2, PrefilteredSame DEF Searching, Attempts
    <3> QED BY <3>1, <3>4, <3>5, <2>7, <1>1 DEF Attempts
  <2> QED BY <2>1, <2>6, <2>7
<1>7. CASE Restart
  <2>1. /\ pc = "loop" /\ Char(input_pointer) # NUL /\ thread = NULL /\ next_threads = <<>>
        /\ match' = NoMatch /\ out' = IF mode.line \/ mode.invert THEN out ELSE Emit(match)
    BY <1>7 DEF Restart
  <2>2. PICK start \in NextStarts : /\ input_pointer' = start.beg /\ cur_pos' = start.beg
                                    /\ kw_matches' = start.left
    BY <1>7 DEF Restart
  <2>3. Searching
    BY <2>1 DEF Searching, Char
  <2>4. /\ input_pointer \in Nat \ {0} /\ FromHere(match) /\ ReportsOrdered
        /\ out # <<>> => out[Len(out)].end < input_pointer
        /\ (mode.line \/ mode.invert) => out = <<>>
    BY <2>3, SearchFacts
  <2>5. /\ ReportsOrdered'
        /\ out' # <<>> => \/ out'[Len(out')].end < input_pointer
                          \/ match.end # NULL /\ out'[Len(out')].end <= match.end
    <3>1. CASE mode.line \/ mode.invert
      BY <3>1, <2>1, <2>4 DEF ReportsOrdered
    <3>2. CASE ~(mode.line \/ mode.invert)
      <4>1. out' = Emit(match)
        BY <3>2, <2>1
      <4>2. /\ \A i \in 1..(Len(Emit(match)) - 1) : Emit(match)[i].end < Emit(match)[i + 1].start
            /\ Emit(match) # <<>> => \/ Emit(match)[Len(Emit(match))].end < input_pointer
                                     \/ match.end # NULL /\ Emit(match)[Len(Emit(match))].end <= match.end
        BY <3>2, <2>4, <1>2, <1>3, EmitOrdered
      <4>3. ReportsOrdered'
        BY <4>1, <4>2 DEF ReportsOrdered
      <4> QED BY <4>1, <4>2, <4>3
    <3> QED BY <3>1, <3>2
  <2>6. (mode'.line \/ mode'.invert) => out' = <<>>
    BY <2>1, <2>4, <1>1
  <2>7. ~Prefiltered' => kw_matches' = {}
    BY <2>2, <1>1, PrefilteredSame DEF NextStarts
  <2>8. Live' = {}
    <3>1. active_threads = <<>>
      BY <2>1, <1>2 DEF Ownership
    <3>2. Live = {}
      BY <3>1, <2>1, <1>1, <1>2, NoneLive
    <3> QED BY <3>2, LiveRest
  <2>9. ASSUME Searching'
        PROVE  /\ input_pointer' <= cur_pos'
               /\ out' # <<>> => out'[Len(out')].end < input_pointer'
               /\ \A m \in kw_matches' : input_pointer' <= m.beg
               /\ FromHere(match)' /\ (match' # NoMatch => current_run')
    <3>1. start.beg # QuitPos
      BY <2>2, <2>9 DEF Searching
    <3>2. /\ start.beg \in Int /\ input_pointer <= start.beg /\ match.end < start.beg
          /\ \A m \in start.left : start.beg <= m.beg
      BY <3>1, <2>1, NextStartsAhead
    <3>3. out' # <<>> => out'[Len(out')].end < start.beg
      <4>1. ASSUME out' # <<>> PROVE out'[Len(out')].end \in Int
        <5>1. out' \in Seq(MatchRec)
          BY <2>1, <1>2, <1>3, EmitFacts DEF TypeOK, MatchRec
        <5>2. PICK q \in Seq(MatchRec) : q = out'
          BY <5>1
        <5>3. q # <<>> /\ q[Len(q)] \in MatchRec
          BY <4>1, <5>2
        <5> QED BY <5>2, <5>3, BoundAssumption DEF MatchRec, Addr, QuitPos, NULL
      <4>2. match.end \in Int
        BY <1>3, BoundAssumption DEF MatchRec, Addr, QuitPos, NULL
      <4> QED BY <4>1, <4>2, <3>2, <2>4, <2>5
    <3> QED BY <3>2, <3>3, <2>1, <2>2 DEF FromHere
  <2> QED BY <2>5, <2>6, <2>7, <2>8, <2>9, <1>1 DEF Attempts
<1>8. CASE Release
  <2>1. /\ pc' = "idle" /\ kw_matches' = {} /\ pc = "release"
        /\ IF LineSelected THEN match' = [start |-> 1, end |-> eol - 1] /\ out' = Emit(match')
           ELSE UNCHANGED <<match, out>>
    BY <1>8 DEF Release
  <2>2. ReportsOrdered'
    <3>1. CASE LineSelected
      <4>1. out = <<>>
        BY <3>1, <2>1, <1>2 DEF LineSelected, Attempts
      <4>2. PICK r : out' = <<>> \/ out' = Append(<<>>, r)
        BY <3>1, <2>1, <4>1 DEF Emit
      <4>3. Len(out') <= 1 /\ Len(out') \in Nat
        BY <4>2
      <4> QED BY <4>3 DEF ReportsOrdered
    <3>2. CASE ~LineSelected
      BY <3>2, <2>1, <1>2 DEF Attempts, ReportsOrdered
    <3> QED BY <3>1, <3>2
  <2>3. ~Searching'
    BY <2>1 DEF Searching
  <2> QED BY <2>1, <2>2, <2>3, <1>1 DEF Attempts
<1> QED BY <1>4, <1>5, <1>6, <1>7, <1>8

\* The first attempt on a new line.
LEMMA AttemptsReadLine ==
  ASSUME IInv, NEW l \in Lines, ReadLine(l)
  PROVE  Attempts'
<1> USE DEF lists
<1>1. /\ TypeOK /\ pc = "idle" /\ todo = <<>> /\ thread = NULL /\ next_threads = <<>> /\ active_threads = <<>>
  BY DEF ReadLine, IInv, Ownership
<1>2. /\ match' = NoMatch /\ out' = <<>> /\ pc' \in {"release", "prologue"}
      /\ UNCHANGED <<thread_pool, nthreads, prog, mode>>
  BY DEF ReadLine
<1>3. PICK first \in FirstStarts(l) :
        /\ first.beg \in Addr /\ cur_pos' = first.beg /\ input_pointer' = first.beg
        /\ \A m \in kw_matches' : first.beg <= m.beg
  BY <1>1, LineFacts
<1>4. Live' = {}
  <2>1. Live = {}
    BY <1>1, NoneLive
  <2> QED BY <2>1, <1>2 DEF Live
<1>5. ReportsOrdered'
  BY <1>2 DEF ReportsOrdered
<1>6. ~Prefiltered' => kw_matches' = {}
  <2>1. kw_matches' \subseteq KeywordMatches(l)
    BY <1>1, LineFacts
  <2>2. ~Prefiltered => KeywordMatches(l) = {}
    BY DEF KeywordMatches
  <2> QED BY <2>1, <2>2, <1>2, PrefilteredSame
<1>7. input_pointer' <= cur_pos' /\ \A m \in kw_matches' : input_pointer' <= m.beg
  BY <1>3, BoundAssumption DEF Addr, QuitPos, NULL
<1>8. FromHere(match)'
  BY <1>2 DEF FromHere
<1> QED BY <1>2, <1>4, <1>5, <1>6, <1>7, <1>8 DEF Attempts

\* Every step keeps the attempts in order.
LEMMA AttemptsStep ==
  ASSUME IInv, [Next]_vars
  PROVE  Attempts'
<1>1. CASE Calls
  BY <1>1, AttemptsCalls
<1>2. CASE Steps
  BY <1>2, AttemptsSteps
<1>3. CASE \/ SwitchMatch \/ SwitchNoMatch \/ SwitchContinue
           \/ FirstThread \/ Advance \/ Restart \/ Fetch \/ EndOfLine \/ Release
  BY <1>3, AttemptsRest
<1>4. CASE \E l \in Lines : ReadLine(l)
  BY <1>4, AttemptsReadLine
<1>5. CASE UNCHANGED vars
  <2>1. /\ UNCHANGED <<prog, mode, pc, cur_pos, input_pointer, kw_matches, match, current_run, out>>
        /\ UNCHANGED <<thread_pool, nthreads, th>>
    BY <1>5 DEF vars, input, cursor, lists, result
  <2> QED BY <2>1, PrefilteredSame DEF IInv, Attempts, ReportsOrdered, Searching, FromHere, Live
<1> QED BY <1>1, <1>2, <1>3, <1>4, <1>5 DEF Next, Engine, Exit

-----------------------------------------------------------------------------
(* Part 4: the marks of active_threads_sp.                                  *)

\* Where a search goes to the end of the line, and what load_start_states leaves
\* there is overwritten at the beginning of the next one.
Whole == (mode.invert \/ mode.global) /\ StartsAlike

\* No position of the line has these values.
Unset(i) == sp[i] \in {NULL, QuitPos}

Held == Listed \cup (IF pc = "loop" THEN {thread} \ {NULL} ELSE {})
Standing(i) == \E t \in Held : Node(th[t].ip).id = i

\* A pending call comes to a node with the id i, whatever the next character is.
Coming(i) ==
  \E j \in 1..Len(todo) : \E Q \in SUBSET (1..Len(prog.nodes)) :
    Leads(Q, i) /\ todo[j].op \in {"start", "clone", "load"} /\ todo[j].nfa \in Q

\* At the end of the line an attempt is made of which no thread is stepped.
Running == pc \in {"prologue", "switch"} \/ (pc \in {"fetch", "loop"} /\ Char(input_pointer) # NUL)
Ended == pc \in {"release", "idle"} \/ (pc \in {"fetch", "loop"} /\ Char(input_pointer) = NUL)

MarkRuns(i) ==
  Unset(i) \/ Standing(i) \/ (pc = "prologue" /\ ~Prefiltered /\ sp[i] >= 2 /\ Coming(i))
MarkLeft(i) == Unset(i) \/ (~Prefiltered /\ sp[i] >= 2 /\ AlwaysMarked(i))

\* Where attempts begin; the line has no terminator before its end.
Begins ==
  /\ pc # "idle" => \A a \in 1..eol : mem[a] # NUL
  /\ pc \in {"prologue", "switch"} => Char(input_pointer) # NUL
  /\ pc = "prologue" /\ ~Prefiltered => lookahead = 1
  /\ pc = "fetch" => lookahead = input_pointer /\ (~Prefiltered => input_pointer >= 2)
  /\ pc \in {"fetch", "loop"} /\ Prefiltered /\ Char(input_pointer) = NUL => input_pointer = QuitPos

\* The nodes load_start_states comes to.
Confined ==
  pc \in {"prologue", "fetch"} =>
    \A S \in SUBSET (1..Len(prog.nodes)) : StartsWithin(S) =>
      \A j \in 1..Len(todo) :
        todo[j].nfa \in S /\ (todo[j].op = "each" => Node(todo[j].nfa).type = "INTERVAL")

Marks ==
  /\ Begins /\ Confined
  /\ Whole /\ Running => \A i \in DOMAIN sp : MarkRuns(i)
  /\ Whole /\ Ended => \A i \in DOMAIN sp : MarkLeft(i)

\* What the marks are said with depends on the program alone.
LEMMA ProgramSame ==
  ASSUME prog' = prog
  PROVE  /\ Prefiltered' = Prefiltered /\ StartsAlike' = StartsAlike
         /\ \A n : Node(n)' = Node(n) /\ Tolerant(n)' = Tolerant(n)
         /\ \A Q, i : Leads(Q, i)' = Leads(Q, i)
         /\ \A i : AlwaysMarked(i)' = AlwaysMarked(i)
         /\ \A S : StartsWithin(S)' = StartsWithin(S)
<1>1. \A n : Node(n)' = Node(n) /\ Tolerant(n)' = Tolerant(n) /\ IsCapture(n)' = IsCapture(n)
  BY DEF Node, Tolerant, IsCapture
<1>2. \A n : Elems(Node(n).reach)' = Elems(Node(n).reach)
  BY <1>1 DEF Elems
<1>3. Elems(prog.start)' = Elems(prog.start)
  BY DEF Elems
<1>4. \A Q, i : Leads(Q, i)' = Leads(Q, i)
  BY <1>1, <1>2 DEF Leads
<1>5. \A i : AlwaysMarked(i)' = AlwaysMarked(i)
  BY <1>3, <1>4 DEF AlwaysMarked
<1>6. \A S : StartsWithin(S)' = StartsWithin(S)
  BY <1>1, <1>2, <1>3 DEF StartsWithin
<1>7. Prefiltered' = Prefiltered
  BY PrefilteredSame
<1>8. StartsAlike' = StartsAlike
  BY <1>1, <1>5, <1>6, <1>7 DEF StartsAlike
<1> QED BY <1>1, <1>4, <1>5, <1>6, <1>7, <1>8

\* No thread on a list is moved by a pending call.
LEMMA HeldCalls ==
  ASSUME IInv, Calls, pc' = pc
  PROVE  /\ Held = Listed /\ Held' = Listed' /\ todo # <<>>
         /\ pc \in {"prologue", "switch", "fetch"}
         /\ \A t \in Listed : t \in Listed' /\ th'[t].ip = th[t].ip
<1> USE DEF lists
<1>1. todo # <<>> /\ TypeOK
  BY DEF Calls, StartState, CloneRefused, Clone, LoadCapture, LoadInterval, ResetCount,
         ForEach, LoadAccepting, LoadQueue, LoadDrop, OutOfMemory, Pending, IInv
<1>2. pc \in {"prologue", "switch", "fetch"}
  BY <1>1 DEF IInv, TypeOK, Ownership
<1>3. Held = Listed /\ Held' = Listed'
  BY <1>2 DEF Held
<1>4. /\ th \in Threads /\ nthreads \in 1..MaxThreads /\ MaxThreads \in Nat
      /\ active_threads \in Seq(1..nthreads) /\ next_threads \in Seq(1..nthreads)
      /\ Listed \subseteq 1..nthreads
  BY <1>1, Allocated, BoundAssumption DEF TypeOK, Threads
<1>5. \A t \in Listed : t \in 1..MaxThreads
  BY <1>4
<1>6. Call.nfa \in 1..Len(prog.nodes) /\ (Call.op # "start" => Call.sim \in 1..nthreads /\ Call.sim \in 1..MaxThreads)
  BY <1>1, CallFacts
<1>7. CASE StartState \/ Clone
  <2>1. Obtainable /\ Allocate
    BY <1>7 DEF StartState, Clone
  <2>2. Obtained \notin Listed /\ Obtained \in 1..nthreads'
    BY <2>1, <1>1, ObtainedHome, ObtainFacts DEF Listed
  <2>3. \E r : th' = [th EXCEPT ![Obtained] = r]
    BY <1>7 DEF StartState, Clone
  <2>4. \A t \in Listed : th'[t] = th[t]
    BY <2>2, <2>3, <1>5, <1>4 DEF Threads
  <2>5. active_threads \in Seq(1..nthreads')
    BY <2>1, <1>1, <1>4, ObtainFacts
  <2>6. Elems(Append(active_threads, Obtained)) = Elems(active_threads) \cup {Obtained}
    <3>1. PICK S, q, y : S = 1..nthreads' /\ q = active_threads /\ y = Obtained
      OBVIOUS
    <3>2. q \in Seq(S) /\ y \in S
      BY <3>1, <2>2, <2>5
    <3>3. Elems(Append(q, y)) = Elems(q) \cup {y}
      BY <3>2, ElemsAppend
    <3> QED BY <3>1, <3>3
  <2>7. active_threads' \in {active_threads, Append(active_threads, Obtained)} /\ next_threads' = next_threads
    BY <1>7 DEF StartState, Clone
  <2>8. Listed \subseteq Listed'
    BY <2>6, <2>7 DEF Listed
  <2> QED BY <2>4, <2>8, <1>1, <1>2, <1>3
<1>8. CASE LoadAccepting \/ LoadQueue \/ LoadDrop
  <2>1. Call.sim \in 1..MaxThreads /\ Call.sim \in 1..nthreads /\ todo # <<>> /\ Call.op = "load"
    BY <1>8, <1>6 DEF LoadAccepting, LoadQueue, LoadDrop, Pending, Call
  <2>2. Call.sim \notin Listed
    <3>1. Call.sim \in Loading
      <4>1. 1 \in 1..Len(todo) /\ todo[1] = Call
        BY <1>1 DEF TypeOK, Call
      <4> QED BY <2>1, <4>1 DEF Loading, LoadSims
    <3>2. Apart(Elems(thread_pool), Elems(active_threads), Elems(next_threads), Loading)
      BY <1>1, OwnershipNow
    <3> QED BY <3>1, <3>2 DEF Apart, Listed
  <2>3. \A t \in 1..MaxThreads : t # Call.sim => th'[t] = th[t]
    BY <1>8, <1>4 DEF LoadAccepting, LoadQueue, LoadDrop, Threads
  <2>4. /\ Elems(Append(active_threads, Call.sim)) = Elems(active_threads) \cup {Call.sim}
        /\ Elems(Append(next_threads, Call.sim)) = Elems(next_threads) \cup {Call.sim}
    BY <2>1, <1>4, ElemsAppend
  <2>5. /\ active_threads' \in {active_threads, Append(active_threads, Call.sim)}
        /\ next_threads' \in {next_threads, Append(next_threads, Call.sim)}
    BY <1>8 DEF LoadAccepting, LoadQueue, LoadDrop
  <2>6. Listed \subseteq Listed'
    BY <2>4, <2>5 DEF Listed
  <2> QED BY <2>2, <2>3, <2>6, <1>1, <1>2, <1>3, <1>5
<1>9. CASE LoadCapture \/ ResetCount
  <2>1. Listed' = Listed
    BY <1>9 DEF LoadCapture, ResetCount, Listed
  <2> QED BY <2>1, <1>9, <1>1, <1>2, <1>3, <1>5, CallProgress DEF SameProgress
<1>10. CASE LoadInterval
  <2>1. Listed' = Listed
    BY <1>10 DEF LoadInterval, Listed
  <2>2. /\ Node(Call.nfa).type = "INTERVAL" /\ Call.sim \in 1..nthreads
        /\ \/ MustRepeat(Call.nfa, Call.sim) \/ MayRepeat(Call.nfa, Call.sim)
           \/ MustLeave(Call.nfa, Call.sim) \/ Unlimited(Call.nfa, Call.sim)
    BY <1>10, <1>6 DEF LoadInterval, Pending, Call
  <2>3. \A u \in 1..MaxThreads : th'[u].ip = th[u].ip
    BY <2>2, <1>6, <1>1, IntervalFacts
  <2> QED BY <2>1, <2>3, <1>1, <1>2, <1>3, <1>5
<1>11. CASE CloneRefused \/ ForEach \/ OutOfMemory
  <2>1. Listed' = Listed /\ th' = th
    BY <1>11 DEF CloneRefused, ForEach, OutOfMemory, Listed
  <2> QED BY <2>1, <1>1, <1>2, <1>3
<1> QED BY <1>7, <1>8, <1>9, <1>10, <1>11 DEF Calls

\* What pending calls leave alone.
LEMMA CallsLeave ==
  ASSUME Calls
  PROVE  /\ UNCHANGED <<prog, mode, mem, eol, input_pointer, lookahead, cur_pos, thread, dst>>
         /\ pc' \in {pc, "oom"} /\ (~LoadQueue => sp' = sp)
  BY DEF Calls, StartState, CloneRefused, Clone, LoadCapture, LoadInterval, ResetCount,
         ForEach, LoadAccepting, LoadQueue, LoadDrop, OutOfMemory, input, cursor, lists, MustRepeat, MayRepeat,
         MustLeave, Unlimited

\* A mark is set for the thread that is queued.
LEMMA QueueMarks ==
  ASSUME IInv, LoadQueue
  PROVE  /\ \A i \in DOMAIN sp : i # Node(Call.nfa).id => sp'[i] = sp[i]
         /\ Node(Call.nfa).id \in DOMAIN sp => sp'[Node(Call.nfa).id] = lookahead
         /\ DOMAIN sp' = DOMAIN sp
         /\ Call.sim \in Listed' /\ th'[Call.sim].ip = Call.nfa
<1>1. TypeOK /\ todo # <<>> /\ Call.op = "load" /\ pc # "loop"
  BY DEF IInv, LoadQueue, Pending, Call, Ownership
<1>2. /\ th \in Threads /\ nthreads \in 1..MaxThreads /\ MaxThreads \in Nat
      /\ active_threads \in Seq(1..nthreads) /\ next_threads \in Seq(1..nthreads)
      /\ sp \in [0..(prog.nids - 1) -> Addr] /\ dst \in {"active", "next"}
  BY <1>1, BoundAssumption DEF TypeOK, Threads
<1>3. Call.sim \in 1..nthreads /\ Call.sim \in 1..MaxThreads
  BY <1>1, CallFacts
<1>4. /\ Elems(Append(active_threads, Call.sim)) = Elems(active_threads) \cup {Call.sim}
      /\ Elems(Append(next_threads, Call.sim)) = Elems(next_threads) \cup {Call.sim}
  <2>1. PICK S, t : S = 1..nthreads /\ t = Call.sim
    OBVIOUS
  <2>2. active_threads \in Seq(S) /\ next_threads \in Seq(S) /\ t \in S
    BY <2>1, <1>2, <1>3
  <2>3. /\ Elems(Append(active_threads, t)) = Elems(active_threads) \cup {t}
        /\ Elems(Append(next_threads, t)) = Elems(next_threads) \cup {t}
    BY <2>2, ElemsAppend
  <2> QED BY <2>1, <2>3
<1>5. active_threads' = Append(active_threads, Call.sim) \/ next_threads' = Append(next_threads, Call.sim)
  BY <1>2 DEF LoadQueue
<1>6. Call.sim \in Listed'
  BY <1>4, <1>5 DEF Listed
<1>7. th'[Call.sim].ip = Call.nfa
  BY <1>2, <1>3 DEF LoadQueue, Threads, ThreadRec
<1>8. sp' = [sp EXCEPT ![Node(Call.nfa).id] = lookahead]
  BY DEF LoadQueue
<1> QED BY <1>2, <1>6, <1>7, <1>8

-----------------------------------------------------------------------------
(* What pending calls make of themselves.                                   *)

\* The pending call passes on its own node or, if that is a capture group or an
\* interval, one on its reachable list.
Descends(m) ==
  \/ m = Call.nfa
  \/ /\ IsCapture(Call.nfa) \/ Node(Call.nfa).type = "INTERVAL" \/ Call.op = "each"
     /\ m \in Elems(Node(Call.nfa).reach)

FromCall(f) ==
  /\ Descends(f.nfa)
  /\ f.op = "each" => Node(f.nfa).type = "INTERVAL" \/ (Call.op = "each" /\ f.nfa = Call.nfa)

MadeFrames == {f \in FrameRec : FromCall(f)}

\* The frames an interval is unfolded into are made by its call.
LEMMA IntervalMade ==
  ASSUME IInv, LoadInterval
  PROVE  \E calls \in Seq(MadeFrames) : todo' = calls \o Tail(todo)
<1> DEFINE n == Call.nfa
           t == Call.sim
<1>1. TypeOK /\ todo # <<>> /\ Call.op = "load" /\ Node(n).type = "INTERVAL"
  BY DEF IInv, LoadInterval, Pending, Call
<1>2. n \in 1..Len(prog.nodes) /\ t \in 1..nthreads /\ prog \in Programs /\ nthreads \in Nat
  BY <1>1, CallFacts DEF TypeOK
<1>3. /\ Node(n).split \in 1..(Len(Node(n).reach) - 1) /\ Len(Node(n).reach) \in Nat
      /\ \A i \in 1..Len(Node(n).reach) : Node(n).reach[i] \in 1..Len(prog.nodes)
  BY <1>1, <1>2, NodeFacts
<1>4. ASSUME NEW a \in Int, NEW b \in Nat
      PROVE  /\ Frame("each", n, t, a, b) \in MadeFrames
             /\ Frame("reset", n, t, a, 0) \in MadeFrames
  BY <1>1, <1>2 DEF Frame, MadeFrames, FromCall, Descends, FrameRec, NULL
<1>5. ASSUME NEW k \in {0, Node(n).split}
      PROVE  Frame("load", Node(n).reach[k + 1], t, 0, 0) \in MadeFrames
  <2>1. k + 1 \in 1..Len(Node(n).reach)
    BY <1>3
  <2>2. Node(n).reach[k + 1] \in Elems(Node(n).reach) /\ Node(n).reach[k + 1] \in 1..Len(prog.nodes)
    BY <2>1, <1>3 DEF Elems
  <2> QED BY <2>2, <1>1, <1>2 DEF Frame, MadeFrames, FromCall, Descends, FrameRec, NULL
<1>6. \A f \in MadeFrames : <<f>> \in Seq(MadeFrames)
  OBVIOUS
<1>7. \A s, r \in Seq(MadeFrames) : s \o r \in Seq(MadeFrames)
  BY ConcatAt
<1>8. /\ \A a \in Int, b \in Nat : Each(n, t, a, b) \in Seq(MadeFrames)
      /\ \A a \in Int : <<Frame("reset", n, t, a, 0)>> \in Seq(MadeFrames)
      /\ \A k \in {0, Node(n).split} : Self(n, t, k) \in Seq(MadeFrames)
  BY <1>4, <1>5, <1>6 DEF Each, Self
<1>9. Leave(n, t) \in Seq(MadeFrames) /\ <<>> \in Seq(MadeFrames)
  <2>1. Node(n).split + 1 \in Int /\ Len(Node(n).reach) \in Nat
    BY <1>3
  <2>2. Each(n, t, Node(n).split + 1, Len(Node(n).reach)) \in Seq(MadeFrames)
    BY <2>1, <1>8
  <2> QED BY <2>2, <1>7, <1>8 DEF Leave
<1> HIDE DEF n, t
<1>10. \/ MustRepeat(n, t) \/ MayRepeat(n, t) \/ MustLeave(n, t) \/ Unlimited(n, t)
  BY DEF LoadInterval, n, t
<1>11. /\ Node(n).split \in Nat /\ Len(Node(n).reach) \in Nat /\ 0 \in {0, Node(n).split}
       /\ 0 \in Int /\ 1 \in Int
  BY <1>3
<1>12. \E calls \in Seq(MadeFrames) : Make(calls)
  <2>1. CASE MustRepeat(n, t)
    <3>1. Make(Each(n, t, 1, Node(n).split) \o Self(n, t, 0))
      BY <2>1 DEF MustRepeat
    <3>2. Each(n, t, 1, Node(n).split) \in Seq(MadeFrames) /\ Self(n, t, 0) \in Seq(MadeFrames)
      BY <1>8, <1>11
    <3> QED BY <3>1, <3>2, <1>7
  <2>2. CASE MayRepeat(n, t)
    <3>1. \/ Make(Leave(n, t))
          \/ Make(Each(n, t, 0, Node(n).split) \o <<Frame("reset", n, t, 1, 0)>> \o Leave(n, t))
      BY <2>2 DEF MayRepeat
    <3>2. /\ Each(n, t, 0, Node(n).split) \in Seq(MadeFrames)
          /\ <<Frame("reset", n, t, 1, 0)>> \in Seq(MadeFrames)
      BY <1>8, <1>11
    <3>3. Each(n, t, 0, Node(n).split) \o <<Frame("reset", n, t, 1, 0)>> \o Leave(n, t) \in Seq(MadeFrames)
      BY <3>2, <1>7, <1>9
    <3> QED BY <3>1, <3>3, <1>9
  <2>3. CASE MustLeave(n, t)
    <3>1. Make(Each(n, t, 1, Len(Node(n).reach)) \o Self(n, t, 0)) \/ Make(Leave(n, t))
      BY <2>3 DEF MustLeave
    <3>2. Each(n, t, 1, Len(Node(n).reach)) \in Seq(MadeFrames) /\ Self(n, t, 0) \in Seq(MadeFrames)
      BY <1>8, <1>11
    <3> QED BY <3>1, <3>2, <1>7, <1>9
  <2>4. CASE Unlimited(n, t)
    <3>1. \/ Make(Each(n, t, 0, Node(n).split) \o <<>> \o Leave(n, t))
          \/ Make(Each(n, t, 0, Node(n).split) \o <<Frame("reset", n, t, 0, 0)>> \o Leave(n, t))
      BY <2>4 DEF Unlimited
    <3>2. /\ Each(n, t, 0, Node(n).split) \in Seq(MadeFrames)
          /\ <<Frame("reset", n, t, 0, 0)>> \in Seq(MadeFrames)
      BY <1>8, <1>11
    <3>3. \A m \in Seq(MadeFrames) : Each(n, t, 0, Node(n).split) \o m \o Leave(n, t) \in Seq(MadeFrames)
      BY <3>2, <1>7, <1>9
    <3> QED BY <3>1, <3>2, <3>3, <1>9
  <2> QED BY <1>10, <2>1, <2>2, <2>3, <2>4
<1> QED BY <1>12 DEF Make

\* Every pending call is replaced by the calls it makes.
LEMMA CallsMade ==
  ASSUME IInv, Calls, pc' = pc
  PROVE  \E F : \E calls \in Seq(F) : /\ todo' = calls \o Tail(todo) /\ Tail(todo) \in Seq(F)
                                      /\ \A j \in 1..Len(calls) : FromCall(calls[j])
<1> DEFINE Made(F, calls) == /\ todo' = calls \o Tail(todo) /\ Tail(todo) \in Seq(F)
                             /\ \A j \in 1..Len(calls) : FromCall(calls[j])
<1>1. TypeOK /\ todo # <<>> /\ pc # "oom"
  BY HeldCalls DEF IInv
<1>2. /\ Call.nfa \in 1..Len(prog.nodes) /\ Tail(todo) \in Seq(FrameRec) /\ Call \in FrameRec
      /\ prog \in Programs /\ nthreads \in Nat
      /\ Call.op # "start" => Call.sim \in 1..nthreads
  BY <1>1, CallFacts DEF TypeOK
<1>3. ASSUME todo' = Tail(todo) PROVE \E calls \in Seq(FrameRec) : Made(FrameRec, calls)
  <2>1. <<>> \in Seq(FrameRec) /\ Made(FrameRec, <<>>)
    BY <1>2, <1>3
  <2> QED BY <2>1
<1>4. ASSUME NEW f, f.nfa = Call.nfa, f.op = "load", todo' = <<f>> \o Tail(todo)
      PROVE  \E F : \E calls \in Seq(F) : Made(F, calls)
  <2>1. PICK F : F = FrameRec \cup {f}
    OBVIOUS
  <2>2. <<f>> \in Seq(F) /\ Len(<<f>>) = 1 /\ <<f>>[1] = f /\ Tail(todo) \in Seq(F)
    BY <2>1, <1>2
  <2>3. FromCall(f)
    BY <1>4 DEF FromCall, Descends
  <2>4. Made(F, <<f>>)
    BY <2>2, <2>3, <1>4
  <2> QED BY <2>2, <2>4
<1>5. CASE StartState
  <2>1. \/ todo' = Tail(todo)
        \/ todo' = <<Frame("load", Call.nfa, Obtained, 0, 0)>> \o Tail(todo)
    BY <1>5 DEF StartState
  <2>2. PICK f : f = Frame("load", Call.nfa, Obtained, 0, 0)
    OBVIOUS
  <2>3. f.nfa = Call.nfa /\ f.op = "load"
    BY <2>2 DEF Frame
  <2> QED BY <2>1, <2>2, <2>3, <1>3, <1>4
<1>6. CASE Clone
  <2>1. PICK f : f = Frame("load", Call.nfa, Obtained, 0, 0)
    OBVIOUS
  <2>2. f.nfa = Call.nfa /\ f.op = "load" /\ todo' = <<f>> \o Tail(todo)
    BY <2>1, <1>6 DEF Frame, Clone
  <2> QED BY <2>2, <1>4
<1>7. CASE CloneRefused \/ LoadAccepting \/ LoadQueue \/ LoadDrop \/ ResetCount
  <2>1. todo' = Tail(todo)
    BY <1>7 DEF CloneRefused, LoadAccepting, LoadQueue, LoadDrop, ResetCount
  <2> QED BY <2>1, <1>3
<1>8. CASE LoadCapture
  <2>1. /\ Call.op = "load" /\ Call.sim \in 1..nthreads /\ IsCapture(Call.nfa)
        /\ todo' = Adjacents(Call.nfa, Call.sim) \o Tail(todo)
    BY <1>8, <1>2 DEF LoadCapture, Pending, Call, IsCapture
  <2>2. PICK s : s = Adjacents(Call.nfa, Call.sim)
    OBVIOUS
  <2>3. s \in Seq(FrameRec)
    BY <2>1, <2>2, <1>2, AdjacentsSegment DEF IsCapture
  <2>4. ASSUME NEW j \in 1..Len(s) PROVE FromCall(s[j])
    <3>1. PICK r : r = Node(Call.nfa).reach
      OBVIOUS
    <3>2. r \in Seq(Nat) /\ Len(r) \in Nat /\ Len(r) > 0
      BY <3>1, <2>1, <1>2, NodeFacts DEF IsCapture
    <3>3. s = [i \in 1..Len(r) |-> IF i < Len(r) THEN Frame("clone", r[i + 1], Call.sim, 0, 0)
                                   ELSE Frame("load", r[1], Call.sim, 0, 0)]
      BY <2>2, <3>1 DEF Adjacents
    <3>4. j \in 1..Len(r)
      <4>1. Len(s) = Len(r)
        BY <3>2, <3>3, <2>3
      <4> QED BY <4>1
    <3>5. s[j].nfa \in Elems(r) /\ s[j].op \in {"clone", "load"}
      <4>1. s[j] = IF j < Len(r) THEN Frame("clone", r[j + 1], Call.sim, 0, 0)
                   ELSE Frame("load", r[1], Call.sim, 0, 0)
        BY <3>3, <3>4
      <4>2. 1 \in 1..Len(r) /\ (j < Len(r) => j + 1 \in 1..Len(r))
        BY <3>2, <3>4
      <4> QED BY <4>1, <4>2 DEF Frame, Elems
    <3> QED BY <3>1, <3>5, <2>1 DEF FromCall, Descends
  <2> QED BY <2>1, <2>2, <2>3, <2>4, <1>2
<1>9. CASE LoadInterval
  <2>1. PICK calls \in Seq(MadeFrames) : todo' = calls \o Tail(todo)
    BY <1>9, IntervalMade
  <2>2. calls \in Seq(FrameRec) /\ \A j \in 1..Len(calls) : calls[j] \in MadeFrames
    <3>1. MadeFrames \subseteq FrameRec
      BY DEF MadeFrames
    <3> QED BY <3>1
  <2> QED BY <2>1, <2>2, <1>2 DEF MadeFrames
<1>10. CASE ForEach
  <2>1. Call.op = "each"
    BY <1>10 DEF ForEach, Pending, Call
  <2>2. PICK n, at : n = Call.nfa /\ at = SeekTo(n, Call.a)
    OBVIOUS
  <2>3. /\ HasNext(n, at) => Node(n).reach[at + 1] \in 1..Len(prog.nodes) /\ Node(n).reach[at + 1] \in Elems(Node(n).reach)
        /\ Call.a \in Int
    <3>1. Call.a \in Int /\ at \in Int /\ (HasNext(n, at) => Node(n).reach[at + 1] \in 1..Len(prog.nodes))
      BY <2>1, <2>2, <1>1, <1>2, CallFacts, TurnFacts
    <3>2. Len(Node(n).reach) \in Nat
      BY <1>2, <2>2, NodeFacts
    <3>3. HasNext(n, at) => at + 1 \in 1..Len(Node(n).reach)
      BY <3>1, <3>2 DEF HasNext
    <3> QED BY <3>1, <3>3 DEF Elems
  <2>4. todo' = IF HasNext(n, at) /\ at + 1 <= Call.b
                THEN <<Frame("clone", Node(n).reach[at + 1], Call.sim, 0, 0),
                       [Call EXCEPT !.a = NoSeek]>> \o Tail(todo)
                ELSE Tail(todo)
    BY <1>10, <2>2 DEF ForEach
  <2>5. CASE HasNext(n, at) /\ at + 1 <= Call.b
    <3>1. PICK c, e : c = Frame("clone", Node(n).reach[at + 1], Call.sim, 0, 0) /\ e = [Call EXCEPT !.a = NoSeek]
      OBVIOUS
    <3>2. <<c, e>> \in Seq(FrameRec)
      BY <3>1, <2>1, <2>3, <2>5, <1>2, TurnFrames
    <3>3. c.nfa \in Elems(Node(n).reach) /\ c.op = "clone" /\ e.op = "each" /\ e.nfa = Call.nfa
      BY <3>1, <2>1, <2>3, <2>5, <1>2 DEF Frame, FrameRec
    <3>4. FromCall(c) /\ FromCall(e)
      BY <3>3, <2>1, <2>2 DEF FromCall, Descends
    <3>5. /\ todo' = <<c, e>> \o Tail(todo)
          /\ \A j \in 1..Len(<<c, e>>) : <<c, e>>[j] \in {c, e}
      <4>1. todo' = <<c, e>> \o Tail(todo)
        BY <3>1, <2>4, <2>5
      <4>2. \A j \in 1..Len(<<c, e>>) : <<c, e>>[j] \in {c, e}
        OBVIOUS
      <4> QED BY <4>1, <4>2
    <3>6. Made(FrameRec, <<c, e>>)
      BY <3>4, <3>5, <1>2
    <3> QED BY <3>2, <3>6
  <2>6. CASE ~(HasNext(n, at) /\ at + 1 <= Call.b)
    BY <2>4, <2>6, <1>3
  <2> QED BY <2>5, <2>6
<1>11. CASE OutOfMemory
  BY <1>11, <1>1 DEF OutOfMemory
<1> QED BY <1>5, <1>6, <1>7, <1>8, <1>9, <1>10, <1>11 DEF Calls

-----------------------------------------------------------------------------
(* Every step keeps the marks.                                              *)

\* load_start_states comes to no other nodes.
LEMMA ConfinedCalls ==
  ASSUME IInv, Confined, Calls
  PROVE  Confined'
<1> SUFFICES ASSUME pc' \in {"prologue", "fetch"}, NEW S \in SUBSET (1..Len(prog.nodes)), StartsWithin(S),
                    NEW j \in 1..Len(todo')
             PROVE  todo'[j].nfa \in S /\ (todo'[j].op = "each" => Node(todo'[j].nfa).type = "INTERVAL")
  BY CallsLeave, ProgramSame DEF Confined
<1>1. pc' = pc /\ todo # <<>>
  BY CallsLeave, HeldCalls
<1>2. \A k \in 1..Len(todo) : todo[k].nfa \in S /\ (todo[k].op = "each" => Node(todo[k].nfa).type = "INTERVAL")
  BY <1>1 DEF Confined
<1>3a. PICK F : \E calls \in Seq(F) : /\ todo' = calls \o Tail(todo) /\ Tail(todo) \in Seq(F)
                                       /\ \A k \in 1..Len(calls) : FromCall(calls[k])
  BY <1>1, CallsMade
<1>3. PICK calls \in Seq(F) : /\ todo' = calls \o Tail(todo) /\ Tail(todo) \in Seq(F)
                              /\ \A k \in 1..Len(calls) : FromCall(calls[k])
  BY <1>3a
<1>4. /\ todo \in Seq(FrameRec) /\ Call = todo[1] /\ 1 \in 1..Len(todo)
      /\ \A k \in 1..Len(Tail(todo)) : k + 1 \in 1..Len(todo) /\ Tail(todo)[k] = todo[k + 1]
  <2>1. todo \in Seq(FrameRec)
    BY DEF IInv, TypeOK
  <2>2. Call = todo[1] /\ 1 \in 1..Len(todo)
    BY <2>1, <1>1 DEF Call
  <2> QED BY <2>1, <2>2, <1>1, TailAt
<1>5. CASE j \in 1..Len(calls)
  <2>1. todo'[j] = calls[j] /\ FromCall(calls[j])
    <3>1. PICK r : r = Tail(todo)
      OBVIOUS
    <3>2. \A k \in 1..Len(calls) : (calls \o r)[k] = calls[k]
      BY <3>1, <1>3, ConcatAt
    <3> QED BY <3>1, <3>2, <1>3, <1>5
  <2>2. \A m : Descends(m) => m \in S
    <3>1. Call.nfa \in S /\ (Call.op = "each" => Node(Call.nfa).type = "INTERVAL")
      BY <1>2, <1>4
    <3>2. IsCapture(Call.nfa) \/ Node(Call.nfa).type = "INTERVAL" => Elems(Node(Call.nfa).reach) \subseteq S
      BY <3>1 DEF StartsWithin
    <3> QED BY <3>1, <3>2 DEF Descends
  <2> QED BY <2>1, <2>2, <1>2, <1>4 DEF FromCall
<1>6. CASE j \notin 1..Len(calls)
  <2>1. PICK r : r = Tail(todo)
    OBVIOUS
  <2>2. j - Len(calls) \in 1..Len(r) /\ todo'[j] = r[j - Len(calls)]
    BY <2>1, <1>3, <1>6, ConcatAt
  <2> QED BY <2>1, <2>2, <1>2, <1>4
<1> QED BY <1>5, <1>6

\* A frame that is not the pending call waits on.
LEMMA WaitingFrames ==
  ASSUME IInv, Calls, pc' = pc
  PROVE  \A j \in 1..Len(todo) : j # 1 => \E k \in 1..Len(todo') : todo'[k] = todo[j]
<1> SUFFICES ASSUME NEW j \in 1..Len(todo), j # 1 PROVE \E k \in 1..Len(todo') : todo'[k] = todo[j]
  OBVIOUS
<1>1. todo # <<>> /\ todo \in Seq(FrameRec)
  BY HeldCalls DEF IInv, TypeOK
<1>2a. PICK F : \E calls \in Seq(F) : todo' = calls \o Tail(todo) /\ Tail(todo) \in Seq(F)
  BY CallsMade
<1>2. PICK calls \in Seq(F) : todo' = calls \o Tail(todo) /\ Tail(todo) \in Seq(F)
  BY <1>2a
<1>3. PICK r : r = Tail(todo)
  OBVIOUS
<1>4. j - 1 \in 1..Len(r) /\ todo[j] = r[j - 1]
  BY <1>1, <1>3, TailAt
<1>5. Len(calls) + (j - 1) \in 1..Len(calls \o r) /\ (calls \o r)[Len(calls) + (j - 1)] = r[j - 1]
  BY <1>2, <1>3, <1>4, ConcatAt
<1> QED BY <1>2, <1>3, <1>4, <1>5

\* A call that comes to a node with the id i whatever follows goes on doing so until
\* it has queued a thread there.
LEMMA ComingCalls ==
  ASSUME IInv, Begins, Calls, pc = "prologue", pc' = pc, ~Prefiltered,
         NEW i \in DOMAIN sp, sp[i] >= 2, Coming(i)
  PROVE  Coming(i)' \/ (LoadQueue /\ i = Node(Call.nfa).id)
<1>1. PICK j \in 1..Len(todo), Q \in SUBSET (1..Len(prog.nodes)) :
        Leads(Q, i) /\ todo[j].op \in {"start", "clone", "load"} /\ todo[j].nfa \in Q
  BY DEF Coming
<1>2. ASSUME NEW k \in 1..Len(todo'), todo'[k].op \in {"start", "clone", "load"}, todo'[k].nfa \in Q
      PROVE  Coming(i)'
  <2>1. prog' = prog
    BY CallsLeave
  <2>2. Leads(Q, i)'
    BY <1>1, <2>1, ProgramSame
  <2> QED BY <1>2, <2>1, <2>2 DEF Coming
<1>3. CASE j # 1
  <2>1. PICK k \in 1..Len(todo') : todo'[k] = todo[j]
    BY <1>3, WaitingFrames
  <2> QED BY <2>1, <1>1, <1>2
<1>4. CASE j = 1
  <2>1. /\ todo # <<>> /\ todo \in Seq(FrameRec) /\ Call = todo[1] /\ TypeOK
        /\ Tail(todo) \in Seq(FrameRec)
    BY HeldCalls DEF IInv, TypeOK, Call
  <2>2. Call.op \in {"start", "clone", "load"} /\ Call.nfa \in Q /\ lookahead = 1
    BY <1>1, <1>4, <2>1 DEF Begins
  <2>3. Call.nfa \in 1..Len(prog.nodes) /\ (Call.op # "start" => Call.sim \in 1..nthreads) /\ prog \in Programs /\ nthreads \in Nat
    BY <2>1, CallFacts DEF TypeOK
  <2>4. \/ Tolerant(Call.nfa) /\ Node(Call.nfa).id = i
        \/ IsCapture(Call.nfa) /\ Elems(Node(Call.nfa).reach) \cap Q # {}
    BY <1>1, <2>2 DEF Leads
  <2>5. ASSUME NEW f, f.op = "load", f.nfa = Call.nfa, todo' = <<f>> \o Tail(todo)
        PROVE  Coming(i)'
    <3>1. PICK F, r : F = FrameRec \cup {f} /\ r = Tail(todo)
      OBVIOUS
    <3>2. <<f>> \in Seq(F) /\ Len(<<f>>) = 1 /\ <<f>>[1] = f /\ r \in Seq(F)
      BY <3>1, <2>1
    <3>3. 1 \in 1..Len(<<f>> \o r) /\ (<<f>> \o r)[1] = f
      BY <3>2
    <3> QED BY <3>1, <3>3, <2>2, <2>5, <1>2
  <2>6. CASE StartState
    <3>1. Node(Call.nfa).type # "RANGE"
      BY <2>4 DEF Tolerant, IsCapture
    <3>2. PICK f : f = Frame("load", Call.nfa, Obtained, 0, 0)
      OBVIOUS
    <3>3. todo' = <<f>> \o Tail(todo) /\ f.op = "load" /\ f.nfa = Call.nfa
      BY <2>6, <3>1, <3>2 DEF StartState, Frame
    <3> QED BY <3>3, <2>5
  <2>7. CASE Clone
    <3>1. PICK f : f = Frame("load", Call.nfa, Obtained, 0, 0)
      OBVIOUS
    <3>2. todo' = <<f>> \o Tail(todo) /\ f.op = "load" /\ f.nfa = Call.nfa
      BY <2>7, <3>1 DEF Clone, Frame
    <3> QED BY <3>2, <2>5
  <2>8. CASE CloneRefused
    BY <2>4, <2>8 DEF CloneRefused, AcceptsRaw, Tolerant, IsCapture
  <2>9. CASE LoadCapture
    <3>1. PICK s, r : s = Adjacents(Call.nfa, Call.sim) /\ r = Node(Call.nfa).reach
      OBVIOUS
    <3>2. /\ Call.op = "load" /\ IsCapture(Call.nfa) /\ todo' = s \o Tail(todo)
      BY <2>9, <3>1 DEF LoadCapture, Pending, Call, IsCapture
    <3>3. s \in Seq(FrameRec) /\ r \in Seq(Nat) /\ Len(r) \in Nat /\ Len(r) > 0
      BY <3>1, <3>2, <2>3, AdjacentsSegment, NodeFacts DEF IsCapture
    <3>4. s = [k \in 1..Len(r) |-> IF k < Len(r) THEN Frame("clone", r[k + 1], Call.sim, 0, 0)
                                   ELSE Frame("load", r[1], Call.sim, 0, 0)]
      BY <3>1 DEF Adjacents
    <3>5. Len(s) = Len(r)
      BY <3>3, <3>4
    <3>6. PICK g \in 1..Len(r) : r[g] \in Q
      BY <2>4, <3>1, <3>2 DEF Elems, IsCapture, Tolerant
    <3>7. \E k \in 1..Len(s) : s[k].op \in {"clone", "load"} /\ s[k].nfa \in Q
      <4>1. CASE g = 1
        <5>1. Len(r) \in 1..Len(s) /\ s[Len(r)] = Frame("load", r[1], Call.sim, 0, 0)
          BY <3>3, <3>4, <3>5
        <5> QED BY <4>1, <5>1, <3>6 DEF Frame
      <4>2. CASE g # 1
        <5>1. g - 1 \in 1..Len(s) /\ s[g - 1] = Frame("clone", r[(g - 1) + 1], Call.sim, 0, 0)
          <6>1. PICK k : k = g - 1
            OBVIOUS
          <6>2. k \in 1..Len(r) /\ k < Len(r)
            BY <6>1, <4>2, <3>3
          <6> QED BY <6>1, <6>2, <3>4, <3>5
        <5>2. (g - 1) + 1 = g
          BY <3>3
        <5> QED BY <5>1, <5>2, <3>6 DEF Frame
      <4> QED BY <4>1, <4>2
    <3>8. PICK k \in 1..Len(s) : s[k].op \in {"clone", "load"} /\ s[k].nfa \in Q
      BY <3>7
    <3>9. k \in 1..Len(todo') /\ todo'[k] = s[k]
      <4>1. PICK q : q = Tail(todo)
        OBVIOUS
      <4>2. k \in 1..Len(s \o q) /\ (s \o q)[k] = s[k]
        BY <4>1, <3>3, <2>1, ConcatAt
      <4> QED BY <4>1, <4>2, <3>2
    <3> QED BY <3>8, <3>9, <1>2
  <2>10. CASE LoadInterval \/ LoadAccepting
    BY <2>4, <2>10 DEF LoadInterval, LoadAccepting, Tolerant, IsCapture
  <2>11. CASE LoadQueue
    BY <2>4, <2>11 DEF LoadQueue, Matchable, IsCapture
  <2>12. CASE LoadDrop
    <3>1. Matchable(Call.nfa) /\ ~Wanted(Call.nfa, Call.sim)
      BY <2>12 DEF LoadDrop
    <3>2. Tolerant(Call.nfa) /\ Node(Call.nfa).id = i
      BY <2>4, <3>1 DEF Matchable, IsCapture
    <3>3. AcceptsRaw(Call.nfa, Char(lookahead))
      BY <3>2 DEF AcceptsRaw, Tolerant
    <3>4. sp[i] = lookahead
      BY <3>1, <3>2, <3>3 DEF Wanted
    <3> QED BY <3>4, <2>2
  <2>13. CASE ResetCount \/ ForEach
    BY <2>2, <2>13 DEF ResetCount, ForEach, Pending, Call
  <2>14. CASE OutOfMemory
    BY <2>14 DEF OutOfMemory
  <2> QED BY <2>6, <2>7, <2>8, <2>9, <2>10, <2>11, <2>12, <2>13, <2>14 DEF Calls
<1> QED BY <1>3, <1>4

\* What load_start_states queues at the terminator is marked at every attempt.
LEMMA QueuedAtEnd ==
  ASSUME IInv, Begins, Confined, Whole, ~Prefiltered, LoadQueue, pc = "fetch", Char(lookahead) = NUL
  PROVE  AlwaysMarked(Node(Call.nfa).id) /\ lookahead >= 2
<1>1. TypeOK /\ todo # <<>> /\ todo \in Seq(FrameRec) /\ lookahead >= 2
  BY DEF IInv, TypeOK, LoadQueue, Pending, Begins
<1>2. Call.nfa \in 1..Len(prog.nodes) /\ Matchable(Call.nfa) /\ AcceptsRaw(Call.nfa, NUL) /\ prog \in Programs
  BY <1>1, CallFacts DEF LoadQueue, Wanted, TypeOK
<1>3. Node(Call.nfa).set \subseteq Chars
  <2>1. prog.nodes \in Seq(NodeRec)
    BY <1>2, ProgramAssumption DEF WellFormed
  <2>2. prog.nodes[Call.nfa] \in NodeRec
    BY <2>1, <1>2
  <2> QED BY <2>2 DEF Node, NodeRec
<1>4. Tolerant(Call.nfa)
  BY <1>2, <1>3, CharAssumption DEF Matchable, AcceptsRaw, Tolerant
<1>5. PICK S \in SUBSET (1..Len(prog.nodes)) :
        StartsWithin(S) /\ \A n \in S : Tolerant(n) => AlwaysMarked(Node(n).id)
  BY DEF Whole, StartsAlike
<1>6. Call.nfa \in S
  <2>1. todo[1] = Call /\ 1 \in 1..Len(todo)
    BY <1>1 DEF Call
  <2> QED BY <2>1, <1>5 DEF Confined
<1> QED BY <1>1, <1>4, <1>5, <1>6

\* Pending calls keep the marks: what they mark has a thread.
LEMMA MarksCalls ==
  ASSUME IInv, Marks, Calls
  PROVE  Marks'
<1>1. /\ UNCHANGED <<prog, mode, mem, eol, input_pointer, lookahead, cur_pos, thread, dst>>
      /\ pc' \in {pc, "oom"} /\ (~LoadQueue => sp' = sp)
  BY CallsLeave
<1>2. Confined'
  BY ConfinedCalls DEF Marks
<1>3. CASE pc' = "oom"
  <2>1. pc # "idle" /\ Begins
    BY HeldCalls, <1>3 DEF Marks, IInv, Ownership, Calls, StartState, CloneRefused, Clone, LoadCapture, LoadInterval,
       ResetCount, ForEach, LoadAccepting, LoadQueue, LoadDrop, OutOfMemory, Pending
  <2>2. Begins'
    BY <2>1, <1>1, <1>3 DEF Begins
  <2> QED BY <2>2, <1>2, <1>3 DEF Marks, Running, Ended
<1>4. CASE pc' = pc
  <2>1. /\ Held = Listed /\ Held' = Listed' /\ pc \in {"prologue", "switch", "fetch"}
        /\ \A t \in Listed : t \in Listed' /\ th'[t].ip = th[t].ip
    BY <1>4, HeldCalls
  <2>2. /\ Prefiltered' = Prefiltered /\ StartsAlike' = StartsAlike
        /\ \A n : Node(n)' = Node(n)
        /\ \A i : AlwaysMarked(i)' = AlwaysMarked(i)
    BY <1>1, ProgramSame
  <2>3. Char(input_pointer)' = Char(input_pointer)
    BY <1>1 DEF Char
  <2>4. Begins'
    BY <1>1, <1>4, <2>2, <2>3 DEF Marks, Begins
  <2>5. Whole' = Whole /\ Running' = Running /\ Ended' = Ended
    BY <1>1, <1>4, <2>2, <2>3 DEF Whole, Running, Ended
  <2>6. ASSUME NEW i, Standing(i) PROVE Standing(i)'
    <3>1. PICK t \in Listed : Node(th[t].ip).id = i
      BY <2>1, <2>6 DEF Standing
    <3>2. t \in Held' /\ th'[t].ip = th[t].ip
      BY <3>1, <2>1
    <3> QED BY <3>1, <3>2, <1>1 DEF Standing, Node
  <2>7. ASSUME LoadQueue
        PROVE  /\ \A i : i = Node(Call.nfa).id => Standing(i)'
               /\ \A i \in DOMAIN sp : i # Node(Call.nfa).id => sp'[i] = sp[i]
    <3>1. PICK t, m : t = Call.sim /\ m = Call.nfa
      OBVIOUS
    <3>2. t \in Held' /\ th'[t].ip = m
      BY <2>7, <2>1, <3>1, QueueMarks
    <3>3. \A i : i = Node(m).id => Standing(i)'
      BY <3>2, <1>1 DEF Standing, Node
    <3> QED BY <3>1, <3>3, <2>7, QueueMarks
  <2>8. DOMAIN sp' = DOMAIN sp
    BY <1>1, QueueMarks
  <2>9. ASSUME Whole, Running, NEW i \in DOMAIN sp PROVE MarkRuns(i)'
    <3>1. MarkRuns(i)
      BY <2>9 DEF Marks
    <3>2. CASE LoadQueue /\ i = Node(Call.nfa).id
      BY <3>2, <2>7 DEF MarkRuns
    <3>3. CASE ~(LoadQueue /\ i = Node(Call.nfa).id)
      <4>1. sp'[i] = sp[i]
        BY <3>3, <1>1, <2>7, <2>9
      <4>2. CASE Unset(i)
        BY <4>1, <4>2 DEF Unset, MarkRuns
      <4>3. CASE Standing(i)
        BY <4>3, <2>6 DEF MarkRuns
      <4>4. CASE pc = "prologue" /\ ~Prefiltered /\ sp[i] >= 2 /\ Coming(i)
        <5>1. Coming(i)'
          BY <4>4, <3>3, <1>4, <2>9, ComingCalls DEF Marks
        <5> QED BY <5>1, <4>1, <4>4, <2>2, <1>4 DEF MarkRuns
      <4> QED BY <3>1, <4>2, <4>3, <4>4 DEF MarkRuns
    <3> QED BY <3>2, <3>3
  <2>10. ASSUME Whole, Ended, NEW i \in DOMAIN sp PROVE MarkLeft(i)'
    <3>1. MarkLeft(i) /\ pc = "fetch" /\ Char(input_pointer) = NUL /\ lookahead = input_pointer
      BY <2>1, <2>10 DEF Marks, Ended, Begins
    <3>2. CASE LoadQueue /\ i = Node(Call.nfa).id
      <4>1. sp'[i] = lookahead
        BY <3>2, <2>10, QueueMarks
      <4>2. CASE Prefiltered
        <5>1. lookahead = QuitPos
          BY <3>1, <4>2 DEF Marks, Begins
        <5> QED BY <4>1, <5>1 DEF MarkLeft, Unset
      <4>3. CASE ~Prefiltered
        <5>1. AlwaysMarked(i) /\ lookahead >= 2
          BY <3>1, <3>2, <4>3, <2>10, QueuedAtEnd DEF Marks
        <5> QED BY <4>1, <5>1, <4>3, <2>2 DEF MarkLeft
      <4> QED BY <4>2, <4>3
    <3>3. CASE ~(LoadQueue /\ i = Node(Call.nfa).id)
      <4>1. sp'[i] = sp[i]
        BY <3>3, <1>1, <2>7, <2>10
      <4> QED BY <4>1, <3>1, <2>2 DEF MarkLeft, Unset
    <3> QED BY <3>2, <3>3
  <2> QED BY <1>2, <2>4, <2>5, <2>8, <2>9, <2>10 DEF Marks
<1> QED BY <1>1, <1>3, <1>4

\* thread_step clears the mark of the thread it takes away.
LEMMA MarksSteps ==
  ASSUME IInv, Marks, Steps
  PROVE  Marks'
<1>1. /\ Stepping /\ UNCHANGED <<prog, mode, mem, eol, input_pointer, thread, active_threads>>
  BY DEF Steps, StepConsume, StepAnchor, StepBackreference, StepAccept, StepFail, input, cursor, lists
<1>2. /\ pc = "loop" /\ pc' = "switch" /\ thread # NULL /\ Char(input_pointer) # NUL
      /\ sp' = [sp EXCEPT ![Node(th[thread].ip).id] = NULL]
  BY <1>1 DEF Stepping, Unmarked
<1>3. /\ thread \in 1..nthreads /\ thread \in 1..MaxThreads /\ th \in Threads
      /\ next_threads \in Seq(1..nthreads) /\ Listed \subseteq 1..nthreads /\ nthreads \in 1..MaxThreads
      /\ MaxThreads \in Nat /\ sp \in [0..(prog.nids - 1) -> Addr]
  BY <1>2, SteppedThread, Allocated, BoundAssumption DEF IInv, TypeOK
<1>4. /\ StartsAlike' = StartsAlike /\ \A n : Node(n)' = Node(n)
  BY <1>1, ProgramSame
<1>5. Begins' /\ Confined'
  <2>1. Char(input_pointer)' = Char(input_pointer)
    BY <1>1 DEF Char
  <2> QED BY <2>1, <1>1, <1>2 DEF Marks, Begins, Confined
<1>6. \A t \in Listed : th'[t].ip = th[t].ip
  <2>1. Listed \subseteq Live
    BY <1>3 DEF IInv, Ownership, OneHome, Listed, Live
  <2> QED BY <2>1, LiveSteps
<1>7. Listed \subseteq Listed'
  <2>1. next_threads' \in {next_threads, Append(next_threads, thread)}
    BY DEF Steps, StepConsume, StepAnchor, StepBackreference, StepAccept, StepFail, lists
  <2>2. Elems(Append(next_threads, thread)) = Elems(next_threads) \cup {thread}
    <3>1. PICK S, t : S = 1..nthreads /\ t = thread
      OBVIOUS
    <3>2. next_threads \in Seq(S) /\ t \in S
      BY <3>1, <1>3
    <3>3. Elems(Append(next_threads, t)) = Elems(next_threads) \cup {t}
      BY <3>2, ElemsAppend
    <3> QED BY <3>1, <3>3
  <2> QED BY <2>1, <2>2, <1>1 DEF Listed
<1>8. ASSUME Whole, NEW i \in DOMAIN sp PROVE MarkRuns(i)'
  <2>1. MarkRuns(i)
    BY <1>2, <1>8 DEF Marks, Running
  <2>2. CASE i = Node(th[thread].ip).id
    <3>1. sp'[i] = NULL
      BY <2>2, <1>2, <1>3, <1>8
    <3> QED BY <3>1 DEF MarkRuns, Unset
  <2>3. CASE i # Node(th[thread].ip).id
    <3>1. sp'[i] = sp[i]
      BY <2>3, <1>2, <1>3, <1>8
    <3>2. CASE Unset(i)
      BY <3>1, <3>2 DEF MarkRuns, Unset
    <3>3. CASE Standing(i)
      <4>1. PICK t \in Held : Node(th[t].ip).id = i
        BY <3>3 DEF Standing
      <4>2. t \in Listed
        BY <4>1, <2>3 DEF Held
      <4>3. t \in Held' /\ th'[t].ip = th[t].ip
        BY <4>2, <1>6, <1>7 DEF Held
      <4> QED BY <4>1, <4>3, <1>1 DEF Standing, MarkRuns, Node
    <3> QED BY <2>1, <3>2, <3>3, <1>2 DEF MarkRuns
  <2> QED BY <2>2, <2>3
<1>9. Whole' = Whole /\ ~Ended' /\ DOMAIN sp' = DOMAIN sp
  BY <1>1, <1>2, <1>3, <1>4 DEF Whole, Ended
<1> QED BY <1>5, <1>8, <1>9 DEF Marks

\* The next thread comes off the list of the current position, or the list is empty.
LEMMA NextHeld ==
  ASSUME IInv, NextThread, pc \in {"prologue", "switch", "fetch"}, pc' = "loop", todo = <<>>,
         UNCHANGED <<prog, th, next_threads>>
  PROVE  \A i : Standing(i) => Standing(i)'
<1>1. Held = Listed
  BY DEF Held
<1>2. active_threads \in Seq(1..nthreads) /\ NULL \notin Elems(active_threads)
  BY OwnershipIdle
<1>3. thread' = Front(active_threads) /\ active_threads' = Rest(active_threads)
  BY DEF NextThread
<1>4. Elems(active_threads) \subseteq {thread'} \cup Elems(active_threads')
  <2>1. CASE active_threads = <<>>
    BY <2>1, ElemsEmpty
  <2>2. CASE active_threads # <<>>
    BY <2>2, <1>2, <1>3, FrontRest
  <2> QED BY <2>1, <2>2
<1>5. Listed \subseteq Held'
  <2>1. \A t \in Elems(active_threads) : t # NULL
    BY <1>2
  <2>2. \A t \in Elems(next_threads) : t \in Elems(next_threads')
    OBVIOUS
  <2> QED BY <1>4, <2>1, <2>2 DEF Listed, Held
<1> QED BY <1>1, <1>5 DEF Standing, Node

\* The switch, and the ends of prologue and reset_thread.
LEMMA MarksNext ==
  ASSUME IInv, Marks, NextThread, pc \in {"prologue", "switch", "fetch"}, pc' = "loop", todo = <<>>,
         UNCHANGED <<prog, mode, mem, eol, input_pointer, lookahead, th, sp, next_threads>>
  PROVE  Marks'
<1>1. /\ Prefiltered' = Prefiltered /\ StartsAlike' = StartsAlike
      /\ \A i : AlwaysMarked(i)' = AlwaysMarked(i)
  BY ProgramSame
<1>2. Char(input_pointer)' = Char(input_pointer)
  BY DEF Char
<1>3. Begins' /\ Confined'
  BY <1>1, <1>2 DEF Marks, Begins, Confined
<1>4. Whole' = Whole
  BY <1>1 DEF Whole
<1>5. ASSUME Whole, Running', NEW i \in DOMAIN sp PROVE MarkRuns(i)'
  <2>1. MarkRuns(i)
    BY <1>2, <1>5 DEF Marks, Running
  <2>2. ~Coming(i)
    BY DEF Coming
  <2>3. Standing(i) => Standing(i)'
    BY NextHeld
  <2> QED BY <2>1, <2>2, <2>3 DEF MarkRuns, Unset
<1>6. ASSUME Whole, Ended', NEW i \in DOMAIN sp PROVE MarkLeft(i)'
  <2>1. MarkLeft(i)
    BY <1>2, <1>6 DEF Marks, Begins, Ended
  <2> QED BY <2>1, <1>1 DEF MarkLeft, Unset
<1> QED BY <1>3, <1>4, <1>5, <1>6 DEF Marks

\* Between attempts no mark is left.
LEMMA NoneMarked ==
  ASSUME IInv, Marks, Whole, Running, todo = <<>>, active_threads = <<>>, next_threads = <<>>,
         pc = "loop" => thread = NULL, NEW i \in DOMAIN sp
  PROVE  Unset(i)
<1>1. Held = {}
  BY ElemsEmpty DEF Held, Listed
<1>2. ~Standing(i) /\ ~Coming(i)
  BY <1>1 DEF Standing, Coming
<1>3. MarkRuns(i)
  BY DEF Marks
<1> QED BY <1>2, <1>3 DEF MarkRuns

\* The switch, a search that is given up, the next position and the end of a line.
LEMMA MarksRest ==
  ASSUME IInv, Marks,
         \/ SwitchMatch \/ SwitchNoMatch \/ SwitchContinue
         \/ FirstThread \/ Advance \/ Fetch \/ EndOfLine \/ Release
  PROVE  Marks'
<1> USE DEF lists, cursor, input
<1>1. /\ UNCHANGED <<prog, mode, mem, eol, input_pointer, lookahead, th, sp, todo>>
  BY DEF SwitchMatch, SwitchNoMatch, SwitchContinue, FirstThread, Advance, Fetch, EndOfLine, Release
<1>2. /\ Prefiltered' = Prefiltered /\ StartsAlike' = StartsAlike
      /\ \A i : AlwaysMarked(i)' = AlwaysMarked(i)
  BY <1>1, ProgramSame
<1>3. Char(input_pointer)' = Char(input_pointer) /\ Whole' = Whole
  BY <1>1, <1>2 DEF Char, Whole
<1>4. ASSUME pc' \in {"release", "idle"}, pc # "idle", Whole => \A i \in DOMAIN sp : MarkLeft(i)
      PROVE  Marks'
  <2>1. Begins' /\ Confined'
    BY <1>1, <1>4 DEF Marks, Begins, Confined
  <2>2. ~Running'
    BY <1>4 DEF Running
  <2>3. ASSUME Whole, NEW i \in DOMAIN sp PROVE MarkLeft(i)'
    <3>1. MarkLeft(i)
      BY <1>4, <2>3
    <3> QED BY <3>1, <1>1, <1>2 DEF MarkLeft, Unset
  <2> QED BY <2>1, <2>2, <2>3, <1>1, <1>3 DEF Marks
<1>5. CASE SwitchMatch
  <2>1. CASE NextThread /\ pc' = "loop" /\ next_threads' = next_threads
    BY <2>1, <1>1, <1>5, MarksNext DEF SwitchMatch
  <2>2. CASE pc' = "release" /\ IF Individual THEN ~mode.global ELSE ~(mode.invert \/ mode.global)
    <3>1. ~Whole
      BY <2>2 DEF Whole, Individual
    <3> QED BY <2>2, <3>1, <1>4, <1>5 DEF SwitchMatch
  <2> QED BY <1>5, <2>1, <2>2 DEF SwitchMatch
<1>6. CASE SwitchNoMatch \/ SwitchContinue
  BY <1>6, <1>1, MarksNext DEF SwitchNoMatch, SwitchContinue
<1>7. CASE FirstThread
  <2>1. pc = "prologue" /\ todo = <<>> /\ NextThread /\ next_threads' = next_threads
    BY <1>7 DEF FirstThread, NextThread
  <2>2. CASE pc' = "loop"
    BY <2>1, <2>2, <1>1, MarksNext
  <2>3. CASE pc' = "release"
    <3>1. active_threads = <<>> /\ next_threads = <<>>
      BY <1>7, <2>1, <2>3 DEF FirstThread, IInv, Ownership
    <3>2. ASSUME Whole, NEW i \in DOMAIN sp PROVE MarkLeft(i)
      BY <2>1, <3>1, <3>2, NoneMarked DEF Running, MarkLeft
    <3> QED BY <2>1, <2>3, <3>2, <1>4
  <2> QED BY <1>7, <2>2, <2>3 DEF FirstThread
<1>8. CASE Fetch
  BY <1>8, <1>1, MarksNext DEF Fetch
<1>9. CASE EndOfLine \/ Release
  BY <1>9, <1>4 DEF EndOfLine, Release, Marks, Ended
<1>10. CASE Advance
  <2>1. /\ pc = "loop" /\ pc' = "loop" /\ thread = NULL /\ Char(input_pointer) # NUL /\ next_threads # <<>>
        /\ thread' = Head(next_threads) /\ active_threads' = Tail(next_threads)
    BY <1>10 DEF Advance
  <2>2. active_threads = <<>> /\ next_threads \in Seq(1..nthreads)
    BY <2>1 DEF IInv, TypeOK, Ownership
  <2>3. Begins' /\ Confined'
    BY <2>1, <1>1, <1>2, <1>3 DEF Marks, Begins, Confined
  <2>4. Held = Elems(next_threads)
    BY <2>1, <2>2, ElemsEmpty DEF Held, Listed
  <2>5. Elems(next_threads) = {thread'} \cup Elems(active_threads') /\ NULL \notin Elems(next_threads)
    <3>1. todo = <<>> /\ pc # "oom"
      BY <2>1 DEF IInv, Ownership
    <3> QED BY <2>1, <2>2, <3>1, ElemsTail, OwnershipIdle
  <2>6. Held \subseteq Held'
    BY <2>1, <2>4, <2>5 DEF Held, Listed
  <2>7. ASSUME Whole, NEW i \in DOMAIN sp PROVE MarkRuns(i)'
    <3>1. MarkRuns(i)
      BY <2>1, <2>7 DEF Marks, Running
    <3>2. Standing(i) => Standing(i)'
      BY <2>6, <1>1 DEF Standing, Node
    <3> QED BY <3>1, <3>2, <2>1, <1>1 DEF MarkRuns, Unset
  <2>8. ~Ended'
    BY <2>1, <1>3 DEF Ended
  <2> QED BY <2>3, <2>7, <2>8, <1>1, <1>3 DEF Marks
<1> QED BY <1>5, <1>6, <1>7, <1>8, <1>9, <1>10

\* Every attempt begins without marks.
LEMMA MarksRestart ==
  ASSUME IInv, IInv', Marks, Restart
  PROVE  Marks'
<1>1. /\ pc = "loop" /\ thread = NULL /\ Char(input_pointer) # NUL /\ next_threads = <<>>
      /\ pc' = "fetch" /\ todo' = StartFrames
      /\ UNCHANGED <<prog, mode, mem, eol, sp>>
  <2>1. pc' # "fatal"
    BY DEF IInv, Ownership
  <2> QED BY <2>1 DEF Restart, input
<1>2. PICK start \in NextStarts : input_pointer' = start.beg /\ lookahead' = start.beg
  BY DEF Restart
<1>3. active_threads = <<>> /\ todo = <<>> /\ TypeOK /\ prog \in Programs /\ nthreads \in Nat
  BY <1>1, BoundAssumption DEF IInv, Ownership, TypeOK
<1>4. /\ Prefiltered' = Prefiltered /\ StartsAlike' = StartsAlike
      /\ \A n : Node(n)' = Node(n)
      /\ \A S : StartsWithin(S)' = StartsWithin(S)
  BY <1>1, ProgramSame
<1>5. \A a \in 1..eol : mem[a] # NUL
  BY <1>1 DEF Marks, Begins
<1>6. ASSUME Prefiltered PROVE input_pointer' = QuitPos \/ Char(input_pointer)' # NUL
  <2>1. CASE KeywordsLeft = {}
    BY <2>1, <1>2, <1>6 DEF NextStarts
  <2>2. CASE KeywordsLeft # {}
    <3>1. start \in Taken(KeywordsLeft)
      BY <2>2, <1>6 DEF NextStarts
    <3>2. PICK m \in KeywordsLeft : start.beg = m.beg
      BY <3>1, TakenFacts
    <3>3. m.beg \in 1..eol
      BY <3>2, <1>1 DEF KeywordsLeft, IInv, Positions
    <3> QED BY <3>2, <3>3, <1>1, <1>2, <1>5 DEF Char, QuitPos
  <2> QED BY <2>1, <2>2
<1>7. ASSUME ~Prefiltered PROVE input_pointer' >= 2
  <2>1. start.beg = PlainStart /\ input_pointer # QuitPos
    BY <1>1, <1>2, <1>7 DEF NextStarts, Char
  <2>2. Searching
    BY <1>1, <2>1 DEF Searching
  <2>3. input_pointer \in Nat \ {0} /\ InText(match) /\ eol \in Nat
    BY <2>2, <1>1, <1>3, SearchFacts DEF IInv, Positions, TypeOK
  <2>4. start.beg # QuitPos
    BY <2>1, <2>3 DEF PlainStart, InText, QuitPos
  <2>5. start.beg \in Int /\ input_pointer <= start.beg
    BY <2>4, <1>1, NextStartsAhead
  <2>6. input_pointer # start.beg
    <3>1. kw_matches = {}
      BY <1>7 DEF IInv, Attempts
    <3> QED BY <3>1, <2>3, <2>4, <1>1, NextStartsAhead
  <2> QED BY <2>3, <2>5, <2>6, <1>2
<1>8. Begins'
  BY <1>1, <1>2, <1>4, <1>5, <1>6, <1>7 DEF Begins
<1>9. Confined'
  <2>1. /\ Len(StartFrames) = Len(prog.start)
        /\ \A j \in 1..Len(prog.start) : StartFrames[j].nfa = prog.start[j] /\ StartFrames[j].op = "start"
    <3>1. Len(prog.start) \in Nat
      BY <1>3, ProgramAssumption DEF WellFormed
    <3> QED BY <3>1 DEF StartFrames, Frame
  <2>2. \A j \in 1..Len(prog.start) : prog.start[j] \in Elems(prog.start)
    BY DEF Elems
  <2> QED BY <2>1, <2>2, <1>1, <1>4 DEF Confined, StartsWithin
<1>10. ASSUME Whole, NEW i \in DOMAIN sp PROVE Unset(i)' /\ MarkRuns(i)' /\ MarkLeft(i)'
  <2>1. Unset(i)
    BY <1>1, <1>3, <1>10, NoneMarked DEF Running
  <2> QED BY <2>1, <1>1 DEF Unset, MarkRuns, MarkLeft
<1> QED BY <1>1, <1>4, <1>8, <1>9, <1>10 DEF Marks, Whole

\* A line begins with the marks the one before it left, which the first attempt
\* overwrites.
LEMMA MarksReadLine ==
  ASSUME IInv, Marks, NEW l \in Lines, ReadLine(l)
  PROVE  Marks'
<1>1. TypeOK /\ pc = "idle" /\ thread = NULL /\ UNCHANGED <<prog, mode, sp, th, thread>>
  BY DEF IInv, Ownership, ReadLine
<1>2. l \in Seq(Chars) /\ Len(l) \in Nat /\ Len(l) + 2 <= BufCap /\ BufCap \in Nat /\ prog \in Programs
  BY <1>1, LineAssumption, BoundAssumption DEF TypeOK
<1>3. /\ Prefiltered' = Prefiltered /\ StartsAlike' = StartsAlike
      /\ \A n : Node(n)' = Node(n)
      /\ \A Q, i : Leads(Q, i)' = Leads(Q, i)
      /\ \A S : StartsWithin(S)' = StartsWithin(S)
  BY <1>1, ProgramSame
<1>4. \A a \in 1..eol' : mem'[a] # NUL
  <2> SUFFICES ASSUME NEW a \in 1..eol' PROVE mem'[a] # NUL
    OBVIOUS
  <2>1. eol' = Len(l) + 1 /\ a \in 1..BufCap
    BY <1>1, <1>2, LineFacts
  <2>2. mem' = [b \in 1..BufCap |-> IF b <= Len(l) THEN l[b]
                                   ELSE IF b = Len(l) + 1 THEN EOL
                                   ELSE IF b = Len(l) + 2 THEN NUL ELSE mem[b]]
    BY DEF ReadLine
  <2>3. mem'[a] = IF a <= Len(l) THEN l[a] ELSE EOL
    BY <2>1, <2>2, <1>2
  <2>4. a <= Len(l) => l[a] \in Chars
    BY <2>1, <1>2
  <2> QED BY <2>3, <2>4, CharAssumption
<1>5. ASSUME Whole, NEW i \in DOMAIN sp PROVE MarkLeft(i)
  BY <1>1, <1>5 DEF Marks, Ended
<1>6. Whole' = Whole
  BY <1>1, <1>3 DEF Whole
<1>7. CASE Prefiltered /\ KeywordMatches(l) = {}
  <2>1. pc' = "release" /\ todo' = <<>>
    BY <1>7 DEF ReadLine
  <2>2. Begins' /\ Confined' /\ ~Running'
    BY <2>1, <1>4 DEF Begins, Confined, Running
  <2>3. ASSUME Whole, NEW i \in DOMAIN sp PROVE MarkLeft(i)'
    BY <1>1, <1>5, <1>7, <2>3 DEF MarkLeft, Unset
  <2> QED BY <2>2, <2>3, <1>1, <1>6 DEF Marks
<1>8. CASE ~(Prefiltered /\ KeywordMatches(l) = {})
  <2>1. pc' = "prologue" /\ todo' = StartFrames
    BY <1>8 DEF ReadLine
  <2>2. PICK first \in FirstStarts(l) : input_pointer' = first.beg /\ lookahead' = first.beg
    BY DEF ReadLine
  <2>3. /\ Len(StartFrames) = Len(prog.start) /\ Len(prog.start) \in Nat
        /\ \A j \in 1..Len(prog.start) : StartFrames[j].nfa = prog.start[j] /\ StartFrames[j].op = "start"
    <3>1. Len(prog.start) \in Nat
      BY <1>2, ProgramAssumption DEF WellFormed
    <3> QED BY <3>1 DEF StartFrames, Frame
  <2>4. first.beg \in 1..eol' /\ (~Prefiltered => first.beg = 1)
    <3>1. eol' = Len(l) + 1
      BY <1>1, LineFacts
    <3>2. CASE ~Prefiltered
      BY <3>1, <3>2, <2>2, <1>2 DEF FirstStarts
    <3>3. CASE Prefiltered
      <4>1. first \in Taken(KeywordMatches(l))
        BY <3>3, <1>8, <2>2 DEF FirstStarts
      <4>2. PICK m \in KeywordMatches(l) : first.beg = m.beg
        BY <4>1, TakenFacts
      <4>3. m.beg \in 1..Len(l)
        BY <4>2, <1>1, LineFacts
      <4> QED BY <3>1, <3>3, <4>2, <4>3, <1>2
    <3> QED BY <3>2, <3>3
  <2>5. Begins'
    <3>1. Char(input_pointer)' # NUL
      BY <2>2, <2>4, <1>4 DEF Char, QuitPos
    <3> QED BY <3>1, <2>1, <2>2, <2>4, <1>3, <1>4 DEF Begins
  <2>6. Confined'
    <3>1. \A j \in 1..Len(prog.start) : prog.start[j] \in Elems(prog.start)
      BY DEF Elems
    <3> QED BY <3>1, <2>1, <2>3, <1>1, <1>3 DEF Confined, StartsWithin
  <2>7. ASSUME Whole, NEW i \in DOMAIN sp PROVE MarkRuns(i)'
    <3>1. MarkLeft(i)
      BY <1>5, <2>7
    <3>2. CASE Unset(i)
      BY <3>2, <1>1 DEF Unset, MarkRuns
    <3>3. CASE ~Prefiltered /\ sp[i] >= 2 /\ AlwaysMarked(i)
      <4>1. PICK Q \in SUBSET (1..Len(prog.nodes)) : Leads(Q, i) /\ Q \cap Elems(prog.start) # {}
        BY <3>3 DEF AlwaysMarked
      <4>2. PICK j \in 1..Len(prog.start) : prog.start[j] \in Q
        BY <4>1 DEF Elems
      <4>3. j \in 1..Len(todo') /\ todo'[j].nfa \in Q /\ todo'[j].op = "start"
        BY <4>2, <2>1, <2>3
      <4>4. Leads(Q, i)' /\ Q \in SUBSET (1..Len(prog'.nodes))
        BY <4>1, <1>1, <1>3
      <4>5. Coming(i)'
        BY <4>3, <4>4 DEF Coming
      <4> QED BY <4>5, <3>3, <2>1, <1>1, <1>3 DEF MarkRuns
    <3> QED BY <3>1, <3>2, <3>3 DEF MarkLeft
  <2>8. ~Ended'
    BY <2>1 DEF Ended
  <2> QED BY <2>5, <2>6, <2>7, <2>8, <1>1, <1>6 DEF Marks
<1> QED BY <1>7, <1>8

\* Every step keeps the marks.
LEMMA MarksStep ==
  ASSUME IInv, IInv', Marks, [Next]_vars
  PROVE  Marks'
<1>1. CASE Calls
  BY <1>1, MarksCalls
<1>2. CASE Steps
  BY <1>2, MarksSteps
<1>3. CASE \/ SwitchMatch \/ SwitchNoMatch \/ SwitchContinue
           \/ FirstThread \/ Advance \/ Fetch \/ EndOfLine \/ Release
  BY <1>3, MarksRest
<1>4. CASE Restart
  BY <1>4, MarksRestart
<1>5. CASE \E l \in Lines : ReadLine(l)
  BY <1>5, MarksReadLine
<1>6. CASE UNCHANGED vars
  <2>1. /\ UNCHANGED <<prog, mode, mem, eol, pc, input_pointer, lookahead>>
        /\ UNCHANGED <<thread, active_threads, next_threads, th, sp, todo>>
    BY <1>6 DEF vars, input, cursor, lists, result
  <2>2. /\ Prefiltered' = Prefiltered /\ StartsAlike' = StartsAlike
        /\ \A n : Node(n)' = Node(n)
        /\ \A Q, i : Leads(Q, i)' = Leads(Q, i)
        /\ \A i : AlwaysMarked(i)' = AlwaysMarked(i)
        /\ \A S : StartsWithin(S)' = StartsWithin(S)
    BY <2>1, ProgramSame
  <2>3. Char(input_pointer)' = Char(input_pointer) /\ Whole' = Whole
    BY <2>1, <2>2 DEF Char, Whole
  <2>4. Begins' /\ Confined'
    BY <2>1, <2>2, <2>3 DEF Marks, Begins, Confined
  <2>5. \A i : (Unset(i)' <=> Unset(i)) /\ (Standing(i)' <=> Standing(i)) /\ (Coming(i)' <=> Coming(i))
    <3>1. \A i : Unset(i)' <=> Unset(i)
      BY <2>1 DEF Unset
    <3>2. Held' = Held
      BY <2>1 DEF Held, Listed, Elems
    <3>3. \A i : Standing(i)' <=> Standing(i)
      BY <3>2, <2>1 DEF Standing, Node
    <3>4. \A i : Coming(i)' <=> Coming(i)
      BY <2>1, <2>2 DEF Coming
    <3> QED BY <3>1, <3>3, <3>4
  <2>6. \A i : (MarkRuns(i)' <=> MarkRuns(i)) /\ (MarkLeft(i)' <=> MarkLeft(i))
    BY <2>1, <2>2, <2>5 DEF MarkRuns, MarkLeft
  <2>7. Running' = Running /\ Ended' = Ended
    BY <2>1, <2>3 DEF Running, Ended
  <2> QED BY <2>1, <2>3, <2>4, <2>6, <2>7 DEF Marks
<1> QED BY <1>1, <1>2, <1>3, <1>4, <1>5, <1>6 DEF Next, Engine, Exit

-----------------------------------------------------------------------------
(* Theorems.                                                                *)

\* Initially the invariant holds: one thread, in the pool, and no line.
LEMMA InitInvariant == Init => IInv
<1> SUFFICES ASSUME Init PROVE IInv
  OBVIOUS
<1>1. /\ prog \in Programs /\ WellFormed(prog) /\ mode \in Modes /\ BufCap \in Nat \ {0, 1}
      /\ MaxThreads \in Nat \ {0} /\ MaxLines \in Nat
  BY ProgramAssumption, BoundAssumption DEF Init
<1>2. FreshThread(prog) \in ThreadRec
  <2>1. prog.nloops \in Nat /\ prog.ngroups \in Nat /\ NULL \in Addr /\ NoMatch \in [start : Addr, end : Addr]
    BY <1>1 DEF WellFormed, Addr, NoMatch
  <2>2. NoMatch \in [start : Addr, end : Addr \cup {QuitPos - 1}]
    BY <2>1 DEF NoMatch
  <2> QED BY <2>1, <2>2 DEF FreshThread, ThreadRec
<1>3. th \in [1..MaxThreads -> ThreadRec]
  BY <1>2 DEF Init
<1>4. sp \in [0..(prog.nids - 1) -> Addr]
  BY DEF Init, Addr
<1>5. /\ iter \in [1..Len(prog.nodes) -> Int]
      /\ \A n \in 1..Len(prog.nodes) : iter[n] \in -1..Len(Node(n).reach)
  <2>1. \A n \in 1..Len(prog.nodes) : Len(Node(n).reach) \in Nat
    BY <1>1, NodeFacts
  <2>2. iter = [n \in 1..Len(prog.nodes) |-> IF Node(n).type = "INTERVAL" THEN -1 ELSE 0]
    BY DEF Init
  <2> QED BY <2>1, <2>2
<1>6. /\ thread_pool = <<1>> /\ active_threads = <<>> /\ next_threads = <<>> /\ nthreads = 1 /\ thread = NULL
      /\ todo = <<>> /\ dst = "active" /\ out = <<>> /\ match = NoMatch /\ pc = "idle"
      /\ kw_matches = {} /\ eol = 1 /\ cur_pos = 1 /\ input_pointer = 1 /\ lookahead = 1
      /\ last_interval_pos = NULL /\ nlines = 0 /\ match_found = FALSE /\ current_run = FALSE
      /\ mem = [a \in 1..BufCap |-> NUL]
  BY DEF Init
<1>7. TypeOK
  <2>1. /\ mem \in [1..BufCap -> Chars \cup {EOL, NUL}] /\ eol \in 1..(BufCap - 1) /\ nlines \in 0..MaxLines
        /\ cur_pos \in Addr /\ input_pointer \in Addr /\ lookahead \in Addr /\ last_interval_pos \in Addr
        /\ nthreads \in 1..MaxThreads /\ thread \in 0..nthreads /\ kw_matches \subseteq KeywordRec
    BY <1>1, <1>6 DEF Addr, NULL
  <2>2. thread_pool \in Seq(1..nthreads) /\ active_threads \in Seq(1..nthreads) /\ next_threads \in Seq(1..nthreads)
    BY <1>6
  <2>3. todo \in Seq(FrameRec) /\ out \in Seq([start : Addr, end : Addr])
    BY <1>6
  <2>4. match \in [start : Addr, end : Addr] /\ match_found \in BOOLEAN /\ current_run \in BOOLEAN
        /\ dst \in {"active", "next"}
        /\ pc \in {"idle", "prologue", "loop", "switch", "fetch", "release", "fatal", "oom"}
    BY <1>6 DEF NoMatch, Addr
  <2> QED BY <2>1, <2>2, <2>3, <2>4, <1>1, <1>3, <1>4, <1>5, Zenon DEF TypeOK
<1>8. Elems(thread_pool) = {1} /\ NoDup(thread_pool) /\ NULL # 1
  <2>1. thread_pool \in Seq({1}) /\ Len(thread_pool) = 1 /\ thread_pool[1] = 1
    BY <1>6
  <2> QED BY <2>1 DEF Elems, NoDup, NULL
<1>9. Ownership
  <2>1. LoadsDistinct(todo) /\ LoadLast(todo) /\ LoadSims(todo) = {}
    BY <1>6, NoLoads
  <2>2. Elems(active_threads) = {} /\ Elems(next_threads) = {} /\ NoDup(active_threads) /\ NoDup(next_threads)
    BY <1>6, ElemsEmpty
  <2>3. OneHome
    BY <2>1, <2>2, <1>8 DEF OneHome, Loading
  <2>4. \A t \in 1..nthreads : t \in Elems(thread_pool)
    BY <1>6, <1>8
  <2> QED BY <2>1, <2>2, <2>3, <2>4, <1>6, <1>8 DEF Ownership
<1>10. Live = {}
  BY <1>6, <1>8 DEF Live
<1>11. Positions
  <2>1. mem[BufCap] = NUL /\ Len(out) = 0
    BY <1>1, <1>6
  <2> QED BY <2>1, <1>6, <1>10 DEF Positions
<1>12. Attempts
  <2>1. ReportsOrdered
    BY <1>6 DEF ReportsOrdered
  <2>2. ~Searching
    BY <1>6 DEF Searching
  <2> QED BY <2>1, <2>2, <1>6 DEF Attempts
<1> QED BY <1>7, <1>9, <1>11, <1>12 DEF IInv

\* The invariant of the recognizer: types, homes of threads, positions and
\* attempts, for every program, mode, input and bound.
THEOREM Invariant == Spec => []IInv
<1>1. Init => IInv
  BY InitInvariant
<1>2. IInv /\ [Next]_vars => IInv'
  BY TypeStep, OwnershipStep, PositionsStep, AttemptsStep DEF IInv
<1> QED BY <1>1, <1>2, PTL DEF Spec

\* Every variable of run_nfa keeps its type: no list ever holds a thread that was
\* not allocated and no address leaves the line buffer.
THEOREM TypeCorrect == Spec => []TypeOK
<1>1. IInv => TypeOK
  BY DEF IInv
<1> QED BY <1>1, Invariant, PTL

\* No thread is ever on two of the intrusive lists, nor twice on one.
THEOREM ThreadsHaveOneHome == Spec => []OneHome
<1>1. IInv => OneHome
  BY DEF IInv, Ownership
<1> QED BY <1>1, Invariant, PTL

\* Between two lines every thread is back in the pool, and the error of
\* reset_thread cannot happen.
THEOREM PoolIsRestored == Spec => []PoolRestored
<1>1. IInv => PoolRestored
  <2> SUFFICES ASSUME IInv PROVE PoolRestored
    OBVIOUS
  <2>1. pc # "fatal"
    BY DEF IInv, Ownership
  <2>2. ASSUME pc = "idle"
        PROVE  Elems(thread_pool) = 1..nthreads /\ active_threads = <<>> /\ next_threads = <<>>
    <3>1. todo = <<>> /\ thread = NULL /\ active_threads = <<>> /\ next_threads = <<>>
      BY <2>2 DEF IInv, Ownership
    <3>2. Live = {}
      BY <3>1, <2>2, NoneLive
    <3>3. Elems(thread_pool) \subseteq 1..nthreads
      BY Allocated DEF IInv
    <3> QED BY <3>1, <3>2, <3>3 DEF Live
  <2> QED BY <2>1, <2>2 DEF PoolRestored
<1> QED BY <1>1, Invariant, PTL

\* The engine never leaves the line it searches.
THEOREM SearchStaysInLine == Spec => []MatchesInLine
<1>1. IInv => MatchesInLine
  <2> SUFFICES ASSUME IInv, pc \notin {"idle", "oom"}
               PROVE  /\ InLine(cur_pos) /\ InLine(input_pointer) /\ InLine(lookahead)
                      /\ InLine(match.end)
                      /\ \A t \in Elems(active_threads) \cup Elems(next_threads) : InLine(th[t].match.end)
                      /\ \A i \in 1..Len(out) : 1 <= out[i].start /\ out[i].end <= eol
    BY DEF MatchesInLine
  <2>1. Positions /\ eol \in Nat
    BY DEF IInv, TypeOK
  <2>2. Place \subseteq {QuitPos, NULL} \cup 1..(eol + 1) /\ 0..eol \subseteq {QuitPos, NULL} \cup 1..(eol + 1)
    BY <2>1 DEF Place, NULL
  <2>3. /\ InLine(cur_pos) /\ InLine(input_pointer) /\ InLine(lookahead) /\ InLine(match.end)
        /\ \A i \in 1..Len(out) : 1 <= out[i].start /\ out[i].end <= eol
    BY <2>1, <2>2 DEF Positions, InLine, InText
  <2>4. ASSUME NEW t \in Elems(active_threads) \cup Elems(next_threads) PROVE InLine(th[t].match.end)
    <3>1. t \in 1..nthreads
      BY Allocated DEF IInv, Listed
    <3>2. t \notin Elems(thread_pool)
      BY DEF IInv, Ownership, OneHome
    <3>3. InText(th[t].match)
      BY <3>1, <3>2, <2>1 DEF Positions, Live
    <3> QED BY <3>3, <2>2 DEF InText, InLine
  <2> QED BY <2>3, <2>4
<1> QED BY <1>1, Invariant, PTL

\* The matches reported for a line are ordered and do not overlap.
THEOREM ReportsAreOrdered == Spec => []ReportsOrdered
<1>1. IInv => ReportsOrdered
  BY DEF IInv, Attempts
<1> QED BY <1>1, Invariant, PTL

\* Each attempt on a line begins to the right of the one before, or at the same
\* place with a keyword that has not been tried.
THEOREM AttemptsAdvance == Spec => InputPointerAdvances
<1> DEFINE Advances ==
      \/ input_pointer' = QuitPos
      \/ input_pointer' > input_pointer
      \/ input_pointer' = input_pointer /\ \E m \in kw_matches : m.beg = input_pointer /\ m \notin kw_matches'
<1>1. ASSUME IInv, [Next]_vars, pc = "loop", pc' = "fetch"
      PROVE  Advances
  <2>1. Restart
    <3>1. todo = <<>>
      BY <1>1 DEF IInv, Ownership
    <3>2. ~Calls
      BY <3>1 DEF Calls, StartState, CloneRefused, Clone, LoadCapture, LoadInterval, ResetCount,
             ForEach, LoadAccepting, LoadQueue, LoadDrop, OutOfMemory, Pending
    <3>3. pc' # pc
      BY <1>1
    <3>4. ~Steps
      BY <1>1 DEF Steps, StepConsume, StepAnchor, StepBackreference, StepAccept, StepFail, Stepping
    <3>5. ~UNCHANGED vars
      BY <3>3 DEF vars
    <3>6. ~(SwitchMatch \/ SwitchNoMatch \/ SwitchContinue \/ FirstThread \/ Advance \/ Fetch \/ EndOfLine \/ Release)
      BY <1>1 DEF SwitchMatch, SwitchNoMatch, SwitchContinue, FirstThread, Advance, Fetch, EndOfLine, Release
    <3>7. ~(\E l \in Lines : ReadLine(l))
      BY <1>1 DEF ReadLine
    <3> QED BY <1>1, <3>2, <3>4, <3>5, <3>6, <3>7 DEF Next, Engine, Exit
  <2>2. Char(input_pointer) # NUL
    BY <2>1 DEF Restart
  <2>3. PICK start \in NextStarts : input_pointer' = start.beg /\ kw_matches' = start.left
    BY <2>1 DEF Restart
  <2>4. start.beg # QuitPos =>
          /\ start.beg \in Int /\ input_pointer <= start.beg
          /\ \/ input_pointer < start.beg
             \/ \E m \in kw_matches : m.beg = start.beg /\ m \notin start.left
    BY <2>2, <1>1, NextStartsAhead
  <2>5. input_pointer \in Int
    BY <1>1, BoundAssumption DEF IInv, TypeOK, Addr, QuitPos, NULL
  <2> QED BY <2>3, <2>4, <2>5
<1>2. IInv /\ [Next]_vars =>
        [pc = "loop" /\ pc' = "fetch" => Advances]_vars
  BY <1>1
<1>3. Spec => [][Next]_vars
  BY PTL DEF Spec
<1> QED BY <1>2, <1>3, Invariant, PTL DEF InputPointerAdvances

\* Where the search goes to the end of the line, a mark that could make load_next
\* drop a thread has a queued thread behind it, on every line of every sequence.
THEOREM MarksAreLive == Spec => []MarksStayLive
<1>1. Init => Marks
  <2> SUFFICES ASSUME Init PROVE Marks
    OBVIOUS
  <2>1. pc = "idle" /\ \A i \in DOMAIN sp : sp[i] = NULL
    BY DEF Init
  <2>2. Begins /\ Confined /\ ~Running
    BY <2>1 DEF Begins, Confined, Running
  <2> QED BY <2>1, <2>2 DEF Marks, MarkLeft, Unset
<1>2. IInv /\ IInv' /\ Marks /\ [Next]_vars => Marks'
  BY MarksStep
<1>3. IInv /\ Marks => MarksStayLive
  <2> SUFFICES ASSUME IInv, Marks, Whole, pc = "loop", Char(input_pointer) # NUL,
                      NEW i \in DOMAIN sp, sp[i] \in {cur_pos, cur_pos + 1}
               PROVE  \E t \in Elems(active_threads) \cup Elems(next_threads) \cup ({thread} \ {NULL}) :
                        Node(th[t].ip).id = i
    BY DEF MarksStayLive, MarksLive, Whole
  <2>1. cur_pos \in Nat \ {0}
    <3>1. Searching
      BY DEF Searching, Char
    <3> QED BY <3>1, SearchFacts
  <2>2. ~Unset(i)
    BY <2>1 DEF Unset, NULL, QuitPos
  <2>3. Standing(i)
    BY <2>2 DEF Marks, Running, MarkRuns
  <2> QED BY <2>3 DEF Standing, Held, Listed
<1>4. Spec => [](IInv /\ Marks)
  BY <1>1, <1>2, Invariant, PTL DEF Spec
<1> QED BY <1>3, <1>4, PTL
=============================================================================
