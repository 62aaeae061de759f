----------------------------- MODULE MpatProofs -----------------------------
(***************************************************************************)
(* That the keyword search of module Mpat finds every occurrence of every  *)
(* keyword, for every list of keywords in which no three share the hash of *)
(* their first two bytes and that of the last two of the window, and every *)
(* set of lines.  (With three such keywords a comparison may end early and *)
(* lose one: run missed_keyword.)                                          *)
(***************************************************************************)
EXTENDS Mpat, SequenceTheorems, Induction

\* What the search needs of the keywords to look at every candidate.
Alike(ks, i, j) ==
  /\ SuffixHash(ks[i], MinLength(ks)) = SuffixHash(ks[j], MinLength(ks))
  /\ PrefixHash(ks[i], 1) = PrefixHash(ks[j], 1)
AtMostTwoAlike ==
  \A ks \in KeywordLists : MinLength(ks) >= 3 =>
    \A i, j, k \in 1..Len(ks) : i < j /\ j < k => ~(Alike(ks, i, j) /\ Alike(ks, i, k))

-----------------------------------------------------------------------------
(* The tables.                                                              *)

\* preprocess_patterns finds the length of the shortest keyword.
LEMMA MinLengthIs ==
  ASSUME NEW ks \in KeywordLists
  PROVE  /\ Len(ks) \in Nat \ {0}
         /\ \A i \in 1..Len(ks) : ks[i] \in Seq(0..127) /\ Len(ks[i]) \in Nat /\ MinLength(ks) <= Len(ks[i])
         /\ MinLength(ks) \in Nat
<1>1. ks \in Seq(Seq(0..127)) /\ ks # <<>>
  BY KeywordAssumption
<1>2. Len(ks) \in Nat \ {0}
  BY <1>1, EmptySeq
<1>3. \A i \in 1..Len(ks) : ks[i] \in Seq(0..127) /\ Len(ks[i]) \in Nat
  <2> SUFFICES ASSUME NEW i \in 1..Len(ks) PROVE ks[i] \in Seq(0..127)
    OBVIOUS
  <2> QED  BY <1>1, ElementOfSeq
<1> DEFINE S == {Len(ks[i]) : i \in 1..Len(ks)}
<1>4. S \in SUBSET Nat /\ S # {}
  <2>1. 1 \in 1..Len(ks)
    BY <1>2
  <2> QED  BY <1>3, <2>1
<1>5. PICK n \in S : \A k \in S : n <= k
  BY <1>4, LeastNumber
<1>6. MinLength(ks) \in S /\ \A i \in 1..Len(ks) : MinLength(ks) <= Len(ks[i])
  <2>1. \A i \in 1..Len(ks) : n <= Len(ks[i])
    BY <1>5
  <2> HIDE DEF S
  <2> QED  BY <2>1, Zenon DEF MinLength, S
<1> QED  BY <1>2, <1>3, <1>4, <1>6

\* A shift is the least distance of a pair of bytes with this hash from the end
\* of the first m bytes of a keyword.
LEMMA ShiftTableIs ==
  ASSUME NEW ks \in KeywordLists, NEW n, n = MinLength(ks), n >= 2
  PROVE  /\ \A k \in 1..Len(ks), i \in 2..n :
              /\ SuffixHash(ks[k], i) \in DOMAIN ShiftTable(ks)
              /\ ShiftTable(ks)[SuffixHash(ks[k], i)] <= n - i
         /\ \A h \in DOMAIN ShiftTable(ks) : \E k \in 1..Len(ks), i \in 2..n :
              SuffixHash(ks[k], i) = h /\ ShiftTable(ks)[h] = n - i
<1> DEFINE ends(h) == {e \in 2..n : \E k \in 1..Len(ks) : SuffixHash(ks[k], e) = h}
           shifts(h) == {n - i : i \in ends(h)}
           Shift(h) == CHOOSE d \in shifts(h) : \A e \in shifts(h) : d <= e
           D == {SuffixHash(ks[k], i) : k \in 1..Len(ks), i \in 2..n}
           T == [h \in D |-> Shift(h)]
<1>1. ShiftTable(ks) = T
  BY DEF ShiftTable
<1>2. \A h, d : d \in shifts(h) <=> \E k \in 1..Len(ks), i \in 2..n : SuffixHash(ks[k], i) = h /\ d = n - i
  OBVIOUS
<1>3. \A h : h \in D <=> \E k \in 1..Len(ks), i \in 2..n : SuffixHash(ks[k], i) = h
  OBVIOUS
<1>4. n \in Nat
  BY MinLengthIs
<1>5. ASSUME NEW h \in D PROVE Shift(h) \in shifts(h) /\ \A e \in shifts(h) : Shift(h) <= e
  <2> HIDE DEF D
  <2>1. shifts(h) # {}
    <3>1. PICK k \in 1..Len(ks), i \in 2..n : SuffixHash(ks[k], i) = h
      BY <1>3
    <3>2. n - i \in shifts(h)
      BY <1>2, <3>1
    <3> QED  BY <3>2
  <2>2. shifts(h) \in SUBSET Nat
    BY <1>4
  <2> DEFINE S == shifts(h)
  <2> HIDE DEF shifts
  <2>3. \E d \in S : \A e \in S : d <= e
    <3> HIDE DEF Shift
    <3>1. S # {} /\ S \in SUBSET Nat
      BY <2>1, <2>2
    <3> HIDE DEF S
    <3> QED  BY <3>1, LeastNumber
  <2> QED  BY <2>3, Zenon
<1> HIDE DEF ends, shifts, Shift, D
<1>6. DOMAIN T = D /\ \A h \in D : T[h] = Shift(h)
  OBVIOUS
<1> HIDE DEF T
<1>7. ASSUME NEW k \in 1..Len(ks), NEW i \in 2..n
      PROVE  SuffixHash(ks[k], i) \in DOMAIN T /\ T[SuffixHash(ks[k], i)] <= n - i
  <2>1. SuffixHash(ks[k], i) \in D
    BY <1>3
  <2>2. n - i \in shifts(SuffixHash(ks[k], i))
    BY <1>2
  <2> QED  BY <1>5, <1>6, <2>1, <2>2
<1>8. ASSUME NEW h \in DOMAIN T
      PROVE  \E k \in 1..Len(ks), i \in 2..n : SuffixHash(ks[k], i) = h /\ T[h] = n - i
  BY <1>2, <1>5, <1>6
<1> QED  BY <1>1, <1>7, <1>8

\* What insert_hash_record stores for the k-th keyword, and when under h.
Entry(ks, k) == [key |-> PrefixHash(ks[k], 1), pattern |-> ks[k]]
Hit(ks, h, k) == SuffixHash(ks[k], MinLength(ks)) = h
Entries(ks) == {Entry(ks, k) : k \in 1..Len(ks)}

UptoStep(ks, h) ==
  [p \in (0..Len(ks)) \X [0..Len(ks) -> Seq(Entries(ks))] |->
     IF p[1] = 0 THEN <<>>
     ELSE IF Hit(ks, h, p[1]) THEN Append(p[2][p[1] - 1], Entry(ks, p[1])) ELSE p[2][p[1] - 1]]

\* The list under h grows keyword by keyword.
LEMMA HashTableGrows ==
  ASSUME NEW ks \in KeywordLists, NEW h \in DOMAIN HashTable(ks)
  PROVE  \E u \in [0..Len(ks) -> Seq(Entries(ks))] :
           /\ HashTable(ks)[h] = u[Len(ks)]
           /\ \A k \in 0..Len(ks) :
                u[k] = IF k = 0 THEN <<>>
                       ELSE IF Hit(ks, h, k) THEN Append(u[k - 1], Entry(ks, k)) ELSE u[k - 1]
<1> DEFINE D == 0..Len(ks)
           S == Seq(Entries(ks))
           F(g) == [k \in 0..Len(ks) |->
                      IF k = 0 THEN <<>>
                      ELSE IF Hit(ks, h, k) THEN Append(g[k - 1], Entry(ks, k)) ELSE g[k - 1]]
           U == CHOOSE g : g = F(g)
           mu == [k \in D |-> k]
           H == UptoStep(ks, h)
<1>1. HashTable(ks)[h] = U[Len(ks)]
  BY DEF HashTable, Hit, Entry
<1>2. Len(ks) \in Nat
  BY MinLengthIs
<1>3. <<>> \in S /\ \A k \in 1..Len(ks), s \in S : Append(s, Entry(ks, k)) \in S
  <2>1. \A k \in 1..Len(ks) : Entry(ks, k) \in Entries(ks)
    BY DEF Entries
  <2> QED  BY <2>1
<1>4. \A k \in D : k # 0 => k - 1 \in D /\ k \in 1..Len(ks) /\ mu[k - 1] < mu[k]
  BY <1>2
<1>5. H = [p \in D \X [D -> S] |->
             IF p[1] = 0 THEN <<>>
             ELSE IF Hit(ks, h, p[1]) THEN Append(p[2][p[1] - 1], Entry(ks, p[1])) ELSE p[2][p[1] - 1]]
  BY DEF UptoStep
<1>6. mu \in [D -> Nat]
  BY <1>2
<1> HIDE DEF D, S, H, mu, U
<1>7. H \in [D \X [D -> S] -> S]
  BY <1>3, <1>4, <1>5
<1>8. ASSUME NEW k \in D, NEW g \in [D -> S], NEW f \in [D -> S],
             \A e \in D : mu[e] < mu[k] => g[e] = f[e]
      PROVE  H[<<k, g>>] = H[<<k, f>>]
  <2>1. k # 0 => g[k - 1] = f[k - 1]
    BY <1>4, <1>8
  <2> QED  BY <2>1, <1>5
<1>9. Recursive(D, S, mu, H)
  BY <1>3, <1>6, <1>7, <1>8 DEF Recursive
<1>10. PICK u \in [D -> S] : Follows(u, D, H)
  BY <1>9, Recursion
<1>11. \A k \in D : u[k] = IF k = 0 THEN <<>>
                           ELSE IF Hit(ks, h, k) THEN Append(u[k - 1], Entry(ks, k)) ELSE u[k - 1]
  BY <1>5, <1>10 DEF Follows
<1>12. u = F(u)
  BY <1>11 DEF D
<1> HIDE DEF F
<1>13. U = F(U)
  BY <1>12, Zenon DEF U
<1>14. \A k \in D : U[k] = IF k = 0 THEN <<>>
                           ELSE IF Hit(ks, h, k) THEN Append(U[k - 1], Entry(ks, k)) ELSE U[k - 1]
  BY <1>13 DEF D, F
<1> DEFINE P == {k \in Nat : k \in D => U[k] \in S}
<1>15. 0 \in P
  BY <1>3, <1>14
<1>16. ASSUME NEW k \in P PROVE k + 1 \in P
  <2>1. k + 1 \in D => k + 1 # 0 /\ (k + 1) - 1 = k /\ k \in D /\ k + 1 \in 1..Len(ks)
    BY <1>2 DEF D
  <2>2. k + 1 \in Nat
    OBVIOUS
  <2> QED  BY <2>1, <2>2, <1>3, <1>14
<1> HIDE DEF P
<1>17. \A k \in Nat : k \in P
  <2>1. P \in SUBSET Nat
    BY DEF P
  <2> QED  BY <2>1, <1>15, <1>16, SetInduction
<1>18. U \in [D -> S]
  <2>1. \A k \in D : U[k] \in S
    BY <1>2, <1>17 DEF P, D
  <2>2. U = [k \in D |-> U[k]]
    BY <1>13 DEF D, F
  <2> QED  BY <2>1, <2>2
<1> QED  BY <1>1, <1>14, <1>18 DEF D, S

\* s numbers the keywords behind a list of entries: in their order, each once.
Numbers(s, ks, h, k, list) ==
  /\ s \in Seq(1..Len(ks)) /\ list \in Seq(Entries(ks)) /\ Len(list) = Len(s)
  /\ \A q \in 1..Len(s) : s[q] <= k /\ Hit(ks, h, s[q]) /\ list[q] = Entry(ks, s[q])
  /\ \A q, r \in 1..Len(s) : q < r => s[q] < s[r]
  /\ \A i \in 1..k : Hit(ks, h, i) => \E q \in 1..Len(s) : s[q] = i

\* The next keyword with this hash joins the list.
LEMMA NumbersAppend ==
  ASSUME NEW ks \in KeywordLists, NEW h, NEW k \in Nat, k + 1 \in 1..Len(ks), NEW list,
         NEW s, Numbers(s, ks, h, k, list), Hit(ks, h, k + 1)
  PROVE  Numbers(Append(s, k + 1), ks, h, k + 1, Append(list, Entry(ks, k + 1)))
<1> DEFINE t == Append(s, k + 1)
           new == Append(list, Entry(ks, k + 1))
           n == Len(s)
<1>1. s \in Seq(1..Len(ks)) /\ list \in Seq(Entries(ks)) /\ Len(list) = n /\ n \in Nat
  BY DEF Numbers
<1>2. t \in Seq(1..Len(ks)) /\ Len(t) = n + 1 /\ t[n + 1] = k + 1 /\ \A q \in 1..n : t[q] = s[q]
  BY <1>1, AppendProperties
<1>3. Entry(ks, k + 1) \in Entries(ks)
  BY DEF Entries
<1>4. /\ new \in Seq(Entries(ks)) /\ Len(new) = n + 1 /\ new[n + 1] = Entry(ks, k + 1)
      /\ \A q \in 1..n : new[q] = list[q]
  BY <1>1, <1>3, AppendProperties
<1> HIDE DEF t, new
<1>5. \A q \in 1..(n + 1) : q \in 1..n \/ q = n + 1
  BY <1>1
<1>6. \A q \in 1..n : s[q] \in 1..Len(ks) /\ s[q] <= k /\ Hit(ks, h, s[q]) /\ list[q] = Entry(ks, s[q])
  BY <1>1, ElementOfSeq DEF Numbers
<1>7. \A q \in 1..(n + 1) : t[q] <= k + 1 /\ Hit(ks, h, t[q]) /\ new[q] = Entry(ks, t[q])
  <2> SUFFICES ASSUME NEW q \in 1..(n + 1)
               PROVE  t[q] <= k + 1 /\ Hit(ks, h, t[q]) /\ new[q] = Entry(ks, t[q])
    OBVIOUS
  <2>1. CASE q \in 1..n
    <3>1. t[q] = s[q] /\ new[q] = list[q] /\ s[q] <= k + 1
      BY <1>2, <1>4, <1>6, <2>1
    <3> QED  BY <1>6, <2>1, <3>1
  <2>2. CASE q = n + 1
    BY <1>2, <1>4, <2>2
  <2> QED  BY <1>5, <2>1, <2>2
<1>8. ASSUME NEW q \in 1..(n + 1), NEW r \in 1..(n + 1), q < r PROVE t[q] < t[r]
  <2>1. q \in 1..n
    BY <1>1, <1>8
  <2>2. CASE r \in 1..n
    BY <1>2, <1>8, <2>1, <2>2 DEF Numbers
  <2>3. CASE r = n + 1
    BY <1>2, <1>6, <2>1, <2>3
  <2> QED  BY <1>5, <2>2, <2>3
<1>9. ASSUME NEW i \in 1..(k + 1), Hit(ks, h, i) PROVE \E q \in 1..(n + 1) : t[q] = i
  <2>1. CASE i \in 1..k
    <3>1. PICK q \in 1..n : s[q] = i
      BY <1>9, <2>1 DEF Numbers
    <3> QED  BY <1>1, <1>2, <3>1
  <2>2. CASE i = k + 1
    BY <1>1, <1>2, <2>2
  <2> QED  BY <2>1, <2>2
<1> QED  BY <1>2, <1>4, <1>7, <1>8, <1>9 DEF Numbers, t, new

\* The list under a hash: exactly the keywords whose last pair within m has it,
\* in the order of the list of keywords.
LEMMA HashTableIs ==
  ASSUME NEW ks \in KeywordLists, NEW h \in DOMAIN HashTable(ks)
  PROVE  \E s : Numbers(s, ks, h, Len(ks), HashTable(ks)[h])
<1>1. PICK u \in [0..Len(ks) -> Seq(Entries(ks))] :
        /\ HashTable(ks)[h] = u[Len(ks)]
        /\ \A k \in 0..Len(ks) :
             u[k] = IF k = 0 THEN <<>>
                    ELSE IF Hit(ks, h, k) THEN Append(u[k - 1], Entry(ks, k)) ELSE u[k - 1]
  BY HashTableGrows
<1> DEFINE P == {k \in Nat : k <= Len(ks) => \E s : Numbers(s, ks, h, k, u[k])}
<1>2. Len(ks) \in Nat
  BY MinLengthIs
<1>3. 0 \in P
  <2>1. u[0] = <<>>
    BY <1>1, <1>2
  <2>2. Numbers(<<>>, ks, h, 0, <<>>)
    <3>1. <<>> \in Seq(1..Len(ks)) /\ <<>> \in Seq(Entries(ks)) /\ Len(<<>>) = 0
      OBVIOUS
    <3> QED  BY <3>1 DEF Numbers
  <2> QED  BY <2>1, <2>2
<1>4. ASSUME NEW k \in P, k + 1 <= Len(ks)
      PROVE  \E s : Numbers(s, ks, h, k + 1, u[k + 1])
  <2>1. k \in Nat /\ k <= Len(ks) /\ k + 1 \in 1..Len(ks) /\ k + 1 \in 0..Len(ks) /\ (k + 1) - 1 = k /\ k + 1 # 0
    BY <1>2, <1>4
  <2>2. PICK s : Numbers(s, ks, h, k, u[k])
    BY <2>1
  <2>3. u[k + 1] = IF Hit(ks, h, k + 1) THEN Append(u[k], Entry(ks, k + 1)) ELSE u[k]
    BY <1>1, <2>1
  <2>4. CASE Hit(ks, h, k + 1)
    BY <2>1, <2>2, <2>3, <2>4, NumbersAppend
  <2>5. CASE ~Hit(ks, h, k + 1)
    <3>1. s \in Seq(1..Len(ks)) /\ \A q \in 1..Len(s) : s[q] \in 1..Len(ks)
      BY <2>2, ElementOfSeq DEF Numbers
    <3>2. \A q \in 1..Len(s) : s[q] <= k + 1
      BY <2>1, <2>2, <3>1 DEF Numbers
    <3>3. \A i \in 1..(k + 1) : Hit(ks, h, i) => i \in 1..k
      BY <2>1, <2>5
    <3>4. Numbers(s, ks, h, k + 1, u[k])
      BY <2>2, <3>2, <3>3 DEF Numbers
    <3> QED  BY <2>3, <2>5, <3>4
  <2> QED  BY <2>4, <2>5
<1>5. \A k \in P : k + 1 \in P
  <2> SUFFICES ASSUME NEW k \in P PROVE k + 1 \in P
    OBVIOUS
  <2>1. k \in Nat /\ k + 1 \in Nat
    OBVIOUS
  <2> QED  BY <2>1, <1>4
<1> HIDE DEF P
<1>6. \A k \in Nat : k \in P
  <2>1. P \in SUBSET Nat
    BY DEF P
  <2> QED  BY <2>1, <1>3, <1>5, SetInduction
<1> QED  BY <1>1, <1>2, <1>6 DEF P

\* The candidates of a window with hash h: every keyword that can occur there is
\* one, and no three have the same prefix.
LEMMA CandidatesAre ==
  ASSUME NEW ks \in KeywordLists, NEW h \in DOMAIN HashTable(ks),
         NEW w, w = HashTable(ks)[h]
  PROVE  /\ w \in Seq(Entries(ks))
         /\ \A q \in 1..Len(w) : \E k \in 1..Len(ks) : w[q] = Entry(ks, k)
         /\ \A k \in 1..Len(ks) : Hit(ks, h, k) => \E q \in 1..Len(w) : w[q] = Entry(ks, k)
         /\ AtMostTwoAlike /\ MinLength(ks) >= 3 =>
              \A q, r, t \in 1..Len(w) : q < r /\ r < t => ~(w[q].key = w[r].key /\ w[q].key = w[t].key)
<1>1. PICK s : Numbers(s, ks, h, Len(ks), w)
  BY HashTableIs
<1>2. /\ w \in Seq(Entries(ks)) /\ Len(w) = Len(s)
      /\ \A q \in 1..Len(s) : s[q] \in 1..Len(ks) /\ Hit(ks, h, s[q]) /\ w[q] = Entry(ks, s[q])
      /\ \A q, r \in 1..Len(s) : q < r => s[q] < s[r]
      /\ \A k \in 1..Len(ks) : Hit(ks, h, k) => \E q \in 1..Len(s) : s[q] = k
  <2>1. \A q \in 1..Len(s) : s[q] \in 1..Len(ks)
    BY <1>1, ElementOfSeq DEF Numbers
  <2> QED  BY <1>1, <2>1 DEF Numbers
<1>3. ASSUME AtMostTwoAlike, MinLength(ks) >= 3,
             NEW q \in 1..Len(w), NEW r \in 1..Len(w), NEW t \in 1..Len(w), q < r, r < t,
             w[q].key = w[r].key, w[q].key = w[t].key
      PROVE  FALSE
  <2>1. s[q] < s[r] /\ s[r] < s[t] /\ s[q] \in 1..Len(ks) /\ s[r] \in 1..Len(ks) /\ s[t] \in 1..Len(ks)
    BY <1>2, <1>3
  <2>2. \A v \in 1..Len(w) : Hit(ks, h, s[v]) /\ w[v].key = PrefixHash(ks[s[v]], 1)
    <3>1. \A v \in 1..Len(w) : Hit(ks, h, s[v]) /\ w[v] = Entry(ks, s[v])
      BY <1>2
    <3>2. \A k : Entry(ks, k).key = PrefixHash(ks[k], 1)
      BY DEF Entry
    <3> QED  BY <3>1, <3>2, Zenon
  <2>3. Alike(ks, s[q], s[r]) /\ Alike(ks, s[q], s[t])
    BY <1>3, <2>2 DEF Hit, Alike
  <2> QED  BY <1>3, <2>1, <2>3 DEF AtMostTwoAlike
<1>4. ASSUME NEW k \in 1..Len(ks), Hit(ks, h, k) PROVE \E q \in 1..Len(w) : w[q] = Entry(ks, k)
  BY <1>2, <1>4
<1>5. ASSUME NEW q \in 1..Len(w) PROVE \E k \in 1..Len(ks) : w[q] = Entry(ks, k)
  BY <1>2
<1> QED  BY <1>2, <1>3, <1>4, <1>5

-----------------------------------------------------------------------------
(* The inductive invariant.                                                 *)

Members(s) == Abstract!Members(s)
Occurrences == Abstract!Occurrences(input)
OccursAt(p, a) == Abstract!OccursAt(p, input, a)

\* The tables are those of the keywords; the line read ends with EOL.
Setting ==
  /\ keywords \in KeywordLists
  /\ pc \in {"off", "clear", "search", "compare", "found", "spent"}
  /\ IF pc = "off" THEN shift = <<>>
     ELSE m >= 3 /\ shift = ShiftTable(keywords) /\ hash = HashTable(keywords)
  /\ IF pc \in {"off", "clear"} THEN input = <<>> /\ matches = <<>>
     ELSE \E t \in Texts : input = Append(t, EOL)
  /\ failed \in BOOLEAN

\* What is recorded comes in order, lies in the line and is nearly a keyword.
Recording ==
  /\ matches \in Seq(Nat) /\ Members(matches) \subseteq 1..Len(input)
  /\ Abstract!Ascending(matches)
  /\ cur_mr \in 0..Len(matches) /\ (pc # "found" => cur_mr = 0)
  /\ pc \in {"off", "clear", "search", "compare"} => ret = 0
  /\ NearlyKeywords

\* The candidates of a window.
Candidates == hash[SuffixHash(input, ptr)]
Done == Len(Candidates) - Len(todo)

\* The window lies in the line or just behind it; the candidates are gone through
\* in their order.
Window ==
  /\ pc \in {"search", "compare"} => ptr \in m..(Len(input) + m)
  /\ pc = "compare" =>
       /\ ptr <= Len(input) /\ SuffixHash(input, ptr) \in DOMAIN hash
       /\ Done \in 0..Len(Candidates)
       /\ todo = SubSeq(Candidates, Done + 1, Len(Candidates))

Base == Setting /\ Recording /\ Window

\* No occurrence is left behind the window.
Behind ==
  /\ pc \in {"search", "compare"} => \A a \in Occurrences : a + m - 1 < ptr => a \in Members(matches)
  /\ pc \in {"found", "spent"} => Occurrences \subseteq Members(matches)

\* The candidates that are done with are recorded if they occur; a comparison failed
\* only if one of them has the prefix of the window.
Compared ==
  pc = "compare" =>
    /\ \A q \in 1..Done : OccursAt(Candidates[q].pattern, Begin) => Begin \in Members(matches)
    /\ failed => \E q \in 1..Done : Candidates[q].key = PrefixHash(input, Begin)

IInv == Base /\ Behind /\ Compared

-----------------------------------------------------------------------------
(* Lines, keywords and windows.                                             *)

\* What a search has before it: bytes of the line, then EOL, which no keyword has.
LEMMA Searched ==
  ASSUME Setting, pc \notin {"off", "clear"}
  PROVE  /\ m \in Nat /\ m >= 3 /\ keywords \in KeywordLists
         /\ Len(input) \in Nat \ {0} /\ input[Len(input)] < 0
         /\ \A i \in 1..(Len(input) - 1) : input[i] \in 0..127
         /\ \A k \in 1..Len(keywords) :
              /\ Len(keywords[k]) \in Nat /\ Len(keywords[k]) >= m
              /\ \A i \in 1..Len(keywords[k]) : keywords[k][i] \in 0..127
<1>1. PICK t \in Texts : input = Append(t, EOL)
  BY DEF Setting
<1>2. t \in Seq(0..127) /\ EOL \in {-1, -2}
  BY KeywordAssumption
<1>3. /\ Len(input) = Len(t) + 1 /\ input[Len(t) + 1] = EOL
      /\ \A i \in 1..Len(t) : input[i] = t[i]
  BY <1>1, <1>2, AppendProperties
<1>4. Len(t) \in Nat /\ \A i \in 1..Len(t) : t[i] \in 0..127
  BY <1>2, ElementOfSeq
<1>5. m \in Nat /\ m >= 3 /\ keywords \in KeywordLists
  BY MinLengthIs DEF Setting, m
<1>6. ASSUME NEW k \in 1..Len(keywords)
      PROVE  /\ Len(keywords[k]) \in Nat /\ Len(keywords[k]) >= m
             /\ \A i \in 1..Len(keywords[k]) : keywords[k][i] \in 0..127
  <2>1. keywords[k] \in Seq(0..127) /\ Len(keywords[k]) \in Nat /\ m <= Len(keywords[k])
    BY <1>5, MinLengthIs DEF m
  <2>2. \A i \in 1..Len(keywords[k]) : keywords[k][i] \in 0..127
    BY <2>1, ElementOfSeq
  <2> QED  BY <1>5, <2>1, <2>2
<1>7. Len(input) \in Nat \ {0} /\ Len(input) - 1 = Len(t)
  BY <1>3, <1>4
<1>8. input[Len(input)] < 0
  BY <1>2, <1>3
<1>9. \A i \in 1..(Len(input) - 1) : input[i] \in 0..127
  BY <1>3, <1>4, <1>7
<1> QED  BY <1>5, <1>6, <1>7, <1>8, <1>9

\* An occurrence ends in front of EOL; its bytes have the hashes of the keyword's.
LEMMA OccurrenceHashes ==
  ASSUME Setting, pc \notin {"off", "clear"}, NEW k \in 1..Len(keywords), NEW a \in 1..Len(input),
         OccursAt(keywords[k], a)
  PROVE  /\ a + Len(keywords[k]) - 1 < Len(input)
         /\ \A i \in 2..Len(keywords[k]) : SuffixHash(keywords[k], i) = SuffixHash(input, a + i - 1)
         /\ PrefixHash(keywords[k], 1) = PrefixHash(input, a)
<1> DEFINE p == keywords[k]
           n == Len(p)
<1>1. n \in Nat /\ n >= 3 /\ Len(input) \in Nat /\ a \in Nat
  BY Searched
<1>2. a + n - 1 <= Len(input) /\ \A i \in 1..n : input[a + i - 1] = p[i]
  BY DEF OccursAt, Abstract!OccursAt
<1>3. a + n - 1 < Len(input)
  <2> SUFFICES ASSUME a + n - 1 = Len(input) PROVE FALSE
    BY <1>1, <1>2
  <2>1. n \in 1..n /\ input[a + n - 1] = p[n]
    BY <1>1, <1>2
  <2>2. p[n] \in 0..127
    BY <2>1, Searched
  <2>3. input[Len(input)] < 0
    BY Searched
  <2>4. input[Len(input)] = p[n]
    BY <2>1
  <2>5. \A x \in 0..127 : ~(x < 0)
    OBVIOUS
  <2> QED  BY <2>2, <2>3, <2>4, <2>5, Zenon
<1>4. ASSUME NEW i \in 2..n PROVE SuffixHash(p, i) = SuffixHash(input, a + i - 1)
  <2>1. i \in 1..n /\ i - 1 \in 1..n /\ a + (i - 1) - 1 = (a + i - 1) - 1
    BY <1>1
  <2>2. input[a + i - 1] = p[i] /\ input[(a + i - 1) - 1] = p[i - 1]
    BY <1>2, <2>1
  <2> QED  BY <2>2 DEF SuffixHash
<1>5. PrefixHash(p, 1) = PrefixHash(input, a)
  <2>1. 1 \in 1..n /\ 2 \in 1..n /\ a + 1 - 1 = a /\ a + 2 - 1 = a + 1 /\ 1 + 1 = 2
    BY <1>1
  <2>2. input[a] = p[1] /\ input[a + 1] = p[2]
    BY <1>2, <2>1
  <2> QED  BY <2>1, <2>2 DEF PrefixHash
<1> QED  BY <1>3, <1>4, <1>5

\* The comparison of a candidate runs to its first difference from the text.
LEMMA MismatchIs ==
  ASSUME Setting, pc = "compare", NEW k \in 1..Len(keywords), NEW p, p = keywords[k],
         NEW x, x = Mismatch(p)
  PROVE  /\ x \in 2..(Len(p) + 1)
         /\ \A i \in 2..(x - 1) : p[i] = input[Begin + i - 1]
         /\ x <= Len(p) => p[x] # input[Begin + x - 1]
<1> DEFINE S == {i \in 2..(Len(p) + 1) : i = Len(p) + 1 \/ p[i] # input[Begin + i - 1]}
           Good(i) == /\ \A j \in 2..(i - 1) : p[j] = input[Begin + j - 1]
                      /\ i <= Len(p) => p[i] # input[Begin + i - 1]
<1>1. Len(p) \in Nat /\ Len(p) >= 3
  BY Searched
<1>2. S \in SUBSET Nat /\ S # {}
  <2>1. Len(p) + 1 \in S
    BY <1>1
  <2> QED  BY <1>1, <2>1
<1>3. PICK n \in S : \A i \in S : n <= i
  <2> HIDE DEF S
  <2> QED  BY <1>2, LeastNumber
<1>4. n \in 2..(Len(p) + 1) /\ Good(n)
  BY <1>1, <1>3
<1>5. x = CHOOSE i \in 2..(Len(p) + 1) : Good(i)
  BY DEF Mismatch
<1>6. x \in 2..(Len(p) + 1) /\ Good(x)
  <2> HIDE DEF Good
  <2> QED  BY <1>4, <1>5, Zenon
<1> QED  BY <1>6

\* The shifts are at most m - 2, zero for the last pair of a keyword only.
LEMMA ShiftsAre ==
  ASSUME Setting, pc # "off", NEW h \in DOMAIN shift
  PROVE  shift[h] \in 0..(m - 2) /\ (shift[h] = 0 <=> h \in DOMAIN hash)
<1>1. m \in Nat /\ m >= 3 /\ keywords \in KeywordLists /\ m = MinLength(keywords)
  BY MinLengthIs DEF Setting, m
<1>2. shift = ShiftTable(keywords) /\ hash = HashTable(keywords)
  BY DEF Setting
<1>3. PICK k \in 1..Len(keywords), i \in 2..m : SuffixHash(keywords[k], i) = h /\ shift[h] = m - i
  BY <1>1, <1>2, ShiftTableIs
<1>4. h \in DOMAIN hash <=> \E l \in 1..Len(keywords) : SuffixHash(keywords[l], m) = h
  BY <1>1, <1>2 DEF HashTable
<1>5. shift[h] \in 0..(m - 2)
  BY <1>1, <1>3
<1>6. ASSUME shift[h] = 0 PROVE h \in DOMAIN hash
  <2>1. i = m
    BY <1>1, <1>3, <1>6
  <2> QED  BY <1>3, <1>4, <2>1
<1>7. ASSUME NEW l \in 1..Len(keywords), SuffixHash(keywords[l], m) = h PROVE shift[h] = 0
  <2>1. m \in 2..m
    BY <1>1
  <2>2. shift[h] <= m - m
    BY <1>1, <1>2, <1>7, <2>1, ShiftTableIs
  <2> QED  BY <1>1, <1>5, <2>2
<1> QED  BY <1>4, <1>5, <1>6, <1>7

\* What is left of a list of candidates behind the first d of them.
LEMMA RestIs ==
  ASSUME NEW S, NEW c \in Seq(S), NEW d \in 0..Len(c), NEW r, r = SubSeq(c, d + 1, Len(c))
  PROVE  /\ Len(r) = Len(c) - d
         /\ r # <<>> <=> d < Len(c)
         /\ r # <<>> => /\ d + 1 \in 1..Len(c) /\ Head(r) = c[d + 1]
                        /\ Len(Tail(r)) = Len(r) - 1
                        /\ Tail(r) = SubSeq(c, (d + 1) + 1, Len(c))
<1>1. Len(c) \in Nat /\ d \in Nat /\ d <= Len(c)
  OBVIOUS
<1>2. CASE d = Len(c)
  <2>1. r = <<>>
    BY <1>1, <1>2, SubSeqProperties, EmptySeq
  <2> QED  BY <1>1, <1>2, <2>1
<1>3. CASE d < Len(c)
  <2>1. /\ r \in Seq(S) /\ Len(r) = Len(c) - d
        /\ \A i \in 1..(Len(c) - d) : r[i] = c[d + i]
    BY <1>1, <1>3, SubSeqProperties
  <2>2. d + 1 \in 1..Len(c) /\ Len(c) \in (d + 1)..Len(c)
    BY <1>1, <1>3
  <2>3. Head(r) = c[d + 1] /\ Tail(r) = SubSeq(c, (d + 1) + 1, Len(c))
    BY <2>2, HeadTailOfSubSeq
  <2>4. r # <<>>
    <3>1. Len(r) # 0
      BY <1>1, <1>3, <2>1
    <3> QED  BY <2>1, <3>1, EmptySeq
  <2>5. Len(Tail(r)) = Len(r) - 1
    BY <2>1, <2>4, HeadTailProperties
  <2> QED  BY <1>1, <1>3, <2>1, <2>2, <2>3, <2>4, <2>5
<1> QED  BY <1>1, <1>2, <1>3, SMTT(30)

\* record_match keeps the addresses in order and adds one.
LEMMA RecordedIs ==
  ASSUME matches \in Seq(Nat), Abstract!Ascending(matches), NEW a \in Nat, NEW r, r = Recorded(a)
  PROVE  r \in Seq(Nat) /\ Abstract!Ascending(r) /\ Members(r) = Members(matches) \cup {a}
<1> DEFINE L == Len(matches)
           Place(i) == /\ \A k \in 1..i : matches[k] < a
                       /\ i < L => matches[i + 1] >= a
           S == {i \in 0..L : i < L => matches[i + 1] >= a}
<1>1. L \in Nat /\ \A i \in 1..L : matches[i] \in Nat
  BY ElementOfSeq
<1>2. PICK n \in S : \A i \in S : n <= i
  <2>1. S \in SUBSET Nat /\ L \in S
    BY <1>1
  <2> HIDE DEF S
  <2> QED  BY <2>1, LeastNumber
<1>3. n \in 0..L /\ Place(n)
  <2>1. n \in 0..L /\ (n < L => matches[n + 1] >= a)
    BY <1>2
  <2>2. ASSUME NEW k \in 1..n PROVE matches[k] < a
    <3>1. k - 1 \in 0..L /\ k - 1 < L /\ (k - 1) + 1 = k /\ k \in 1..L /\ ~(n <= k - 1)
      BY <1>1, <2>1
    <3>2. ~(matches[k] >= a)
      BY <1>2, <3>1
    <3> QED  BY <1>1, <3>1, <3>2
  <2> QED  BY <2>1, <2>2
<1> DEFINE x == CHOOSE i \in 0..L : Place(i)
<1>4. x \in 0..L /\ Place(x)
  <2> HIDE DEF Place
  <2> QED  BY <1>3, Zenon
<1>5. r = (SubSeq(matches, 1, x) \o <<a>>) \o SubSeq(matches, x + 1, L)
  BY DEF Recorded
<1> HIDE DEF x, S
<1> DEFINE lo == SubSeq(matches, 1, x)
           up == SubSeq(matches, x + 1, L)
<1>6. lo \in Seq(Nat) /\ Len(lo) = x /\ \A i \in 1..x : lo[i] = matches[i]
  BY <1>1, <1>4, SubSeqProperties
<1>7. up \in Seq(Nat) /\ Len(up) = L - x /\ \A i \in 1..(L - x) : up[i] = matches[x + i]
  <2>1. /\ up \in Seq(Nat) /\ Len(up) = IF x + 1 <= L THEN L - (x + 1) + 1 ELSE 0
        /\ \A i \in 1..(L - (x + 1) + 1) : up[i] = matches[(x + 1) + i - 1]
    BY <1>1, <1>4, SubSeqProperties
  <2> HIDE DEF up
  <2> QED  BY <1>1, <1>4, <2>1
<1> DEFINE one == <<a>>
           mid == lo \o one
<1>8. one \in Seq(Nat) /\ Len(one) = 1 /\ one[1] = a
  OBVIOUS
<1> HIDE DEF lo, up, one
<1>9. /\ mid \in Seq(Nat) /\ Len(mid) = x + 1 /\ mid[x + 1] = a
      /\ \A i \in 1..x : mid[i] = matches[i]
  <2>1. /\ mid \in Seq(Nat) /\ Len(mid) = Len(lo) + Len(one)
        /\ \A i \in 1..(Len(lo) + Len(one)) : mid[i] = IF i <= Len(lo) THEN lo[i] ELSE one[i - Len(lo)]
    BY <1>6, <1>8, ConcatProperties
  <2>2. x + 1 \in 1..(x + 1) /\ (x + 1) - x = 1 /\ ~(x + 1 <= x)
    BY <1>4
  <2>3. \A i \in 1..x : i \in 1..(x + 1) /\ i <= x
    BY <1>4
  <2> HIDE DEF mid
  <2> QED  BY <1>6, <1>8, <2>1, <2>2, <2>3
<1> HIDE DEF mid
<1>10. /\ r \in Seq(Nat) /\ Len(r) = L + 1 /\ r[x + 1] = a
       /\ \A i \in 1..x : r[i] = matches[i]
       /\ \A i \in (x + 2)..(L + 1) : r[i] = matches[i - 1]
  <2>1. r = mid \o up
    BY <1>5 DEF mid, lo, up, one
  <2>2. /\ r \in Seq(Nat) /\ Len(r) = Len(mid) + Len(up)
        /\ \A i \in 1..(Len(mid) + Len(up)) : r[i] = IF i <= Len(mid) THEN mid[i] ELSE up[i - Len(mid)]
    <3> DEFINE whole == mid \o up
    <3>1. /\ whole \in Seq(Nat) /\ Len(whole) = Len(mid) + Len(up)
          /\ \A i \in 1..(Len(mid) + Len(up)) : whole[i] = IF i <= Len(mid) THEN mid[i] ELSE up[i - Len(mid)]
      BY <1>7, <1>9, ConcatProperties
    <3>2. r = whole
      BY <2>1
    <3> HIDE DEF whole
    <3> QED  BY <3>1, <3>2
  <2>3. Len(mid) + Len(up) = L + 1
    BY <1>1, <1>4, <1>7, <1>9
  <2>4. \A i \in 1..(x + 1) : i \in 1..(L + 1) /\ i <= x + 1
    BY <1>1, <1>4
  <2>5. \A i \in 1..(x + 1) : r[i] = mid[i]
    BY <1>9, <2>2, <2>3, <2>4
  <2>6. \A i \in (x + 2)..(L + 1) : /\ i \in 1..(L + 1) /\ ~(i <= x + 1) /\ i - (x + 1) \in 1..(L - x)
                                   /\ x + (i - (x + 1)) = i - 1
    BY <1>1, <1>4
  <2>7. \A i \in (x + 2)..(L + 1) : r[i] = matches[i - 1]
    BY <1>7, <1>9, <2>2, <2>3, <2>6
  <2>8. \A i \in 1..x : i \in 1..(x + 1)
    BY <1>4
  <2>9. x + 1 \in 1..(x + 1)
    BY <1>4
  <2> QED  BY <1>9, <2>2, <2>3, <2>5, <2>7, <2>8, <2>9
<1>11. Abstract!Ascending(r)
  <2> SUFFICES ASSUME NEW i \in 1..L PROVE r[i] <= r[i + 1]
    BY <1>1, <1>10 DEF Abstract!Ascending
  <2>1. \A k \in 1..(L - 1) : matches[k] <= matches[k + 1]
    BY DEF Abstract!Ascending
  <2>2. CASE i < x
    <3>1. i \in 1..x /\ i + 1 \in 1..x /\ i \in 1..(L - 1)
      BY <1>1, <1>4, <2>2
    <3> QED  BY <1>10, <2>1, <3>1
  <2>3. CASE i = x
    <3>1. i \in 1..x /\ matches[i] < a /\ matches[i] \in Nat
      BY <1>1, <1>4, <2>3
    <3> QED  BY <1>10, <2>3, <3>1
  <2>4. CASE i = x + 1
    <3>1. i + 1 \in (x + 2)..(L + 1) /\ (i + 1) - 1 = x + 1 /\ x < L
      BY <1>1, <1>4, <2>4
    <3>2. r[i] = a /\ r[i + 1] = matches[x + 1]
      BY <1>10, <2>4, <3>1
    <3>3. matches[x + 1] >= a /\ matches[x + 1] \in Nat
      BY <1>1, <1>4, <3>1
    <3> QED  BY <3>2, <3>3
  <2>5. CASE i > x + 1
    <3>1. /\ i \in (x + 2)..(L + 1) /\ i + 1 \in (x + 2)..(L + 1) /\ i - 1 \in 1..(L - 1)
          /\ (i + 1) - 1 = i /\ (i - 1) + 1 = i
      BY <1>1, <1>4, <2>5
    <3>2. r[i] = matches[i - 1] /\ r[i + 1] = matches[i]
      BY <1>10, <3>1
    <3> QED  BY <2>1, <3>1, <3>2
  <2> QED  BY <1>1, <1>4, <2>2, <2>3, <2>4, <2>5
<1>12. Members(r) = Members(matches) \cup {a}
  <2>1. ASSUME NEW i \in 1..(L + 1) PROVE r[i] = a \/ \E k \in 1..L : r[i] = matches[k]
    <3>1. i \in 1..x \/ i = x + 1 \/ (i \in (x + 2)..(L + 1) /\ i - 1 \in 1..L)
      BY <1>1, <1>4
    <3>2. \A k \in 1..x : k \in 1..L
      BY <1>1, <1>4
    <3> QED  BY <1>10, <3>1, <3>2
  <2>2. ASSUME NEW k \in 1..L PROVE \E i \in 1..(L + 1) : r[i] = matches[k]
    <3>1. CASE k <= x
      <4>1. k \in 1..x /\ k \in 1..(L + 1)
        BY <1>1, <1>4, <3>1
      <4> QED  BY <1>10, <4>1
    <3>2. CASE k > x
      <4>1. k + 1 \in (x + 2)..(L + 1) /\ k + 1 \in 1..(L + 1) /\ (k + 1) - 1 = k
        BY <1>1, <1>4, <3>2
      <4> QED  BY <1>10, <4>1
    <3> QED  BY <1>1, <1>4, <3>1, <3>2
  <2>3. x + 1 \in 1..(L + 1)
    BY <1>1, <1>4
  <2>4. Len(r) = L + 1
    BY <1>10
  <2>5. \A v : v \in Members(r) <=> \E i \in 1..(L + 1) : v = r[i]
    BY <2>4 DEF Members, Abstract!Members
  <2>6. \A v : v \in Members(matches) <=> \E k \in 1..L : v = matches[k]
    BY DEF Members, Abstract!Members
  <2> HIDE DEF L
  <2>7. r[x + 1] = a
    BY <1>10
  <2>8. \A v : v \in Members(r) => v \in Members(matches) \/ v = a
    BY <2>1, <2>5, <2>6
  <2>9. \A v : v \in Members(matches) \/ v = a => v \in Members(r)
    BY <2>2, <2>3, <2>5, <2>6, <2>7
  <2> QED  BY <2>8, <2>9
<1> QED  BY <1>10, <1>11, <1>12

-----------------------------------------------------------------------------
(* The window and its candidates.                                           *)

\* The window of a comparison lies in the line; its first two bytes are not EOL.
LEMMA WindowIs ==
  ASSUME Base, pc = "compare"
  PROVE  /\ Begin \in 1..Len(input) /\ Begin + m - 1 = ptr /\ ptr \in Nat /\ ptr <= Len(input)
         /\ input[Begin] \in 0..127 /\ input[Begin + 1] \in 0..127
<1>1. m \in Nat /\ m >= 3 /\ Len(input) \in Nat /\ \A i \in 1..(Len(input) - 1) : input[i] \in 0..127
  BY Searched DEF Base
<1>2. ptr \in m..(Len(input) + m) /\ ptr <= Len(input)
  BY DEF Base, Window
<1>3. Begin \in 1..Len(input) /\ Begin + m - 1 = ptr /\ ptr \in Nat
  BY <1>1, <1>2 DEF Begin
<1>4. Begin \in 1..(Len(input) - 1) /\ Begin + 1 \in 1..(Len(input) - 1)
  BY <1>1, <1>2 DEF Begin
<1> QED  BY <1>1, <1>2, <1>3, <1>4

\* Every keyword whose last pair within m has the hash of the window is a candidate.
LEMMA CandidatesOf ==
  ASSUME Base, pc = "compare"
  PROVE  /\ Candidates \in Seq(Entries(keywords)) /\ Done \in 0..Len(Candidates)
         /\ \A q \in 1..Len(Candidates) : \E k \in 1..Len(keywords) : Candidates[q] = Entry(keywords, k)
         /\ \A k \in 1..Len(keywords) : SuffixHash(keywords[k], m) = SuffixHash(input, ptr) =>
              \E q \in 1..Len(Candidates) : Candidates[q] = Entry(keywords, k)
         /\ AtMostTwoAlike => \A q, r, t \in 1..Len(Candidates) : q < r /\ r < t =>
              ~(Candidates[q].key = Candidates[r].key /\ Candidates[q].key = Candidates[t].key)
<1> DEFINE h == SuffixHash(input, ptr)
<1>1. keywords \in KeywordLists /\ m >= 3 /\ m = MinLength(keywords)
  BY Searched DEF Base, m
<1>2. hash = HashTable(keywords)
  BY DEF Base, Setting
<1>3. h \in DOMAIN HashTable(keywords) /\ Candidates = HashTable(keywords)[h]
  BY <1>2 DEF Base, Window, Candidates
<1>4. Done \in 0..Len(Candidates)
  BY DEF Base, Window
<1>5. \A k : Hit(keywords, h, k) <=> SuffixHash(keywords[k], m) = SuffixHash(input, ptr)
  BY <1>1 DEF Hit
<1> DEFINE w == Candidates
<1>6. w = HashTable(keywords)[h]
  BY <1>3
<1> HIDE DEF h, w
<1>7. /\ w \in Seq(Entries(keywords))
      /\ \A q \in 1..Len(w) : \E k \in 1..Len(keywords) : w[q] = Entry(keywords, k)
      /\ \A k \in 1..Len(keywords) : Hit(keywords, h, k) => \E q \in 1..Len(w) : w[q] = Entry(keywords, k)
  BY <1>1, <1>3, <1>6, CandidatesAre
<1>8. ASSUME AtMostTwoAlike
      PROVE  \A q, r, t \in 1..Len(w) : q < r /\ r < t => ~(w[q].key = w[r].key /\ w[q].key = w[t].key)
  BY <1>1, <1>3, <1>6, <1>8, CandidatesAre
<1> QED  BY <1>4, <1>5, <1>7, <1>8 DEF w

\* The one to be compared next.
LEMMA CandidateIs ==
  ASSUME Base, Candidate
  PROVE  /\ pc = "compare" /\ Done + 1 \in 1..Len(Candidates) /\ Head(todo) = Candidates[Done + 1]
         /\ \E k \in 1..Len(keywords) : /\ Head(todo).pattern = keywords[k]
                                       /\ Head(todo).key = PrefixHash(keywords[k], 1)
<1> DEFINE c == Candidates
           d == Done
<1>1. pc = "compare" /\ todo # <<>>
  BY DEF Candidate
<1>2. c \in Seq(Entries(keywords)) /\ d \in 0..Len(c)
  BY <1>1, CandidatesOf
<1>3. todo = SubSeq(c, d + 1, Len(c))
  BY <1>1 DEF Base, Window
<1>4. \A q \in 1..Len(c) : \E k \in 1..Len(keywords) : c[q] = Entry(keywords, k)
  BY <1>1, CandidatesOf
<1> HIDE DEF c, d
<1>5. d + 1 \in 1..Len(c) /\ Head(todo) = c[d + 1]
  BY <1>1, <1>2, <1>3, RestIs
<1>6. PICK k \in 1..Len(keywords) : Head(todo) = Entry(keywords, k)
  BY <1>4, <1>5
<1>7. Head(todo).pattern = keywords[k] /\ Head(todo).key = PrefixHash(keywords[k], 1)
  BY <1>6 DEF Entry
<1> QED  BY <1>1, <1>5, <1>7 DEF c, d

\* Then the rest is one shorter.
LEMMA OneDone ==
  ASSUME Base, Candidate, todo' = Tail(todo), UNCHANGED <<tables, input, ptr>>
  PROVE  /\ Candidates' = Candidates /\ Done' = Done + 1
         /\ todo' = SubSeq(Candidates, Done' + 1, Len(Candidates))
<1> DEFINE c == Candidates
           d == Done
<1>1. pc = "compare" /\ todo # <<>>
  BY DEF Candidate
<1>2. c \in Seq(Entries(keywords)) /\ d \in 0..Len(c) /\ Len(c) \in Nat
  BY <1>1, CandidatesOf
<1>3. todo = SubSeq(c, d + 1, Len(c))
  BY <1>1 DEF Base, Window
<1>4. c' = c
  BY DEF Candidates, SuffixHash, tables
<1>5. d = Len(c) - Len(todo) /\ d' = Len(c) - Len(Tail(todo))
  BY <1>4 DEF Done
<1> HIDE DEF c, d
<1>6. Len(todo) = Len(c) - d /\ Len(Tail(todo)) = Len(todo) - 1 /\ Tail(todo) = SubSeq(c, (d + 1) + 1, Len(c))
  BY <1>1, <1>2, <1>3, RestIs
<1>7. d' = d + 1
  <2>1. Len(c) - Len(Tail(todo)) = d + 1
    <3> DEFINE y == Len(c)
               z == Len(Tail(todo))
    <3>1. y \in Nat /\ d \in 0..y /\ z = (y - d) - 1
      BY <1>2, <1>6
    <3> HIDE DEF y, z
    <3>2. y - z = d + 1
      BY <3>1
    <3> QED  BY <3>2 DEF y, z
  <2> QED  BY <1>5, <2>1
<1>8. todo' = SubSeq(c, d' + 1, Len(c))
  BY <1>6, <1>7
<1> QED  BY <1>4, <1>7, <1>8 DEF c, d

\* A comparison stays within the line; one that reaches the end of the keyword has
\* seen all of it but perhaps its last byte.
LEMMA ComparisonIs ==
  ASSUME Base, Candidate, SamePrefix, NEW p, p = Head(todo).pattern, NEW x, x = Mismatch(p)
  PROVE  /\ x \in Nat /\ Begin + x - 2 < Len(input)
         /\ \E k \in 1..Len(keywords) : p = keywords[k]
         /\ \A i \in 1..(x - 1) : p[i] = input[Begin + i - 1]
         /\ x <= Len(p) => p[x] # input[Begin + x - 1]
         /\ x \in 2..(Len(p) + 1)
<1>1. PICK k \in 1..Len(keywords) : p = keywords[k] /\ Head(todo).key = PrefixHash(keywords[k], 1)
  BY CandidateIs
<1>2. Setting /\ pc = "compare"
  BY DEF Base, Candidate
<1>3. /\ x \in 2..(Len(p) + 1)
      /\ \A i \in 2..(x - 1) : p[i] = input[Begin + i - 1]
      /\ x <= Len(p) => p[x] # input[Begin + x - 1]
  BY <1>1, <1>2, MismatchIs
<1>4. Len(p) \in Nat /\ Len(p) >= 3 /\ \A i \in 1..Len(p) : p[i] \in 0..127
  <2>1. m \in Nat /\ m >= 3 /\ Len(p) \in Nat /\ Len(p) >= m /\ \A i \in 1..Len(p) : p[i] \in 0..127
    BY <1>1, <1>2, Searched
  <2> QED  BY <2>1
<1>5. p[1] = input[Begin]
  <2>1. p[1] * 256 + p[2] = input[Begin] * 256 + input[Begin + 1]
    BY <1>1 DEF SamePrefix, PrefixHash
  <2>2. p[1] \in 0..127 /\ p[2] \in 0..127
    <3>1. 1 \in 1..Len(p) /\ 2 \in 1..Len(p)
      BY <1>4
    <3> QED  BY <1>4, <3>1
  <2>3. input[Begin] \in 0..127 /\ input[Begin + 1] \in 0..127
    BY <1>2, WindowIs
  <2> DEFINE a == p[1]
             b == p[2]
             c == input[Begin]
             d == input[Begin + 1]
  <2>4. a \in 0..127 /\ b \in 0..127 /\ c \in 0..127 /\ d \in 0..127 /\ a * 256 + b = c * 256 + d
    BY <2>1, <2>2, <2>3
  <2> HIDE DEF a, b, c, d
  <2>5. a = c
    BY <2>4
  <2> QED  BY <2>5 DEF a, c
<1>6. ASSUME NEW i \in 1..(x - 1) PROVE p[i] = input[Begin + i - 1]
  <2>1. Begin \in Nat
    BY <1>2, WindowIs
  <2>2. CASE i = 1
    <3>1. Begin + 1 - 1 = Begin
      BY <2>1
    <3> QED  BY <1>5, <2>2, <3>1
  <2>3. CASE i # 1
    <3>1. i \in 2..(x - 1)
      BY <1>3, <1>4, <2>3
    <3> QED  BY <1>3, <3>1
  <2> QED  BY <2>2, <2>3
<1>7. Begin + x - 2 < Len(input)
  <2>1. Begin \in 1..Len(input) /\ Begin + m - 1 = ptr /\ ptr <= Len(input)
    BY <1>2, WindowIs
  <2>2. Len(input) \in Nat /\ input[Len(input)] < 0 /\ m \in Nat /\ m >= 3
    BY <1>2, Searched
  <2> SUFFICES ASSUME Begin + x - 2 >= Len(input) PROVE FALSE
    BY <1>3, <1>4, <2>1, <2>2
  <2> DEFINE e == Len(input) - Begin + 1
  <2>3. e \in 1..(x - 1) /\ e \in 1..Len(p) /\ Begin + e - 1 = Len(input)
    <3> DEFINE l == Len(input)
               b == Begin
               y == Len(p)
    <3>1. l \in Nat /\ b \in 1..l /\ y \in Nat /\ x \in 2..(y + 1) /\ b + x - 2 >= l
      BY <1>3, <1>4, <2>1, <2>2
    <3> HIDE DEF l, b, y
    <3>2. l - b + 1 \in 1..(x - 1) /\ l - b + 1 \in 1..y /\ b + (l - b + 1) - 1 = l
      BY <3>1
    <3> QED  BY <3>2 DEF l, b, y
  <2>4. p[e] = input[Len(input)] /\ p[e] \in 0..127
    BY <1>4, <1>6, <2>3
  <2>5. \A y \in 0..127 : ~(y < 0)
    OBVIOUS
  <2> HIDE DEF e
  <2> QED  BY <2>2, <2>4, <2>5, Zenon
<1> QED  BY <1>1, <1>3, <1>4, <1>6, <1>7

-----------------------------------------------------------------------------
(* Every step keeps the parts that need no assumption on the keywords.      *)

\* A step inside a call of mpat_search, or between calls, leaves the tables and
\* the line alone.
LEMMA SettingStays ==
  ASSUME Setting, pc \notin {"off", "clear"}, UNCHANGED <<tables, input>>,
         pc' \in {"search", "compare", "found", "spent"}, failed' \in BOOLEAN
  PROVE  Setting'
<1>1. /\ keywords' = keywords /\ shift' = shift /\ hash' = hash /\ input' = input /\ m' = m
  BY DEF tables, m
<1>2. keywords \in KeywordLists /\ m >= 3 /\ shift = ShiftTable(keywords) /\ hash = HashTable(keywords)
  BY DEF Setting
<1>3. PICK t \in Texts : input = Append(t, EOL)
  BY DEF Setting
<1>4. pc' \notin {"off", "clear"} /\ pc' # "off"
  OBVIOUS
<1>5. \E u \in Texts : input' = Append(u, EOL)
  BY <1>1, <1>3
<1> HIDE DEF m
<1> QED  BY <1>1, <1>2, <1>4, <1>5 DEF Setting

\* NearlyKeywords as a relation between the keywords, a line and the places in it.
Nearly(ks, t, s) ==
  \A i \in 1..Len(s) : \E k \in 1..Len(ks) :
    Abstract!OccursAt(SubSeq(ks[k], 1, Len(ks[k]) - 1), t, s[i])

\* Nearly says it of the variables, before and after a step.
LEMMA NearlyIs ==
  /\ NearlyKeywords <=> Nearly(keywords, input, matches)
  /\ NearlyKeywords' <=> Nearly(keywords', input', matches')
BY DEF NearlyKeywords, Nearly, Abstract!OccursAt

\* The places recorded stay when the line and the list of matches do.
LEMMA RecordingStays ==
  ASSUME Recording, UNCHANGED <<keywords, input, matches, cur_mr, ret>>,
         pc' # "found" => cur_mr = 0,
         pc' \in {"off", "clear", "search", "compare"} => ret = 0
  PROVE  Recording'
<1>1. NearlyKeywords'
  <2>1. keywords' = keywords /\ input' = input /\ matches' = matches /\ NearlyKeywords
    BY DEF Recording
  <2>2. Nearly(keywords', input', matches')
    BY <2>1, NearlyIs
  <2> QED  BY <2>2, NearlyIs
<1>2. Members(matches)' \subseteq 1..Len(input') /\ Abstract!Ascending(matches)'
  BY DEF Recording, Members, Abstract!Members, Abstract!Ascending
<1> QED  BY <1>1, <1>2 DEF Recording

\* mpat_init establishes the invariant.
LEMMA InitBase ==
  ASSUME Init
  PROVE  Base
<1>1. keywords \in KeywordLists /\ input = <<>> /\ matches = <<>> /\ cur_mr = 0 /\ ret = 0 /\ failed = FALSE
  BY DEF Init
<1>2. m \in Nat
  BY <1>1, MinLengthIs DEF m
<1>3. \/ pc = "off" /\ shift = <<>>
      \/ pc = "clear" /\ m >= 3 /\ shift = ShiftTable(keywords) /\ hash = HashTable(keywords)
  BY <1>2 DEF Init
<1>4. Setting
  BY <1>1, <1>3 DEF Setting
<1>5. Len(matches) = 0 /\ matches \in Seq(Nat)
  BY <1>1
<1>6. Recording
  BY <1>1, <1>3, <1>5 DEF Recording, NearlyKeywords, Members, Abstract!Members, Abstract!Ascending
<1>7. Window
  BY <1>3 DEF Window
<1> QED  BY <1>4, <1>6, <1>7 DEF Base

\* A search begins at the end of the first window.
LEMMA BeginBase ==
  ASSUME Base, NEW t \in Texts, BeginSearch(t)
  PROVE  Base'
<1>1. /\ pc = "clear" /\ input' = Append(t, EOL) /\ ptr' = m /\ pc' = "search"
      /\ keywords' = keywords /\ shift' = shift /\ hash' = hash /\ m' = m
      /\ failed' = failed /\ matches' = matches /\ cur_mr' = cur_mr /\ ret' = ret
  BY DEF BeginSearch, tables, m
<1>2. matches = <<>> /\ m >= 3 /\ keywords \in KeywordLists
  BY <1>1 DEF Base, Setting
<1>3. m \in Nat
  BY <1>2, MinLengthIs DEF m
<1> HIDE DEF m
<1>4. Setting'
  BY <1>1 DEF Base, Setting
<1>5. Len(matches) = 0 /\ matches' \in Seq(Nat)
  BY <1>1, <1>2
<1>6. Recording'
  BY <1>1, <1>2, <1>5 DEF Base, Recording, NearlyKeywords, Members, Abstract!Members, Abstract!Ascending
<1>7. t \in Seq(0..127) /\ EOL \in Int
  BY KeywordAssumption
<1>8. Len(input') \in Nat
  BY <1>1, <1>7
<1>9. Window'
  BY <1>1, <1>3, <1>8 DEF Window
<1> QED  BY <1>4, <1>6, <1>9 DEF Base

\* A shift moves the window forward and not behind the line.
LEMMA SlideBase ==
  ASSUME Base, Slide
  PROVE  Base' /\ get_shift(SuffixHash(input, ptr)) \in 1..(m - 1)
<1>1. pc = "search" /\ InText /\ Setting /\ Recording
  BY DEF Slide, Base
<1>2. /\ m \in Nat /\ m >= 3 /\ Len(input) \in Nat /\ ptr \in m..(Len(input) + m)
  BY <1>1, Searched DEF Base, Window
<1> DEFINE s == get_shift(SuffixHash(input, ptr))
<1>3. s \in 0..(m - 1)
  <2>1. CASE SuffixHash(input, ptr) \in DOMAIN shift
    <3>1. s \in 0..(m - 2)
      BY <1>1, <2>1, ShiftsAre DEF get_shift
    <3> HIDE DEF s
    <3> QED  BY <1>2, <3>1
  <2>2. CASE SuffixHash(input, ptr) \notin DOMAIN shift
    BY <1>2, <2>2 DEF get_shift, default_shift, B
  <2> QED  BY <2>1, <2>2
<1>4. /\ s # 0 /\ ptr' = ptr + s /\ ptr <= Len(input)
  BY DEF Slide, InText
<1>5. UNCHANGED <<tables, input>> /\ m' = m /\ pc' = "search" /\ Len(input') = Len(input)
  BY <1>1 DEF Slide, tables, m
<1>6. Setting'
  BY <1>1, <1>5, SettingStays DEF Slide, Setting
<1>7. Recording'
  BY <1>1, RecordingStays DEF Slide, Recording, tables
<1> HIDE DEF s, m
<1>8. ptr' \in m..(Len(input) + m) /\ s \in 1..(m - 1)
  BY <1>2, <1>3, <1>4
<1>9. Window'
  BY <1>5, <1>8 DEF Window
<1> QED  BY <1>6, <1>7, <1>8, <1>9 DEF Base, s

\* Where the shift is zero there are candidates.
LEMMA StopBase ==
  ASSUME Base, Stop
  PROVE  /\ Base' /\ Candidates' = Candidates /\ todo' = Candidates' /\ Done' = 0
         /\ input' = input /\ ptr' = ptr /\ keywords' = keywords /\ matches' = matches
<1>1. pc = "search" /\ InText /\ Setting /\ Recording /\ get_shift(SuffixHash(input, ptr)) = 0
  BY DEF Stop, Base
<1>2. m \in Nat /\ m >= 3 /\ Len(input) \in Nat /\ ptr \in m..(Len(input) + m) /\ keywords \in KeywordLists
  BY <1>1, Searched DEF Base, Window
<1> DEFINE h == SuffixHash(input, ptr)
<1>3. h \in DOMAIN hash
  <2>1. default_shift # 0
    BY <1>2 DEF default_shift, B
  <2>2. h \in DOMAIN shift /\ shift[h] = 0
    BY <1>1, <2>1 DEF get_shift
  <2> HIDE DEF h
  <2> QED  BY <1>1, <2>2, ShiftsAre
<1>4. /\ todo' = hash[h] /\ pc' = "compare" /\ failed' = FALSE
      /\ UNCHANGED <<tables, input, ptr, matches, cur_mr, ret>>
  BY DEF Stop
<1>5. /\ keywords' = keywords /\ shift' = shift /\ hash' = hash /\ m' = m /\ input' = input /\ ptr' = ptr
  BY <1>4 DEF tables, m
<1>6. Candidates' = Candidates /\ Candidates = hash[h]
  BY <1>5 DEF Candidates, SuffixHash
<1>7. Setting'
  BY <1>1, <1>4, SettingStays
<1>8. Recording'
  BY <1>1, <1>4, <1>5, RecordingStays DEF Recording
<1>9. Candidates \in Seq(Entries(keywords))
  <2>1. hash = HashTable(keywords)
    BY <1>1 DEF Setting
  <2>2. hash[h] \in Seq(Entries(keywords))
    BY <1>2, <1>3, <2>1, CandidatesAre
  <2> QED  BY <1>6, <2>2
<1> DEFINE c == Candidates
<1>10. Len(c) \in Nat /\ c = SubSeq(c, 1, Len(c))
  <2>1. c \in Seq(Entries(keywords))
    BY <1>9
  <2> HIDE DEF c
  <2> QED  BY <2>1, SubSeqFull
<1>11. todo' = c /\ Done' = Len(c) - Len(c)
  BY <1>4, <1>6 DEF Done
<1> HIDE DEF c
<1>12. Done' = 0
  BY <1>10, <1>11
<1>13. (SuffixHash(input, ptr) \in DOMAIN hash)'
  BY <1>3, <1>5 DEF SuffixHash
<1>14. ptr <= Len(input)
  BY <1>1 DEF InText
<1> HIDE DEF h, m
<1>15. Window'
  <2>1. ptr' \in m'..(Len(input') + m') /\ ptr' <= Len(input')
    BY <1>2, <1>5, <1>14
  <2>2. Done' \in 0..Len(Candidates') /\ todo' = SubSeq(Candidates', Done' + 1, Len(Candidates'))
    <3>1. Candidates' = c
      BY <1>6 DEF c
    <3>2. 0 \in 0..Len(c) /\ todo' = SubSeq(c, 0 + 1, Len(c))
      BY <1>10, <1>11
    <3> QED  BY <1>12, <3>1, <3>2
  <2> QED  BY <1>4, <1>13, <2>1, <2>2 DEF Window
<1>16. todo' = Candidates' /\ matches' = matches
  BY <1>4, <1>6, <1>11 DEF c
<1> QED  BY <1>5, <1>6, <1>7, <1>8, <1>12, <1>15, <1>16 DEF Base

\* A candidate is done with: the window stays where it is.
LEMMA OneDoneWindow ==
  ASSUME Base, Candidate, todo' = Tail(todo), UNCHANGED <<tables, input, ptr, pc>>
  PROVE  Window'
<1>1. Candidates' = Candidates /\ Done' = Done + 1 /\ todo' = SubSeq(Candidates, Done' + 1, Len(Candidates))
  BY OneDone
<1>2. Done + 1 \in 1..Len(Candidates) /\ pc = "compare"
  BY CandidateIs
<1>3. Len(Candidates) \in Nat /\ Done \in Nat
  BY <1>2, CandidatesOf
<1>4. Done' \in 0..Len(Candidates')
  <2> DEFINE c == Len(Candidates)
             d == Done
  <2>1. d + 1 \in 1..c /\ c \in Nat /\ d \in Nat
    BY <1>2, <1>3
  <2> HIDE DEF c, d
  <2>2. d + 1 \in 0..c
    BY <2>1
  <2> QED  BY <1>1, <2>2 DEF c, d
<1>5. /\ keywords' = keywords /\ hash' = hash /\ input' = input /\ ptr' = ptr /\ m' = m /\ pc' = "compare"
  BY <1>2 DEF tables, m
<1>6. ptr \in m..(Len(input) + m) /\ ptr <= Len(input) /\ SuffixHash(input, ptr) \in DOMAIN hash
  BY <1>2 DEF Base, Window
<1>7. (SuffixHash(input, ptr) \in DOMAIN hash)'
  BY <1>5, <1>6 DEF SuffixHash
<1>8. todo' = SubSeq(Candidates', Done' + 1, Len(Candidates'))
  BY <1>1
<1>9. ptr' \in m'..(Len(input') + m') /\ ptr' <= Len(input')
  BY <1>5, <1>6
<1> HIDE DEF m
<1> QED  BY <1>4, <1>5, <1>7, <1>8, <1>9 DEF Window

\* A candidate with another prefix is dropped.
LEMMA OtherPrefixBase ==
  ASSUME Base, OtherPrefix
  PROVE  Base'
<1>1. /\ Candidate /\ todo' = Tail(todo) /\ UNCHANGED <<tables, input, ptr, failed, matches, cur_mr, ret, pc>>
  BY DEF OtherPrefix
<1>2. pc = "compare" /\ Setting /\ Recording
  BY <1>1 DEF Candidate, Base
<1>3. Setting'
  BY <1>1, <1>2, SettingStays DEF Setting
<1>4. Recording'
  BY <1>1, <1>2, RecordingStays DEF Recording, tables
<1>5. Window'
  BY <1>1, OneDoneWindow
<1> QED  BY <1>3, <1>4, <1>5 DEF Base

\* What is recorded begins with all but the last byte of a keyword.
LEMMA MatchBase ==
  ASSUME Base, Match
  PROVE  Base' /\ Members(matches)' = Members(matches) \cup {Begin}
<1>1. /\ Candidate /\ SamePrefix /\ Reached(Head(todo).pattern) /\ matches' = Recorded(Begin)
      /\ todo' = Tail(todo) /\ UNCHANGED <<tables, input, ptr, failed, cur_mr, ret, pc>>
  BY DEF Match
<1>2. pc = "compare" /\ Setting /\ Recording
  BY <1>1 DEF Candidate, Base
<1>3. Setting'
  BY <1>1, <1>2, SettingStays DEF Setting
<1>4. Begin \in 1..Len(input) /\ Len(input) \in Nat
  BY <1>2, WindowIs, Searched
<1>5. matches \in Seq(Nat) /\ Abstract!Ascending(matches) /\ Begin \in Nat
  BY <1>2, <1>4 DEF Recording
<1>6. matches' \in Seq(Nat) /\ Abstract!Ascending(matches)' /\ Members(matches)' = Members(matches) \cup {Begin}
  <2>1. PICK r : r = matches'
    OBVIOUS
  <2>2. r \in Seq(Nat) /\ Abstract!Ascending(r) /\ Members(r) = Members(matches) \cup {Begin}
    BY <1>1, <1>5, <2>1, RecordedIs
  <2> QED  BY <2>1, <2>2 DEF Members, Abstract!Members, Abstract!Ascending
<1>7. \E k \in 1..Len(keywords) :
        Abstract!OccursAt(SubSeq(keywords[k], 1, Len(keywords[k]) - 1), input, Begin)
  <2> DEFINE p == Head(todo).pattern
             x == Mismatch(p)
  <2>1. /\ x \in Nat /\ Begin + x - 2 < Len(input) /\ \E k \in 1..Len(keywords) : p = keywords[k]
        /\ \A i \in 1..(x - 1) : p[i] = input[Begin + i - 1]
    BY <1>1, ComparisonIs
  <2>2. x >= Len(p)
    BY <1>1 DEF Reached
  <2> HIDE DEF x, p
  <2>3. PICK k \in 1..Len(keywords) : p = keywords[k]
    BY <2>1
  <2>4. Len(p) \in Nat /\ \A i \in 1..Len(p) : p[i] \in 0..127
    BY <1>2, <2>3, Searched
  <2> DEFINE q == SubSeq(p, 1, Len(p) - 1)
  <2>5. Len(q) = (IF 1 <= Len(p) - 1 THEN Len(p) - 1 ELSE 0) /\ \A i \in 1..(Len(p) - 1) : q[i] = p[i]
    <3>1. \A i \in 1..(Len(p) - 1) : p[i] \in 0..127 /\ 1 + i - 1 = i
      BY <2>4
    <3>2. (Len(p) - 1) - 1 + 1 = Len(p) - 1
      BY <2>4
    <3> QED  BY <2>4, <3>1, <3>2, SubSeqProperties
  <2>6. Len(p) >= 3
    <3>1. m \in Nat /\ m >= 3 /\ Len(p) >= m
      BY <1>2, <2>3, Searched
    <3> HIDE DEF m
    <3> QED  BY <2>4, <3>1
  <2> HIDE DEF q
  <2>7. Len(q) = Len(p) - 1
    BY <2>4, <2>5, <2>6
  <2>8. Begin + Len(q) - 1 <= Len(input)
    BY <1>4, <2>1, <2>2, <2>4, <2>7
  <2>9. \A i \in 1..Len(q) : i \in 1..(x - 1) /\ i \in 1..(Len(p) - 1)
    BY <2>1, <2>2, <2>4, <2>7
  <2>10. Abstract!OccursAt(q, input, Begin)
    BY <2>1, <2>5, <2>8, <2>9 DEF Abstract!OccursAt
  <2> QED  BY <2>3, <2>10 DEF q
<1>8. NearlyKeywords'
  <2> SUFFICES ASSUME NEW i \in 1..Len(matches')
               PROVE  \E k \in 1..Len(keywords) :
                        Abstract!OccursAt(SubSeq(keywords[k], 1, Len(keywords[k]) - 1), input, matches'[i])
    <3>1. keywords' = keywords /\ input' = input
      BY <1>1 DEF tables
    <3> QED  BY <3>1, NearlyIs DEF Nearly
  <2>1. matches'[i] \in Members(matches)'
    BY DEF Members, Abstract!Members
  <2>2. matches'[i] = Begin \/ \E j \in 1..Len(matches) : matches'[i] = matches[j]
    BY <1>6, <2>1 DEF Members, Abstract!Members
  <2>3. \A j \in 1..Len(matches) : \E k \in 1..Len(keywords) :
          Abstract!OccursAt(SubSeq(keywords[k], 1, Len(keywords[k]) - 1), input, matches[j])
    BY <1>2 DEF Recording, NearlyKeywords
  <2> QED  BY <1>7, <2>2, <2>3
<1>9. Recording'
  <2>1. Members(matches)' \subseteq 1..Len(input')
    BY <1>1, <1>2, <1>4, <1>6 DEF Recording
  <2>2. cur_mr' = 0 /\ ret' = 0 /\ pc' = "compare"
    BY <1>1, <1>2 DEF Recording
  <2>3. Len(matches') \in Nat
    BY <1>6
  <2> QED  BY <1>6, <1>8, <2>1, <2>2, <2>3 DEF Recording
<1>10. Window'
  BY <1>1, OneDoneWindow
<1> QED  BY <1>3, <1>6, <1>9, <1>10 DEF Base

\* A candidate that does not match is dropped, the second time with all behind it.
LEMMA FailBase ==
  ASSUME Base, Fail
  PROVE  /\ Base' /\ Candidates' = Candidates
         /\ \/ todo' = Tail(todo) /\ Done' = Done + 1
            \/ failed /\ Done' = Len(Candidates)
<1>1. /\ Candidate /\ failed' = TRUE /\ UNCHANGED <<tables, input, ptr, matches, cur_mr, ret, pc>>
      /\ todo' = Tail(todo) \/ (failed /\ todo' = <<>>)
  BY DEF Fail
<1>2. pc = "compare" /\ Setting /\ Recording
  BY <1>1 DEF Candidate, Base
<1>3. Setting'
  BY <1>1, <1>2, SettingStays
<1>4. Recording'
  BY <1>1, <1>2, RecordingStays DEF Recording, tables
<1>5. CASE todo' = Tail(todo)
  <2>1. Window'
    BY <1>1, <1>5, OneDoneWindow
  <2> QED  BY <1>1, <1>3, <1>4, <1>5, <2>1, OneDone DEF Base
<1>6. CASE failed /\ todo' = <<>>
  <2>1. Candidates' = Candidates
    BY <1>1 DEF Candidates, SuffixHash, tables
  <2> DEFINE c == Candidates
  <2>2. c \in Seq(Entries(keywords)) /\ Len(c) \in Nat
    BY <1>2, CandidatesOf
  <2>3. Len(<<>>) = 0
    OBVIOUS
  <2>4. c' = c /\ Done' = Len(c) - 0
    BY <1>6, <2>1, <2>3 DEF Done
  <2> HIDE DEF c
  <2>5. Done' = Len(c)
    BY <2>2, <2>4
  <2>6. Len(c) \in 0..Len(c) /\ SubSeq(c, Len(c) + 1, Len(c)) = <<>>
    BY <2>2, SubSeqEmpty
  <2>7. Done' \in 0..Len(c') /\ todo' = SubSeq(c', Done' + 1, Len(c'))
    BY <1>6, <2>4, <2>5, <2>6
  <2>8. keywords' = keywords /\ hash' = hash /\ input' = input /\ ptr' = ptr /\ m' = m /\ pc' = "compare"
    BY <1>1, <1>2 DEF tables, m
  <2>9. ptr \in m..(Len(input) + m) /\ ptr <= Len(input) /\ SuffixHash(input, ptr) \in DOMAIN hash
    BY <1>2 DEF Base, Window
  <2>10. (SuffixHash(input, ptr) \in DOMAIN hash)'
    BY <2>8, <2>9 DEF SuffixHash
  <2>11. ptr' \in m'..(Len(input') + m') /\ ptr' <= Len(input')
    BY <2>8, <2>9
  <2> HIDE DEF m
  <2>12. Window'
    BY <2>7, <2>8, <2>10, <2>11 DEF Window, c
  <2> QED  BY <1>3, <1>4, <1>6, <2>1, <2>5, <2>12 DEF Base, c
<1> QED  BY <1>1, <1>5, <1>6

\* When all candidates are done with, the window moves by one byte.
LEMMA ResumeBase ==
  ASSUME Base, Resume
  PROVE  Base' /\ Done = Len(Candidates) /\ ptr' = ptr + 1
<1>1. /\ pc = "compare" /\ todo = <<>> /\ ptr' = ptr + 1 /\ pc' = "search"
      /\ UNCHANGED <<tables, input, todo, failed, matches, cur_mr, ret>>
  BY DEF Resume, AfterCompare
<1>2. Setting /\ Recording
  BY DEF Base
<1>3. Setting'
  BY <1>1, <1>2, SettingStays DEF Setting
<1>4. Recording'
  BY <1>1, <1>2, RecordingStays DEF Recording, tables
<1>5. m \in Nat /\ m >= 3 /\ Len(input) \in Nat /\ ptr \in m..(Len(input) + m) /\ ptr <= Len(input)
  BY <1>1, <1>2, Searched DEF Base, Window
<1>6. input' = input /\ m' = m
  BY <1>1 DEF tables, m
<1>7. Window'
  <2> HIDE DEF m
  <2>1. ptr' \in m'..(Len(input') + m')
    BY <1>1, <1>5, <1>6
  <2> QED  BY <1>1, <2>1 DEF Window
<1>8. Done = Len(Candidates)
  <2> DEFINE c == Len(Candidates)
  <2>1. c \in Nat
    BY <1>1, CandidatesOf
  <2>2. Len(todo) = 0
    BY <1>1
  <2>3. Done = c - 0
    BY <2>2 DEF Done
  <2> HIDE DEF c
  <2>4. Done = c
    BY <2>1, <2>3
  <2> QED  BY <2>4 DEF c
<1> QED  BY <1>1, <1>3, <1>4, <1>7, <1>8 DEF Base

\* The end of the search resets the iterator.
LEMMA EndSearchBase ==
  ASSUME Base, EndSearch
  PROVE  Base' /\ cur_mr = 0
<1>1. /\ pc = "search" /\ pc' = "found" /\ failed' = FALSE
      /\ UNCHANGED <<tables, input, todo, matches, cur_mr, ret>>
  BY DEF EndSearch
<1>2. Setting /\ Recording
  BY DEF Base
<1>3. Setting'
  BY <1>1, <1>2, SettingStays
<1>4. Recording' /\ cur_mr = 0
  BY <1>1, <1>2, RecordingStays DEF Recording, tables
<1>5. Window'
  BY <1>1 DEF Window
<1> QED  BY <1>3, <1>4, <1>5 DEF Base

\* mpat_next_match moves the iterator inside the list.
LEMMA TakeNextBase ==
  ASSUME Base, TakeNext
  PROVE  Base'
<1>1. /\ pc = "found" /\ matches # <<>> /\ UNCHANGED <<tables, input, ptr, todo, failed, matches>>
      /\ cur_mr' = IF cur_mr < Len(matches) THEN cur_mr + 1 ELSE 0
      /\ pc' = IF cur_mr' = 0 THEN "spent" ELSE "found"
  BY DEF TakeNext
<1>2. Setting /\ Recording
  BY DEF Base
<1>3. Setting'
  BY <1>1, <1>2, SettingStays DEF Setting
<1>4. cur_mr' \in 0..Len(matches) /\ (pc' # "found" => cur_mr' = 0) /\ pc' \in {"found", "spent"}
  <2>1. Len(matches) \in Nat /\ cur_mr \in 0..Len(matches)
    BY <1>2 DEF Recording
  <2> QED  BY <1>1, <2>1
<1>5. NearlyKeywords'
  <2>1. keywords' = keywords /\ input' = input /\ matches' = matches /\ NearlyKeywords
    BY <1>1, <1>2 DEF Recording, tables
  <2>2. Nearly(keywords', input', matches')
    BY <2>1, NearlyIs
  <2> QED  BY <2>2, NearlyIs
<1>6. Recording'
  <2>1. Members(matches)' \subseteq 1..Len(input') /\ Abstract!Ascending(matches)' /\ matches' \in Seq(Nat)
    BY <1>1, <1>2 DEF Recording, Members, Abstract!Members, Abstract!Ascending
  <2> QED  BY <1>1, <1>4, <1>5, <2>1 DEF Recording
<1>7. Window'
  BY <1>4 DEF Window
<1> QED  BY <1>3, <1>6, <1>7 DEF Base

\* mpat_clear_matches empties the list.
LEMMA ClearMatchesBase ==
  ASSUME Base, ClearMatches
  PROVE  Base' /\ matches' = <<>>
<1>1. /\ pc \in {"found", "spent"} /\ ret' = 0 /\ input' = <<>> /\ pc' = "clear"
      /\ UNCHANGED <<tables, ptr, todo, failed>>
      /\ IF matches = <<>> THEN UNCHANGED <<matches, cur_mr>> ELSE matches' = <<>> /\ cur_mr' = 0
  BY DEF ClearMatches
<1>2. Setting /\ Recording
  BY DEF Base
<1>3. matches' = <<>> /\ cur_mr' = 0
  <2>1. matches = <<>> => cur_mr = 0
    BY <1>2 DEF Recording
  <2> QED  BY <1>1, <2>1
<1>4. /\ keywords' = keywords /\ shift' = shift /\ hash' = hash /\ m' = m /\ failed' = failed
  BY <1>1 DEF tables, m
<1>5. Setting'
  <2> HIDE DEF m
  <2> QED  BY <1>1, <1>2, <1>3, <1>4 DEF Setting
<1>6. Len(matches') = 0 /\ matches' \in Seq(Nat)
  BY <1>3
<1>7. NearlyKeywords' /\ Members(matches)' = {} /\ Abstract!Ascending(matches)'
  BY <1>6, NearlyIs DEF Nearly, Members, Abstract!Members, Abstract!Ascending
<1>8. Recording'
  BY <1>1, <1>3, <1>6, <1>7 DEF Recording
<1>9. Window'
  BY <1>1 DEF Window
<1> QED  BY <1>3, <1>5, <1>8, <1>9 DEF Base

\* A step of something else changes nothing.
LEMMA UnchangedBase ==
  ASSUME Base, UNCHANGED vars
  PROVE  Base'
<1>1. UNCHANGED <<keywords, shift, hash, input, ptr, todo, failed, matches, cur_mr, ret, pc>>
  BY DEF vars, tables
<1>2. Setting'
  BY <1>1 DEF Base, Setting, m
<1>3. Recording'
  BY <1>1, RecordingStays DEF Base, Recording
<1>4. Window'
  BY <1>1 DEF Base, Window, m, Done, Candidates, SuffixHash
<1> QED  BY <1>2, <1>3, <1>4 DEF Base

\* So every step does.
LEMMA NextBase ==
  ASSUME Base, [Next]_vars
  PROVE  Base'
<1>1. CASE \E t \in Texts : BeginSearch(t)
  BY <1>1, BeginBase
<1>2. CASE Slide
  BY <1>2, SlideBase
<1>3. CASE Stop
  BY <1>3, StopBase
<1>4. CASE OtherPrefix
  BY <1>4, OtherPrefixBase
<1>5. CASE Match
  BY <1>5, MatchBase
<1>6. CASE Fail
  BY <1>6, FailBase
<1>7. CASE Resume
  BY <1>7, ResumeBase
<1>8. CASE EndSearch
  BY <1>8, EndSearchBase
<1>9. CASE TakeNext
  BY <1>9, TakeNextBase
<1>10. CASE ClearMatches
  BY <1>10, ClearMatchesBase
<1>11. CASE Unused \/ UNCHANGED vars
  BY <1>11, UnchangedBase DEF Unused
<1> QED  BY <1>1, <1>2, <1>3, <1>4, <1>5, <1>6, <1>7, <1>8, <1>9, <1>10, <1>11 DEF Next, Searching

-----------------------------------------------------------------------------
(* Type correctness and what is recorded, for all keywords.                 *)

\* The parts of TypeOK follow from the tables and the bounds of a comparison.
LEMMA BaseTypes ==
  ASSUME Base
  PROVE  TypeOK
<1>1. Setting /\ Recording /\ Window
  BY DEF Base
<1>2. ASSUME NEW h \in DOMAIN shift PROVE shift[h] \in 0..(m - 2) /\ (shift[h] = 0 <=> h \in DOMAIN hash)
  <2>1. pc # "off"
    <3> SUFFICES ASSUME pc = "off" PROVE FALSE
      OBVIOUS
    <3>1. shift = <<>>
      BY <1>1 DEF Setting
    <3>2. DOMAIN <<>> = {}
      OBVIOUS
    <3> QED  BY <1>2, <3>1, <3>2
  <2> QED  BY <1>1, <1>2, <2>1, ShiftsAre
<1>3. ASSUME pc = "search" PROVE ptr \in 1..(Len(input) + m)
  <2>1. m \in Nat /\ m >= 3 /\ Len(input) \in Nat /\ ptr \in m..(Len(input) + m)
    BY <1>1, <1>3, Searched DEF Window
  <2> HIDE DEF m
  <2> QED  BY <2>1
<1>4. ASSUME pc = "compare" PROVE Begin >= 1 /\ ptr <= Len(input)
  BY <1>4, WindowIs
<1>5. ASSUME Candidate, SamePrefix PROVE Begin + Mismatch(Head(todo).pattern) - 2 < Len(input)
  BY <1>5, ComparisonIs
<1>6. pc \in {"off", "clear", "search", "compare", "found", "spent"} /\ failed \in BOOLEAN
  BY <1>1 DEF Setting
<1>7. cur_mr \in 0..Len(matches)
  BY <1>1 DEF Recording
<1> QED  BY <1>2, <1>3, <1>4, <1>5, <1>6, <1>7 DEF TypeOK

\* Base holds always.
THEOREM SpecBase == Spec => []Base
<1>1. Init => Base
  BY InitBase
<1>2. Base /\ [Next]_vars => Base'
  BY NextBase
<1> QED  BY <1>1, <1>2, PTL DEF Spec

\* mpat_search moves its window by 1 to m - 1 bytes, finds the candidates of a window
\* exactly where the shift is zero, and compares nothing behind the end-of-line symbol.
THEOREM TypesHold == Spec => []TypeOK
<1>1. Base => TypeOK
  BY BaseTypes
<1> QED  BY <1>1, SpecBase, PTL

\* Every place record_match stores begins with all but the last byte of a keyword.
THEOREM RecordsNearlyKeywords == Spec => []NearlyKeywords
<1>1. Base => NearlyKeywords
  BY DEF Base, Recording
<1> QED  BY <1>1, SpecBase, PTL

-----------------------------------------------------------------------------
(* No occurrence is lost, if no three keywords are alike.                   *)

\* Where a keyword occurs, its bytes are within the line and have its hashes.
LEMMA OccurrenceIs ==
  ASSUME Setting, pc \notin {"off", "clear"}, NEW a \in Occurrences
  PROVE  \E k \in 1..Len(keywords) :
           /\ OccursAt(keywords[k], a) /\ a \in 1..Len(input)
           /\ Len(keywords[k]) \in Nat /\ Len(keywords[k]) >= m /\ m \in Nat /\ m >= 3
           /\ a + Len(keywords[k]) - 1 < Len(input)
           /\ \A i \in 2..Len(keywords[k]) : SuffixHash(keywords[k], i) = SuffixHash(input, a + i - 1)
           /\ PrefixHash(keywords[k], 1) = PrefixHash(input, a)
<1>1. a \in 1..Len(input) /\ \E k \in 1..Len(keywords) : OccursAt(keywords[k], a)
  BY DEF Occurrences, Abstract!Occurrences, OccursAt
<1>2. PICK k \in 1..Len(keywords) : OccursAt(keywords[k], a)
  BY <1>1
<1>3. Len(keywords[k]) \in Nat /\ Len(keywords[k]) >= m /\ m \in Nat /\ m >= 3
  BY Searched
<1>4. /\ a + Len(keywords[k]) - 1 < Len(input)
      /\ \A i \in 2..Len(keywords[k]) : SuffixHash(keywords[k], i) = SuffixHash(input, a + i - 1)
      /\ PrefixHash(keywords[k], 1) = PrefixHash(input, a)
  BY <1>1, <1>2, OccurrenceHashes
<1> QED  BY <1>1, <1>2, <1>3, <1>4

\* The occurrences depend on the keywords and the line only.
LEMMA SameOccurrences ==
  ASSUME UNCHANGED <<keywords, input>>
  PROVE  Occurrences' = Occurrences
BY DEF Occurrences, Abstract!Occurrences, Abstract!OccursAt

\* The places recorded are those of the list.
LEMMA SameMembers ==
  ASSUME UNCHANGED matches
  PROVE  Members(matches)' = Members(matches)
BY DEF Members, Abstract!Members

\* A shift jumps over no occurrence: the pair of bytes at the end of the window would
\* be one of the keyword's and its distance from the end at least the shift.
LEMMA SlideKeeps ==
  ASSUME IInv, Slide
  PROVE  Behind' /\ Compared'
<1> DEFINE h == SuffixHash(input, ptr)
           s == get_shift(h)
<1>1. /\ pc = "search" /\ pc' = "search" /\ ptr' = ptr + s
      /\ UNCHANGED <<tables, input, matches>> /\ Setting
  BY DEF Slide, IInv, Base
<1>2. s \in 1..(m - 1)
  BY SlideBase DEF IInv
<1>3. UNCHANGED <<keywords, input>> /\ m' = m
  BY <1>1 DEF tables, m
<1>4. m \in Nat /\ m >= 3 /\ ptr \in Nat /\ Len(input) \in Nat
  <2>1. m \in Nat /\ m >= 3 /\ Len(input) \in Nat /\ ptr \in m..(Len(input) + m)
    BY <1>1, Searched DEF IInv, Base, Window
  <2> HIDE DEF m
  <2> QED  BY <2>1
<1>5. ASSUME NEW a \in Occurrences, a + m - 1 < ptr + s PROVE a \in Members(matches)
  <2>1. CASE a + m - 1 < ptr
    BY <1>1, <2>1 DEF IInv, Behind
  <2>2. CASE ~(a + m - 1 < ptr)
    <3>1. PICK k \in 1..Len(keywords) :
            /\ a \in 1..Len(input) /\ Len(keywords[k]) \in Nat /\ Len(keywords[k]) >= m
            /\ \A i \in 2..Len(keywords[k]) : SuffixHash(keywords[k], i) = SuffixHash(input, a + i - 1)
      BY <1>1, OccurrenceIs
    <3> DEFINE i == m - (a + m - 1 - ptr)
    <3>2. i \in 2..m /\ i \in 2..Len(keywords[k]) /\ a + i - 1 = ptr /\ m - i < s
      <4> DEFINE l == Len(keywords[k])
      <4>1. a \in Nat /\ l \in Nat /\ l >= m
        BY <3>1
      <4> HIDE DEF m, s, l
      <4>2. m - (a + m - 1 - ptr) \in 2..m /\ m - (a + m - 1 - ptr) \in 2..l
        BY <1>2, <1>4, <1>5, <2>2, <4>1
      <4>3. a + (m - (a + m - 1 - ptr)) - 1 = ptr /\ m - (m - (a + m - 1 - ptr)) < s
        BY <1>2, <1>4, <1>5, <2>2, <4>1
      <4> QED  BY <4>2, <4>3 DEF l
    <3> HIDE DEF i
    <3>3. SuffixHash(keywords[k], i) = h
      BY <3>1, <3>2
    <3>4. keywords \in KeywordLists /\ shift = ShiftTable(keywords) /\ m = MinLength(keywords)
      BY <1>1 DEF Setting, m
    <3>5. h \in DOMAIN shift /\ shift[h] <= m - i
      <4> HIDE DEF h
      <4>1. m >= 2
        BY <1>4
      <4> QED  BY <3>2, <3>3, <3>4, <4>1, ShiftTableIs
    <3>6. s = shift[h] /\ shift[h] \in 0..(m - 2)
      BY <1>1, <3>5, ShiftsAre DEF get_shift
    <3> HIDE DEF s, h, m
    <3> QED  BY <1>4, <3>2, <3>5, <3>6
  <2> QED  BY <2>1, <2>2
<1>6. Occurrences' = Occurrences /\ Members(matches)' = Members(matches)
  BY <1>1, <1>3, SameOccurrences, SameMembers
<1>7. Behind'
  <2> HIDE DEF s, m
  <2>1. \A a \in Occurrences' : a + m' - 1 < ptr' => a \in Members(matches)'
    BY <1>1, <1>3, <1>5, <1>6
  <2> QED  BY <1>1, <2>1 DEF Behind
<1> QED  BY <1>1, <1>7 DEF Compared

\* Before the first window no keyword can occur.
LEMMA BeginKeeps ==
  ASSUME IInv, NEW t \in Texts, BeginSearch(t)
  PROVE  Behind' /\ Compared'
<1>1. /\ pc = "clear" /\ input' = Append(t, EOL) /\ ptr' = m /\ pc' = "search" /\ m' = m
  BY DEF BeginSearch, tables, m
<1>2. m \in Nat
  BY <1>1, MinLengthIs DEF IInv, Base, Setting, m
<1>3. t \in Seq(0..127) /\ EOL \in Int
  BY KeywordAssumption
<1>4. Len(input') \in Nat
  BY <1>1, <1>3
<1>5. Occurrences' \subseteq 1..Len(input')
  BY DEF Occurrences, Abstract!Occurrences
<1>6. Behind'
  <2> HIDE DEF m
  <2>1. \A a \in Occurrences' : ~(a + m' - 1 < ptr')
    BY <1>1, <1>2, <1>4, <1>5
  <2> QED  BY <1>1, <2>1 DEF Behind
<1> QED  BY <1>1, <1>6 DEF Compared

\* When the window stops, all keywords of its bucket are candidates.
LEMMA StopKeeps ==
  ASSUME IInv, Stop
  PROVE  Behind' /\ Compared'
<1>1. pc = "search" /\ pc' = "compare" /\ failed' = FALSE
  BY DEF Stop
<1>2. Done' = 0 /\ input' = input /\ ptr' = ptr /\ keywords' = keywords /\ matches' = matches
  BY StopBase DEF IInv
<1>3. Occurrences' = Occurrences /\ Members(matches)' = Members(matches) /\ m' = m
  BY <1>2, SameOccurrences, SameMembers DEF m
<1>4. Behind'
  <2> HIDE DEF m
  <2>1. \A a \in Occurrences' : a + m' - 1 < ptr' => a \in Members(matches)'
    BY <1>1, <1>2, <1>3 DEF IInv, Behind
  <2> QED  BY <1>1, <2>1 DEF Behind
<1>5. Compared'
  BY <1>1, <1>2 DEF Compared
<1> QED  BY <1>4, <1>5

\* A candidate is done with: recorded, or it does not occur in the window.
LEMMA OneDoneKeeps ==
  ASSUME IInv, Candidate, todo' = Tail(todo), UNCHANGED <<tables, input, ptr, pc>>,
         Members(matches) \subseteq Members(matches)',
         OccursAt(Head(todo).pattern, Begin) => Begin \in Members(matches)',
         failed' => failed \/ SamePrefix
  PROVE  Behind' /\ Compared'
<1>1. pc = "compare" /\ pc' = "compare" /\ Done + 1 \in 1..Len(Candidates) /\ Head(todo) = Candidates[Done + 1]
  BY CandidateIs DEF IInv
<1>2. Candidates' = Candidates /\ Done' = Done + 1
  BY OneDone DEF IInv
<1>3. Done \in Nat
  BY <1>1, CandidatesOf DEF IInv
<1>4. keywords' = keywords /\ input' = input /\ ptr' = ptr /\ m' = m
  BY DEF tables, m
<1>5. Begin' = Begin /\ Occurrences' = Occurrences
  BY <1>4, SameOccurrences DEF Begin
<1>6. \A q \in 1..(Done + 1) : q \in 1..Done \/ q = Done + 1
  BY <1>3
<1>7. \A q \in 1..Done : q \in 1..(Done + 1)
  BY <1>3
<1>8. Done + 1 \in 1..(Done + 1)
  BY <1>3
<1>9. \A q \in 1..Done : OccursAt(Candidates[q].pattern, Begin) => Begin \in Members(matches)
  BY <1>1 DEF IInv, Compared
<1>10. failed => \E q \in 1..Done : Candidates[q].key = PrefixHash(input, Begin)
  BY <1>1 DEF IInv, Compared
<1>11. SamePrefix => Candidates[Done + 1].key = PrefixHash(input, Begin)
  BY <1>1 DEF SamePrefix
<1> DEFINE c == Candidates
           d == Done
           b == Begin
<1>12. ASSUME NEW q \in 1..(d + 1), OccursAt(c[q].pattern, b) PROVE b \in Members(matches)'
  BY <1>1, <1>6, <1>9, <1>12
<1>13. ASSUME failed' PROVE \E q \in 1..(d + 1) : c[q].key = PrefixHash(input, b)
  BY <1>7, <1>8, <1>10, <1>11, <1>13
<1> HIDE DEF c, d, b
<1>14. \A q : OccursAt(c[q].pattern, b)' => OccursAt(c'[q].pattern, b')
  BY DEF OccursAt, Abstract!OccursAt
<1>15. c' = c /\ d' = d + 1 /\ b' = b
  BY <1>2, <1>5 DEF c, d, b
<1>16. ASSUME NEW q \in 1..d', OccursAt(c[q].pattern, b)' PROVE b' \in Members(matches)'
  <2>1. OccursAt(c[q].pattern, b)
    BY <1>4, <1>15, <1>16 DEF OccursAt, Abstract!OccursAt
  <2> QED  BY <1>12, <1>15, <2>1
<1>17. failed' => \E q \in 1..d' : c'[q].key = PrefixHash(input, b)'
  <2>1. PrefixHash(input, b)' = PrefixHash(input, b)
    BY <1>4, <1>15 DEF PrefixHash
  <2> QED  BY <1>13, <1>15, <2>1
<1>18. Compared'
  BY <1>16, <1>17 DEF Compared, c, d, b
<1>19. Behind'
  <2>1. \A a \in Occurrences : a + m - 1 < ptr => a \in Members(matches)
    BY <1>1 DEF IInv, Behind
  <2> HIDE DEF m
  <2>2. \A a \in Occurrences' : a + m' - 1 < ptr' => a \in Members(matches)'
    BY <1>4, <1>5, <2>1
  <2> QED  BY <1>1, <2>2 DEF Behind
<1> QED  BY <1>18, <1>19

\* A keyword that occurs in the window has its prefix and agrees to its end.
LEMMA OccurrenceAgrees ==
  ASSUME Base, Candidate, OccursAt(Head(todo).pattern, Begin)
  PROVE  SamePrefix /\ Reached(Head(todo).pattern)
<1>1. Setting /\ pc = "compare"
  BY DEF Base, Candidate
<1>2. PICK k \in 1..Len(keywords) : /\ Head(todo).pattern = keywords[k]
                                   /\ Head(todo).key = PrefixHash(keywords[k], 1)
  BY CandidateIs
<1>3. Begin \in 1..Len(input) /\ OccursAt(keywords[k], Begin)
  BY <1>1, <1>2, WindowIs
<1>4. SamePrefix
  BY <1>1, <1>2, <1>3, OccurrenceHashes DEF SamePrefix
<1> DEFINE p == keywords[k]
           x == Mismatch(p)
<1>5. x \in 2..(Len(p) + 1) /\ (x <= Len(p) => p[x] # input[Begin + x - 1])
  BY <1>1, MismatchIs
<1>6. Len(p) \in Nat /\ \A i \in 1..Len(p) : input[Begin + i - 1] = p[i]
  BY <1>1, <1>3, Searched DEF OccursAt, Abstract!OccursAt
<1> HIDE DEF x
<1>7. ~(x <= Len(p))
  <2> SUFFICES ASSUME x <= Len(p) PROVE FALSE
    OBVIOUS
  <2>1. x \in 1..Len(p)
    BY <1>5, <1>6
  <2> QED  BY <1>5, <1>6, <2>1
<1>8. x >= Len(p)
  BY <1>5, <1>6, <1>7
<1> QED  BY <1>2, <1>4, <1>8 DEF Reached, x

\* A keyword whose first two bytes differ does not occur at the window.
LEMMA OtherPrefixKeeps ==
  ASSUME IInv, OtherPrefix
  PROVE  Behind' /\ Compared'
<1>1. /\ Candidate /\ ~SamePrefix /\ todo' = Tail(todo)
      /\ UNCHANGED <<tables, input, ptr, failed, matches, cur_mr, ret, pc>>
  BY DEF OtherPrefix
<1>2. ~OccursAt(Head(todo).pattern, Begin)
  BY <1>1, OccurrenceAgrees DEF IInv
<1>3. Members(matches)' = Members(matches)
  BY <1>1, SameMembers
<1> QED  BY <1>1, <1>2, <1>3, OneDoneKeeps

\* A keyword that matches is recorded.
LEMMA MatchKeeps ==
  ASSUME IInv, Match
  PROVE  Behind' /\ Compared'
<1>1. /\ Candidate /\ SamePrefix /\ todo' = Tail(todo)
      /\ UNCHANGED <<tables, input, ptr, failed, cur_mr, ret, pc>>
  BY DEF Match
<1>2. Members(matches)' = Members(matches) \cup {Begin}
  BY MatchBase DEF IInv
<1>3. Members(matches) \subseteq Members(matches)' /\ Begin \in Members(matches)'
  BY <1>2
<1> QED  BY <1>1, <1>3, OneDoneKeeps

\* When the comparisons of a window end with the second failure, no other candidate
\* has its prefix.
LEMMA FailKeeps ==
  ASSUME AtMostTwoAlike, IInv, Fail
  PROVE  Behind' /\ Compared'
<1>1. /\ Candidate /\ SamePrefix /\ ~Reached(Head(todo).pattern)
      /\ UNCHANGED <<tables, input, ptr, matches, cur_mr, ret, pc>> /\ Base /\ pc = "compare"
  BY DEF Fail, IInv, Candidate
<1>2. ~OccursAt(Head(todo).pattern, Begin)
  BY <1>1, OccurrenceAgrees
<1>3. Members(matches)' = Members(matches)
  BY <1>1, SameMembers
<1>4. CASE todo' = Tail(todo)
  BY <1>1, <1>2, <1>3, <1>4, OneDoneKeeps
<1>5. CASE failed /\ Done' = Len(Candidates)
  <2>1. Candidates' = Candidates
    BY FailBase DEF IInv
  <2> DEFINE c == Candidates
             d == Done
             b == Begin
  <2>2. /\ d \in 0..Len(c) /\ d + 1 \in 1..Len(c) /\ c[d + 1] = Head(todo)
        /\ c[d + 1].key = PrefixHash(input, b)
    BY <1>1, CandidateIs, CandidatesOf DEF SamePrefix
  <2>3. PICK r \in 1..d : c[r].key = PrefixHash(input, b)
    BY <1>1, <1>5 DEF IInv, Compared
  <2>4. \A q \in 1..d : OccursAt(c[q].pattern, b) => b \in Members(matches)
    BY <1>1 DEF IInv, Compared
  <2>5. \A u, v, w \in 1..Len(c) : u < v /\ v < w => ~(c[u].key = c[v].key /\ c[u].key = c[w].key)
    BY <1>1, CandidatesOf
  <2>6. \A q \in 1..Len(c) : \E k \in 1..Len(keywords) : c[q] = Entry(keywords, k)
    BY <1>1, CandidatesOf
  <2>7. b \in 1..Len(input) /\ Setting
    BY <1>1, WindowIs DEF Base
  <2>8. ~OccursAt(c[d + 1].pattern, b)
    BY <1>2, <2>2
  <2>9. Len(c) \in Nat /\ d \in Nat
    BY <1>1, <2>2, CandidatesOf
  <2> HIDE DEF c, d, b
  <2>10. ASSUME NEW q \in 1..Len(c), q > d + 1 PROVE ~OccursAt(c[q].pattern, b)
    <3> SUFFICES ASSUME OccursAt(c[q].pattern, b) PROVE FALSE
      OBVIOUS
    <3>1. PICK k \in 1..Len(keywords) : c[q] = Entry(keywords, k)
      BY <2>6
    <3>2. c[q].pattern = keywords[k] /\ c[q].key = PrefixHash(keywords[k], 1)
      BY <3>1 DEF Entry
    <3>3. PrefixHash(keywords[k], 1) = PrefixHash(input, b)
      BY <1>1, <2>7, <3>2, OccurrenceHashes
    <3>4. c[r].key = c[d + 1].key /\ c[r].key = c[q].key
      BY <2>2, <2>3, <3>2, <3>3
    <3>5. r \in 1..Len(c) /\ r < d + 1 /\ d + 1 < q
      BY <2>2, <2>9, <2>10
    <3> QED  BY <2>2, <2>5, <3>4, <3>5
  <2>11. ASSUME NEW q \in 1..Len(c), OccursAt(c[q].pattern, b) PROVE b \in Members(matches)
    <3>1. q \in 1..d \/ q = d + 1 \/ q > d + 1
      BY <2>9
    <3> QED  BY <2>4, <2>8, <2>10, <2>11, <3>1
  <2>12. keywords' = keywords /\ input' = input /\ ptr' = ptr /\ m' = m
    BY <1>1 DEF tables, m
  <2>13. c' = c /\ d' = Len(c) /\ b' = b
    BY <1>5, <2>1, <2>12 DEF c, d, b, Begin
  <2>14. ASSUME NEW q \in 1..d', OccursAt(c[q].pattern, b)' PROVE b' \in Members(matches)'
    <3>1. OccursAt(c[q].pattern, b)
      BY <2>12, <2>13, <2>14 DEF OccursAt, Abstract!OccursAt
    <3> QED  BY <1>3, <2>11, <2>13, <3>1
  <2>15. \E q \in 1..d' : c'[q].key = PrefixHash(input, b)'
    <3>1. PrefixHash(input, b)' = PrefixHash(input, b)
      BY <2>12, <2>13 DEF PrefixHash
    <3>2. d + 1 \in 1..d'
      BY <2>2, <2>13
    <3> QED  BY <2>2, <2>13, <3>1, <3>2
  <2>16. Compared'
    BY <2>14, <2>15 DEF Compared, c, d, b
  <2>17. Behind'
    <3>1. \A a \in Occurrences : a + m - 1 < ptr => a \in Members(matches)
      BY <1>1 DEF IInv, Behind
    <3>2. Occurrences' = Occurrences
      BY <2>12, SameOccurrences
    <3> HIDE DEF m
    <3>3. \A a \in Occurrences' : a + m' - 1 < ptr' => a \in Members(matches)'
      BY <1>3, <2>12, <3>1, <3>2
    <3> QED  BY <1>1, <3>3 DEF Behind
  <2> QED  BY <2>16, <2>17
<1> QED  BY <1>4, <1>5, FailBase DEF IInv

\* With all its candidates done with, an occurrence in the window is recorded.
LEMMA ResumeKeeps ==
  ASSUME IInv, Resume
  PROVE  Behind' /\ Compared'
<1>1. pc = "compare" /\ pc' = "search" /\ Base /\ Setting /\ UNCHANGED <<tables, input, matches>>
  BY DEF Resume, IInv, Base
<1>2. Done = Len(Candidates) /\ ptr' = ptr + 1
  BY ResumeBase DEF IInv
<1>3. keywords' = keywords /\ input' = input /\ m' = m
  BY <1>1 DEF tables, m
<1>4. Occurrences' = Occurrences /\ Members(matches)' = Members(matches)
  BY <1>1, <1>3, SameOccurrences, SameMembers
<1>5. m \in Nat /\ ptr \in Nat /\ Begin + m - 1 = ptr /\ Begin \in Nat
  BY <1>1, WindowIs, Searched
<1>6. ASSUME NEW a \in Occurrences, a + m - 1 < ptr + 1 PROVE a \in Members(matches)
  <2>1. PICK k \in 1..Len(keywords) :
          /\ OccursAt(keywords[k], a) /\ a \in 1..Len(input)
          /\ Len(keywords[k]) \in Nat /\ Len(keywords[k]) >= m /\ m >= 3
          /\ \A i \in 2..Len(keywords[k]) : SuffixHash(keywords[k], i) = SuffixHash(input, a + i - 1)
    BY <1>1, OccurrenceIs
  <2>2. CASE a + m - 1 < ptr
    BY <1>1, <2>2 DEF IInv, Behind
  <2>3. CASE ~(a + m - 1 < ptr)
    <3>1. a + m - 1 = ptr /\ a = Begin /\ m \in 2..Len(keywords[k])
      <4> DEFINE b == Begin
                 l == Len(keywords[k])
      <4>1. a \in Nat /\ b \in Nat /\ b + m - 1 = ptr /\ l \in Nat /\ l >= m
        BY <1>5, <2>1
      <4> HIDE DEF m, b, l
      <4>2. a + m - 1 = ptr /\ a = b /\ m \in 2..l
        BY <1>5, <1>6, <2>1, <2>3, <4>1
      <4> QED  BY <4>2 DEF b, l
    <3>2. SuffixHash(keywords[k], m) = SuffixHash(input, ptr)
      BY <2>1, <3>1
    <3>3. PICK q \in 1..Len(Candidates) : Candidates[q] = Entry(keywords, k)
      BY <1>1, <3>2, CandidatesOf
    <3>4. Candidates[q].pattern = keywords[k]
      BY <3>3 DEF Entry
    <3> QED  BY <1>1, <1>2, <2>1, <3>1, <3>3, <3>4 DEF IInv, Compared
  <2> QED  BY <2>2, <2>3
<1>7. Behind'
  <2> HIDE DEF m
  <2>1. \A a \in Occurrences' : a + m' - 1 < ptr' => a \in Members(matches)'
    BY <1>2, <1>3, <1>4, <1>6
  <2> QED  BY <1>1, <2>1 DEF Behind
<1> QED  BY <1>1, <1>7 DEF Compared

\* At the end of a search every occurrence lies behind the window, or the line is
\* too short for any.
LEMMA EndSearchKeeps ==
  ASSUME IInv, EndSearch
  PROVE  Behind' /\ Compared' /\ Occurrences \subseteq Members(matches)
<1>1. pc = "search" /\ pc' = "found" /\ ~InText /\ Setting /\ UNCHANGED <<tables, input, matches>>
  BY DEF EndSearch, IInv, Base
<1>2. Occurrences' = Occurrences /\ Members(matches)' = Members(matches)
  BY <1>1, SameOccurrences, SameMembers DEF tables
<1>3. ptr \in Int /\ Len(input) \in Nat
  <2>1. m \in Nat /\ Len(input) \in Nat /\ ptr \in m..(Len(input) + m)
    BY <1>1, Searched DEF IInv, Base, Window
  <2> HIDE DEF m
  <2> QED  BY <2>1
<1>4. ASSUME NEW a \in Occurrences PROVE a \in Members(matches)
  <2>1. PICK k \in 1..Len(keywords) :
          /\ a \in 1..Len(input) /\ Len(keywords[k]) \in Nat /\ Len(keywords[k]) >= m /\ m \in Nat
          /\ a + Len(keywords[k]) - 1 < Len(input)
    BY <1>1, OccurrenceIs
  <2>2. Len(input) - 1 >= m /\ a + m - 1 < Len(input)
    <3> DEFINE l == Len(keywords[k])
    <3>1. a \in Nat /\ a >= 1 /\ l \in Nat /\ l >= m /\ a + l - 1 < Len(input)
      BY <1>3, <2>1
    <3> HIDE DEF m, l
    <3> QED  BY <1>3, <2>1, <3>1
  <2>3. ~(ptr <= Len(input))
    BY <1>1, <2>2 DEF InText
  <2>4. a + m - 1 < ptr
    <3>1. a \in Nat
      BY <2>1
    <3> HIDE DEF m
    <3> QED  BY <1>3, <2>1, <2>2, <2>3, <3>1
  <2> QED  BY <1>1, <2>4 DEF IInv, Behind
<1>5. Behind'
  BY <1>1, <1>2, <1>4 DEF Behind
<1> QED  BY <1>1, <1>4, <1>5 DEF Compared

\* Handing out the matches changes none of them.
LEMMA TakeNextKeeps ==
  ASSUME IInv, TakeNext
  PROVE  Behind' /\ Compared'
<1>1. pc = "found" /\ UNCHANGED <<keywords, input, matches>> /\ pc' = IF cur_mr' = 0 THEN "spent" ELSE "found"
  BY DEF TakeNext, tables
<1>2. pc' \in {"found", "spent"}
  BY <1>1
<1>3. Occurrences' = Occurrences /\ Members(matches)' = Members(matches)
  BY <1>1, SameOccurrences, SameMembers
<1>4. Behind'
  BY <1>1, <1>2, <1>3 DEF IInv, Behind
<1>5. Compared'
  BY <1>2 DEF Compared
<1> QED  BY <1>4, <1>5

\* A step of something else changes nothing.
LEMMA UnchangedKeeps ==
  ASSUME IInv, UNCHANGED vars
  PROVE  Behind' /\ Compared'
<1>1. UNCHANGED <<keywords, shift, hash, input, ptr, todo, failed, matches, cur_mr, ret, pc>>
  BY DEF vars, tables
<1>2. Behind'
  BY <1>1 DEF IInv, Behind, Occurrences, Abstract!Occurrences, Abstract!OccursAt, Members, Abstract!Members, m
<1>3. Compared'
  BY <1>1 DEF IInv, Compared, OccursAt, Abstract!OccursAt, Members, Abstract!Members, Done, Candidates,
              Begin, m, SuffixHash, PrefixHash
<1> QED  BY <1>2, <1>3

\* The invariant is inductive.
LEMMA NextIInv ==
  ASSUME AtMostTwoAlike, IInv, [Next]_vars
  PROVE  IInv'
<1>1. Base'
  BY NextBase DEF IInv
<1>2. Behind' /\ Compared'
  <2>1. CASE \E t \in Texts : BeginSearch(t)
    BY <2>1, BeginKeeps
  <2>2. CASE Slide
    BY <2>2, SlideKeeps
  <2>3. CASE Stop
    BY <2>3, StopKeeps
  <2>4. CASE OtherPrefix
    BY <2>4, OtherPrefixKeeps
  <2>5. CASE Match
    BY <2>5, MatchKeeps
  <2>6. CASE Fail
    BY <2>6, FailKeeps
  <2>7. CASE Resume
    BY <2>7, ResumeKeeps
  <2>8. CASE EndSearch
    BY <2>8, EndSearchKeeps
  <2>9. CASE TakeNext
    BY <2>9, TakeNextKeeps
  <2>10. CASE ClearMatches
    BY <2>10 DEF ClearMatches, Behind, Compared
  <2>11. CASE Unused \/ UNCHANGED vars
    BY <2>11, UnchangedKeeps DEF Unused
  <2> QED  BY <2>1, <2>2, <2>3, <2>4, <2>5, <2>6, <2>7, <2>8, <2>9, <2>10, <2>11 DEF Next, Searching
<1> QED  BY <1>1, <1>2 DEF IInv

\* The invariant of the search, for keywords of which no three are alike.
THEOREM SpecIInv ==
  ASSUME AtMostTwoAlike
  PROVE  Spec => []IInv
<1>1. Init => IInv
  <2> SUFFICES ASSUME Init PROVE IInv
    OBVIOUS
  <2>1. Base
    BY InitBase
  <2>2. pc \in {"off", "clear"}
    BY DEF Init
  <2> QED  BY <2>1, <2>2 DEF IInv, Behind, Compared
<1>2. IInv /\ [Next]_vars => IInv'
  BY NextIInv
<1> QED  BY <1>1, <1>2, PTL DEF Spec

-----------------------------------------------------------------------------
(* The search implements the abstract one.                                  *)

\* The matches not yet taken are those behind cur_mr.
LEMMA UntakenIs ==
  ASSUME Recording, pc = "found"
  PROVE  /\ Len(Untaken) = Len(matches) - cur_mr
         /\ Untaken # <<>> <=> cur_mr < Len(matches)
         /\ Untaken # <<>> => /\ Head(Untaken) = matches[cur_mr + 1]
                              /\ Tail(Untaken) = SubSeq(matches, (cur_mr + 1) + 1, Len(matches))
<1>1. matches \in Seq(Nat) /\ cur_mr \in 0..Len(matches)
  BY DEF Recording
<1>2. Untaken = SubSeq(matches, cur_mr + 1, Len(matches))
  BY DEF Untaken
<1> QED  BY <1>1, <1>2, RestIs

\* Init, and the steps that are one of the abstract search.
LEMMA InitAbstract ==
  ASSUME Init
  PROVE  Abstract!Init
<1>1. keywords \in KeywordLists /\ pc \in {"off", "clear"} /\ input = <<>> /\ ret = 0
  BY DEF Init
<1> QED  BY <1>1 DEF Abstract!Init, Phase, Untaken

\* A line is handed to the search.
LEMMA BeginAbstract ==
  ASSUME IInv, NEW t \in Texts, BeginSearch(t)
  PROVE  Abstract!Begin(t)
<1>1. pc = "clear" /\ pc' = "search" /\ input' = Append(t, EOL) /\ UNCHANGED <<keywords, ret>>
  BY DEF BeginSearch, tables
<1>2. ret = 0
  BY <1>1 DEF IInv, Base, Recording
<1> QED  BY <1>1, <1>2 DEF Abstract!Begin, Phase, Untaken

\* When mpat_search returns, the list holds every occurrence.
LEMMA EndSearchAbstract ==
  ASSUME IInv, EndSearch
  PROVE  Abstract!Finish
<1>1. pc = "search" /\ pc' = "found" /\ UNCHANGED <<keywords, input, matches, cur_mr, ret>>
  BY DEF EndSearch, tables
<1>2. Occurrences \subseteq Members(matches) /\ cur_mr = 0
  BY EndSearchKeeps, EndSearchBase DEF IInv
<1>3. matches \in Seq(Nat) /\ Abstract!Ascending(matches) /\ Members(matches) \subseteq 1..Len(input)
  BY DEF IInv, Base, Recording
<1>4. Untaken' = matches
  <2>1. Untaken' = SubSeq(matches, 1, Len(matches))
    BY <1>1, <1>2 DEF Untaken
  <2> QED  BY <1>3, <2>1, SubSeqFull
<1>5. /\ Abstract!Ascending(Untaken') /\ Abstract!Occurrences(input) \subseteq Abstract!Members(Untaken')
      /\ Abstract!Members(Untaken') \subseteq 1..Len(input)
  BY <1>2, <1>3, <1>4 DEF Occurrences, Members
<1>6. Phase = "search" /\ Phase' = "found"
  BY <1>1 DEF Phase
<1> QED  BY <1>1, <1>5, <1>6 DEF Abstract!Finish

\* mpat_next_match hands out the records in their order, then NULL.
LEMMA TakeNextAbstract ==
  ASSUME IInv, TakeNext
  PROVE  Abstract!TakeNext
<1>1. /\ pc = "found" /\ UNCHANGED <<keywords, input, matches>>
      /\ cur_mr' = IF cur_mr < Len(matches) THEN cur_mr + 1 ELSE 0
      /\ ret' = IF cur_mr' = 0 THEN 0 ELSE matches[cur_mr']
      /\ pc' = IF cur_mr' = 0 THEN "spent" ELSE "found"
  BY DEF TakeNext, tables
<1>2. Recording
  BY DEF IInv, Base
<1>3. cur_mr \in Nat /\ Phase = "found"
  BY <1>1, <1>2 DEF Recording, Phase
<1>4. CASE cur_mr < Len(matches)
  <2>1. cur_mr' = cur_mr + 1 /\ cur_mr' # 0
    BY <1>1, <1>3, <1>4
  <2>2. ret' = matches[cur_mr + 1] /\ pc' = "found"
    BY <1>1, <2>1
  <2>3. Untaken # <<>> /\ Head(Untaken) = matches[cur_mr + 1]
        /\ Tail(Untaken) = SubSeq(matches, (cur_mr + 1) + 1, Len(matches))
    BY <1>1, <1>2, <1>4, UntakenIs
  <2>4. Untaken' = SubSeq(matches, (cur_mr + 1) + 1, Len(matches))
    BY <1>1, <2>1, <2>2 DEF Untaken
  <2>5. Phase' = "found"
    BY <2>2 DEF Phase
  <2> QED  BY <1>1, <1>3, <2>2, <2>3, <2>4, <2>5 DEF Abstract!TakeNext
<1>5. CASE ~(cur_mr < Len(matches))
  <2>1. cur_mr' = 0 /\ ret' = 0 /\ pc' = "spent"
    BY <1>1, <1>5
  <2>2. Untaken = <<>> /\ Untaken' = <<>> /\ Phase' = "spent"
    BY <1>1, <1>2, <1>5, <2>1, UntakenIs DEF Untaken, Phase
  <2> QED  BY <1>1, <1>3, <2>1, <2>2 DEF Abstract!TakeNext
<1> QED  BY <1>4, <1>5

\* mpat_clear_matches forgets the records.
LEMMA ClearMatchesAbstract ==
  ASSUME IInv, ClearMatches
  PROVE  Abstract!ClearMatches
<1>1. pc \in {"found", "spent"} /\ pc' = "clear" /\ ret' = 0 /\ input' = <<>> /\ UNCHANGED keywords
  BY DEF ClearMatches, tables
<1> QED  BY <1>1 DEF Abstract!ClearMatches, Phase, Untaken

\* The steps inside mpat_search are not seen outside.
LEMMA InnerAbstract ==
  ASSUME Slide \/ Stop \/ OtherPrefix \/ Match \/ Fail \/ Resume
  PROVE  UNCHANGED Abstract!vars
<1>1. pc \in {"search", "compare"} /\ pc' \in {"search", "compare"} /\ UNCHANGED <<keywords, input, ret>>
  BY DEF Slide, Stop, OtherPrefix, Match, Fail, Resume, Candidate, tables
<1>2. Phase = "search" /\ Phase' = "search" /\ Untaken = <<>> /\ Untaken' = <<>>
  BY <1>1 DEF Phase, Untaken
<1> QED  BY <1>1, <1>2 DEF Abstract!vars

\* Every step is one of the abstract search, or is not seen.
LEMMA NextAbstract ==
  ASSUME IInv, [Next]_vars
  PROVE  [Abstract!Next]_(Abstract!vars)
<1>1. CASE \E t \in Texts : BeginSearch(t)
  BY <1>1, BeginAbstract DEF Abstract!Next
<1>2. CASE Slide \/ Stop \/ OtherPrefix \/ Match \/ Fail \/ Resume
  BY <1>2, InnerAbstract
<1>3. CASE EndSearch
  BY <1>3, EndSearchAbstract DEF Abstract!Next
<1>4. CASE TakeNext
  BY <1>4, TakeNextAbstract DEF Abstract!Next
<1>5. CASE ClearMatches
  BY <1>5, ClearMatchesAbstract DEF Abstract!Next
<1>6. CASE Unused \/ UNCHANGED vars
  BY <1>6 DEF Unused, vars, tables, Abstract!vars, Phase, Untaken
<1> QED  BY <1>1, <1>2, <1>3, <1>4, <1>5, <1>6 DEF Next, Searching

\* mpat_search, mpat_next_match and mpat_clear_matches are a search that hands out every
\* occurrence of every keyword in ascending order, and only places in the line.
THEOREM SearchFindsAllKeywords ==
  ASSUME AtMostTwoAlike
  PROVE  Spec => FindsAllKeywords
<1>1. Init => Abstract!Init
  BY InitAbstract
<1>2. IInv /\ [Next]_vars => [Abstract!Next]_(Abstract!vars)
  BY NextAbstract
<1> QED  BY <1>1, <1>2, SpecIInv, PTL DEF Spec, FindsAllKeywords, Abstract!Spec

=============================================================================
