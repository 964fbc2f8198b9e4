----------------------------- MODULE ListProofs -----------------------------
(***************************************************************************)
(* The pointers of klist.h implement the sequences of ListSeq, for any     *)
(* heads and any finite set of nodes: the rings of list_head first, then   *)
(* the buckets of hlist_head.  Each function is one of four changes of a   *)
(* list: a node comes in at some place, a node leaves, one takes the place *)
(* of another, or (in a ring) a list goes in front of another.             *)
(***************************************************************************)
EXTENDS Lists, FiniteSetTheorems, SequenceTheorems, WellFoundedInduction, TLAPS

\* The lists L, by head: no node is at two places.
Apart(L) ==
    \A g, h \in DOMAIN L : \A i \in DOMAIN L[g], j \in DOMAIN L[h] :
        L[g][i] = L[h][j] => g = h /\ i = j

Members(S, L) == {n \in S : \E h \in DOMAIN L : \E i \in DOMAIN L[h] : L[h][i] = n}

\* L are sequences over S, by head in H, and N is what is in them.
Among(H, S, L, N) == L \in [H -> Seq(S)] /\ Apart(L) /\ N = Members(S, L)

Pointers == Struct \cup {Poison}
LinkType == [{"next", "prev"} -> [Pointers -> Pointers]]

\* The pointers m hold the sequences L, whose nodes are N.
Holds(m, L, N) ==
    /\ m \in LinkType
    /\ Among(Heads, Nodes, L, N)
    /\ \A h \in Heads : Shows(m, h, L[h])

ListInv == Holds(rings, sequences, listed)

-----------------------------------------------------------------------------
(* Lists of nodes *)

\* t is s with n behind its first k elements.
InsertedAs(S, s, k, n, t) ==
    /\ t \in Seq(S) /\ Len(t) = Len(s) + 1
    /\ \A j \in 1 .. Len(s) + 1 :
          t[j] = IF j <= k THEN s[j] ELSE IF j = k + 1 THEN n ELSE s[j - 1]

\* t is s without its k-th element.
DeletedAs(S, s, k, t) ==
    /\ t \in Seq(S) /\ Len(t) = Len(s) - 1
    /\ \A j \in 1 .. Len(s) - 1 : t[j] = IF j < k THEN s[j] ELSE s[j + 1]

LEMMA LeastNumber ==
  ASSUME NEW S \in SUBSET Nat, S # {}
  PROVE  \E i \in S : \A j \in S : i <= j
<1> DEFINE R == OpToRel(<, Nat)
<1>1. \A i, j \in Nat : i < j => <<i, j>> \in R
  BY DEF OpToRel
<1>2. IsWellFoundedOn(R, Nat)
  BY NatLessThanWellFounded
<1> HIDE DEF R
<1>3. PICK i \in S : \A j \in S : ~(<<j, i>> \in R)
  BY <1>2, WFMin
<1>4. ASSUME NEW j \in S PROVE i <= j
  <2>1. ~(j < i)
    BY <1>1, <1>3
  <2> QED
    BY <2>1
<1> QED
  BY <1>4

LEMMA DeletedIs ==
  ASSUME NEW S, NEW s \in Seq(S), NEW k \in DOMAIN s
  PROVE  DeletedAs(S, s, k, RemoveAt(s, k))
<1> DEFINE a == SubSeq(s, 1, k - 1)
           b == SubSeq(s, k + 1, Len(s))
           r == a \o b
<1>1. Len(s) \in Nat /\ DOMAIN s = 1 .. Len(s) /\ k \in Nat /\ k \in 1 .. Len(s)
  BY LenProperties
<1>2. /\ a \in Seq(S) /\ Len(a) = k - 1 /\ \A j \in 1 .. k - 1 : a[j] = s[j]
      /\ b \in Seq(S) /\ Len(b) = Len(s) - k
      /\ \A j \in 1 .. Len(s) - k : b[j] = s[k + j]
  BY <1>1, SubSeqProperties
<1>3. RemoveAt(s, k) = r
  BY DEF RemoveAt
<1> HIDE DEF a, b
<1>4. /\ r \in Seq(S) /\ Len(r) = Len(a) + Len(b)
      /\ \A j \in 1 .. Len(a) + Len(b) :
            r[j] = IF j <= Len(a) THEN a[j] ELSE b[j - Len(a)]
  BY <1>2, ConcatProperties
<1> HIDE DEF r
<1>5. Len(a) + Len(b) = Len(s) - 1
  BY <1>1, <1>2
<1>6. ASSUME NEW j \in 1 .. Len(s) - 1
      PROVE  r[j] = IF j < k THEN s[j] ELSE s[j + 1]
  <2>1. r[j] = IF j <= k - 1 THEN a[j] ELSE b[j - (k - 1)]
    BY <1>2, <1>4, <1>5
  <2>2. CASE j < k
    BY <1>1, <1>2, <2>1, <2>2
  <2>3. CASE ~(j < k)
    <3>1. j - (k - 1) \in 1 .. Len(s) - k /\ k + (j - (k - 1)) = j + 1
      BY <1>1, <2>3
    <3>2. r[j] = b[j - (k - 1)]
      BY <1>1, <2>1, <2>3
    <3> QED
      BY <1>2, <2>3, <3>1, <3>2
  <2> QED
    BY <2>2, <2>3
<1> QED
  BY <1>3, <1>4, <1>5, <1>6 DEF DeletedAs

LEMMA EndsAre ==
  ASSUME NEW S, NEW s \in Seq(S), NEW n \in S
  PROVE  InsertedAs(S, s, 0, n, <<n>> \o s) /\ InsertedAs(S, s, Len(s), n, Append(s, n))
<1>1. Len(s) \in Nat
  BY LenProperties
<1>2. InsertedAs(S, s, 0, n, <<n>> \o s)
  <2> DEFINE u == <<n>>
             t == u \o s
  <2>1. u \in Seq(S) /\ Len(u) = 1 /\ u[1] = n
    OBVIOUS
  <2> HIDE DEF u
  <2>2. /\ t \in Seq(S) /\ Len(t) = Len(u) + Len(s)
        /\ \A j \in 1 .. Len(u) + Len(s) : t[j] = IF j <= Len(u) THEN u[j] ELSE s[j - Len(u)]
    BY <2>1, ConcatProperties
  <2> HIDE DEF t
  <2>3. \A j \in 1 .. Len(s) + 1 :
           t[j] = IF j <= 0 THEN s[j] ELSE IF j = 0 + 1 THEN n ELSE s[j - 1]
    BY <1>1, <2>1, <2>2
  <2>4. InsertedAs(S, s, 0, n, t)
    BY <1>1, <2>1, <2>2, <2>3 DEF InsertedAs
  <2> QED
    BY <2>4 DEF t, u
<1>3. InsertedAs(S, s, Len(s), n, Append(s, n))
  <2> DEFINE t == Append(s, n)
  <2>1. /\ t \in Seq(S) /\ Len(t) = Len(s) + 1 /\ t[Len(s) + 1] = n
        /\ \A j \in 1 .. Len(s) : t[j] = s[j]
    BY AppendProperties
  <2> HIDE DEF t
  <2>2. ASSUME NEW j \in 1 .. Len(s) + 1
        PROVE  t[j] = IF j <= Len(s) THEN s[j] ELSE IF j = Len(s) + 1 THEN n ELSE s[j - 1]
    BY <1>1, <2>1
  <2>3. InsertedAs(S, s, Len(s), n, t)
    BY <2>1, <2>2 DEF InsertedAs
  <2> QED
    BY <2>3 DEF t
<1> QED
  BY <1>2, <1>3

LEMMA ReplacedAs ==
  ASSUME NEW S, NEW s \in Seq(S), NEW k \in DOMAIN s, NEW n \in S
  PROVE  InsertedAs(S, RemoveAt(s, k), k - 1, n, [s EXCEPT ![k] = n])
<1> DEFINE t == RemoveAt(s, k)
           u == [s EXCEPT ![k] = n]
<1>1. Len(s) \in Nat /\ k \in 1 .. Len(s) /\ k \in Nat
  BY LenProperties
<1>2. /\ u \in Seq(S) /\ Len(u) = Len(s)
      /\ \A j \in 1 .. Len(s) : u[j] = IF j = k THEN n ELSE s[j]
  BY ExceptSeq
<1>3. DeletedAs(S, s, k, t)
  BY DeletedIs
<1>4. /\ Len(t) = Len(s) - 1 /\ (k - 1) + 1 = k
      /\ \A j \in 1 .. Len(s) - 1 : t[j] = IF j < k THEN s[j] ELSE s[j + 1]
  BY <1>1, <1>3 DEF DeletedAs
<1> HIDE DEF t, u
<1>5. ASSUME NEW j \in 1 .. Len(s)
      PROVE  u[j] = IF j <= k - 1 THEN t[j] ELSE IF j = (k - 1) + 1 THEN n ELSE t[j - 1]
  <2>1. CASE j < k
    <3>1. j \in 1 .. Len(s) - 1 /\ j <= k - 1 /\ j # k
      BY <1>1, <2>1
    <3> QED
      BY <1>2, <1>4, <2>1, <3>1
  <2>2. CASE j = k
    BY <1>1, <1>2, <1>4, <2>2
  <2>3. CASE j > k
    <3>1. /\ j - 1 \in 1 .. Len(s) - 1 /\ ~(j - 1 < k) /\ ~(j <= k - 1) /\ j # k
          /\ (j - 1) + 1 = j
      BY <1>1, <2>3
    <3>2. t[j - 1] = s[j]
      BY <1>4, <3>1
    <3> QED
      BY <1>2, <1>4, <3>1, <3>2
  <2> QED
    BY <1>1, <2>1, <2>2, <2>3
<1>6. Len(u) = Len(t) + 1 /\ Len(t) + 1 = Len(s)
  BY <1>1, <1>2, <1>4
<1>7. InsertedAs(S, t, k - 1, n, u)
  BY <1>2, <1>5, <1>6 DEF InsertedAs
<1> QED
  BY <1>7 DEF t, u

\* InsertAt(s, k + 1, n) puts n behind the first k.
LEMMA InsertedIs ==
  ASSUME NEW S, NEW s \in Seq(S), NEW k \in 0 .. Len(s), NEW n \in S
  PROVE  InsertedAs(S, s, k, n, InsertAt(s, k + 1, n))
<1> DEFINE a == SubSeq(s, 1, k)
           b == SubSeq(s, k + 1, Len(s))
           c == <<n>>
           d == a \o c
           t == d \o b
<1>1. Len(s) \in Nat /\ k \in Nat /\ k <= Len(s) /\ (k + 1) - 1 = k
  BY LenProperties
<1>2. InsertAt(s, k + 1, n) = t
  BY <1>1 DEF InsertAt
<1>3. /\ a \in Seq(S) /\ Len(a) = k /\ \A j \in 1 .. k : a[j] = s[j]
      /\ b \in Seq(S) /\ Len(b) = Len(s) - k
      /\ \A j \in 1 .. Len(s) - k : b[j] = s[k + j]
  BY <1>1, SubSeqProperties
<1>4. c \in Seq(S) /\ Len(c) = 1 /\ c[1] = n
  OBVIOUS
<1> HIDE DEF a, b, c
<1>5. /\ d \in Seq(S) /\ Len(d) = Len(a) + Len(c)
      /\ \A j \in 1 .. Len(a) + Len(c) : d[j] = IF j <= Len(a) THEN a[j] ELSE c[j - Len(a)]
  BY <1>3, <1>4, ConcatProperties
<1> HIDE DEF d
<1>6. /\ t \in Seq(S) /\ Len(t) = Len(d) + Len(b)
      /\ \A j \in 1 .. Len(d) + Len(b) : t[j] = IF j <= Len(d) THEN d[j] ELSE b[j - Len(d)]
  <2>1. d \in Seq(S) /\ b \in Seq(S)
    BY <1>3, <1>5
  <2> QED
    BY <2>1, ConcatProperties
<1> HIDE DEF t
<1>7. Len(d) = k + 1 /\ Len(d) + Len(b) = Len(s) + 1
  BY <1>1, <1>3, <1>4, <1>5
<1>8. ASSUME NEW j \in 1 .. Len(s) + 1
      PROVE  t[j] = IF j <= k THEN s[j] ELSE IF j = k + 1 THEN n ELSE s[j - 1]
  <2>1. t[j] = IF j <= k + 1 THEN d[j] ELSE b[j - (k + 1)]
    BY <1>6, <1>7
  <2>2. CASE j <= k
    <3>1. j \in 1 .. k /\ j <= k + 1 /\ j \in 1 .. Len(a) + Len(c) /\ j <= Len(a)
      BY <1>1, <1>3, <1>4, <2>2
    <3> QED
      BY <1>3, <1>5, <2>1, <2>2, <3>1
  <2>3. CASE j = k + 1
    <3>1. /\ j <= k + 1 /\ j \in 1 .. Len(a) + Len(c) /\ ~(j <= Len(a)) /\ j - Len(a) = 1
          /\ ~(j <= k)
      BY <1>1, <1>3, <1>4, <2>3
    <3> QED
      BY <1>4, <1>5, <2>1, <2>3, <3>1
  <2>4. CASE j > k + 1
    <3>1. /\ j - (k + 1) \in 1 .. Len(s) - k /\ k + (j - (k + 1)) = j - 1
          /\ ~(j <= k) /\ j # k + 1 /\ ~(j <= k + 1)
      BY <1>1, <2>4
    <3> QED
      BY <1>3, <2>1, <3>1
  <2> QED
    BY <1>1, <2>2, <2>3, <2>4
<1>9. InsertedAs(S, s, k, n, t)
  BY <1>6, <1>7, <1>8 DEF InsertedAs
<1> QED
  BY <1>2, <1>9

\* A sequence without repetition is no longer than there are elements.
ShortSeqs(S) == UNION {[1 .. k -> S] : k \in 0 .. Cardinality(S)}

LEMMA IsShort ==
  ASSUME NEW S, IsFiniteSet(S), NEW s \in Seq(S), \A i, j \in DOMAIN s : s[i] = s[j] => i = j
  PROVE  s \in ShortSeqs(S)
<1>1. Len(s) \in Nat /\ DOMAIN s = 1 .. Len(s) /\ s \in [1 .. Len(s) -> S]
  BY LenProperties
<1>2. s \in Injection(1 .. Len(s), S)
  BY <1>1 DEF Injection, IsInjective
<1>3. Cardinality(1 .. Len(s)) = Len(s) /\ Cardinality(S) \in Nat
  <2>1. Cardinality(1 .. Len(s)) = IF 1 > Len(s) THEN 0 ELSE Len(s) - 1 + 1
    BY <1>1, FS_Interval
  <2>2. (IF 1 > Len(s) THEN 0 ELSE Len(s) - 1 + 1) = Len(s)
    BY <1>1
  <2>3. Cardinality(S) \in Nat
    BY FS_CardinalityType
  <2> QED
    BY <2>1, <2>2, <2>3
<1>4. Len(s) <= Cardinality(S)
  BY <1>2, <1>3, FS_Injection
<1>5. Len(s) \in 0 .. Cardinality(S)
  BY <1>1, <1>3, <1>4
<1> QED
  BY <1>1, <1>5 DEF ShortSeqs

LEMMA ShortIsSeq ==
  ASSUME NEW S, IsFiniteSet(S), NEW s \in ShortSeqs(S)
  PROVE  s \in Seq(S)
<1>1. PICK k \in 0 .. Cardinality(S) : s \in [1 .. k -> S]
  BY DEF ShortSeqs
<1>2. k \in Nat
  BY FS_CardinalityType
<1> QED
  BY <1>1, <1>2

LEMMA ListsAre ==
  ASSUME NEW H, NEW S, NEW L \in [H -> Seq(S)]
  PROVE  /\ DOMAIN L = H
         /\ \A h \in H : Len(L[h]) \in Nat /\ DOMAIN L[h] = 1 .. Len(L[h])
         /\ \A h \in H : \A i \in DOMAIN L[h] : L[h][i] \in S /\ L[h][i] \in Members(S, L)
<1>1. \A h \in H : /\ Len(L[h]) \in Nat /\ DOMAIN L[h] = 1 .. Len(L[h])
                   /\ \A i \in DOMAIN L[h] : L[h][i] \in S
  BY LenProperties
<1> QED
  BY <1>1 DEF Members

\* One list of many is another sequence.
LEMMA InsertedApart ==
  ASSUME NEW H, NEW S, NEW L, NEW N, Among(H, S, L, N), NEW h \in H,
         NEW k \in 0 .. Len(L[h]), NEW n \in S, n \notin N,
         NEW t, InsertedAs(S, L[h], k, n, t)
  PROVE  Among(H, S, [L EXCEPT ![h] = t], N \cup {n})
<1> DEFINE M == [L EXCEPT ![h] = t]
<1>1. L \in [H -> Seq(S)] /\ Apart(L) /\ N = Members(S, L)
  BY DEF Among
<1> DEFINE s == L[h]
<1>2. /\ DOMAIN L = H /\ Len(s) \in Nat /\ DOMAIN s = 1 .. Len(s) /\ k \in Nat
      /\ \A g \in H : \A i \in DOMAIN L[g] : L[g][i] \in S /\ L[g][i] # n
  BY <1>1, ListsAre
<1>3. t \in Seq(S) /\ DOMAIN t = 1 .. Len(s) + 1
  BY LenProperties DEF InsertedAs
<1>4. /\ M \in [H -> Seq(S)] /\ DOMAIN M = H /\ M[h] = t
      /\ \A g \in H : g # h => M[g] = L[g]
  BY <1>1, <1>3
<1>5. \A j \in DOMAIN t : t[j] = IF j <= k THEN s[j] ELSE IF j = k + 1 THEN n ELSE s[j - 1]
  BY <1>3 DEF InsertedAs
<1> HIDE DEF s, M
<1>6. ASSUME NEW j \in DOMAIN t
      PROVE  \/ t[j] = n /\ j = k + 1
             \/ \E i \in DOMAIN s : t[j] = s[i] /\ j = IF i <= k THEN i ELSE i + 1
  <2>1. CASE j <= k
    <3>1. j \in DOMAIN s /\ t[j] = s[j]
      BY <1>2, <1>3, <1>5, <2>1 DEF s
    <3> QED
      BY <2>1, <3>1
  <2>2. CASE j = k + 1
    BY <1>2, <1>5, <2>2
  <2>3. CASE j > k + 1
    <3>1. j - 1 \in DOMAIN s /\ ~(j - 1 <= k) /\ j = (j - 1) + 1 /\ ~(j <= k) /\ j # k + 1
      BY <1>2, <1>3, <2>3 DEF s
    <3>2. t[j] = s[j - 1]
      BY <1>5, <3>1
    <3> QED
      BY <3>1, <3>2
  <2> QED
    BY <1>2, <1>3, <2>1, <2>2, <2>3
<1>7. ASSUME NEW i \in DOMAIN s PROVE \E j \in DOMAIN t : t[j] = s[i]
  <2>1. CASE i <= k
    <3>1. i \in DOMAIN t
      BY <1>2, <1>3
    <3> QED
      BY <1>5, <2>1, <3>1
  <2>2. CASE ~(i <= k)
    <3>1. i + 1 \in DOMAIN t /\ ~(i + 1 <= k) /\ i + 1 # k + 1 /\ (i + 1) - 1 = i
      BY <1>2, <1>3, <2>2
    <3> QED
      BY <1>5, <3>1
  <2> QED
    BY <2>1, <2>2
<1>8. k + 1 \in DOMAIN t /\ t[k + 1] = n
  <2>1. k + 1 \in DOMAIN t /\ ~(k + 1 <= k)
    BY <1>2, <1>3 DEF s
  <2> QED
    BY <1>5, <2>1
<1>9. Apart(M)
  <2> SUFFICES ASSUME NEW f \in H, NEW g \in H, NEW i \in DOMAIN M[f], NEW j \in DOMAIN M[g],
                      M[f][i] = M[g][j]
               PROVE  f = g /\ i = j
    BY <1>4 DEF Apart
  <2>1. /\ \A x, y \in H : \A u \in DOMAIN L[x], v \in DOMAIN L[y] :
              L[x][u] = L[y][v] => x = y /\ u = v
        /\ \A y \in H : y # h => \A u \in DOMAIN s, v \in DOMAIN L[y] : s[u] # L[y][v]
        /\ \A u, v \in DOMAIN s : s[u] = s[v] => u = v
        /\ \A u \in DOMAIN s : s[u] # n
    BY <1>1, <1>2 DEF Apart, s
  <2>2. CASE f # h /\ g # h
    BY <1>4, <2>1, <2>2
  <2>3. CASE f = h /\ g # h
    BY <1>2, <1>4, <1>6, <2>1, <2>3
  <2>4. CASE f # h /\ g = h
    BY <1>2, <1>4, <1>6, <2>1, <2>4
  <2>5. CASE f = h /\ g = h
    BY <1>4, <1>6, <2>1, <2>5
  <2> QED
    BY <2>2, <2>3, <2>4, <2>5
<1>10. Members(S, L) \cup {n} = Members(S, M)
  <2>1. ASSUME NEW x \in S, NEW g \in H, NEW i \in DOMAIN L[g], L[g][i] = x
        PROVE  \E f \in H : \E j \in DOMAIN M[f] : M[f][j] = x
    <3>1. CASE g = h
      BY <1>4, <1>7, <2>1, <3>1 DEF s
    <3>2. CASE g # h
      BY <1>4, <2>1, <3>2
    <3> QED
      BY <3>1, <3>2
  <2>2. ASSUME NEW x \in S, NEW g \in H, NEW i \in DOMAIN M[g], M[g][i] = x, x # n
        PROVE  \E f \in H : \E j \in DOMAIN L[f] : L[f][j] = x
    <3>1. CASE g = h
      BY <1>4, <1>6, <2>2, <3>1 DEF s
    <3>2. CASE g # h
      BY <1>4, <2>2, <3>2
    <3> QED
      BY <3>1, <3>2
  <2>3. \E j \in DOMAIN M[h] : M[h][j] = n
    BY <1>4, <1>8
  <2>4. /\ \A x \in S : x \in Members(S, L) <=> \E f \in H : \E j \in DOMAIN L[f] : L[f][j] = x
        /\ \A x \in S : x \in Members(S, M) <=> \E f \in H : \E j \in DOMAIN M[f] : M[f][j] = x
        /\ Members(S, L) \subseteq S /\ Members(S, M) \subseteq S
    BY <1>2, <1>4 DEF Members
  <2> QED
    BY <2>1, <2>2, <2>3, <2>4
<1> QED
  BY <1>1, <1>4, <1>9, <1>10 DEF Among, M

LEMMA DeletedApart ==
  ASSUME NEW H, NEW S, NEW L, NEW N, Among(H, S, L, N), NEW h \in H,
         NEW k \in DOMAIN L[h], NEW t, DeletedAs(S, L[h], k, t)
  PROVE  Among(H, S, [L EXCEPT ![h] = t], N \ {L[h][k]})
<1> DEFINE M == [L EXCEPT ![h] = t]
<1>1. L \in [H -> Seq(S)] /\ Apart(L) /\ N = Members(S, L)
  BY DEF Among
<1> DEFINE s == L[h]
           n == s[k]
<1>2. /\ DOMAIN L = H /\ Len(s) \in Nat /\ DOMAIN s = 1 .. Len(s)
      /\ k \in 1 .. Len(s) /\ k \in Nat
  BY <1>1, ListsAre
<1>3. t \in Seq(S) /\ DOMAIN t = 1 .. Len(s) - 1
  BY LenProperties DEF DeletedAs
<1>4. /\ M \in [H -> Seq(S)] /\ DOMAIN M = H /\ M[h] = t
      /\ \A g \in H : g # h => M[g] = L[g]
  BY <1>1, <1>3
<1>5. \A j \in DOMAIN t : t[j] = IF j < k THEN s[j] ELSE s[j + 1]
  BY <1>3 DEF DeletedAs
<1>6. /\ \A x, y \in H : \A u \in DOMAIN L[x], v \in DOMAIN L[y] :
            L[x][u] = L[y][v] => x = y /\ u = v
      /\ \A y \in H : y # h => \A u \in DOMAIN s, v \in DOMAIN L[y] : s[u] # L[y][v]
      /\ \A u, v \in DOMAIN s : s[u] = s[v] => u = v
  BY <1>1, <1>2 DEF Apart
<1> HIDE DEF s, M
<1>7. ASSUME NEW j \in DOMAIN t
      PROVE  \E i \in DOMAIN s : t[j] = s[i] /\ i # k /\ i = IF j < k THEN j ELSE j + 1
  <2>1. CASE j < k
    <3>1. j \in DOMAIN s /\ j # k
      BY <1>2, <1>3, <2>1
    <3> QED
      BY <1>5, <2>1, <3>1
  <2>2. CASE ~(j < k)
    <3>1. j + 1 \in DOMAIN s /\ j + 1 # k
      BY <1>2, <1>3, <2>2
    <3> QED
      BY <1>5, <2>2, <3>1
  <2> QED
    BY <2>1, <2>2
<1>8. ASSUME NEW i \in DOMAIN s, i # k PROVE \E j \in DOMAIN t : t[j] = s[i]
  <2>1. CASE i < k
    <3>1. i \in DOMAIN t
      BY <1>2, <1>3, <2>1
    <3> QED
      BY <1>5, <2>1, <3>1
  <2>2. CASE ~(i < k)
    <3>1. i - 1 \in DOMAIN t /\ ~(i - 1 < k) /\ (i - 1) + 1 = i
      BY <1>2, <1>3, <1>8, <2>2
    <3> QED
      BY <1>5, <3>1
  <2> QED
    BY <2>1, <2>2
<1>9. Apart(M)
  <2> SUFFICES ASSUME NEW f \in H, NEW g \in H, NEW i \in DOMAIN M[f], NEW j \in DOMAIN M[g],
                      M[f][i] = M[g][j]
               PROVE  f = g /\ i = j
    BY <1>4 DEF Apart
  <2>1. CASE f # h /\ g # h
    BY <1>4, <1>6, <2>1
  <2>2. CASE f = h /\ g # h
    BY <1>4, <1>6, <1>7, <2>2
  <2>3. CASE f # h /\ g = h
    BY <1>4, <1>6, <1>7, <2>3
  <2>4. CASE f = h /\ g = h
    <3>1. PICK u \in DOMAIN s : t[i] = s[u] /\ u = IF i < k THEN i ELSE i + 1
      BY <1>4, <1>7, <2>4
    <3>2. PICK v \in DOMAIN s : t[j] = s[v] /\ v = IF j < k THEN j ELSE j + 1
      BY <1>4, <1>7, <2>4
    <3>3. u = v
      BY <1>4, <1>6, <2>4, <3>1, <3>2
    <3>4. i \in Nat /\ j \in Nat
      BY <1>3, <1>4, <2>4
    <3> QED
      BY <1>2, <2>4, <3>1, <3>2, <3>3, <3>4
  <2> QED
    BY <2>1, <2>2, <2>3, <2>4
<1>10. Members(S, L) \ {n} = Members(S, M)
  <2>1. \A g \in H : \A i \in DOMAIN L[g] : L[g][i] = n => g = h /\ i = k
    BY <1>2, <1>6 DEF s
  <2>2. ASSUME NEW x \in S, NEW g \in H, NEW i \in DOMAIN L[g], L[g][i] = x, x # n
        PROVE  \E f \in H : \E j \in DOMAIN M[f] : M[f][j] = x
    <3>1. CASE g = h
      <4>1. i \in DOMAIN s /\ i # k /\ s[i] = x
        BY <2>2, <3>1 DEF s
      <4> QED
        BY <1>4, <1>8, <4>1
    <3>2. CASE g # h
      BY <1>4, <2>2, <3>2
    <3> QED
      BY <3>1, <3>2
  <2>3. ASSUME NEW x \in S, NEW g \in H, NEW i \in DOMAIN M[g], M[g][i] = x
        PROVE  x # n /\ \E f \in H : \E j \in DOMAIN L[f] : L[f][j] = x
    <3>1. CASE g = h
      <4>1. PICK u \in DOMAIN s : t[i] = s[u] /\ u # k
        BY <1>4, <1>7, <2>3, <3>1
      <4>2. s[u] = x /\ x # n
        BY <1>2, <1>4, <1>6, <2>3, <3>1, <4>1
      <4> QED
        BY <4>2 DEF s
    <3>2. CASE g # h
      <4>1. i \in DOMAIN L[g] /\ L[g][i] = x
        BY <1>4, <2>3, <3>2
      <4>2. x # n
        BY <2>1, <3>2, <4>1
      <4> QED
        BY <4>1, <4>2
    <3> QED
      BY <3>1, <3>2
  <2> HIDE DEF n
  <2> QED
    BY <1>2, <1>4, <2>2, <2>3 DEF Members
<1> QED
  BY <1>1, <1>4, <1>9, <1>10 DEF Among, M, s

-----------------------------------------------------------------------------
(* Reading a list *)

\* What is around a list.
LEMMA AroundIs ==
  ASSUME NEW h \in Heads, NEW s \in Seq(Nodes)
  PROVE  /\ Len(s) \in Nat /\ DOMAIN s = 1 .. Len(s)
         /\ Around(h, s, 0) = h /\ Around(h, s, Len(s) + 1) = h
         /\ \A i \in 1 .. Len(s) :
               Around(h, s, i) = s[i] /\ s[i] \in Nodes /\ s[i] # h
         /\ \A i \in 0 .. Len(s) + 1 : Around(h, s, i) \in Struct
<1>1. Len(s) \in Nat /\ DOMAIN s = 1 .. Len(s) /\ \A i \in 1 .. Len(s) : s[i] \in Nodes
  BY LenProperties
<1>2. Around(h, s, 0) = h /\ Around(h, s, Len(s) + 1) = h
  BY <1>1 DEF Around
<1>3. \A i \in 1 .. Len(s) : Around(h, s, i) = s[i] /\ s[i] # h
  BY <1>1, KListAssumption DEF Around
<1>4. \A i \in 0 .. Len(s) + 1 : Around(h, s, i) \in Struct
  BY <1>1 DEF Around, Struct
<1> QED
  BY <1>1, <1>2, <1>3, <1>4

\* Two sequences that one list shows are equal.
LEMMA ShownOnce ==
  ASSUME NEW m, NEW h \in Heads, NEW s \in Seq(Nodes), NEW t \in Seq(Nodes),
         Shows(m, h, s), Shows(m, h, t)
  PROVE  s = t
<1> DEFINE bad == {i \in Nat : /\ i <= Len(s) /\ i <= Len(t)
                               /\ Around(h, s, i) # Around(h, t, i)}
<1>1. Len(s) \in Nat /\ Len(t) \in Nat
  BY LenProperties
<1>2. bad = {}
  <2> SUFFICES ASSUME bad # {} PROVE FALSE
    OBVIOUS
  <2>1. PICK i \in bad : \A j \in bad : i <= j
    BY LeastNumber
  <2>2. i \in Nat /\ i <= Len(s) /\ i <= Len(t) /\ Around(h, s, i) # Around(h, t, i)
    OBVIOUS
  <2>3. i # 0
    BY <2>2, AroundIs
  <2>4. i - 1 \in Nat /\ i - 1 \in 0 .. Len(s) /\ i - 1 \in 0 .. Len(t) /\ (i - 1) + 1 = i
    BY <1>1, <2>2, <2>3
  <2>5. i - 1 \notin bad
    BY <2>1, <2>2
  <2> HIDE DEF bad
  <2>6. Around(h, s, i - 1) = Around(h, t, i - 1)
    BY <1>1, <2>2, <2>4, <2>5 DEF bad
  <2>7. /\ m.next[Around(h, s, i - 1)] = Around(h, s, (i - 1) + 1)
        /\ m.next[Around(h, t, i - 1)] = Around(h, t, (i - 1) + 1)
    BY <2>4 DEF Shows
  <2> QED
    BY <2>2, <2>4, <2>6, <2>7
<1>3. \A i \in 0 .. Len(s) : i <= Len(t) => Around(h, s, i) = Around(h, t, i)
  BY <1>1, <1>2
<1> HIDE DEF bad
<1>4. ASSUME NEW u \in Seq(Nodes), NEW v \in Seq(Nodes), Shows(m, h, u), Shows(m, h, v),
             \A i \in 0 .. Len(u) : i <= Len(v) => Around(h, u, i) = Around(h, v, i)
      PROVE  ~(Len(u) < Len(v))
  <2> SUFFICES ASSUME Len(u) < Len(v) PROVE FALSE
    OBVIOUS
  <2>1. Len(u) \in Nat /\ Len(v) \in Nat
    BY LenProperties
  <2>2. Len(u) \in 0 .. Len(u) /\ Len(u) \in 0 .. Len(v) /\ Len(u) + 1 \in 1 .. Len(v)
    BY <2>1
  <2>3. /\ m.next[Around(h, u, Len(u))] = h
        /\ m.next[Around(h, v, Len(u))] = Around(h, v, Len(u) + 1)
    <3>1. /\ m.next[Around(h, u, Len(u))] = Around(h, u, Len(u) + 1)
          /\ m.next[Around(h, v, Len(u))] = Around(h, v, Len(u) + 1)
      BY <1>4, <2>2 DEF Shows
    <3> QED
      BY <3>1, AroundIs
  <2>4. Around(h, u, Len(u)) = Around(h, v, Len(u))
    BY <1>4, <2>1, <2>2
  <2> QED
    BY <2>2, <2>3, <2>4, AroundIs
<1>5. Len(s) = Len(t)
  <2>1. ~(Len(s) < Len(t))
    BY <1>3, <1>4
  <2>2. \A i \in 0 .. Len(t) : i <= Len(s) => Around(h, t, i) = Around(h, s, i)
    BY <1>1, <1>3
  <2>3. ~(Len(t) < Len(s))
    BY <1>4, <2>2
  <2> QED
    BY <1>1, <2>1, <2>3
<1>6. \A i \in 1 .. Len(s) : s[i] = t[i]
  BY <1>1, <1>3, <1>5, AroundIs
<1> QED
  BY <1>5, <1>6, SeqEqual

\* Reading the pointers gives the sequences they hold.
LEMMA ReadIs ==
  ASSUME NEW m, NEW L, NEW N, Holds(m, L, N)
  PROVE  Read(m) = L
<1>1. ASSUME NEW h \in Heads
      PROVE  Read(m)[h] = L[h]
  <2>1. L[h] \in Seq(Nodes) /\ Shows(m, h, L[h])
    BY DEF Holds, Among
  <2>2. NoRepeats(L[h])
    BY DEF Holds, Apart, NoRepeats, Among
  <2>3. L[h] \in NodeSeqs
    BY <2>1, <2>2, IsShort, KListAssumption DEF NodeSeqs, ShortSeqs, NoRepeats
  <2>4. \A s \in NodeSeqs : Shows(m, h, s) => s = L[h]
    <3>1. \A s \in NodeSeqs : s \in Seq(Nodes)
      BY ShortIsSeq, KListAssumption DEF NodeSeqs, ShortSeqs
    <3> QED
      BY <2>1, <3>1, ShownOnce
  <2>5. (CHOOSE s \in NodeSeqs : Shows(m, h, s)) = L[h]
    BY <2>1, <2>3, <2>4
  <2> QED
    BY <2>1, <2>3, <2>5 DEF Read
<1> QED
  BY <1>1 DEF Read, Holds, Among
-----------------------------------------------------------------------------
(* Places of a list *)

\* No pointer target comes twice on the way around, and lists do not meet.
LEMMA AroundApart ==
  ASSUME NEW m, NEW L, NEW N, Holds(m, L, N), NEW h \in Heads
  PROVE  /\ \A i, j \in 0 .. Len(L[h]) :
               Around(h, L[h], i) = Around(h, L[h], j) => i = j
         /\ \A i, j \in 1 .. Len(L[h]) + 1 :
               Around(h, L[h], i) = Around(h, L[h], j) => i = j
         /\ \A g \in Heads : g # h =>
               \A i \in 0 .. Len(L[g]) + 1, j \in 0 .. Len(L[h]) + 1 :
                  Around(g, L[g], i) # Around(h, L[h], j)
         /\ \A n \in Nodes \ N : \A i \in 0 .. Len(L[h]) + 1 : Around(h, L[h], i) # n
<1> DEFINE s == L[h]
<1>1. s \in Seq(Nodes) /\ \A g \in Heads : L[g] \in Seq(Nodes)
  BY DEF Holds, Among
<1>2. /\ Len(s) \in Nat /\ DOMAIN s = 1 .. Len(s)
      /\ Around(h, s, 0) = h /\ Around(h, s, Len(s) + 1) = h
      /\ \A i \in 1 .. Len(s) : Around(h, s, i) = s[i] /\ s[i] \in Nodes /\ s[i] # h
  BY <1>1, AroundIs
<1>3. \A i, j \in 1 .. Len(s) : s[i] = s[j] => i = j
  BY <1>2 DEF Holds, Apart, Among
<1>4. \A n \in Nodes \ N : n # h /\ \A i \in 1 .. Len(s) : s[i] # n
  <2>1. N = Members(Nodes, L)
    BY DEF Holds, Among
  <2> QED
    BY <1>1, <1>2, <2>1, KListAssumption DEF Holds, Members, Among
<1>5. ASSUME NEW g \in Heads, g # h,
             NEW i \in 0 .. Len(L[g]) + 1, NEW j \in 0 .. Len(s) + 1
      PROVE  Around(g, L[g], i) # Around(h, s, j)
  <2>1. /\ Len(L[g]) \in Nat /\ DOMAIN L[g] = 1 .. Len(L[g])
        /\ Around(g, L[g], 0) = g /\ Around(g, L[g], Len(L[g]) + 1) = g
        /\ \A k \in 1 .. Len(L[g]) : Around(g, L[g], k) = L[g][k] /\ L[g][k] \in Nodes
    BY <1>1, AroundIs
  <2>2. i = 0 \/ i = Len(L[g]) + 1 \/ i \in 1 .. Len(L[g])
    BY <2>1
  <2>3. j = 0 \/ j = Len(s) + 1 \/ j \in 1 .. Len(s)
    BY <1>2
  <2>4. CASE i \in 1 .. Len(L[g]) /\ j \in 1 .. Len(s)
    BY <1>2, <1>5, <2>1, <2>4 DEF Holds, Apart, Among
  <2>5. \A x \in Nodes : x # g /\ x # h
    BY KListAssumption
  <2> QED
    BY <1>2, <1>5, <2>1, <2>2, <2>3, <2>4, <2>5
<1>6. ASSUME NEW i \in 0 .. Len(s), NEW j \in 0 .. Len(s), Around(h, s, i) = Around(h, s, j)
      PROVE  i = j
  BY <1>2, <1>3, <1>6
<1>7. ASSUME NEW i \in 1 .. Len(s) + 1, NEW j \in 1 .. Len(s) + 1,
             Around(h, s, i) = Around(h, s, j)
      PROVE  i = j
  BY <1>2, <1>3, <1>7
<1>8. \A n \in Nodes \ N : \A i \in 0 .. Len(s) + 1 : Around(h, s, i) # n
  BY <1>2, <1>4
<1> QED
  BY <1>5, <1>6, <1>7, <1>8

\* A list none of whose pointers changes.
LEMMA Untouched ==
  ASSUME NEW m, NEW k, NEW g \in Heads, NEW s \in Seq(Nodes), Shows(m, g, s),
         \A i \in 0 .. Len(s) + 1 :
            /\ k.next[Around(g, s, i)] = m.next[Around(g, s, i)]
            /\ k.prev[Around(g, s, i)] = m.prev[Around(g, s, i)]
  PROVE  Shows(k, g, s)
<1>1. Len(s) \in Nat
  BY LenProperties
<1>2. \A i \in 0 .. Len(s) : i \in 0 .. Len(s) + 1 /\ i + 1 \in 0 .. Len(s) + 1
  BY <1>1
<1> QED
  BY <1>2 DEF Shows

LEMMA LinkIs ==
  ASSUME NEW m \in LinkType, NEW n \in Pointers, NEW b \in Pointers, NEW a \in Pointers,
         n # a, n # b
  PROVE  /\ Link(m, n, b, a) \in LinkType
         /\ \A x \in Pointers :
               /\ Link(m, n, b, a).next[x] = IF x = b THEN n ELSE IF x = n THEN a ELSE m.next[x]
               /\ Link(m, n, b, a).prev[x] = IF x = a THEN n ELSE IF x = n THEN b ELSE m.prev[x]
BY DEF Link, LinkType

LEMMA UnlinkIs ==
  ASSUME NEW m \in LinkType, NEW b \in Pointers, NEW a \in Pointers
  PROVE  /\ Unlink(m, b, a) \in LinkType
         /\ \A x \in Pointers :
               /\ Unlink(m, b, a).next[x] = IF x = b THEN a ELSE m.next[x]
               /\ Unlink(m, b, a).prev[x] = IF x = a THEN b ELSE m.prev[x]
BY DEF Unlink, LinkType

-----------------------------------------------------------------------------
(* A node comes in *)

LEMMA LinkedIn ==
  ASSUME NEW m, NEW L, NEW N, Holds(m, L, N), NEW n \in Nodes, n \notin N,
         NEW h \in Heads, NEW k \in 0 .. Len(L[h]), NEW t, InsertedAs(Nodes, L[h], k, n, t)
  PROVE  Holds(Link(m, n, Around(h, L[h], k), Around(h, L[h], k + 1)),
               [L EXCEPT ![h] = t], N \cup {n})
<1> DEFINE s == L[h]
           b == Around(h, s, k)
           a == Around(h, s, k + 1)
           q == Link(m, n, b, a)
           M == [L EXCEPT ![h] = t]
<1>1. s \in Seq(Nodes) /\ (\A g \in Heads : L[g] \in Seq(Nodes)) /\ t \in Seq(Nodes)
  BY DEF Holds, InsertedAs, Among
<1>2. Len(s) \in Nat /\ DOMAIN s = 1 .. Len(s) /\ DOMAIN t = 1 .. Len(s) + 1 /\ k \in Nat
  BY <1>1, LenProperties DEF InsertedAs
<1>3. /\ \A i \in 0 .. Len(s) + 1 : Around(h, s, i) \in Pointers /\ Around(h, s, i) # n
      /\ b \in Pointers /\ a \in Pointers /\ n \in Pointers /\ n # a /\ n # b
  <2>1. \A i \in 0 .. Len(s) + 1 : Around(h, s, i) \in Pointers /\ Around(h, s, i) # n
    BY <1>1, AroundIs, AroundApart DEF Pointers
  <2>2. k \in 0 .. Len(s) + 1 /\ k + 1 \in 0 .. Len(s) + 1
    BY <1>2
  <2>3. n \in Pointers
    BY DEF Pointers, Struct
  <2> QED
    BY <2>1, <2>2, <2>3
<1>4. /\ q \in LinkType
      /\ \A x \in Pointers :
            /\ q.next[x] = IF x = b THEN n ELSE IF x = n THEN a ELSE m.next[x]
            /\ q.prev[x] = IF x = a THEN n ELSE IF x = n THEN b ELSE m.prev[x]
  BY <1>3, LinkIs DEF Holds, Among
<1>5. /\ \A i, j \in 0 .. Len(s) : Around(h, s, i) = Around(h, s, j) => i = j
      /\ \A i, j \in 1 .. Len(s) + 1 : Around(h, s, i) = Around(h, s, j) => i = j
  BY AroundApart
<1>6. \A i \in 0 .. Len(s) : /\ m.next[Around(h, s, i)] = Around(h, s, i + 1)
                             /\ m.prev[Around(h, s, i + 1)] = Around(h, s, i)
  BY DEF Holds, Shows, Among

\* The way around the new list.
<1>7. \A i \in 0 .. Len(s) + 2 :
         Around(h, t, i) = IF i <= k THEN Around(h, s, i)
                           ELSE IF i = k + 1 THEN n ELSE Around(h, s, i - 1)
  <2> SUFFICES ASSUME NEW i \in 0 .. Len(s) + 2
               PROVE  Around(h, t, i) = IF i <= k THEN Around(h, s, i)
                                        ELSE IF i = k + 1 THEN n ELSE Around(h, s, i - 1)
    OBVIOUS
  <2>1. CASE i = 0
    BY <1>1, <1>2, <2>1, AroundIs
  <2>2. CASE i = Len(s) + 2
    <3>1. Around(h, t, i) = h
      BY <1>2, <2>2 DEF Around
    <3>2. i - 1 = Len(s) + 1 /\ ~(i <= k) /\ i # k + 1
      BY <1>2, <2>2
    <3>3. Around(h, s, i - 1) = h
      BY <1>1, <3>2, AroundIs
    <3> QED
      BY <3>1, <3>2, <3>3
  <2>3. CASE i \in 1 .. Len(s) + 1
    <3>1. Around(h, t, i) = IF i <= k THEN s[i] ELSE IF i = k + 1 THEN n ELSE s[i - 1]
      BY <1>2, <2>3 DEF Around, InsertedAs
    <3>2. i <= k => Around(h, s, i) = s[i]
      BY <1>2, <2>3 DEF Around
    <3>3. ~(i <= k) /\ i # k + 1 => Around(h, s, i - 1) = s[i - 1]
      BY <1>2, <2>3 DEF Around
    <3> QED
      BY <3>1, <3>2, <3>3
  <2> QED
    BY <1>2, <2>1, <2>2, <2>3
<1> HIDE DEF q, b, a
<1>8. ASSUME NEW i \in 0 .. Len(s) + 1
      PROVE  /\ q.next[Around(h, t, i)] = Around(h, t, i + 1)
             /\ q.prev[Around(h, t, i + 1)] = Around(h, t, i)
  <2>1. i \in 0 .. Len(s) + 2 /\ i + 1 \in 0 .. Len(s) + 2
    BY <1>2
  <2>2. CASE i < k
    <3>1. /\ Around(h, t, i) = Around(h, s, i) /\ Around(h, t, i + 1) = Around(h, s, i + 1)
          /\ i \in 0 .. Len(s) /\ k \in 0 .. Len(s) /\ i # k /\ i + 1 # k + 1
          /\ i + 1 \in 1 .. Len(s) + 1 /\ k + 1 \in 1 .. Len(s) + 1
      BY <1>2, <1>7, <2>1, <2>2
    <3>2. Around(h, s, i) # b /\ Around(h, s, i + 1) # a
      BY <1>5, <3>1 DEF a, b
    <3>3. /\ Around(h, s, i) \in Pointers /\ Around(h, s, i) # n
          /\ Around(h, s, i + 1) \in Pointers /\ Around(h, s, i + 1) # n
      BY <1>2, <1>3, <3>1
    <3> QED
      BY <1>4, <1>6, <3>1, <3>2, <3>3
  <2>3. CASE i = k
    <3>1. Around(h, t, i) = b /\ Around(h, t, i + 1) = n
      BY <1>2, <1>7, <2>1, <2>3 DEF b
    <3> QED
      BY <1>3, <1>4, <3>1
  <2>4. CASE i = k + 1
    <3>1. Around(h, t, i) = n /\ Around(h, t, i + 1) = a
      <4>1. Around(h, t, i) = n
        BY <1>2, <1>7, <2>1, <2>4
      <4>2. ~(i + 1 <= k) /\ i + 1 # k + 1 /\ (i + 1) - 1 = k + 1
        BY <1>2, <2>4
      <4> QED
        BY <1>7, <2>1, <4>1, <4>2 DEF a
    <3> QED
      BY <1>3, <1>4, <3>1
  <2>5. CASE i > k + 1
    <3>1. /\ Around(h, t, i) = Around(h, s, i - 1) /\ Around(h, t, i + 1) = Around(h, s, i)
          /\ i - 1 \in 0 .. Len(s) /\ k \in 0 .. Len(s) /\ i - 1 # k /\ i # k + 1
          /\ i \in 1 .. Len(s) + 1 /\ k + 1 \in 1 .. Len(s) + 1 /\ (i - 1) + 1 = i
      <4>1. /\ ~(i <= k) /\ i # k + 1 /\ ~(i + 1 <= k) /\ i + 1 # k + 1 /\ (i + 1) - 1 = i
            /\ i - 1 \in 0 .. Len(s) /\ k \in 0 .. Len(s) /\ i - 1 # k
            /\ i \in 1 .. Len(s) + 1 /\ k + 1 \in 1 .. Len(s) + 1 /\ (i - 1) + 1 = i
        BY <1>2, <2>5
      <4> QED
        BY <1>7, <2>1, <4>1
    <3>2. Around(h, s, i - 1) # b /\ Around(h, s, i) # a
      BY <1>5, <3>1 DEF a, b
    <3>3. /\ Around(h, s, i - 1) \in Pointers /\ Around(h, s, i - 1) # n
          /\ Around(h, s, i) \in Pointers /\ Around(h, s, i) # n
      BY <1>2, <1>3, <3>1
    <3>4. m.next[Around(h, s, i - 1)] = Around(h, s, i) /\ m.prev[Around(h, s, i)] = Around(h, s, i - 1)
      BY <1>6, <3>1
    <3> QED
      BY <1>4, <3>1, <3>2, <3>3, <3>4
  <2> QED
    BY <1>2, <2>2, <2>3, <2>4, <2>5
<1>9. Shows(q, h, t)
  BY <1>1, <1>8 DEF Shows, InsertedAs
<1>10. ASSUME NEW g \in Heads, g # h
       PROVE  Shows(q, g, L[g])
  <2>1. /\ L[g] \in Seq(Nodes) /\ Shows(m, g, L[g])
        /\ \A i \in 0 .. Len(L[g]) + 1 : Around(g, L[g], i) \in Pointers
    BY <1>1, AroundIs DEF Holds, Pointers, Among
  <2>2. k \in 0 .. Len(s) + 1 /\ k + 1 \in 0 .. Len(s) + 1
    BY <1>2
  <2>3. \A i \in 0 .. Len(L[g]) + 1 : /\ Around(g, L[g], i) # b /\ Around(g, L[g], i) # a
                                      /\ Around(g, L[g], i) # n
    BY <1>10, <2>2, AroundApart DEF a, b
  <2>4. \A i \in 0 .. Len(L[g]) + 1 :
           /\ q.next[Around(g, L[g], i)] = m.next[Around(g, L[g], i)]
           /\ q.prev[Around(g, L[g], i)] = m.prev[Around(g, L[g], i)]
    BY <1>4, <2>1, <2>3
  <2> QED
    BY <2>1, <2>4, Untouched
<1>11. /\ M[h] = t /\ (\A g \in Heads : g # h => M[g] = L[g])
       /\ Among(Heads, Nodes, M, N \cup {n})
  <2>1. Among(Heads, Nodes, L, N) /\ L \in [Heads -> Seq(Nodes)]
    BY DEF Holds, Among
  <2> QED
    BY <2>1, InsertedApart
<1>12. \A g \in Heads : Shows(q, g, M[g])
  BY <1>9, <1>10, <1>11
<1> QED
  BY <1>4, <1>11, <1>12 DEF Holds, q, a, b, Among
-----------------------------------------------------------------------------
(* A node leaves *)

\* The neighbours of s[k] are next to each other in q, and all else is as in m,
\* but for s[k] itself.
ClosedUp(q, m, h, s, k) ==
    \A x \in Pointers : x # s[k] =>
       /\ q.next[x] = IF x = Around(h, s, k - 1) THEN Around(h, s, k + 1) ELSE m.next[x]
       /\ q.prev[x] = IF x = Around(h, s, k + 1) THEN Around(h, s, k - 1) ELSE m.prev[x]

LEMMA LinkedOut ==
  ASSUME NEW m, NEW L, NEW N, Holds(m, L, N),
         NEW h \in Heads, NEW k \in DOMAIN L[h], NEW t, DeletedAs(Nodes, L[h], k, t),
         NEW q \in LinkType, ClosedUp(q, m, h, L[h], k)
  PROVE  Holds(q, [L EXCEPT ![h] = t], N \ {L[h][k]})
<1> DEFINE s == L[h]
           n == s[k]
           b == Around(h, s, k - 1)
           a == Around(h, s, k + 1)
           M == [L EXCEPT ![h] = t]
<1>1. s \in Seq(Nodes) /\ (\A g \in Heads : L[g] \in Seq(Nodes)) /\ t \in Seq(Nodes)
  BY DEF Holds, DeletedAs, Among
<1>2. /\ Len(s) \in Nat /\ DOMAIN s = 1 .. Len(s) /\ DOMAIN t = 1 .. Len(s) - 1
      /\ k \in 1 .. Len(s) /\ k \in Nat
  BY <1>1, LenProperties DEF DeletedAs
<1>3. /\ \A i \in 0 .. Len(s) + 1 : Around(h, s, i) \in Pointers
      /\ Around(h, s, k) = n /\ n \in Nodes
  BY <1>1, <1>2, AroundIs DEF Pointers
<1>4. \A x \in Pointers : x # n => /\ q.next[x] = IF x = b THEN a ELSE m.next[x]
                                   /\ q.prev[x] = IF x = a THEN b ELSE m.prev[x]
  BY DEF ClosedUp
<1>5. /\ \A i, j \in 0 .. Len(s) : Around(h, s, i) = Around(h, s, j) => i = j
      /\ \A i, j \in 1 .. Len(s) + 1 : Around(h, s, i) = Around(h, s, j) => i = j
  BY AroundApart
<1>6. \A i \in 0 .. Len(s) : /\ m.next[Around(h, s, i)] = Around(h, s, i + 1)
                             /\ m.prev[Around(h, s, i + 1)] = Around(h, s, i)
  BY DEF Holds, Shows, Among
<1>7. \A i \in 0 .. Len(s) + 1 : Around(h, s, i) = n => i = k
  <2> SUFFICES ASSUME NEW i \in 0 .. Len(s) + 1, Around(h, s, i) = n PROVE i = k
    OBVIOUS
  <2>1. CASE i \in 0 .. Len(s)
    <3>1. k \in 0 .. Len(s)
      BY <1>2
    <3> QED
      BY <1>3, <1>5, <2>1, <3>1
  <2>2. CASE i \in 1 .. Len(s) + 1
    <3>1. k \in 1 .. Len(s) + 1
      BY <1>2
    <3> QED
      BY <1>3, <1>5, <2>2, <3>1
  <2> QED
    BY <1>2, <2>1, <2>2
\* The way around the new list.
<1>8. \A i \in 0 .. Len(s) :
         Around(h, t, i) = IF i < k THEN Around(h, s, i) ELSE Around(h, s, i + 1)
  <2> SUFFICES ASSUME NEW i \in 0 .. Len(s)
               PROVE  Around(h, t, i) = IF i < k THEN Around(h, s, i) ELSE Around(h, s, i + 1)
    OBVIOUS
  <2>1. CASE i = 0
    BY <1>1, <1>2, <2>1, AroundIs
  <2>2. CASE i = Len(s)
    <3>1. Around(h, t, i) = h
      BY <1>2, <2>2 DEF Around
    <3>2. ~(i < k) /\ i + 1 = Len(s) + 1
      BY <1>2, <2>2
    <3> QED
      BY <1>1, <3>1, <3>2, AroundIs
  <2>3. CASE i \in 1 .. Len(s) - 1
    <3>1. Around(h, t, i) = IF i < k THEN s[i] ELSE s[i + 1]
      BY <1>2, <2>3 DEF Around, DeletedAs
    <3>2. Around(h, s, i) = s[i] /\ Around(h, s, i + 1) = s[i + 1]
      BY <1>2, <2>3 DEF Around
    <3> QED
      BY <3>1, <3>2
  <2> QED
    BY <1>2, <2>1, <2>2, <2>3
<1> HIDE DEF b, a, n
<1>9. ASSUME NEW i \in 0 .. Len(s) - 1
      PROVE  /\ q.next[Around(h, t, i)] = Around(h, t, i + 1)
             /\ q.prev[Around(h, t, i + 1)] = Around(h, t, i)
  <2>1. i \in 0 .. Len(s) /\ i + 1 \in 0 .. Len(s)
    BY <1>2
  <2>2. CASE i + 1 < k
    <3>1. /\ Around(h, t, i) = Around(h, s, i) /\ Around(h, t, i + 1) = Around(h, s, i + 1)
          /\ i # k /\ i + 1 # k /\ i # k - 1 /\ i + 1 # k + 1 /\ k - 1 \in 0 .. Len(s)
          /\ i + 1 \in 1 .. Len(s) + 1 /\ k + 1 \in 1 .. Len(s) + 1
      BY <1>2, <1>8, <2>1, <2>2
    <3>2. Around(h, s, i) # b /\ Around(h, s, i + 1) # a
      BY <1>5, <2>1, <3>1 DEF a, b
    <3>3. /\ Around(h, s, i) \in Pointers /\ Around(h, s, i) # n
          /\ Around(h, s, i + 1) \in Pointers /\ Around(h, s, i + 1) # n
      BY <1>2, <1>3, <1>7, <2>1, <3>1
    <3> QED
      BY <1>4, <1>6, <2>1, <3>1, <3>2, <3>3
  <2>3. CASE i + 1 = k
    <3>1. Around(h, t, i) = b /\ Around(h, t, i + 1) = a
      <4>1. i < k /\ ~(i + 1 < k) /\ i = k - 1 /\ (i + 1) + 1 = k + 1
        BY <1>2, <2>3
      <4> QED
        BY <1>8, <2>1, <4>1 DEF a, b
    <3>2. b # n /\ a # n /\ b \in Pointers /\ a \in Pointers
      <4>1. k - 1 \in 0 .. Len(s) + 1 /\ k + 1 \in 0 .. Len(s) + 1 /\ k - 1 # k /\ k + 1 # k
        BY <1>2
      <4> QED
        BY <1>3, <1>7, <4>1 DEF a, b
    <3> QED
      BY <1>4, <3>1, <3>2
  <2>4. CASE ~(i < k)
    <3>1. /\ ~(i + 1 < k) /\ i + 1 \in 0 .. Len(s) /\ k - 1 \in 0 .. Len(s) /\ i + 1 # k - 1
          /\ i + 2 \in 1 .. Len(s) + 1 /\ k + 1 \in 1 .. Len(s) + 1 /\ i + 2 # k + 1
          /\ i + 1 # k /\ i + 2 # k /\ (i + 1) + 1 = i + 2
          /\ i + 1 \in 0 .. Len(s) + 1 /\ i + 2 \in 0 .. Len(s) + 1
      <4> DEFINE l == Len(s)
      <4>1. l \in Nat /\ i \in 0 .. l - 1 /\ k \in 1 .. l /\ i >= k
        BY <1>2, <2>4
      <4> HIDE DEF l
      <4>2. /\ i + 1 \in 0 .. l /\ k - 1 \in 0 .. l /\ i + 2 \in 1 .. l + 1 /\ k + 1 \in 1 .. l + 1
            /\ i + 1 \in 0 .. l + 1 /\ i + 2 \in 0 .. l + 1
        BY <4>1
      <4>3. /\ ~(i + 1 < k) /\ i + 1 # k - 1 /\ i + 2 # k + 1
            /\ i + 1 # k /\ i + 2 # k /\ (i + 1) + 1 = i + 2
        BY <4>1
      <4> QED
        BY <4>2, <4>3 DEF l
    <3>2. Around(h, t, i) = Around(h, s, i + 1) /\ Around(h, t, i + 1) = Around(h, s, i + 2)
      BY <1>8, <2>1, <2>4, <3>1
    <3>3. Around(h, s, i + 1) # b /\ Around(h, s, i + 2) # a
      BY <1>5, <3>1 DEF a, b
    <3>4. /\ Around(h, s, i + 1) \in Pointers /\ Around(h, s, i + 1) # n
          /\ Around(h, s, i + 2) \in Pointers /\ Around(h, s, i + 2) # n
      BY <1>3, <1>7, <3>1
    <3>5. /\ m.next[Around(h, s, i + 1)] = Around(h, s, i + 2)
          /\ m.prev[Around(h, s, i + 2)] = Around(h, s, i + 1)
      BY <1>6, <3>1
    <3> QED
      BY <1>4, <3>2, <3>3, <3>4, <3>5
  <2> QED
    BY <1>2, <2>2, <2>3, <2>4
<1>10. Shows(q, h, t)
  BY <1>1, <1>9 DEF Shows, DeletedAs
<1>11. ASSUME NEW g \in Heads, g # h
       PROVE  Shows(q, g, L[g])
  <2>1. /\ L[g] \in Seq(Nodes) /\ Shows(m, g, L[g])
        /\ \A i \in 0 .. Len(L[g]) + 1 : Around(g, L[g], i) \in Pointers
    BY <1>1, AroundIs DEF Holds, Pointers, Among
  <2>2. k \in 0 .. Len(s) + 1 /\ k + 1 \in 0 .. Len(s) + 1 /\ k - 1 \in 0 .. Len(s) + 1
    BY <1>2
  <2>3. \A i \in 0 .. Len(L[g]) + 1 : /\ Around(g, L[g], i) # b /\ Around(g, L[g], i) # a
                                      /\ Around(g, L[g], i) # n
    BY <1>3, <1>11, <2>2, AroundApart DEF a, b
  <2>4. \A i \in 0 .. Len(L[g]) + 1 :
           /\ q.next[Around(g, L[g], i)] = m.next[Around(g, L[g], i)]
           /\ q.prev[Around(g, L[g], i)] = m.prev[Around(g, L[g], i)]
    BY <1>4, <2>1, <2>3
  <2> QED
    BY <2>1, <2>4, Untouched
<1>12. /\ M[h] = t /\ (\A g \in Heads : g # h => M[g] = L[g])
       /\ Among(Heads, Nodes, M, N \ {n})
  <2>1. Among(Heads, Nodes, L, N) /\ L \in [Heads -> Seq(Nodes)]
    BY DEF Holds, Among
  <2> QED
    BY <2>1, DeletedApart DEF n
<1>13. \A g \in Heads : Shows(q, g, M[g])
  BY <1>10, <1>11, <1>12
<1> QED
  BY <1>12, <1>13 DEF Holds, n, Among
-----------------------------------------------------------------------------
(* A node takes the place of another *)

\* What nodes outside the lists hold does not matter.
LEMMA Unlisted ==
  ASSUME NEW m, NEW L, NEW N, Holds(m, L, N), NEW q \in LinkType,
         \A x \in Heads \cup N : q.next[x] = m.next[x] /\ q.prev[x] = m.prev[x]
  PROVE  Holds(q, L, N)
<1>1. ASSUME NEW h \in Heads PROVE Shows(q, h, L[h])
  <2>1. L[h] \in Seq(Nodes) /\ Shows(m, h, L[h]) /\ N = Members(Nodes, L)
    BY DEF Holds, Among
  <2>2. ASSUME NEW i \in 0 .. Len(L[h]) + 1 PROVE Around(h, L[h], i) \in Heads \cup N
    <3>1. \A j \in DOMAIN L[h] : L[h][j] \in N
      BY <2>1, ListsAre DEF Holds, Among
    <3> QED
      BY <3>1 DEF Around
  <2> QED
    BY <2>1, <2>2, Untouched
<1> QED
  BY <1>1 DEF Holds, Among

\* n stands in q where s[k] stood in m.
TakesPlace(q, m, h, s, k, n) ==
    \A x \in Pointers : x # s[k] =>
       /\ q.next[x] = IF x = Around(h, s, k - 1) THEN n
                      ELSE IF x = n THEN Around(h, s, k + 1) ELSE m.next[x]
       /\ q.prev[x] = IF x = Around(h, s, k + 1) THEN n
                      ELSE IF x = n THEN Around(h, s, k - 1) ELSE m.prev[x]

LEMMA Replaced ==
  ASSUME NEW m, NEW L, NEW N, Holds(m, L, N), NEW n \in Nodes, n \notin N,
         NEW h \in Heads, NEW k \in DOMAIN L[h], NEW q \in LinkType,
         TakesPlace(q, m, h, L[h], k, n)
  PROVE  Holds(q, [L EXCEPT ![h][k] = n], (N \ {L[h][k]}) \cup {n})
<1> DEFINE s == L[h]
           o == s[k]
           b == Around(h, s, k - 1)
           a == Around(h, s, k + 1)
           t == RemoveAt(s, k)
           K == [L EXCEPT ![h] = t]
           u == [s EXCEPT ![k] = n]
           p == Unlink(m, b, a)
           r == Link(p, n, b, a)
<1>1. s \in Seq(Nodes) /\ m \in LinkType /\ L \in [Heads -> Seq(Nodes)]
  BY DEF Holds, Among
<1>2. /\ Len(s) \in Nat /\ DOMAIN s = 1 .. Len(s) /\ k \in 1 .. Len(s) /\ k \in Nat
      /\ o \in Nodes /\ o \in N /\ n # o
  <2>1. Len(s) \in Nat /\ DOMAIN s = 1 .. Len(s) /\ o \in Nodes
    BY <1>1, LenProperties
  <2>2. o \in N
    BY <2>1 DEF Holds, Members, Among
  <2> QED
    BY <2>1, <2>2
<1>3. DeletedAs(Nodes, s, k, t)
  BY <1>1, DeletedIs
<1>4. /\ b \in Pointers /\ a \in Pointers /\ n \in Pointers /\ n # a /\ n # b
  <2>1. k - 1 \in 0 .. Len(s) + 1 /\ k + 1 \in 0 .. Len(s) + 1
    BY <1>2
  <2>2. n \in Pointers
    BY DEF Pointers, Struct
  <2> QED
    BY <1>1, <2>1, <2>2, AroundIs, AroundApart DEF Pointers
<1>5. /\ p \in LinkType
      /\ \A x \in Pointers : /\ p.next[x] = IF x = b THEN a ELSE m.next[x]
                             /\ p.prev[x] = IF x = a THEN b ELSE m.prev[x]
  BY <1>1, <1>4, UnlinkIs
<1> HIDE DEF p
<1>6. Holds(p, K, N \ {o})
  <2>1. ClosedUp(p, m, h, s, k)
    BY <1>5 DEF ClosedUp
  <2> HIDE DEF t
  <2> QED
    BY <1>3, <1>5, <2>1, LinkedOut
\* The neighbours of the one that left are next to each other.
<1>7. k - 1 \in 0 .. Len(t) /\ Around(h, t, k - 1) = b /\ Around(h, t, (k - 1) + 1) = a
  <2>1. /\ Len(t) = Len(s) - 1 /\ t \in Seq(Nodes)
        /\ \A j \in 1 .. Len(s) - 1 : t[j] = IF j < k THEN s[j] ELSE s[j + 1]
    BY <1>3 DEF DeletedAs
  <2>2. DOMAIN t = 1 .. Len(s) - 1
    BY <2>1, LenProperties
  <2> HIDE DEF t
  <2>3. k - 1 \in 0 .. Len(t)
    BY <1>2, <2>1
  <2>4. Around(h, t, k - 1) = b
    <3>1. CASE k = 1
      BY <1>2, <2>2, <3>1 DEF Around
    <3>2. CASE k # 1
      <4>1. k - 1 \in DOMAIN t /\ k - 1 \in DOMAIN s /\ t[k - 1] = s[k - 1]
        BY <1>2, <2>1, <2>2, <3>2
      <4> QED
        BY <4>1 DEF Around
    <3> QED
      BY <3>1, <3>2
  <2>5. Around(h, t, k) = a
    <3>1. CASE k = Len(s)
      BY <1>2, <2>2, <3>1 DEF Around
    <3>2. CASE k # Len(s)
      <4>1. k \in DOMAIN t /\ k + 1 \in DOMAIN s /\ t[k] = s[k + 1]
        BY <1>2, <2>1, <2>2, <3>2
      <4> QED
        BY <4>1 DEF Around
    <3> QED
      BY <3>1, <3>2
  <2>6. (k - 1) + 1 = k
    BY <1>2
  <2> QED
    BY <2>3, <2>4, <2>5, <2>6
<1>8. InsertedAs(Nodes, t, k - 1, n, u)
  BY <1>1, ReplacedAs
<1>9. K[h] = t /\ h \in Heads
  BY <1>1
<1> HIDE DEF t, u
<1>10. Holds(r, [K EXCEPT ![h] = u], (N \ {o}) \cup {n})
  <2>1. n \notin N \ {o}
    OBVIOUS
  <2>2. InsertedAs(Nodes, K[h], k - 1, n, u) /\ k - 1 \in 0 .. Len(K[h])
    BY <1>7, <1>8, <1>9
  <2>3. r = Link(p, n, Around(h, K[h], k - 1), Around(h, K[h], (k - 1) + 1))
    BY <1>7, <1>9
  <2> HIDE DEF r, K
  <2> QED
    BY <1>6, <2>1, <2>2, <2>3, LinkedIn
<1>11. [K EXCEPT ![h] = u] = [L EXCEPT ![h][k] = n]
  BY <1>1 DEF u
<1>12. \A x \in Pointers :
          /\ r.next[x] = IF x = b THEN n ELSE IF x = n THEN a ELSE p.next[x]
          /\ r.prev[x] = IF x = a THEN n ELSE IF x = n THEN b ELSE p.prev[x]
  BY <1>4, <1>5, LinkIs
<1> HIDE DEF r, K
<1>13. \A x \in Pointers : x # o => /\ q.next[x] = IF x = b THEN n ELSE IF x = n THEN a ELSE m.next[x]
                                    /\ q.prev[x] = IF x = a THEN n ELSE IF x = n THEN b ELSE m.prev[x]
  BY DEF TakesPlace
<1>14. ASSUME NEW x \in Heads \cup ((N \ {o}) \cup {n})
       PROVE  q.next[x] = r.next[x] /\ q.prev[x] = r.prev[x]
  <2>1. x \in Pointers /\ x # o
    <3>1. N \subseteq Nodes
      BY DEF Holds, Members, Among
    <3> QED
      BY <1>2, <3>1, KListAssumption DEF Pointers, Struct
  <2> HIDE DEF a, b, o
  <2> QED
    BY <1>5, <1>12, <1>13, <2>1
<1> QED
  BY <1>10, <1>11, <1>14, Unlisted

-----------------------------------------------------------------------------
(* The changes, as the functions make them *)

\* list_add and list_add_tail.
LEMMA AddedIs ==
  ASSUME NEW m, NEW L, NEW N, Holds(m, L, N), NEW n \in Nodes, n \notin N, NEW h \in Heads
  PROVE  /\ Holds(LinkFirst(m, n, h), [L EXCEPT ![h] = <<n>> \o @], N \cup {n})
         /\ Holds(LinkLast(m, n, h), [L EXCEPT ![h] = Append(@, n)], N \cup {n})
<1> DEFINE s == L[h]
<1>1. s \in Seq(Nodes) /\ Shows(m, h, s) /\ L \in [Heads -> Seq(Nodes)]
  BY DEF Holds, Among
<1>2. Len(s) \in Nat /\ Around(h, s, 0) = h /\ Around(h, s, Len(s) + 1) = h
  BY <1>1, AroundIs
<1>3. 0 \in 0 .. Len(s) /\ Len(s) \in 0 .. Len(s)
  BY <1>2
<1>4. m.next[h] = Around(h, s, 0 + 1) /\ m.prev[h] = Around(h, s, Len(s))
  <2>1. m.next[Around(h, s, 0)] = Around(h, s, 0 + 1)
    BY <1>1, <1>3 DEF Shows
  <2>2. m.prev[Around(h, s, Len(s) + 1)] = Around(h, s, Len(s))
    BY <1>1, <1>3 DEF Shows
  <2> QED
    BY <1>2, <2>1, <2>2
<1>5. InsertedAs(Nodes, L[h], 0, n, <<n>> \o s) /\ InsertedAs(Nodes, L[h], Len(s), n, Append(s, n))
  BY <1>1, EndsAre
<1> DEFINE t1 == <<n>> \o s
           t2 == Append(s, n)
<1>6. InsertedAs(Nodes, L[h], 0, n, t1) /\ InsertedAs(Nodes, L[h], Len(s), n, t2)
  BY <1>5
<1> HIDE DEF t1, t2
<1>7. \A k \in 0 .. Len(s) : \A t : InsertedAs(Nodes, L[h], k, n, t) =>
         Holds(Link(m, n, Around(h, L[h], k), Around(h, L[h], k + 1)), [L EXCEPT ![h] = t],
               N \cup {n})
  BY LinkedIn
<1>8. Holds(Link(m, n, Around(h, L[h], 0), Around(h, L[h], 0 + 1)), [L EXCEPT ![h] = t1],
            N \cup {n})
  BY <1>3, <1>6, <1>7
<1>9. Holds(Link(m, n, Around(h, L[h], Len(s)), Around(h, L[h], Len(s) + 1)),
            [L EXCEPT ![h] = t2], N \cup {n})
  BY <1>3, <1>6, <1>7
<1>10. /\ LinkFirst(m, n, h) = Link(m, n, Around(h, L[h], 0), Around(h, L[h], 0 + 1))
       /\ LinkLast(m, n, h) = Link(m, n, Around(h, L[h], Len(s)), Around(h, L[h], Len(s) + 1))
  BY <1>2, <1>4 DEF LinkFirst, LinkLast
<1> QED
  BY <1>8, <1>9, <1>10 DEF t1, t2

\* Where a node is, and its neighbours.
LEMMA PlaceIs ==
  ASSUME NEW m, NEW L, NEW N, Holds(m, L, N), NEW n \in N
  PROVE  /\ n \in Nodes /\ m \in LinkType
         /\ m.next[n] \in Pointers /\ m.prev[n] \in Pointers
         /\ \E h \in Heads : \E k \in DOMAIN L[h] :
               /\ L[h][k] = n
               /\ m.next[n] = Around(h, L[h], k + 1) /\ m.prev[n] = Around(h, L[h], k - 1)
<1>1. PICK h \in Heads : n \in Nodes /\ \E k \in DOMAIN L[h] : L[h][k] = n
  BY DEF Holds, Members, Among
<1>2. PICK k \in DOMAIN L[h] : L[h][k] = n
  BY <1>1
<1> DEFINE s == L[h]
<1>3. s \in Seq(Nodes) /\ Shows(m, h, s) /\ m \in LinkType
  BY DEF Holds, Among
<1>4. k \in 1 .. Len(s) /\ Len(s) \in Nat /\ Around(h, s, k) = n
  BY <1>2, <1>3, AroundIs
<1>5. k \in 0 .. Len(s) /\ k - 1 \in 0 .. Len(s) /\ (k - 1) + 1 = k
  BY <1>4
<1>6. /\ m.next[Around(h, s, k)] = Around(h, s, k + 1)
      /\ m.prev[Around(h, s, (k - 1) + 1)] = Around(h, s, k - 1)
  BY <1>3, <1>5 DEF Shows
<1>7. n \in Pointers
  BY <1>1 DEF Pointers, Struct
<1>8. m.next[n] \in Pointers /\ m.prev[n] \in Pointers
  BY <1>3, <1>7 DEF LinkType
<1> QED
  BY <1>1, <1>2, <1>3, <1>4, <1>5, <1>6, <1>8

Off(L, n) == [h \in Heads |-> Rings!Without(n, L[h])]

LEMMA PositionIs ==
  ASSUME NEW s, NEW k \in DOMAIN s, \A i \in DOMAIN s : s[i] = s[k] => i = k
  PROVE  Rings!Position(s[k], s) = k
BY DEF Rings!Position

LEMMA OffIs ==
  ASSUME NEW m, NEW L, NEW N, Holds(m, L, N), NEW h \in Heads, NEW k \in DOMAIN L[h]
  PROVE  [L EXCEPT ![h] = RemoveAt(L[h], k)] = Off(L, L[h][k])
<1> DEFINE n == L[h][k]
<1>1. \A g \in Heads : \A i \in DOMAIN L[g] : L[g][i] = n => g = h /\ i = k
  BY DEF Holds, Apart, Among
<1>2. Rings!Position(n, L[h]) = k /\ n \in ToSet(L[h])
  BY <1>1, PositionIs DEF ToSet
<1>3. \A g \in Heads : g # h => n \notin ToSet(L[g])
  BY <1>1 DEF ToSet
<1> HIDE DEF n
<1>4. \A g \in Heads : Off(L, n)[g] = IF g = h THEN RemoveAt(L[h], k) ELSE L[g]
  <2>1. Rings!Without(n, L[h]) = RemoveAt(L[h], k)
    BY <1>2 DEF Rings!Without, Rings!ToSet, Rings!RemoveAt, ToSet, RemoveAt
  <2>2. \A g \in Heads : g # h => Rings!Without(n, L[g]) = L[g]
    BY <1>3 DEF Rings!Without, Rings!ToSet, ToSet
  <2> QED
    BY <2>1, <2>2 DEF Off
<1>5. L \in [Heads -> Seq(Nodes)]
  BY DEF Holds, Among
<1>6. Off(L, n) = [L EXCEPT ![h] = RemoveAt(L[h], k)]
  BY <1>4, <1>5 DEF Off
<1> QED
  BY <1>6 DEF n

\* list_del, whatever it leaves in the node.
LEMMA IsolatedIs ==
  ASSUME NEW m, NEW L, NEW N, Holds(m, L, N), NEW n \in N, NEW q \in LinkType,
         \A x \in Pointers : x # n =>
            q.next[x] = Isolate(m, n).next[x] /\ q.prev[x] = Isolate(m, n).prev[x]
  PROVE  Holds(q, Off(L, n), N \ {n})
<1>1. PICK h \in Heads : \E k \in DOMAIN L[h] :
         /\ L[h][k] = n
         /\ m.next[n] = Around(h, L[h], k + 1) /\ m.prev[n] = Around(h, L[h], k - 1)
  BY PlaceIs
<1>2. PICK k \in DOMAIN L[h] :
         /\ L[h][k] = n
         /\ m.next[n] = Around(h, L[h], k + 1) /\ m.prev[n] = Around(h, L[h], k - 1)
  BY <1>1
<1> DEFINE b == Around(h, L[h], k - 1)
           a == Around(h, L[h], k + 1)
           t == RemoveAt(L[h], k)
<1>3. /\ m \in LinkType /\ a \in Pointers /\ b \in Pointers
      /\ Isolate(m, n) = Unlink(m, b, a)
  BY <1>2, PlaceIs DEF Isolate
<1> HIDE DEF a, b
<1>4. \A x \in Pointers : x # n => /\ q.next[x] = IF x = b THEN a ELSE m.next[x]
                                   /\ q.prev[x] = IF x = a THEN b ELSE m.prev[x]
  <2>1. \A x \in Pointers : x # n => /\ q.next[x] = Unlink(m, b, a).next[x]
                                     /\ q.prev[x] = Unlink(m, b, a).prev[x]
    BY <1>3
  <2>2. \A x \in Pointers : /\ Unlink(m, b, a).next[x] = IF x = b THEN a ELSE m.next[x]
                            /\ Unlink(m, b, a).prev[x] = IF x = a THEN b ELSE m.prev[x]
    BY <1>3, UnlinkIs, SMTT(30)
  <2> QED
    BY <2>1, <2>2
<1>5. DeletedAs(Nodes, L[h], k, t)
  <2>1. L[h] \in Seq(Nodes)
    BY DEF Holds, Among
  <2> QED
    BY <2>1, DeletedIs
<1>6. ClosedUp(q, m, h, L[h], k)
  BY <1>2, <1>4 DEF ClosedUp, a, b
<1> HIDE DEF t
<1>7. Holds(q, [L EXCEPT ![h] = t], N \ {L[h][k]})
  BY <1>5, <1>6, LinkedOut
<1>8. [L EXCEPT ![h] = t] = Off(L, L[h][k])
  BY OffIs DEF t
<1> QED
  BY <1>2, <1>7, <1>8

LEMMA IsolateType ==
  ASSUME NEW m, NEW L, NEW N, Holds(m, L, N), NEW n \in N
  PROVE  Isolate(m, n) \in LinkType /\ Holds(Isolate(m, n), Off(L, n), N \ {n})
<1>1. m \in LinkType /\ m.next[n] \in Pointers /\ m.prev[n] \in Pointers
  BY PlaceIs
<1>2. Isolate(m, n) \in LinkType
  BY <1>1, UnlinkIs DEF Isolate
<1> QED
  BY <1>2, IsolatedIs

-----------------------------------------------------------------------------
(* A list goes in front of another *)

\* The list s of `from` is before the list u of `to` in q, and `from` is alone.
PutBefore(q, m, from, s, to, u) ==
    \A x \in Pointers :
       /\ q.next[x] = IF x = from THEN from ELSE IF x = to THEN s[1]
                      ELSE IF x = s[Len(s)] THEN Around(to, u, 1) ELSE m.next[x]
       /\ q.prev[x] = IF x = from THEN from ELSE IF x = s[1] THEN to
                      ELSE IF x = Around(to, u, 1) THEN s[Len(s)] ELSE m.prev[x]

\* The way around both lists.
LEMMA AroundBoth ==
  ASSUME NEW from \in Heads, NEW to \in Heads, NEW s \in Seq(Nodes), NEW u \in Seq(Nodes),
         NEW i \in 0 .. Len(s) + Len(u) + 1
  PROVE  /\ s \o u \in Seq(Nodes) /\ Len(s \o u) = Len(s) + Len(u)
         /\ DOMAIN (s \o u) = 1 .. Len(s) + Len(u)
         /\ Around(to, s \o u, i) = IF i = 0 THEN to
                                    ELSE IF i <= Len(s) THEN Around(from, s, i)
                                    ELSE Around(to, u, i - Len(s))
<1> DEFINE t == s \o u
<1>1. Len(s) \in Nat /\ DOMAIN s = 1 .. Len(s) /\ Len(u) \in Nat /\ DOMAIN u = 1 .. Len(u)
  BY LenProperties
<1>2. /\ t \in Seq(Nodes) /\ Len(t) = Len(s) + Len(u)
      /\ \A j \in 1 .. Len(s) + Len(u) : t[j] = IF j <= Len(s) THEN s[j] ELSE u[j - Len(s)]
  BY ConcatProperties
<1> HIDE DEF t
<1>3. DOMAIN t = 1 .. Len(s) + Len(u)
  BY <1>2, LenProperties
<1>4. CASE i = 0
  BY <1>1, <1>3, <1>4 DEF Around
<1>5. CASE i \in 1 .. Len(s)
  BY <1>1, <1>2, <1>3, <1>5 DEF Around
<1>6. CASE i \in Len(s) + 1 .. Len(s) + Len(u)
  <2>1. i - Len(s) \in DOMAIN u /\ i \in DOMAIN t /\ ~(i <= Len(s)) /\ i # 0
    BY <1>1, <1>3, <1>6
  <2>2. t[i] = u[i - Len(s)]
    BY <1>2, <1>3, <2>1
  <2> QED
    BY <1>2, <1>3, <2>1, <2>2 DEF t, Around
<1>7. CASE i = Len(s) + Len(u) + 1
  <2>1. i - Len(s) \notin DOMAIN u /\ i \notin DOMAIN t /\ ~(i <= Len(s)) /\ i # 0
    BY <1>1, <1>3, <1>7
  <2> QED
    BY <1>2, <1>3, <2>1 DEF t, Around
<1> QED
  <2>1. i = 0 \/ i \in 1 .. Len(s) \/ i \in Len(s) + 1 .. Len(s) + Len(u)
        \/ i = Len(s) + Len(u) + 1
    BY <1>1
  <2>2. Around(to, t, i) = IF i = 0 THEN to ELSE IF i <= Len(s) THEN Around(from, s, i)
                           ELSE Around(to, u, i - Len(s))
    BY <1>4, <1>5, <1>6, <1>7, <2>1 DEF t
  <2> QED
    BY <1>2, <1>3, <2>2 DEF t

LEMMA SplicedIn ==
  ASSUME NEW m, NEW L, NEW N, Holds(m, L, N), NEW from \in Heads, NEW to \in Heads,
         from # to, L[from] # <<>>, NEW q \in LinkType,
         PutBefore(q, m, from, L[from], to, L[to])
  PROVE  Holds(q, [L EXCEPT ![to] = L[from] \o @, ![from] = <<>>], N)
<1> DEFINE s == L[from]
           u == L[to]
           t == s \o u
           at == Around(to, u, 1)
           M == [L EXCEPT ![to] = t, ![from] = <<>>]
           first == s[1]
           last == s[Len(s)]
<1>1. /\ s \in Seq(Nodes) /\ u \in Seq(Nodes) /\ L \in [Heads -> Seq(Nodes)]
      /\ Shows(m, from, s) /\ Shows(m, to, u)
  BY DEF Holds, Among
<1>2. /\ Len(s) \in Nat /\ Len(s) # 0 /\ DOMAIN s = 1 .. Len(s)
      /\ Len(u) \in Nat /\ DOMAIN u = 1 .. Len(u)
  BY <1>1, LenProperties, EmptySeq
<1>3. /\ \A i \in 0 .. Len(s) + 1 : Around(from, s, i) \in Pointers
      /\ \A i \in 0 .. Len(u) + 1 : Around(to, u, i) \in Pointers
      /\ Around(from, s, 0) = from /\ Around(to, u, 0) = to /\ Around(to, u, Len(u) + 1) = to
      /\ Around(from, s, 1) = first /\ Around(from, s, Len(s)) = last
  <2>1. 1 \in 1 .. Len(s) /\ Len(s) \in 1 .. Len(s)
    BY <1>2
  <2> QED
    BY <1>1, <2>1, AroundIs DEF Pointers
<1>4. /\ \A i, j \in 0 .. Len(s) : Around(from, s, i) = Around(from, s, j) => i = j
      /\ \A i, j \in 1 .. Len(s) + 1 : Around(from, s, i) = Around(from, s, j) => i = j
      /\ \A i, j \in 0 .. Len(u) : Around(to, u, i) = Around(to, u, j) => i = j
      /\ \A i, j \in 1 .. Len(u) + 1 : Around(to, u, i) = Around(to, u, j) => i = j
      /\ \A i \in 0 .. Len(s) + 1, j \in 0 .. Len(u) + 1 :
            Around(from, s, i) # Around(to, u, j)
  BY AroundApart
<1>5. /\ \A i \in 0 .. Len(s) : /\ m.next[Around(from, s, i)] = Around(from, s, i + 1)
                                /\ m.prev[Around(from, s, i + 1)] = Around(from, s, i)
      /\ \A i \in 0 .. Len(u) : /\ m.next[Around(to, u, i)] = Around(to, u, i + 1)
                                /\ m.prev[Around(to, u, i + 1)] = Around(to, u, i)
  BY <1>1 DEF Shows
<1>6. \A x \in Pointers :
       /\ q.next[x] = IF x = from THEN from ELSE IF x = to THEN first
                      ELSE IF x = last THEN at ELSE m.next[x]
       /\ q.prev[x] = IF x = from THEN from ELSE IF x = first THEN to
                      ELSE IF x = at THEN last ELSE m.prev[x]
  BY DEF PutBefore
<1>7. /\ t \in Seq(Nodes) /\ Len(t) = Len(s) + Len(u) /\ DOMAIN t = 1 .. Len(s) + Len(u)
      /\ \A i \in 0 .. Len(s) + Len(u) + 1 :
            Around(to, t, i) = IF i = 0 THEN to ELSE IF i <= Len(s) THEN Around(from, s, i)
                               ELSE Around(to, u, i - Len(s))
  <2>1. \A i \in 0 .. Len(s) + Len(u) + 1 :
            Around(to, t, i) = IF i = 0 THEN to ELSE IF i <= Len(s) THEN Around(from, s, i)
                               ELSE Around(to, u, i - Len(s))
    BY <1>1, AroundBoth
  <2>2. 0 \in 0 .. Len(s) + Len(u) + 1
    <3> HIDE DEF s, u
    <3> QED
      BY <1>2
  <2>3. t \in Seq(Nodes) /\ Len(t) = Len(s) + Len(u) /\ DOMAIN t = 1 .. Len(s) + Len(u)
    BY <1>1, <2>2, AroundBoth
  <2> QED
    BY <2>1, <2>3
<1> HIDE DEF at, first, last, t, s, u
<1>8. /\ at \in Pointers /\ at # from /\ at # first /\ at # last
      /\ first \in Pointers /\ first # from /\ first # to
      /\ last \in Pointers /\ last # from /\ last # to /\ from # to
      /\ from \in Pointers /\ to \in Pointers
  <2>1. 0 \in 0 .. Len(s) /\ 1 \in 0 .. Len(s) /\ Len(s) \in 0 .. Len(s) /\ Len(s) # 0
        /\ 0 \in 0 .. Len(s) + 1 /\ 1 \in 0 .. Len(s) + 1 /\ Len(s) \in 0 .. Len(s) + 1
        /\ 0 \in 0 .. Len(u) + 1 /\ 1 \in 0 .. Len(u) + 1
    BY <1>2
  <2> QED
    BY <1>3, <1>4, <2>1 DEF at
<1>9. ASSUME NEW i \in 0 .. Len(s) + Len(u)
      PROVE  /\ q.next[Around(to, t, i)] = Around(to, t, i + 1)
             /\ q.prev[Around(to, t, i + 1)] = Around(to, t, i)
  <2>1. i \in 0 .. Len(s) + Len(u) + 1 /\ i + 1 \in 0 .. Len(s) + Len(u) + 1 /\ i + 1 # 0
    BY <1>2
  <2>2. CASE i = 0
    <3>1. Around(to, t, i) = to /\ Around(to, t, i + 1) = first
      BY <1>2, <1>3, <1>7, <2>1, <2>2
    <3> QED
      BY <1>6, <1>8, <3>1
  <2>3. CASE i # 0 /\ i < Len(s)
    <3>1. /\ Around(to, t, i) = Around(from, s, i)
          /\ Around(to, t, i + 1) = Around(from, s, i + 1)
      BY <1>2, <1>7, <2>1, <2>3
    <3>2. /\ i \in 0 .. Len(s) /\ i + 1 \in 0 .. Len(s) /\ Len(s) \in 0 .. Len(s)
          /\ 0 \in 0 .. Len(s) /\ 1 \in 0 .. Len(s)
          /\ i # 0 /\ i + 1 # 0 /\ i # Len(s) /\ i + 1 # 1
          /\ i \in 0 .. Len(s) + 1 /\ i + 1 \in 0 .. Len(s) + 1
          /\ 0 \in 0 .. Len(u) + 1 /\ 1 \in 0 .. Len(u) + 1
      BY <1>2, <2>3
    <3>3. /\ Around(from, s, i) # from /\ Around(from, s, i) # last /\ Around(from, s, i) # to
          /\ Around(from, s, i + 1) # from /\ Around(from, s, i + 1) # first
          /\ Around(from, s, i + 1) # at
      <4>1. Around(from, s, i) # from /\ Around(from, s, i) # last
        BY <1>3, <1>4, <3>2
      <4>2. Around(from, s, i + 1) # from /\ Around(from, s, i + 1) # first
        BY <1>3, <1>4, <3>2
      <4>3. Around(from, s, i) # to /\ Around(from, s, i + 1) # at
        BY <1>3, <1>4, <3>2 DEF at
      <4> QED
        BY <4>1, <4>2, <4>3
    <3>4. Around(from, s, i) \in Pointers /\ Around(from, s, i + 1) \in Pointers
      BY <1>3, <3>2
    <3>5. /\ m.next[Around(from, s, i)] = Around(from, s, i + 1)
          /\ m.prev[Around(from, s, i + 1)] = Around(from, s, i)
      BY <1>5, <3>2
    <3> QED
      BY <1>6, <3>1, <3>3, <3>4, <3>5
  <2>4. CASE i = Len(s)
    <3>1. Around(to, t, i) = last /\ Around(to, t, i + 1) = at
      <4>1. ~(i + 1 <= Len(s)) /\ (i + 1) - Len(s) = 1 /\ i <= Len(s) /\ i # 0
        BY <1>2, <2>4
      <4> QED
        BY <1>3, <1>7, <2>1, <2>4, <4>1 DEF at
    <3> QED
      BY <1>6, <1>8, <3>1
  <2>5. CASE i > Len(s)
    <3> DEFINE j == i - Len(s)
    <3>1. /\ j \in 1 .. Len(u) /\ j \in 0 .. Len(u) /\ j + 1 \in 1 .. Len(u) + 1
          /\ 0 \in 0 .. Len(u) /\ 1 \in 1 .. Len(u) + 1 /\ j # 0 /\ j + 1 # 1
          /\ j \in 0 .. Len(u) + 1 /\ j + 1 \in 0 .. Len(u) + 1
          /\ 0 \in 0 .. Len(s) + 1 /\ 1 \in 0 .. Len(s) + 1 /\ Len(s) \in 0 .. Len(s) + 1
          /\ (i + 1) - Len(s) = j + 1 /\ ~(i <= Len(s)) /\ ~(i + 1 <= Len(s)) /\ i # 0
      BY <1>2, <2>5
    <3>2. Around(to, t, i) = Around(to, u, j) /\ Around(to, t, i + 1) = Around(to, u, j + 1)
      BY <1>7, <2>1, <3>1
    <3> HIDE DEF j
    <3>3. /\ Around(to, u, j) # from /\ Around(to, u, j) # last
          /\ Around(to, u, j + 1) # from /\ Around(to, u, j + 1) # first
      BY <1>3, <1>4, <3>1
    <3>4. Around(to, u, j) # to /\ Around(to, u, j + 1) # at
      BY <1>3, <1>4, <3>1 DEF at
    <3>5. Around(to, u, j) \in Pointers /\ Around(to, u, j + 1) \in Pointers
      BY <1>3, <3>1
    <3>6. /\ m.next[Around(to, u, j)] = Around(to, u, j + 1)
          /\ m.prev[Around(to, u, j + 1)] = Around(to, u, j)
      BY <1>5, <3>1
    <3> QED
      BY <1>6, <3>2, <3>3, <3>4, <3>5, <3>6
  <2> QED
    BY <1>2, <2>2, <2>3, <2>4, <2>5
<1>10. Shows(q, to, t)
  BY <1>7, <1>9 DEF Shows
<1>11. Shows(q, from, <<>>)
  <2>1. Around(from, <<>>, 0) = from /\ Around(from, <<>>, 1) = from
    BY DEF Around
  <2> QED
    BY <1>6, <1>8, <2>1 DEF Shows
<1>12. ASSUME NEW g \in Heads, g # from, g # to
       PROVE  Shows(q, g, L[g])
  <2>1. /\ L[g] \in Seq(Nodes) /\ Shows(m, g, L[g])
        /\ \A i \in 0 .. Len(L[g]) + 1 : Around(g, L[g], i) \in Pointers
    BY <1>1, AroundIs DEF Holds, Pointers, Among
  <2>2. /\ 0 \in 0 .. Len(s) + 1 /\ 1 \in 0 .. Len(s) + 1 /\ Len(s) \in 0 .. Len(s) + 1
        /\ 0 \in 0 .. Len(u) + 1 /\ 1 \in 0 .. Len(u) + 1
    BY <1>2
  <2>3. \A i \in 0 .. Len(L[g]) + 1 :
           /\ \A j \in 0 .. Len(s) + 1 : Around(g, L[g], i) # Around(from, s, j)
           /\ \A j \in 0 .. Len(u) + 1 : Around(g, L[g], i) # Around(to, u, j)
    <3>1. \A i \in 0 .. Len(L[g]) + 1, j \in 0 .. Len(L[from]) + 1 :
             Around(g, L[g], i) # Around(from, L[from], j)
      BY <1>12, AroundApart
    <3>2. \A i \in 0 .. Len(L[g]) + 1, j \in 0 .. Len(L[to]) + 1 :
             Around(g, L[g], i) # Around(to, L[to], j)
      BY <1>12, AroundApart
    <3> QED
      BY <3>1, <3>2 DEF s, u
  <2>4. \A i \in 0 .. Len(L[g]) + 1 :
           /\ Around(g, L[g], i) # from /\ Around(g, L[g], i) # to /\ Around(g, L[g], i) # at
           /\ Around(g, L[g], i) # first /\ Around(g, L[g], i) # last
    BY <1>3, <2>2, <2>3 DEF at
  <2>5. \A i \in 0 .. Len(L[g]) + 1 :
           /\ q.next[Around(g, L[g], i)] = m.next[Around(g, L[g], i)]
           /\ q.prev[Around(g, L[g], i)] = m.prev[Around(g, L[g], i)]
    BY <1>6, <2>1, <2>4
  <2> QED
    BY <2>1, <2>5, Untouched
<1>13. /\ M \in [Heads -> Seq(Nodes)] /\ M[to] = t /\ M[from] = <<>>
       /\ \A g \in Heads : g # from /\ g # to => M[g] = L[g]
  <2>1. <<>> \in Seq(Nodes)
    OBVIOUS
  <2> QED
    BY <1>1, <1>7, <2>1
<1>14. /\ \A j \in DOMAIN t : \/ j \in DOMAIN s /\ t[j] = s[j]
                              \/ j - Len(s) \in DOMAIN u /\ t[j] = u[j - Len(s)]
       /\ \A j \in DOMAIN s : j \in DOMAIN t /\ t[j] = s[j]
       /\ \A j \in DOMAIN u : j + Len(s) \in DOMAIN t /\ t[j + Len(s)] = u[j]
  <2>1. \A j \in 1 .. Len(s) + Len(u) : t[j] = IF j <= Len(s) THEN s[j] ELSE u[j - Len(s)]
    BY <1>1, ConcatProperties DEF t
  <2> HIDE DEF t
  <2>2. ASSUME NEW j \in DOMAIN u PROVE j + Len(s) \in DOMAIN t /\ t[j + Len(s)] = u[j]
    <3>1. /\ j + Len(s) \in 1 .. Len(s) + Len(u) /\ ~(j + Len(s) <= Len(s))
          /\ (j + Len(s)) - Len(s) = j
      BY <1>2
    <3> QED
      BY <1>7, <2>1, <3>1
  <2>3. \A j \in DOMAIN t : \/ j \in DOMAIN s /\ t[j] = s[j]
                            \/ j - Len(s) \in DOMAIN u /\ t[j] = u[j - Len(s)]
    BY <1>2, <1>7, <2>1
  <2>4. \A j \in DOMAIN s : j \in DOMAIN t /\ t[j] = s[j]
    BY <1>2, <1>7, <2>1
  <2> QED
    BY <2>2, <2>3, <2>4
<1>15. \A x, y \in Heads : \A v \in DOMAIN L[x], w \in DOMAIN L[y] :
          L[x][v] = L[y][w] => x = y /\ v = w
  BY DEF Holds, Apart, Among
<1>16. /\ \A v, w \in DOMAIN s : s[v] = s[w] => v = w
       /\ \A v, w \in DOMAIN u : u[v] = u[w] => v = w
       /\ \A v \in DOMAIN s, w \in DOMAIN u : s[v] # u[w]
       /\ \A g \in Heads : g # from /\ g # to =>
             \A v \in DOMAIN L[g] : /\ \A w \in DOMAIN s : L[g][v] # s[w]
                                    /\ \A w \in DOMAIN u : L[g][v] # u[w]
  <2>1. \A v, w \in DOMAIN s : s[v] = s[w] => v = w
    BY <1>15 DEF s
  <2>2. \A v, w \in DOMAIN u : u[v] = u[w] => v = w
    BY <1>15 DEF u
  <2>3. \A v \in DOMAIN s, w \in DOMAIN u : s[v] # u[w]
    BY <1>15 DEF s, u
  <2>4. ASSUME NEW g \in Heads, g # from, g # to, NEW v \in DOMAIN L[g]
        PROVE  /\ \A w \in DOMAIN s : L[g][v] # s[w]
               /\ \A w \in DOMAIN u : L[g][v] # u[w]
    BY <1>15, <2>4 DEF s, u
  <2> QED
    BY <2>1, <2>2, <2>3, <2>4
<1>17. DOMAIN M[from] = {}
  BY <1>13
<1> HIDE DEF M
<1>18. Apart(M)
  <2> SUFFICES ASSUME NEW f \in Heads, NEW g \in Heads, NEW i \in DOMAIN M[f], NEW j \in DOMAIN M[g],
                      M[f][i] = M[g][j]
               PROVE  f = g /\ i = j
    BY <1>13 DEF Apart
  <2>1. f # from /\ g # from
    BY <1>17
  <2>2. CASE f # to /\ g # to
    BY <1>13, <1>15, <2>1, <2>2
  <2>3. CASE f = to /\ g # to
    BY <1>13, <1>14, <1>16, <2>1, <2>3
  <2>4. CASE f # to /\ g = to
    BY <1>13, <1>14, <1>16, <2>1, <2>4
  <2>5. CASE f = to /\ g = to
    <3>1. i \in DOMAIN t /\ j \in DOMAIN t /\ t[i] = t[j]
      BY <1>13, <2>5
    <3>2. CASE i \in DOMAIN s /\ t[i] = s[i] /\ j \in DOMAIN s /\ t[j] = s[j]
      BY <1>16, <2>5, <3>1, <3>2
    <3>3. CASE /\ i - Len(s) \in DOMAIN u /\ t[i] = u[i - Len(s)]
               /\ j - Len(s) \in DOMAIN u /\ t[j] = u[j - Len(s)]
      <4>1. i - Len(s) = j - Len(s)
        BY <1>16, <3>1, <3>3
      <4>2. i \in Nat /\ j \in Nat
        BY <1>7, <3>1
      <4> QED
        BY <1>2, <2>5, <4>1, <4>2
    <3> QED
      BY <1>14, <1>16, <3>1, <3>2, <3>3
  <2> QED
    BY <2>2, <2>3, <2>4, <2>5
<1>19. N = Members(Nodes, M)
  <2>1. N = Members(Nodes, L)
    BY DEF Holds, Among
  <2>2. ASSUME NEW n \in Nodes, NEW g \in Heads, NEW i \in DOMAIN L[g], L[g][i] = n
        PROVE  \E f \in Heads : \E j \in DOMAIN M[f] : M[f][j] = n
    <3>1. CASE g = from
      <4>1. i \in DOMAIN M[to] /\ M[to][i] = n
        BY <1>13, <1>14, <2>2, <3>1 DEF s
      <4> QED
        BY <4>1
    <3>2. CASE g = to
      <4>1. i + Len(s) \in DOMAIN M[to] /\ M[to][i + Len(s)] = n
        BY <1>13, <1>14, <2>2, <3>2 DEF u
      <4> QED
        BY <4>1
    <3>3. CASE g # from /\ g # to
      BY <1>13, <2>2, <3>3
    <3> QED
      BY <3>1, <3>2, <3>3
  <2>3. ASSUME NEW n \in Nodes, NEW g \in Heads, NEW i \in DOMAIN M[g], M[g][i] = n
        PROVE  \E f \in Heads : \E j \in DOMAIN L[f] : L[f][j] = n
    <3>1. g # from
      BY <1>17
    <3>2. CASE g = to
      <4>1. i \in DOMAIN t /\ t[i] = n
        BY <1>13, <2>3, <3>2
      <4> QED
        BY <1>14, <4>1 DEF s, u
    <3>3. CASE g # to
      BY <1>13, <2>3, <3>1, <3>3
    <3> QED
      BY <3>2, <3>3
  <2> QED
    BY <1>1, <1>13, <2>1, <2>2, <2>3 DEF Members
<1>20. \A g \in Heads : Shows(q, g, M[g])
  BY <1>10, <1>11, <1>12, <1>13
<1>21. Holds(q, M, N)
  BY <1>13, <1>18, <1>19, <1>20 DEF Holds, Among
<1> QED
  BY <1>21 DEF M, t, s, u

-----------------------------------------------------------------------------
(* Every call is a step of ListSeq *)

LEMMA EndsOf ==
  ASSUME NEW m, NEW L, NEW N, Holds(m, L, N), NEW h \in Heads
  PROVE  /\ m.next[h] = Around(h, L[h], 1) /\ m.prev[h] = Around(h, L[h], Len(L[h]))
         /\ m.next[h] \in Pointers /\ m.prev[h] \in Pointers
         /\ Empty(m, h) <=> L[h] = <<>>
         /\ L[h] # <<>> => /\ m.next[h] = L[h][1] /\ m.prev[h] = L[h][Len(L[h])]
                           /\ m.next[h] # h /\ m.prev[h] # h
<1> DEFINE s == L[h]
<1>1. s \in Seq(Nodes) /\ Shows(m, h, s) /\ m \in LinkType
  BY DEF Holds, Among
<1>2. /\ Len(s) \in Nat /\ Around(h, s, 0) = h /\ Around(h, s, Len(s) + 1) = h
      /\ \A i \in 1 .. Len(s) : Around(h, s, i) = s[i] /\ s[i] # h
  BY <1>1, AroundIs
<1>3. m.next[h] = Around(h, s, 1) /\ m.prev[h] = Around(h, s, Len(s))
  <2>1. 0 \in 0 .. Len(s) /\ Len(s) \in 0 .. Len(s) /\ 0 + 1 = 1
    BY <1>2
  <2>2. m.next[Around(h, s, 0)] = Around(h, s, 0 + 1)
    BY <1>1, <2>1 DEF Shows
  <2>3. m.prev[Around(h, s, Len(s) + 1)] = Around(h, s, Len(s))
    BY <1>1, <2>1 DEF Shows
  <2> QED
    BY <1>2, <2>1, <2>2, <2>3
<1>4. m.next[h] \in Pointers /\ m.prev[h] \in Pointers
  BY <1>1 DEF LinkType, Pointers, Struct
<1>5. s # <<>> => /\ m.next[h] = s[1] /\ m.prev[h] = s[Len(s)]
                  /\ m.next[h] # h /\ m.prev[h] # h
  <2> SUFFICES ASSUME s # <<>>
               PROVE  /\ m.next[h] = s[1] /\ m.prev[h] = s[Len(s)]
                      /\ m.next[h] # h /\ m.prev[h] # h
    OBVIOUS
  <2>1. Len(s) # 0
    BY <1>1, EmptySeq
  <2>2. 1 \in 1 .. Len(s) /\ Len(s) \in 1 .. Len(s)
    BY <1>2, <2>1
  <2> QED
    BY <1>2, <1>3, <2>2
<1>6. s = <<>> => m.next[h] = h
  <2>1. Len(<<>>) + 1 = 1
    BY EmptySeq
  <2> QED
    BY <1>2, <1>3, <2>1
<1> QED
  BY <1>3, <1>4, <1>5, <1>6 DEF Empty

\* What a function leaves in the node that is out.
Left(m, n, v, w) == [m EXCEPT !.next[n] = v, !.prev[n] = w]
LeftPrev(m, n, w) == [m EXCEPT !.prev[n] = w]

SameElsewhere(q, m, n) ==
    \A x \in Pointers : x # n => q.next[x] = m.next[x] /\ q.prev[x] = m.prev[x]

LEMMA LeftIs ==
  ASSUME NEW m \in LinkType, NEW n \in Pointers, NEW v \in Pointers, NEW w \in Pointers
  PROVE  /\ m \in LinkType /\ SameElsewhere(m, m, n)
         /\ Left(m, n, v, w) \in LinkType /\ SameElsewhere(Left(m, n, v, w), m, n)
         /\ LeftPrev(m, n, w) \in LinkType /\ SameElsewhere(LeftPrev(m, n, w), m, n)
<1>1. /\ Left(m, n, v, w) \in LinkType
      /\ Left(m, n, v, w).next = [m.next EXCEPT ![n] = v]
      /\ Left(m, n, v, w).prev = [m.prev EXCEPT ![n] = w]
      /\ LeftPrev(m, n, w) \in LinkType
      /\ LeftPrev(m, n, w).next = m.next
      /\ LeftPrev(m, n, w).prev = [m.prev EXCEPT ![n] = w]
  BY DEF Left, LeftPrev, LinkType
<1>2. m.next \in [Pointers -> Pointers] /\ m.prev \in [Pointers -> Pointers]
  BY DEF LinkType
<1> QED
  BY <1>1, <1>2 DEF SameElsewhere

SplicedA(m, from, to, first, last, at) ==
    [m EXCEPT !.prev[first] = to, !.next[to] = first, !.next[last] = at,
              !.prev[at] = last, !.next[from] = from, !.prev[from] = from]
SplicedB(m, from, to, first, last, at) ==
    [m EXCEPT !.next[from] = from, !.prev[from] = from, !.next[last] = at,
              !.next[to] = first, !.prev[first] = to, !.prev[at] = last]

\* What both make of the pointers.
SplicesTo(q, m, from, to, first, last, at) ==
    \A x \in Pointers :
       /\ q.next[x] = IF x = from THEN from ELSE IF x = to THEN first
                      ELSE IF x = last THEN at ELSE m.next[x]
       /\ q.prev[x] = IF x = from THEN from ELSE IF x = first THEN to
                      ELSE IF x = at THEN last ELSE m.prev[x]

LEMMA SplicedLinks ==
  ASSUME NEW m \in LinkType, NEW from \in Pointers, NEW to \in Pointers,
         NEW first \in Pointers, NEW last \in Pointers, NEW at \in Pointers, NEW q,
         from # to, first # from, last # from, last # to, at # from, at # first,
         \/ q = SplicedA(m, from, to, first, last, at)
         \/ q = SplicedB(m, from, to, first, last, at)
  PROVE  q \in LinkType /\ SplicesTo(q, m, from, to, first, last, at)
<1>1. /\ q \in LinkType
      /\ q.next = [m.next EXCEPT ![to] = first, ![last] = at, ![from] = from]
      /\ q.prev = [m.prev EXCEPT ![first] = to, ![at] = last, ![from] = from]
  <2>1. CASE q = SplicedA(m, from, to, first, last, at)
    BY <2>1 DEF LinkType, SplicedA
  <2>2. CASE q = SplicedB(m, from, to, first, last, at)
    BY <2>2 DEF LinkType, SplicedB
  <2> QED
    BY <2>1, <2>2
<1>2. m.next \in [Pointers -> Pointers] /\ m.prev \in [Pointers -> Pointers]
  BY DEF LinkType
<1> QED
  BY <1>1, <1>2 DEF SplicesTo

LEMMA LinkedIs ==
  ASSUME ListInv
  PROVE  /\ Rings!Linked = listed
         /\ \A n \in Nodes, h \in Heads : n \in Rings!In(h) => n \in listed
         /\ \A n : Rings!AllWithout(n) = Off(sequences, n)
<1>1. sequences \in [Heads -> Seq(Nodes)] /\ listed = Members(Nodes, sequences)
  BY DEF ListInv, Holds, Among
<1>2. \A h \in Heads : \A i \in DOMAIN sequences[h] : sequences[h][i] \in Nodes
  BY <1>1, LenProperties
<1> HIDE DEF sequences
<1>3. Rings!Linked = listed
  BY <1>1, <1>2 DEF Rings!Linked, Rings!In, Rings!ToSet, Members
<1>4. \A n \in Nodes, h \in Heads : n \in Rings!In(h) => n \in listed
  BY <1>1, <1>2 DEF Rings!In, Rings!ToSet, Members
<1>5. \A n : Rings!AllWithout(n) = Off(sequences, n)
  BY DEF Rings!AllWithout, Off
<1> QED
  BY <1>3, <1>4, <1>5

LEMMA Stepped ==
  ASSUME NEW L, NEW N, Holds(rings', L, N), listed' = N
  PROVE  sequences' = L /\ ListInv'
<1>1. Read(rings') = L
  BY ReadIs
<1>2. sequences' = Read(rings')
  BY DEF sequences
<1> QED
  BY <1>1, <1>2 DEF ListInv

LEMMA AddStep ==
  ASSUME ListInv, NEW n \in Nodes, NEW h \in Heads
  PROVE  /\ ListAdd(n, h) => ListInv' /\ Rings!AddFront(n, h)
         /\ ListAddTail(n, h) => ListInv' /\ Rings!AddTail(n, h)
<1> HIDE DEF sequences
<1>1. Holds(rings, sequences, listed)
  BY DEF ListInv
<1>2. ASSUME ListAdd(n, h) PROVE ListInv' /\ Rings!AddFront(n, h)
  <2>1. /\ n \notin listed /\ rings' = LinkFirst(rings, n, h) /\ listed' = listed \cup {n}
        /\ call' = <<"add", n, h>>
    BY <1>2 DEF ListAdd, Becomes
  <2>2. Holds(rings', [sequences EXCEPT ![h] = <<n>> \o @], listed')
    BY <1>1, <2>1, AddedIs
  <2>3. sequences' = [sequences EXCEPT ![h] = <<n>> \o @] /\ ListInv'
    BY <2>2, Stepped
  <2> QED
    BY <2>1, <2>3, LinkedIs DEF Rings!AddFront
<1>3. ASSUME ListAddTail(n, h) PROVE ListInv' /\ Rings!AddTail(n, h)
  <2>1. /\ n \notin listed /\ rings' = LinkLast(rings, n, h) /\ listed' = listed \cup {n}
        /\ call' = <<"add_tail", n, h>>
    BY <1>3 DEF ListAddTail, Becomes
  <2>2. Holds(rings', [sequences EXCEPT ![h] = Append(@, n)], listed')
    BY <1>1, <2>1, AddedIs
  <2>3. sequences' = [sequences EXCEPT ![h] = Append(@, n)] /\ ListInv'
    BY <2>2, Stepped
  <2> QED
    BY <2>1, <2>3, LinkedIs DEF Rings!AddTail
<1> QED
  BY <1>2, <1>3

LEMMA DelStep ==
  ASSUME ListInv, NEW n \in Nodes, ListDel(n) \/ ListDelRcu(n) \/ ListDelInit(n)
  PROVE  ListInv' /\ Rings!Delete(n)
<1> HIDE DEF sequences
<1> DEFINE m == Isolate(rings, n)
<1>1. Holds(rings, sequences, listed)
  BY DEF ListInv
<1>2. n \in listed /\ listed' = listed \ {n} /\ call' = <<"del", n>>
  BY DEF ListDel, ListDelRcu, ListDelInit, Deleted, Becomes
<1>3. m \in LinkType /\ n \in Pointers /\ Poison \in Pointers
  BY <1>1, <1>2, IsolateType DEF Pointers, Struct
<1>4. \/ rings' = Left(m, n, Poison, Poison)
      \/ rings' = LeftPrev(m, n, Poison)
      \/ rings' = Left(m, n, n, n)
  BY DEF ListDel, ListDelRcu, ListDelInit, Deleted, Becomes, InitHead, Left, LeftPrev
<1> HIDE DEF m
<1>5. rings' \in LinkType /\ SameElsewhere(rings', m, n)
  BY <1>3, <1>4, LeftIs
<1>6. Holds(rings', Off(sequences, n), listed \ {n})
  BY <1>1, <1>2, <1>5, IsolatedIs DEF m, SameElsewhere
<1>7. sequences' = Off(sequences, n) /\ ListInv'
  BY <1>2, <1>6, Stepped
<1> QED
  BY <1>2, <1>7, LinkedIs DEF Rings!Delete

LEMMA MoveStep ==
  ASSUME ListInv, NEW n \in Nodes, NEW h \in Heads
  PROVE  /\ ListMove(n, h) => ListInv' /\ Rings!Move(n, h)
         /\ ListMoveTail(n, h) => ListInv' /\ Rings!MoveTail(n, h)
<1> HIDE DEF sequences
<1>1. Holds(rings, sequences, listed)
  BY DEF ListInv
<1>2. n \in listed =>
         /\ Holds(LinkFirst(Isolate(rings, n), n, h), [Off(sequences, n) EXCEPT ![h] = <<n>> \o @],
                  listed)
         /\ Holds(LinkLast(Isolate(rings, n), n, h), [Off(sequences, n) EXCEPT ![h] = Append(@, n)],
                  listed)
  <2> SUFFICES ASSUME n \in listed
               PROVE  /\ Holds(LinkFirst(Isolate(rings, n), n, h),
                               [Off(sequences, n) EXCEPT ![h] = <<n>> \o @], listed)
                      /\ Holds(LinkLast(Isolate(rings, n), n, h),
                               [Off(sequences, n) EXCEPT ![h] = Append(@, n)], listed)
    OBVIOUS
  <2>1. Holds(Isolate(rings, n), Off(sequences, n), listed \ {n})
    BY <1>1, IsolateType
  <2>2. n \notin listed \ {n} /\ (listed \ {n}) \cup {n} = listed
    OBVIOUS
  <2> DEFINE M == Off(sequences, n)
             K == listed \ {n}
  <2> HIDE DEF M, K
  <2>3. /\ Holds(LinkFirst(Isolate(rings, n), n, h), [M EXCEPT ![h] = <<n>> \o @], K \cup {n})
        /\ Holds(LinkLast(Isolate(rings, n), n, h), [M EXCEPT ![h] = Append(@, n)], K \cup {n})
    <3>1. Holds(Isolate(rings, n), M, K) /\ n \notin K
      BY <2>1, <2>2 DEF M, K
    <3> QED
      BY <3>1, AddedIs
  <2> QED
    BY <2>2, <2>3 DEF M, K
<1>3. ASSUME ListMove(n, h) PROVE ListInv' /\ Rings!Move(n, h)
  <2>1. /\ n \in listed /\ rings' = LinkFirst(Isolate(rings, n), n, h) /\ listed' = listed
        /\ call' = <<"move", n, h>>
    BY <1>3 DEF ListMove, Becomes
  <2>2. sequences' = [Off(sequences, n) EXCEPT ![h] = <<n>> \o @] /\ ListInv'
    BY <1>2, <2>1, Stepped
  <2> QED
    BY <2>1, <2>2, LinkedIs DEF Rings!Move
<1>4. ASSUME ListMoveTail(n, h) PROVE ListInv' /\ Rings!MoveTail(n, h)
  <2>1. /\ n \in listed /\ rings' = LinkLast(Isolate(rings, n), n, h) /\ listed' = listed
        /\ call' = <<"move_tail", n, h>>
    BY <1>4 DEF ListMoveTail, Becomes
  <2>2. sequences' = [Off(sequences, n) EXCEPT ![h] = Append(@, n)] /\ ListInv'
    BY <1>2, <2>1, Stepped
  <2> QED
    BY <2>1, <2>2, LinkedIs DEF Rings!MoveTail
<1> QED
  BY <1>3, <1>4

LEMMA ReplaceStep ==
  ASSUME ListInv, NEW old \in Nodes, NEW new \in Nodes, ListReplace(old, new)
  PROVE  ListInv' /\ \E h \in Heads : Rings!ReplaceBy(old, h, new)
<1> HIDE DEF sequences
<1> DEFINE after == rings.next[old]
           before == rings.prev[old]
           m == Link(rings, new, before, after)
<1>1. Holds(rings, sequences, listed)
  BY DEF ListInv
<1>2. /\ old \in listed /\ new \notin listed /\ listed' = (listed \ {old}) \cup {new}
      /\ call' = <<"replace", old, new>>
  BY DEF ListReplace, Becomes
<1>3. PICK h \in Heads : \E k \in DOMAIN sequences[h] :
         /\ sequences[h][k] = old
         /\ after = Around(h, sequences[h], k + 1) /\ before = Around(h, sequences[h], k - 1)
  BY <1>1, <1>2, PlaceIs
<1>4. PICK k \in DOMAIN sequences[h] :
         /\ sequences[h][k] = old
         /\ after = Around(h, sequences[h], k + 1) /\ before = Around(h, sequences[h], k - 1)
  BY <1>3
<1>5. rings' = m \/ rings' = Left(m, old, old, old) \/ rings' = LeftPrev(m, old, Poison)
  <2>1. m = [rings EXCEPT !.next[new] = after, !.prev[after] = new,
                          !.prev[new] = before, !.next[before] = new]
    <3>1. rings \in LinkType
      BY <1>1 DEF Holds, Among
    <3> QED
      BY <3>1 DEF Link, LinkType
  <2> QED
    BY <2>1 DEF ListReplace, Becomes, InitHead, Left, LeftPrev
<1>6. /\ rings \in LinkType /\ after \in Pointers /\ before \in Pointers
      /\ new \in Pointers /\ old \in Pointers /\ Poison \in Pointers
      /\ new # after /\ new # before
  <2>1. rings \in LinkType /\ after \in Pointers /\ before \in Pointers
    BY <1>1, <1>2, PlaceIs
  <2>2. sequences[h] \in Seq(Nodes)
    BY <1>1 DEF Holds, Among
  <2>3. k + 1 \in 0 .. Len(sequences[h]) + 1 /\ k - 1 \in 0 .. Len(sequences[h]) + 1
    BY <2>2, LenProperties
  <2>4. new # after /\ new # before
    BY <1>1, <1>2, <1>4, <2>3, AroundApart
  <2> QED
    BY <2>1, <2>4 DEF Pointers, Struct
<1> HIDE DEF after, before
<1>7. /\ m \in LinkType
      /\ \A x \in Pointers :
            /\ m.next[x] = IF x = before THEN new ELSE IF x = new THEN after ELSE rings.next[x]
            /\ m.prev[x] = IF x = after THEN new ELSE IF x = new THEN before ELSE rings.prev[x]
  BY <1>6, LinkIs
<1> HIDE DEF m
<1>8. rings' \in LinkType /\ SameElsewhere(rings', m, old)
  <2>1. m \in LinkType /\ old \in Pointers /\ Poison \in Pointers
    BY <1>6, <1>7
  <2>2. /\ SameElsewhere(m, m, old)
        /\ Left(m, old, old, old) \in LinkType /\ SameElsewhere(Left(m, old, old, old), m, old)
        /\ LeftPrev(m, old, Poison) \in LinkType
        /\ SameElsewhere(LeftPrev(m, old, Poison), m, old)
    BY <2>1, LeftIs
  <2> QED
    BY <1>5, <2>1, <2>2
<1>9. TakesPlace(rings', rings, h, sequences[h], k, new)
  BY <1>4, <1>7, <1>8 DEF TakesPlace, SameElsewhere
<1>10. Holds(rings', [sequences EXCEPT ![h][k] = new], (listed \ {old}) \cup {new})
  BY <1>1, <1>2, <1>4, <1>8, <1>9, Replaced
<1>11. sequences' = [sequences EXCEPT ![h][k] = new] /\ ListInv'
  BY <1>2, <1>10, Stepped
<1>12. Rings!Place(old, h) = k /\ old \in Rings!In(h)
  <2>1. \A i \in DOMAIN sequences[h] : sequences[h][i] = sequences[h][k] => i = k
    BY <1>1 DEF Holds, Apart, Among
  <2>2. Rings!Position(sequences[h][k], sequences[h]) = k
    BY <2>1, PositionIs
  <2> QED
    BY <1>4, <2>2 DEF Rings!Place, Rings!In, Rings!ToSet
<1> QED
  BY <1>2, <1>11, <1>12, LinkedIs DEF Rings!ReplaceBy

\* list_splice_init_rcu is the splice it is named for where both lists have nodes.
LEMMA SpliceStep ==
  ASSUME ListInv, NEW from \in Heads, NEW to \in Heads
  PROVE  /\ ListSpliceInit(from, to) => ListInv' /\ Rings!Splice(from, to)
         /\ ListSpliceInitRcu(from, to) /\ ~Empty(rings, from) /\ ~Empty(rings, to)
              => ListInv' /\ Rings!SpliceRcu(from, to)
<1> HIDE DEF sequences
<1> DEFINE s == sequences[from]
           u == sequences[to]
           first == rings.next[from]
           last == rings.prev[from]
           at == rings.next[to]
           M == [sequences EXCEPT ![to] = s \o @, ![from] = <<>>]
<1>1. Holds(rings, sequences, listed)
  BY DEF ListInv
<1>2. /\ Empty(rings, from) <=> s = <<>>
      /\ Empty(rings, to) <=> u = <<>>
      /\ rings \in LinkType /\ first \in Pointers /\ last \in Pointers /\ at \in Pointers
      /\ from \in Pointers /\ to \in Pointers
      /\ s \in Seq(Nodes) /\ u \in Seq(Nodes) /\ sequences \in [Heads -> Seq(Nodes)]
  <2>1. rings \in LinkType /\ s \in Seq(Nodes) /\ u \in Seq(Nodes)
        /\ sequences \in [Heads -> Seq(Nodes)]
    BY <1>1 DEF Holds, Among
  <2>2. from \in Pointers /\ to \in Pointers
    BY DEF Pointers, Struct
  <2> QED
    BY <1>1, <2>1, <2>2, EndsOf
<1>3. ASSUME from # to, s # <<>>
      PROVE  /\ first = s[1] /\ last = s[Len(s)] /\ at = Around(to, u, 1)
             /\ first # from /\ first # to /\ last # from /\ last # to
             /\ at # from /\ at # first /\ at # last
  <2>1. first = s[1] /\ last = s[Len(s)] /\ first # from /\ last # from
        /\ first = Around(from, s, 1) /\ last = Around(from, s, Len(s)) /\ at = Around(to, u, 1)
    BY <1>1, <1>3, EndsOf
  <2>2. /\ 0 \in 0 .. Len(s) + 1 /\ 1 \in 0 .. Len(s) + 1 /\ Len(s) \in 0 .. Len(s) + 1
        /\ 0 \in 0 .. Len(u) + 1 /\ 1 \in 0 .. Len(u) + 1
        /\ Around(from, s, 0) = from /\ Around(to, u, 0) = to
    BY <1>2, AroundIs
  <2>3. \A i \in 0 .. Len(s) + 1, j \in 0 .. Len(u) + 1 : Around(from, s, i) # Around(to, u, j)
    BY <1>1, <1>3, AroundApart
  <2> QED
    BY <2>1, <2>2, <2>3
<1>4. ASSUME from # to, s # <<>>, NEW q \in LinkType,
             SplicesTo(q, rings, from, to, first, last, at)
      PROVE  Holds(q, M, listed)
  <2>1. PutBefore(q, rings, from, s, to, u)
    BY <1>3, <1>4 DEF PutBefore, SplicesTo
  <2> QED
    BY <1>1, <1>4, <2>1, SplicedIn
<1>5. ASSUME ListSpliceInit(from, to) PROVE ListInv' /\ Rings!Splice(from, to)
  <2> DEFINE q == InitHead(Spliced(rings, from, to), from)
  <2>1. /\ from # to /\ listed' = listed /\ call' = <<"splice", from, to>>
        /\ rings' = IF Empty(rings, from) THEN rings ELSE q
    BY <1>5 DEF ListSpliceInit, Becomes
  <2>2. CASE s = <<>>
    <3>1. \A e \in Seq(Nodes) : <<>> \o e = e
      BY ConcatEmptySeq
    <3>2. M = sequences
      BY <1>2, <2>1, <2>2, <3>1
    <3>3. Holds(rings', M, listed)
      BY <1>1, <1>2, <2>1, <2>2, <3>2
    <3>4. sequences' = M /\ ListInv'
      BY <2>1, <3>3, Stepped
    <3> QED
      BY <2>1, <3>4 DEF Rings!Splice, Rings!Joined
  <2>3. CASE s # <<>>
    <3>1. rings' = SplicedA(rings, from, to, first, last, at)
      <4>1. rings' = q
        BY <1>2, <2>1, <2>3
      <4> QED
        BY <1>2, <4>1 DEF InitHead, Spliced, SplicedA, LinkType
    <3>2. /\ first # from /\ first # to /\ last # from /\ last # to
          /\ at # from /\ at # first /\ at # last
      BY <1>3, <2>1, <2>3
    <3> HIDE DEF first, last, at, M, s
    <3>3. rings' \in LinkType /\ SplicesTo(rings', rings, from, to, first, last, at)
      BY <1>2, <2>1, <3>1, <3>2, SplicedLinks
    <3>4. Holds(rings', M, listed)
      BY <1>4, <2>1, <2>3, <3>3
    <3>5. sequences' = M /\ ListInv'
      BY <2>1, <3>4, Stepped
    <3> QED
      BY <2>1, <3>5 DEF Rings!Splice, Rings!Joined, M, s
  <2> QED
    BY <2>2, <2>3
<1>6. ASSUME ListSpliceInitRcu(from, to), ~Empty(rings, from), ~Empty(rings, to)
      PROVE  ListInv' /\ Rings!SpliceRcu(from, to)
  <2> DEFINE q == [InitHead(rings, from) EXCEPT !.next[last] = at, !.next[to] = first,
                                                !.prev[first] = to, !.prev[at] = last]
  <2>1. /\ from # to /\ s # <<>> /\ listed' = listed /\ call' = <<"splice_rcu", from, to>>
        /\ rings' = q
    BY <1>2, <1>6 DEF ListSpliceInitRcu, Becomes
  <2>2. rings' = SplicedB(rings, from, to, first, last, at)
    BY <1>2, <2>1 DEF InitHead, SplicedB, LinkType
  <2>3. /\ first # from /\ first # to /\ last # from /\ last # to
        /\ at # from /\ at # first /\ at # last
    BY <1>3, <2>1
  <2> HIDE DEF first, last, at, M, s, u
  <2>4. rings' \in LinkType /\ SplicesTo(rings', rings, from, to, first, last, at)
    BY <1>2, <2>1, <2>2, <2>3, SplicedLinks
  <2>5. Holds(rings', M, listed)
    BY <1>4, <2>1, <2>4
  <2>6. sequences' = M /\ ListInv'
    BY <2>1, <2>5, Stepped
  <2> QED
    BY <2>1, <2>6 DEF Rings!SpliceRcu, Rings!Joined, M, s
<1> QED
  BY <1>5, <1>6

LEMMA KListStart ==
  ASSUME KListInit
  PROVE  ListInv /\ Rings!SeqInit
<1> DEFINE L == [h \in Heads |-> <<>>]
<1>1. /\ rings \in LinkType
      /\ \A h \in Heads : rings.next[h] = h /\ rings.prev[h] = h
  BY DEF KListInit, LinkType, Pointers, Struct
<1>2. L \in [Heads -> Seq(Nodes)] /\ \A h \in Heads : L[h] = <<>>
  <2>1. <<>> \in Seq(Nodes)
    OBVIOUS
  <2> QED
    BY <2>1
<1> HIDE DEF L
<1>3. \A h \in Heads : Shows(rings, h, L[h])
  <2> SUFFICES ASSUME NEW h \in Heads PROVE Shows(rings, h, <<>>)
    BY <1>2
  <2>1. Around(h, <<>>, 0) = h /\ Around(h, <<>>, 0 + 1) = h /\ 0 .. Len(<<>>) = {0}
    BY DEF Around
  <2> QED
    BY <1>1, <2>1 DEF Shows
<1>4. Apart(L) /\ Members(Nodes, L) = {}
  <2>1. \A h \in Heads : DOMAIN L[h] = {}
    BY <1>2
  <2> QED
    BY <1>2, <2>1 DEF Apart, Members
<1>5. Holds(rings, L, listed)
  BY <1>1, <1>2, <1>3, <1>4 DEF Holds, KListInit, Among
<1>6. sequences = L
  BY <1>5, ReadIs DEF sequences
<1> HIDE DEF sequences
<1> QED
  BY <1>5, <1>6 DEF ListInv, Rings!SeqInit, KListInit, L

LEMMA KListStep ==
  ASSUME ListInv, [KListNext]_klistVars
  PROVE  ListInv' /\ [Rings!SeqNext]_klistVars
<1>1. CASE UNCHANGED klistVars
  <2>1. rings' = rings /\ listed' = listed
    BY <1>1 DEF klistVars
  <2>2. sequences' = sequences
    BY <2>1 DEF sequences
  <2> HIDE DEF sequences
  <2> QED
    BY <1>1, <2>1, <2>2 DEF ListInv
<1> HIDE DEF sequences
<1>2. ASSUME NEW n \in Nodes, NEW h \in Heads,
             ListAdd(n, h) \/ ListAddTail(n, h) \/ ListMove(n, h) \/ ListMoveTail(n, h)
      PROVE  ListInv' /\ Rings!SeqNext
  <2>1. /\ ListInv'
        /\ \/ Rings!AddFront(n, h) \/ Rings!AddTail(n, h)
           \/ Rings!Move(n, h) \/ Rings!MoveTail(n, h)
    BY <1>2, AddStep, MoveStep
  <2> QED
    BY <2>1 DEF Rings!SeqNext
<1>3. ASSUME NEW n \in Nodes, ListDel(n) \/ ListDelRcu(n) \/ ListDelInit(n)
      PROVE  ListInv' /\ Rings!SeqNext
  <2>1. ListInv' /\ Rings!Delete(n)
    BY <1>3, DelStep
  <2> QED
    BY <2>1 DEF Rings!SeqNext
<1>4. ASSUME NEW old \in Nodes, NEW new \in Nodes, ListReplace(old, new)
      PROVE  ListInv' /\ Rings!SeqNext
  <2>1. ListInv' /\ \E h \in Heads : Rings!ReplaceBy(old, h, new)
    BY <1>4, ReplaceStep
  <2> QED
    BY <2>1 DEF Rings!SeqNext
<1>5. ASSUME NEW from \in Heads, NEW to \in Heads, ListSpliceInit(from, to)
      PROVE  ListInv' /\ Rings!SeqNext
  <2>1. ListInv' /\ Rings!Splice(from, to)
    BY <1>5, SpliceStep
  <2> QED
    BY <2>1 DEF Rings!SeqNext
<1> QED
  BY <1>1, <1>2, <1>3, <1>4, <1>5 DEF KListNext

\* The pointers of the lists of klist.h hold sequences of nodes, and each of
\* its functions changes the sequences as its name says: list_add,
\* list_add_tail, list_del, list_replace, list_move and list_move_tail, their
\* rcu and init forms, and list_splice and list_splice_init, in any order of
\* legal calls.  list_splice_init_rcu is not among them.
THEOREM ListsImplementSequences == KListSpec => []ListInv /\ ImplementsListSeq
<1>1. KListInit => ListInv /\ Rings!SeqInit
  BY KListStart
<1>2. ListInv /\ [KListNext]_klistVars => ListInv' /\ [Rings!SeqNext]_klistVars
  BY KListStep
<1> QED
  BY <1>1, <1>2, PTL DEF KListSpec, ImplementsListSeq

-----------------------------------------------------------------------------
(* The hash-bucket lists *)

Links == Buckets \cup Entries
Targets == Links \cup {Nil}
ChainType == [next : [Links -> Targets], pprev : [Entries -> Targets]]

\* The pointers m hold the sequences L; a node without pprev is in none.
ChainHolds(m, L, N) ==
    /\ m \in ChainType
    /\ Among(Buckets, Entries, L, N)
    /\ \A h \in Buckets : Leads(m, h, L[h])
    /\ \A n \in Entries : m.pprev[n] # Nil <=> n \in N

HListInv == ChainHolds(chain, Chained(chain), Members(Entries, Chained(chain)))

LEMMA AlongIs ==
  ASSUME NEW h \in Buckets, NEW s \in Seq(Entries)
  PROVE  /\ Len(s) \in Nat /\ DOMAIN s = 1 .. Len(s)
         /\ Along(h, s, 0) = h /\ Along(h, s, Len(s) + 1) = Nil
         /\ \A i \in 1 .. Len(s) : Along(h, s, i) = s[i] /\ s[i] \in Entries
         /\ \A i \in 0 .. Len(s) : Along(h, s, i) \in Links
         /\ \A i \in 0 .. Len(s) + 1 : Along(h, s, i) \in Targets
<1>1. Len(s) \in Nat /\ DOMAIN s = 1 .. Len(s) /\ \A i \in 1 .. Len(s) : s[i] \in Entries
  BY LenProperties
<1>2. Along(h, s, 0) = h /\ Along(h, s, Len(s) + 1) = Nil
  BY <1>1 DEF Along
<1>3. \A i \in 1 .. Len(s) : Along(h, s, i) = s[i]
  BY <1>1 DEF Along
<1>4. \A i \in 0 .. Len(s) : Along(h, s, i) \in Links
  BY <1>1 DEF Along, Links
<1>5. \A i \in 0 .. Len(s) + 1 : Along(h, s, i) \in Targets
  BY <1>1 DEF Along, Links, Targets
<1> QED
  BY <1>1, <1>2, <1>3, <1>4, <1>5

\* Two sequences to which one bucket leads are equal.
LEMMA LedOnce ==
  ASSUME NEW m, NEW h \in Buckets, NEW s \in Seq(Entries), NEW t \in Seq(Entries),
         Leads(m, h, s), Leads(m, h, t)
  PROVE  s = t
<1> DEFINE bad == {i \in Nat : /\ i <= Len(s) /\ i <= Len(t)
                               /\ Along(h, s, i) # Along(h, t, i)}
<1>1. Len(s) \in Nat /\ Len(t) \in Nat
  BY LenProperties
<1>2. bad = {}
  <2> SUFFICES ASSUME bad # {} PROVE FALSE
    OBVIOUS
  <2>1. PICK i \in bad : \A j \in bad : i <= j
    BY LeastNumber
  <2>2. i \in Nat /\ i <= Len(s) /\ i <= Len(t) /\ Along(h, s, i) # Along(h, t, i)
    OBVIOUS
  <2>3. i # 0
    BY <2>2, AlongIs
  <2>4. i - 1 \in Nat /\ i - 1 \in 0 .. Len(s) /\ i - 1 \in 0 .. Len(t) /\ (i - 1) + 1 = i
    BY <1>1, <2>2, <2>3
  <2>5. i - 1 \notin bad
    BY <2>1, <2>2
  <2> HIDE DEF bad
  <2>6. Along(h, s, i - 1) = Along(h, t, i - 1)
    BY <1>1, <2>2, <2>4, <2>5 DEF bad
  <2>7. /\ m.next[Along(h, s, i - 1)] = Along(h, s, (i - 1) + 1)
        /\ m.next[Along(h, t, i - 1)] = Along(h, t, (i - 1) + 1)
    BY <2>4 DEF Leads
  <2> QED
    BY <2>2, <2>4, <2>6, <2>7
<1>3. \A i \in 0 .. Len(s) : i <= Len(t) => Along(h, s, i) = Along(h, t, i)
  BY <1>1, <1>2
<1> HIDE DEF bad
<1>4. ASSUME NEW u \in Seq(Entries), NEW v \in Seq(Entries), Leads(m, h, u), Leads(m, h, v),
             \A i \in 0 .. Len(u) : i <= Len(v) => Along(h, u, i) = Along(h, v, i)
      PROVE  ~(Len(u) < Len(v))
  <2> SUFFICES ASSUME Len(u) < Len(v) PROVE FALSE
    OBVIOUS
  <2>1. Len(u) \in Nat /\ Len(v) \in Nat
    BY LenProperties
  <2>2. Len(u) \in 0 .. Len(u) /\ Len(u) \in 0 .. Len(v) /\ Len(u) + 1 \in 1 .. Len(v)
    BY <2>1
  <2>3. /\ m.next[Along(h, u, Len(u))] = Nil
        /\ m.next[Along(h, v, Len(u))] = Along(h, v, Len(u) + 1)
    <3>1. /\ m.next[Along(h, u, Len(u))] = Along(h, u, Len(u) + 1)
          /\ m.next[Along(h, v, Len(u))] = Along(h, v, Len(u) + 1)
      BY <1>4, <2>2 DEF Leads
    <3> QED
      BY <3>1, AlongIs
  <2>4. Along(h, u, Len(u)) = Along(h, v, Len(u))
    BY <1>4, <2>1, <2>2
  <2>5. Along(h, v, Len(u) + 1) \in Entries
    BY <2>2, AlongIs
  <2> QED
    BY <2>3, <2>4, <2>5, HListAssumption
<1>5. Len(s) = Len(t)
  <2>1. ~(Len(s) < Len(t))
    BY <1>3, <1>4
  <2>2. \A i \in 0 .. Len(t) : i <= Len(s) => Along(h, t, i) = Along(h, s, i)
    BY <1>1, <1>3
  <2>3. ~(Len(t) < Len(s))
    BY <1>4, <2>2
  <2> QED
    BY <1>1, <2>1, <2>3
<1>6. \A i \in 1 .. Len(s) : s[i] = t[i]
  BY <1>1, <1>3, <1>5, AlongIs
<1> QED
  BY <1>5, <1>6, SeqEqual

LEMMA ChainedIs ==
  ASSUME NEW m, NEW L, NEW N, ChainHolds(m, L, N)
  PROVE  Chained(m) = L
<1>1. ASSUME NEW h \in Buckets
      PROVE  Chained(m)[h] = L[h]
  <2>1. L[h] \in Seq(Entries) /\ Leads(m, h, L[h])
    BY DEF ChainHolds, Among
  <2>2. \A i, j \in DOMAIN L[h] : L[h][i] = L[h][j] => i = j
    BY DEF ChainHolds, Among, Apart
  <2>3. L[h] \in EntrySeqs
    BY <2>1, <2>2, IsShort, HListAssumption DEF EntrySeqs, ShortSeqs
  <2>4. \A s \in EntrySeqs : Leads(m, h, s) => s = L[h]
    <3>1. \A s \in EntrySeqs : s \in Seq(Entries)
      BY ShortIsSeq, HListAssumption DEF EntrySeqs, ShortSeqs
    <3> QED
      BY <2>1, <3>1, LedOnce
  <2>5. (CHOOSE s \in EntrySeqs : Leads(m, h, s)) = L[h]
    BY <2>1, <2>3, <2>4
  <2> QED
    BY <2>1, <2>3, <2>5 DEF Chained
<1>2. L \in [Buckets -> Seq(Entries)]
  BY DEF ChainHolds, Among
<1> QED
  BY <1>1, <1>2 DEF Chained

\* Nothing comes twice on the way, and buckets share only Nil.
LEMMA AlongApart ==
  ASSUME NEW m, NEW L, NEW N, ChainHolds(m, L, N), NEW h \in Buckets
  PROVE  /\ \A i, j \in 0 .. Len(L[h]) + 1 : Along(h, L[h], i) = Along(h, L[h], j) => i = j
         /\ \A g \in Buckets : g # h =>
               \A i \in 0 .. Len(L[g]), j \in 0 .. Len(L[h]) + 1 :
                  Along(g, L[g], i) # Along(h, L[h], j)
         /\ \A i \in 1 .. Len(L[h]) : L[h][i] \in N
         /\ \A n \in Entries \ N : \A i \in 0 .. Len(L[h]) + 1 : Along(h, L[h], i) # n
<1> DEFINE s == L[h]
<1>1. /\ s \in Seq(Entries) /\ (\A g \in Buckets : L[g] \in Seq(Entries))
      /\ DOMAIN L = Buckets /\ N = Members(Entries, L) /\ Apart(L)
  BY DEF ChainHolds, Among
<1>2. /\ Len(s) \in Nat /\ DOMAIN s = 1 .. Len(s)
      /\ Along(h, s, 0) = h /\ Along(h, s, Len(s) + 1) = Nil
      /\ \A i \in 1 .. Len(s) : Along(h, s, i) = s[i] /\ s[i] \in Entries
  BY <1>1, AlongIs
<1>3. \A x \in Entries : x \notin Buckets /\ x # Nil
  BY HListAssumption
<1>4. h # Nil
  BY HListAssumption
<1>5. \A i, j \in 1 .. Len(s) : s[i] = s[j] => i = j
  BY <1>1, <1>2 DEF Apart
<1>6. \A i \in 1 .. Len(s) : s[i] \in N
  BY <1>1, <1>2 DEF Members
<1>7. ASSUME NEW i \in 0 .. Len(s) + 1, NEW j \in 0 .. Len(s) + 1,
             Along(h, s, i) = Along(h, s, j)
      PROVE  i = j
  <2>1. i = 0 \/ i \in 1 .. Len(s) \/ i = Len(s) + 1
    BY <1>2
  <2>2. j = 0 \/ j \in 1 .. Len(s) \/ j = Len(s) + 1
    BY <1>2
  <2> QED
    BY <1>2, <1>3, <1>4, <1>5, <1>7, <2>1, <2>2
<1>8. ASSUME NEW g \in Buckets, g # h,
             NEW i \in 0 .. Len(L[g]), NEW j \in 0 .. Len(s) + 1
      PROVE  Along(g, L[g], i) # Along(h, s, j)
  <2>1. /\ Len(L[g]) \in Nat /\ DOMAIN L[g] = 1 .. Len(L[g]) /\ Along(g, L[g], 0) = g
        /\ \A k \in 1 .. Len(L[g]) : Along(g, L[g], k) = L[g][k] /\ L[g][k] \in Entries
    BY <1>1, AlongIs
  <2>2. i = 0 \/ i \in 1 .. Len(L[g])
    BY <2>1
  <2>3. j = 0 \/ j = Len(s) + 1 \/ j \in 1 .. Len(s)
    BY <1>2
  <2>4. CASE i \in 1 .. Len(L[g]) /\ j \in 1 .. Len(s)
    BY <1>1, <1>2, <1>8, <2>1, <2>4 DEF Apart
  <2>5. g # Nil
    BY HListAssumption
  <2> QED
    BY <1>2, <1>3, <1>8, <2>1, <2>2, <2>3, <2>4, <2>5
<1>9. ASSUME NEW n \in Entries \ N, NEW i \in 0 .. Len(s) + 1
      PROVE  Along(h, s, i) # n
  <2>1. i = 0 \/ i \in 1 .. Len(s) \/ i = Len(s) + 1
    BY <1>2
  <2> QED
    BY <1>2, <1>3, <1>6, <2>1
<1> QED
  BY <1>6, <1>7, <1>8, <1>9

LEMMA ChainUntouched ==
  ASSUME NEW m, NEW q, NEW g \in Buckets, NEW s \in Seq(Entries), Leads(m, g, s),
         \A i \in 0 .. Len(s) : q.next[Along(g, s, i)] = m.next[Along(g, s, i)],
         \A i \in 1 .. Len(s) : q.pprev[Along(g, s, i)] = m.pprev[Along(g, s, i)]
  PROVE  Leads(q, g, s)
<1>1. DOMAIN s = 1 .. Len(s) /\ \A i \in 1 .. Len(s) : Along(g, s, i) = s[i]
  BY AlongIs
<1> QED
  BY <1>1 DEF Leads

\* n stands in q between b and a, and all else is as in m.
ChainedIn(q, m, n, b, a) ==
    /\ \A x \in Links : q.next[x] = IF x = b THEN n ELSE IF x = n THEN a ELSE m.next[x]
    /\ \A x \in Entries : q.pprev[x] = IF x = a THEN n ELSE IF x = n THEN b ELSE m.pprev[x]

LEMMA EntryIn ==
  ASSUME NEW m, NEW L, NEW N, ChainHolds(m, L, N), NEW n \in Entries, n \notin N,
         NEW h \in Buckets, NEW k \in 0 .. Len(L[h]), NEW t, InsertedAs(Entries, L[h], k, n, t),
         NEW q \in ChainType, ChainedIn(q, m, n, Along(h, L[h], k), Along(h, L[h], k + 1))
  PROVE  ChainHolds(q, [L EXCEPT ![h] = t], N \cup {n})
<1> DEFINE s == L[h]
           b == Along(h, s, k)
           a == Along(h, s, k + 1)
           M == [L EXCEPT ![h] = t]
<1>1. s \in Seq(Entries) /\ (\A g \in Buckets : L[g] \in Seq(Entries)) /\ t \in Seq(Entries)
  BY DEF ChainHolds, Among, InsertedAs
<1>2. /\ Len(s) \in Nat /\ DOMAIN s = 1 .. Len(s) /\ Len(t) = Len(s) + 1
      /\ DOMAIN t = 1 .. Len(s) + 1 /\ k \in Nat
  BY <1>1, LenProperties DEF InsertedAs
<1>3. /\ \A i \in 0 .. Len(s) + 1 : Along(h, s, i) # n
      /\ \A i \in 0 .. Len(s) : Along(h, s, i) \in Links
      /\ \A i \in 1 .. Len(s) : Along(h, s, i) \in Entries
      /\ b \in Links /\ n \in Links /\ n # a /\ n # b /\ n # Nil
  <2>1. /\ \A i \in 0 .. Len(s) + 1 : Along(h, s, i) # n
        /\ \A i \in 0 .. Len(s) : Along(h, s, i) \in Links
        /\ \A i \in 1 .. Len(s) : Along(h, s, i) \in Entries
    BY <1>1, AlongIs, AlongApart
  <2>2. k \in 0 .. Len(s) + 1 /\ k + 1 \in 0 .. Len(s) + 1
    BY <1>2
  <2>3. n \in Links /\ n # Nil
    BY HListAssumption DEF Links
  <2> QED
    BY <2>1, <2>2, <2>3
<1>4. /\ \A x \in Links : q.next[x] = IF x = b THEN n ELSE IF x = n THEN a ELSE m.next[x]
      /\ \A x \in Entries : q.pprev[x] = IF x = a THEN n ELSE IF x = n THEN b ELSE m.pprev[x]
  BY DEF ChainedIn
<1>5. \A i, j \in 0 .. Len(s) + 1 : Along(h, s, i) = Along(h, s, j) => i = j
  BY AlongApart
<1>6. /\ \A i \in 0 .. Len(s) : m.next[Along(h, s, i)] = Along(h, s, i + 1)
      /\ \A i \in 1 .. Len(s) : m.pprev[Along(h, s, i)] = Along(h, s, i - 1)
  <2>1. Leads(m, h, s)
    BY DEF ChainHolds
  <2> QED
    BY <1>1, <1>2, <2>1, AlongIs DEF Leads
\* The way along the new list.
<1>7. \A i \in 0 .. Len(s) + 2 :
         Along(h, t, i) = IF i <= k THEN Along(h, s, i)
                          ELSE IF i = k + 1 THEN n ELSE Along(h, s, i - 1)
  <2> SUFFICES ASSUME NEW i \in 0 .. Len(s) + 2
               PROVE  Along(h, t, i) = IF i <= k THEN Along(h, s, i)
                                       ELSE IF i = k + 1 THEN n ELSE Along(h, s, i - 1)
    OBVIOUS
  <2>1. CASE i = 0
    BY <1>1, <1>2, <2>1, AlongIs
  <2>2. CASE i = Len(s) + 2
    <3>1. Along(h, t, i) = Nil
      BY <1>2, <2>2 DEF Along
    <3>2. i - 1 = Len(s) + 1 /\ ~(i <= k) /\ i # k + 1
      BY <1>2, <2>2
    <3>3. Along(h, s, i - 1) = Nil
      BY <1>1, <3>2, AlongIs
    <3> QED
      BY <3>1, <3>2, <3>3
  <2>3. CASE i \in 1 .. Len(s) + 1
    <3>1. Along(h, t, i) = IF i <= k THEN s[i] ELSE IF i = k + 1 THEN n ELSE s[i - 1]
      BY <1>2, <2>3 DEF Along, InsertedAs
    <3>2. i <= k => Along(h, s, i) = s[i]
      BY <1>2, <2>3 DEF Along
    <3>3. ~(i <= k) /\ i # k + 1 => Along(h, s, i - 1) = s[i - 1]
      <4>1. ~(i <= k) /\ i # k + 1 => i - 1 \in DOMAIN s /\ i - 1 # 0
        BY <1>2, <2>3
      <4> QED
        BY <4>1 DEF Along
    <3> QED
      BY <3>1, <3>2, <3>3
  <2> QED
    BY <1>2, <2>1, <2>2, <2>3
<1> HIDE DEF b, a, s
<1>8. ASSUME NEW i \in 0 .. Len(s) + 1
      PROVE  /\ q.next[Along(h, t, i)] = Along(h, t, i + 1)
             /\ i # Len(s) + 1 => q.pprev[Along(h, t, i + 1)] = Along(h, t, i)
  <2>1. i \in 0 .. Len(s) + 2 /\ i + 1 \in 0 .. Len(s) + 2
    BY <1>2
  <2>2. CASE i < k
    <3>1. /\ i \in 0 .. Len(s) /\ i # k /\ i + 1 # k + 1
          /\ i + 1 \in 1 .. Len(s) /\ i \in 0 .. Len(s) + 1 /\ i + 1 \in 0 .. Len(s) + 1
          /\ k \in 0 .. Len(s) + 1 /\ k + 1 \in 0 .. Len(s) + 1 /\ (i + 1) - 1 = i
      BY <1>2, <2>2 DEF s
    <3>2. Along(h, t, i) = Along(h, s, i) /\ Along(h, t, i + 1) = Along(h, s, i + 1)
      BY <1>2, <1>7, <2>1, <2>2
    <3>3. Along(h, s, i) # b /\ Along(h, s, i + 1) # a
      BY <1>5, <3>1 DEF a, b
    <3>4. /\ Along(h, s, i) \in Links /\ Along(h, s, i) # n
          /\ Along(h, s, i + 1) \in Entries /\ Along(h, s, i + 1) # n
      BY <1>3, <3>1
    <3>5. /\ m.next[Along(h, s, i)] = Along(h, s, i + 1)
          /\ m.pprev[Along(h, s, i + 1)] = Along(h, s, i)
      BY <1>6, <3>1
    <3> QED
      BY <1>4, <3>2, <3>3, <3>4, <3>5
  <2>3. CASE i = k
    <3>1. Along(h, t, i) = b /\ Along(h, t, i + 1) = n
      BY <1>2, <1>7, <2>1, <2>3 DEF b
    <3> QED
      BY <1>3, <1>4, <3>1
  <2>4. CASE i = k + 1
    <3>1. Along(h, t, i) = n /\ Along(h, t, i + 1) = a
      <4>1. Along(h, t, i) = n
        BY <1>2, <1>7, <2>1, <2>4
      <4>2. ~(i + 1 <= k) /\ i + 1 # k + 1 /\ (i + 1) - 1 = k + 1
        BY <1>2, <2>4
      <4> QED
        BY <1>7, <2>1, <4>1, <4>2 DEF a
    <3>2. q.next[n] = a
      BY <1>3, <1>4
    <3>3. i # Len(s) + 1 => a \in Entries
      <4>1. i # Len(s) + 1 => k + 1 \in 1 .. Len(s)
        BY <1>2, <2>4
      <4> QED
        BY <1>3, <4>1 DEF a
    <3> QED
      BY <1>4, <3>1, <3>2, <3>3
  <2>5. CASE i > k + 1
    <3>1. /\ ~(i <= k) /\ i # k + 1 /\ ~(i + 1 <= k) /\ i + 1 # k + 1 /\ (i + 1) - 1 = i
          /\ (i - 1) + 1 = i
      BY <1>2, <2>5
    <3>2. /\ i - 1 \in 0 .. Len(s) /\ i - 1 \in 0 .. Len(s) + 1 /\ k \in 0 .. Len(s) + 1
          /\ i - 1 # k /\ i \in 0 .. Len(s) + 1 /\ k + 1 \in 0 .. Len(s) + 1
          /\ i # Len(s) + 1 => i \in 1 .. Len(s)
      BY <1>2, <2>5 DEF s
    <3>3. Along(h, t, i) = Along(h, s, i - 1) /\ Along(h, t, i + 1) = Along(h, s, i)
      BY <1>7, <2>1, <3>1
    <3>4. Along(h, s, i - 1) # b /\ Along(h, s, i) # a
      BY <1>5, <3>1, <3>2 DEF a, b
    <3>5. /\ Along(h, s, i - 1) \in Links /\ Along(h, s, i - 1) # n /\ Along(h, s, i) # n
          /\ i # Len(s) + 1 => Along(h, s, i) \in Entries
      BY <1>3, <3>2
    <3>6. /\ m.next[Along(h, s, i - 1)] = Along(h, s, i)
          /\ i # Len(s) + 1 => m.pprev[Along(h, s, i)] = Along(h, s, i - 1)
      BY <1>6, <3>1, <3>2
    <3> QED
      BY <1>4, <3>3, <3>4, <3>5, <3>6
  <2> QED
    BY <1>2, <2>2, <2>3, <2>4, <2>5
<1>9. Leads(q, h, t)
  <2>1. \A i \in 0 .. Len(t) : q.next[Along(h, t, i)] = Along(h, t, i + 1)
    BY <1>2, <1>8
  <2>2. ASSUME NEW i \in DOMAIN t PROVE q.pprev[t[i]] = Along(h, t, i - 1)
    <3>1. i - 1 \in 0 .. Len(s) + 1 /\ i - 1 # Len(s) + 1 /\ (i - 1) + 1 = i
      BY <1>2
    <3>2. q.pprev[Along(h, t, (i - 1) + 1)] = Along(h, t, i - 1)
      BY <1>8, <3>1
    <3>3. Along(h, t, i) = t[i]
      BY <1>2 DEF Along
    <3> QED
      BY <3>1, <3>2, <3>3
  <2> QED
    BY <2>1, <2>2 DEF Leads
<1>10. ASSUME NEW g \in Buckets, g # h
       PROVE  Leads(q, g, L[g])
  <2>1. /\ L[g] \in Seq(Entries) /\ Leads(m, g, L[g]) /\ Len(L[g]) \in Nat
        /\ \A i \in 0 .. Len(L[g]) : Along(g, L[g], i) \in Links
        /\ \A i \in 1 .. Len(L[g]) : Along(g, L[g], i) \in Entries
    BY <1>1, AlongIs DEF ChainHolds
  <2>2. k \in 0 .. Len(s) + 1 /\ k + 1 \in 0 .. Len(s) + 1
    BY <1>2 DEF s
  <2>3. \A i \in 0 .. Len(L[g]) : /\ Along(g, L[g], i) # b /\ Along(g, L[g], i) # a
                                  /\ Along(g, L[g], i) # n
    <3>1. \A i \in 0 .. Len(L[g]), j \in 0 .. Len(s) + 1 : Along(g, L[g], i) # Along(h, s, j)
      BY <1>10, AlongApart DEF s
    <3>2. \A i \in 0 .. Len(L[g]) + 1 : Along(g, L[g], i) # n
      BY AlongApart
    <3> QED
      BY <2>1, <2>2, <3>1, <3>2 DEF a, b
  <2>4. /\ \A i \in 0 .. Len(L[g]) : q.next[Along(g, L[g], i)] = m.next[Along(g, L[g], i)]
        /\ \A i \in 1 .. Len(L[g]) : q.pprev[Along(g, L[g], i)] = m.pprev[Along(g, L[g], i)]
    BY <1>4, <2>1, <2>3
  <2> QED
    BY <2>1, <2>4, ChainUntouched
<1>11. /\ M[h] = t /\ (\A g \in Buckets : g # h => M[g] = L[g])
       /\ Among(Buckets, Entries, M, N \cup {n})
  <2>1. Among(Buckets, Entries, L, N) /\ L \in [Buckets -> Seq(Entries)]
    BY DEF ChainHolds, Among
  <2> QED
    BY <2>1, InsertedApart
<1>12. \A g \in Buckets : Leads(q, g, M[g])
  BY <1>9, <1>10, <1>11
<1>13. ASSUME NEW x \in Entries PROVE q.pprev[x] # Nil <=> x \in N \cup {n}
  <2>1. m.pprev[x] # Nil <=> x \in N
    BY DEF ChainHolds
  <2>2. b # Nil
    BY <1>3, HListAssumption DEF Links
  <2>3. a \in Entries => a \in N
    <3>1. CASE k = Len(s)
      <4>1. a = Nil
        BY <1>1, <3>1, AlongIs DEF a, s
      <4> QED
        BY <4>1, HListAssumption
    <3>2. CASE k # Len(s)
      <4>1. k + 1 \in 1 .. Len(s)
        BY <1>2, <3>2 DEF s
      <4>2. a = s[k + 1]
        BY <1>1, <4>1, AlongIs DEF a, s
      <4> QED
        BY <4>1, <4>2, AlongApart DEF s
    <3> QED
      BY <3>1, <3>2
  <2> QED
    BY <1>3, <1>4, <2>1, <2>2, <2>3
<1> QED
  BY <1>11, <1>12, <1>13 DEF ChainHolds

\* n is out of q, and what was around it is next to each other.
ChainedOut(q, m, n, b, a) ==
    /\ \A x \in Links : x # n => q.next[x] = IF x = b THEN a ELSE m.next[x]
    /\ \A x \in Entries : q.pprev[x] = IF x = n THEN Nil ELSE IF x = a THEN b ELSE m.pprev[x]

LEMMA EntryOut ==
  ASSUME NEW m, NEW L, NEW N, ChainHolds(m, L, N), NEW h \in Buckets, NEW k \in DOMAIN L[h],
         NEW t, DeletedAs(Entries, L[h], k, t), NEW q \in ChainType,
         ChainedOut(q, m, L[h][k], Along(h, L[h], k - 1), Along(h, L[h], k + 1))
  PROVE  ChainHolds(q, [L EXCEPT ![h] = t], N \ {L[h][k]})
<1> DEFINE s == L[h]
           n == s[k]
           b == Along(h, s, k - 1)
           a == Along(h, s, k + 1)
           M == [L EXCEPT ![h] = t]
<1>1. s \in Seq(Entries) /\ (\A g \in Buckets : L[g] \in Seq(Entries)) /\ t \in Seq(Entries)
  BY DEF ChainHolds, Among, DeletedAs
<1>2. /\ Len(s) \in Nat /\ DOMAIN s = 1 .. Len(s) /\ Len(t) = Len(s) - 1
      /\ DOMAIN t = 1 .. Len(s) - 1 /\ k \in 1 .. Len(s) /\ k \in Nat
  BY <1>1, LenProperties DEF DeletedAs
<1>3. /\ \A i \in 0 .. Len(s) : Along(h, s, i) \in Links
      /\ \A i \in 1 .. Len(s) : Along(h, s, i) = s[i] /\ Along(h, s, i) \in Entries
      /\ Along(h, s, 0) = h /\ Along(h, s, Len(s) + 1) = Nil
      /\ Along(h, s, k) = n /\ n \in Entries
  BY <1>1, <1>2, AlongIs
<1>4. /\ \A x \in Links : x # n => q.next[x] = IF x = b THEN a ELSE m.next[x]
      /\ \A x \in Entries : q.pprev[x] = IF x = n THEN Nil ELSE IF x = a THEN b ELSE m.pprev[x]
  BY DEF ChainedOut
<1>5. \A i, j \in 0 .. Len(s) + 1 : Along(h, s, i) = Along(h, s, j) => i = j
  BY AlongApart
<1>6. /\ \A i \in 0 .. Len(s) : m.next[Along(h, s, i)] = Along(h, s, i + 1)
      /\ \A i \in 1 .. Len(s) : m.pprev[Along(h, s, i)] = Along(h, s, i - 1)
  <2>1. Leads(m, h, s)
    BY DEF ChainHolds
  <2> QED
    BY <1>1, <1>2, <2>1, AlongIs DEF Leads
<1>7. \A i \in 0 .. Len(s) + 1 : Along(h, s, i) = n => i = k
  <2>1. k \in 0 .. Len(s) + 1
    BY <1>2
  <2> QED
    BY <1>3, <1>5, <2>1
\* The way along the new list.
<1>8. \A i \in 0 .. Len(s) :
         Along(h, t, i) = IF i < k THEN Along(h, s, i) ELSE Along(h, s, i + 1)
  <2> SUFFICES ASSUME NEW i \in 0 .. Len(s)
               PROVE  Along(h, t, i) = IF i < k THEN Along(h, s, i) ELSE Along(h, s, i + 1)
    OBVIOUS
  <2>1. CASE i = 0
    BY <1>1, <1>2, <2>1, AlongIs
  <2>2. CASE i = Len(s)
    <3>1. Along(h, t, i) = Nil
      BY <1>2, <2>2 DEF Along
    <3>2. ~(i < k) /\ i + 1 = Len(s) + 1
      BY <1>2, <2>2
    <3> QED
      BY <1>3, <3>1, <3>2
  <2>3. CASE i \in 1 .. Len(s) - 1
    <3>1. Along(h, t, i) = IF i < k THEN s[i] ELSE s[i + 1]
      BY <1>2, <2>3 DEF Along, DeletedAs
    <3>2. i \in 1 .. Len(s) /\ i + 1 \in 1 .. Len(s)
      BY <1>2, <2>3
    <3> QED
      BY <1>3, <3>1, <3>2
  <2> QED
    BY <1>2, <2>1, <2>2, <2>3
<1> HIDE DEF b, a, n, s
<1>9. Len(s) \in Nat /\ k \in Nat /\ 1 <= k /\ k <= Len(s)
  BY <1>2
<1>10. ASSUME NEW i \in 0 .. Len(s) - 1
       PROVE  /\ q.next[Along(h, t, i)] = Along(h, t, i + 1)
              /\ i # Len(s) - 1 => q.pprev[Along(h, t, i + 1)] = Along(h, t, i)
  <2>1. i \in 0 .. Len(s) /\ i + 1 \in 0 .. Len(s)
    BY <1>2
  <2>2. CASE i + 1 < k
    <3>1. /\ i \in 0 .. Len(s) + 1 /\ i + 1 \in 0 .. Len(s) + 1 /\ i + 1 \in 1 .. Len(s)
          /\ k - 1 \in 0 .. Len(s) + 1 /\ k + 1 \in 0 .. Len(s) + 1
      BY <1>2, <2>2
    <3>2. /\ i < k /\ i # k /\ i + 1 # k /\ i # k - 1 /\ i + 1 # k + 1 /\ (i + 1) - 1 = i
      BY <1>2, <2>2
    <3>3. Along(h, t, i) = Along(h, s, i) /\ Along(h, t, i + 1) = Along(h, s, i + 1)
      BY <1>8, <2>1, <2>2, <3>2
    <3>4. Along(h, s, i) # b /\ Along(h, s, i + 1) # a
      BY <1>5, <3>1, <3>2 DEF a, b
    <3>5. /\ Along(h, s, i) \in Links /\ Along(h, s, i) # n
          /\ Along(h, s, i + 1) \in Entries /\ Along(h, s, i + 1) # n
      BY <1>3, <1>7, <2>1, <3>1, <3>2
    <3>6. /\ m.next[Along(h, s, i)] = Along(h, s, i + 1)
          /\ m.pprev[Along(h, s, i + 1)] = Along(h, s, i)
      BY <1>6, <2>1, <3>1, <3>2
    <3> QED
      BY <1>4, <3>3, <3>4, <3>5, <3>6
  <2>3. CASE i + 1 = k
    <3>1. i < k /\ ~(i + 1 < k) /\ i = k - 1 /\ (i + 1) + 1 = k + 1
      BY <1>2, <2>3
    <3>2. Along(h, t, i) = b /\ Along(h, t, i + 1) = a
      BY <1>8, <2>1, <3>1 DEF a, b
    <3>3. /\ k - 1 \in 0 .. Len(s) + 1 /\ k + 1 \in 0 .. Len(s) + 1 /\ k - 1 # k /\ k + 1 # k
          /\ k - 1 \in 0 .. Len(s) /\ i # Len(s) - 1 => k + 1 \in 1 .. Len(s)
      BY <1>2, <2>3
    <3>4. b # n /\ a # n /\ b \in Links
      <4>1. b # n
        BY <1>7, <3>3 DEF b
      <4>2. a # n
        BY <1>7, <3>3 DEF a
      <4>3. k - 1 \in 0 .. Len(s)
        BY <1>2
      <4> QED
        BY <1>3, <4>1, <4>2, <4>3 DEF b
    <3>5. i # Len(s) - 1 => a \in Entries
      <4>1. i # Len(s) - 1 => k + 1 \in 1 .. Len(s)
        BY <1>2, <2>3
      <4> QED
        BY <1>3, <4>1 DEF a
    <3> QED
      BY <1>4, <3>2, <3>4, <3>5
  <2>4. CASE ~(i < k)
    <3>1. /\ ~(i + 1 < k) /\ i + 1 # k - 1 /\ i + 2 # k + 1 /\ i + 1 # k /\ i + 2 # k
          /\ (i + 1) + 1 = i + 2 /\ (i + 2) - 1 = i + 1
      BY <1>2, <2>4
    <3>2. /\ i + 1 \in 0 .. Len(s) /\ k - 1 \in 0 .. Len(s) + 1 /\ k + 1 \in 0 .. Len(s) + 1
          /\ i + 1 \in 0 .. Len(s) + 1 /\ i + 2 \in 0 .. Len(s) + 1
      BY <1>2, <2>4
    <3>3. i # Len(s) - 1 => i + 2 \in 1 .. Len(s)
      BY <1>9
    <3>4. Along(h, t, i) = Along(h, s, i + 1) /\ Along(h, t, i + 1) = Along(h, s, i + 2)
      BY <1>8, <2>1, <2>4, <3>1
    <3>5. Along(h, s, i + 1) # b /\ Along(h, s, i + 2) # a
      BY <1>5, <3>1, <3>2 DEF a, b
    <3>6. /\ Along(h, s, i + 1) \in Links /\ Along(h, s, i + 1) # n
          /\ Along(h, s, i + 2) # n
          /\ i # Len(s) - 1 => Along(h, s, i + 2) \in Entries
      BY <1>3, <1>7, <3>1, <3>2, <3>3
    <3>7. /\ m.next[Along(h, s, i + 1)] = Along(h, s, i + 2)
          /\ i # Len(s) - 1 => m.pprev[Along(h, s, i + 2)] = Along(h, s, i + 1)
      BY <1>6, <3>1, <3>2, <3>3
    <3> QED
      BY <1>4, <3>4, <3>5, <3>6, <3>7
  <2>5. i + 1 < k \/ i + 1 = k \/ ~(i < k)
    BY <1>9
  <2> QED
    BY <2>2, <2>3, <2>4, <2>5
<1>11. Leads(q, h, t)
  <2>1. \A i \in 0 .. Len(t) : q.next[Along(h, t, i)] = Along(h, t, i + 1)
    BY <1>2, <1>10
  <2>2. ASSUME NEW i \in DOMAIN t PROVE q.pprev[t[i]] = Along(h, t, i - 1)
    <3>1. i - 1 \in 0 .. Len(s) - 1 /\ i - 1 # Len(s) - 1 /\ (i - 1) + 1 = i
      BY <1>2
    <3>2. q.pprev[Along(h, t, (i - 1) + 1)] = Along(h, t, i - 1)
      BY <1>10, <3>1
    <3>3. Along(h, t, i) = t[i]
      BY <1>2 DEF Along
    <3> QED
      BY <3>1, <3>2, <3>3
  <2> QED
    BY <2>1, <2>2 DEF Leads
<1>12. ASSUME NEW g \in Buckets, g # h
       PROVE  Leads(q, g, L[g])
  <2>1. /\ L[g] \in Seq(Entries) /\ Leads(m, g, L[g]) /\ Len(L[g]) \in Nat
        /\ \A i \in 0 .. Len(L[g]) : Along(g, L[g], i) \in Links
        /\ \A i \in 1 .. Len(L[g]) : Along(g, L[g], i) \in Entries
    <3>1. L[g] \in Seq(Entries)
      BY <1>1
    <3>2. Leads(m, g, L[g])
      BY DEF ChainHolds
    <3> QED
      BY <3>1, <3>2, AlongIs
  <2>2. k - 1 \in 0 .. Len(s) + 1 /\ k \in 0 .. Len(s) + 1 /\ k + 1 \in 0 .. Len(s) + 1
    BY <1>2
  <2>3. \A i \in 0 .. Len(L[g]), j \in 0 .. Len(s) + 1 : Along(g, L[g], i) # Along(h, s, j)
    BY <1>12, AlongApart DEF s
  <2>4. \A i \in 0 .. Len(L[g]) : /\ Along(g, L[g], i) # b /\ Along(g, L[g], i) # a
                                  /\ Along(g, L[g], i) # n
    BY <1>3, <2>2, <2>3 DEF a, b
  <2>5. /\ \A i \in 0 .. Len(L[g]) : q.next[Along(g, L[g], i)] = m.next[Along(g, L[g], i)]
        /\ \A i \in 1 .. Len(L[g]) : q.pprev[Along(g, L[g], i)] = m.pprev[Along(g, L[g], i)]
    <3>1. \A i \in 1 .. Len(L[g]) : i \in 0 .. Len(L[g])
      BY <2>1
    <3> QED
      BY <1>4, <2>1, <2>4, <3>1
  <2> QED
    BY <2>1, <2>5, ChainUntouched
<1>13. /\ M[h] = t /\ (\A g \in Buckets : g # h => M[g] = L[g])
       /\ Among(Buckets, Entries, M, N \ {n})
  <2>1. Among(Buckets, Entries, L, N) /\ L \in [Buckets -> Seq(Entries)]
    BY DEF ChainHolds, Among
  <2> QED
    BY <2>1, DeletedApart DEF n, s
<1>14. \A g \in Buckets : Leads(q, g, M[g])
  BY <1>11, <1>12, <1>13
<1>15. ASSUME NEW x \in Entries PROVE q.pprev[x] # Nil <=> x \in N \ {n}
  <2>1. m.pprev[x] # Nil <=> x \in N
    BY DEF ChainHolds
  <2>2. b # Nil
    <3>1. k - 1 \in 0 .. Len(s)
      BY <1>2
    <3> QED
      BY <1>3, <3>1, HListAssumption DEF Links, b
  <2>3. a \in Entries => a \in N
    <3>1. CASE k = Len(s)
      BY <1>3, <3>1, HListAssumption DEF a
    <3>2. CASE k # Len(s)
      <4>1. k + 1 \in 1 .. Len(s)
        BY <1>9, <3>2
      <4>2. a = s[k + 1]
        BY <1>3, <4>1 DEF a
      <4> QED
        BY <4>1, <4>2, AlongApart DEF s
    <3> QED
      BY <3>1, <3>2
  <2> QED
    BY <1>4, <2>1, <2>2, <2>3
<1> QED
  BY <1>13, <1>14, <1>15 DEF ChainHolds, n, s

LEMMA EntryReplaced ==
  ASSUME NEW m, NEW L, NEW N, ChainHolds(m, L, N), NEW n \in Entries, n \notin N,
         NEW h \in Buckets, NEW k \in DOMAIN L[h], NEW o, o = L[h][k], NEW b, NEW a,
         b = Along(h, L[h], k - 1), a = Along(h, L[h], k + 1), NEW q \in ChainType,
         \A x \in Links : q.next[x] = IF x = b THEN n ELSE IF x = n THEN a ELSE m.next[x],
         \A x \in Entries : q.pprev[x] = IF x = o THEN Nil ELSE IF x = a THEN n
                                         ELSE IF x = n THEN b ELSE m.pprev[x]
  PROVE  ChainHolds(q, [L EXCEPT ![h][k] = n], (N \ {o}) \cup {n})
<1> DEFINE s == L[h]
           t == RemoveAt(s, k)
           K == [L EXCEPT ![h] = t]
           u == [s EXCEPT ![k] = n]
           p == [next |-> [m.next EXCEPT ![b] = a],
                 pprev |-> [x \in Entries |-> IF x = o THEN Nil ELSE IF x = a THEN b ELSE m.pprev[x]]]
<1>1. s \in Seq(Entries) /\ m \in ChainType /\ L \in [Buckets -> Seq(Entries)]
  BY DEF ChainHolds, Among
<1>2. /\ Len(s) \in Nat /\ DOMAIN s = 1 .. Len(s) /\ k \in 1 .. Len(s) /\ k \in Nat
      /\ o \in Entries /\ o \in N /\ n # o /\ Along(h, s, k) = o
  <2>1. Len(s) \in Nat /\ DOMAIN s = 1 .. Len(s) /\ o \in Entries
    BY <1>1, LenProperties
  <2>2. o \in N /\ Along(h, s, k) = o
    BY <1>1, <2>1, AlongIs, AlongApart
  <2> QED
    BY <2>1, <2>2
<1>3. DeletedAs(Entries, s, k, t)
  BY <1>1, DeletedIs
<1>4. /\ b \in Links /\ b \in Targets /\ a \in Targets /\ n # a /\ n # b /\ o # a /\ o # b
  <2>1. /\ k - 1 \in 0 .. Len(s) /\ k - 1 \in 0 .. Len(s) + 1 /\ k + 1 \in 0 .. Len(s) + 1
        /\ k \in 0 .. Len(s) + 1 /\ k - 1 # k /\ k + 1 # k
    BY <1>2
  <2>2. b \in Links /\ a \in Targets /\ b \in Targets
    BY <1>1, <2>1, AlongIs
  <2>3. n # a /\ n # b
    BY <2>1, AlongApart
  <2>4. o # a /\ o # b
    BY <1>2, <2>1, AlongApart
  <2> QED
    BY <2>2, <2>3, <2>4
<1>5. /\ p \in ChainType
      /\ \A x \in Links : p.next[x] = IF x = b THEN a ELSE m.next[x]
      /\ \A x \in Entries : p.pprev[x] = IF x = o THEN Nil ELSE IF x = a THEN b ELSE m.pprev[x]
  <2>1. m.next \in [Links -> Targets] /\ m.pprev \in [Entries -> Targets] /\ Nil \in Targets
    BY <1>1 DEF ChainType, Targets
  <2>2. [m.next EXCEPT ![b] = a] \in [Links -> Targets]
    BY <1>4, <2>1
  <2>3. [x \in Entries |-> IF x = o THEN Nil ELSE IF x = a THEN b ELSE m.pprev[x]]
           \in [Entries -> Targets]
    BY <1>4, <2>1
  <2> QED
    BY <1>4, <2>1, <2>2, <2>3 DEF ChainType
<1> HIDE DEF p
<1>6. ChainHolds(p, K, N \ {o})
  <2>1. ChainedOut(p, m, s[k], Along(h, s, k - 1), Along(h, s, k + 1))
    BY <1>5 DEF ChainedOut
  <2> HIDE DEF t
  <2> QED
    BY <1>3, <1>5, <2>1, EntryOut
\* The neighbours of the one that left are next to each other.
<1>7. k - 1 \in 0 .. Len(t) /\ Along(h, t, k - 1) = b /\ Along(h, t, (k - 1) + 1) = a
  <2>1. /\ Len(t) = Len(s) - 1 /\ t \in Seq(Entries)
        /\ \A j \in 1 .. Len(s) - 1 : t[j] = IF j < k THEN s[j] ELSE s[j + 1]
    BY <1>3 DEF DeletedAs
  <2>2. DOMAIN t = 1 .. Len(s) - 1
    BY <2>1, LenProperties
  <2> HIDE DEF t
  <2>3. k - 1 \in 0 .. Len(t)
    BY <1>2, <2>1
  <2>4. Along(h, t, k - 1) = b
    <3>1. CASE k = 1
      BY <1>2, <2>2, <3>1 DEF Along
    <3>2. CASE k # 1
      <4>1. k - 1 \in DOMAIN t /\ k - 1 \in DOMAIN s /\ k - 1 # 0 /\ t[k - 1] = s[k - 1]
        BY <1>2, <2>1, <2>2, <3>2
      <4> QED
        BY <4>1 DEF Along
    <3> QED
      BY <3>1, <3>2
  <2>5. Along(h, t, k) = a
    <3>1. CASE k = Len(s)
      <4>1. k \notin DOMAIN t /\ k + 1 \notin DOMAIN s /\ k # 0 /\ k + 1 # 0
        BY <1>2, <2>2, <3>1
      <4> QED
        BY <4>1 DEF Along
    <3>2. CASE k # Len(s)
      <4>1. k \in DOMAIN t /\ k + 1 \in DOMAIN s /\ k # 0 /\ k + 1 # 0 /\ t[k] = s[k + 1]
        BY <1>2, <2>1, <2>2, <3>2
      <4> QED
        BY <4>1 DEF Along
    <3> QED
      BY <3>1, <3>2
  <2>6. (k - 1) + 1 = k
    BY <1>2
  <2> QED
    BY <2>3, <2>4, <2>5, <2>6
<1>8. InsertedAs(Entries, t, k - 1, n, u)
  BY <1>1, ReplacedAs
<1>9. K[h] = t /\ h \in Buckets
  BY <1>1
<1>10. [K EXCEPT ![h] = u] = [L EXCEPT ![h][k] = n]
  BY <1>1
<1> HIDE DEF t, u, K
<1>11. ChainedIn(q, p, n, b, a)
  <2>1. \A x \in Links : q.next[x] = IF x = b THEN n ELSE IF x = n THEN a ELSE p.next[x]
    BY <1>5
  <2>2. \A x \in Entries : q.pprev[x] = IF x = a THEN n ELSE IF x = n THEN b ELSE p.pprev[x]
    BY <1>2, <1>4, <1>5
  <2> QED
    BY <2>1, <2>2 DEF ChainedIn
<1>12. ChainHolds(q, [K EXCEPT ![h] = u], (N \ {o}) \cup {n})
  <2>1. n \notin N \ {o}
    OBVIOUS
  <2>2. InsertedAs(Entries, K[h], k - 1, n, u) /\ k - 1 \in 0 .. Len(K[h])
    BY <1>7, <1>8, <1>9
  <2>3. ChainedIn(q, p, n, Along(h, K[h], k - 1), Along(h, K[h], (k - 1) + 1))
    BY <1>7, <1>9, <1>11
  <2> QED
    BY <1>6, <2>1, <2>2, <2>3, EntryIn
<1> QED
  BY <1>10, <1>12

-----------------------------------------------------------------------------
(* What the hlist functions write *)

PutIn(m, n, b, a) ==
    [SetPprev(m, a, n) EXCEPT !.next[n] = a, !.next[b] = n, !.pprev[n] = b]
PutBeforeEntry(m, n, b, a) ==
    [m EXCEPT !.pprev[n] = b, !.next[n] = a, !.pprev[a] = n, !.next[b] = n]
TakenOut(m, n, b, a) ==
    [SetPprev([m EXCEPT !.next[b] = a], a, b) EXCEPT !.pprev[n] = Nil]
TakenOutInit(m, n, b, a) == [TakenOut(m, n, b, a) EXCEPT !.next[n] = Nil]
Swapped(m, o, n, b, a) ==
    [SetPprev(m, a, n) EXCEPT !.next[n] = a, !.pprev[n] = b, !.next[b] = n, !.pprev[o] = Nil]

LEMMA SetPprevIs ==
  ASSUME NEW m \in ChainType, NEW a \in Targets, NEW w \in Targets
  PROVE  /\ SetPprev(m, a, w) \in ChainType
         /\ SetPprev(m, a, w).next = m.next
         /\ \A x \in Entries : SetPprev(m, a, w).pprev[x] = IF x = a THEN w ELSE m.pprev[x]
<1>1. Nil \notin Entries
  BY HListAssumption
<1>2. CASE a = Nil
  BY <1>1, <1>2 DEF SetPprev
<1>3. CASE a # Nil
  <2>1. SetPprev(m, a, w) = [m EXCEPT !.pprev[a] = w]
    BY <1>3 DEF SetPprev
  <2> QED
    BY <2>1 DEF ChainType
<1> QED
  BY <1>2, <1>3

LEMMA PutInIs ==
  ASSUME NEW m \in ChainType, NEW n \in Entries, NEW b \in Links, NEW a \in Targets,
         n # a, n # b
  PROVE  PutIn(m, n, b, a) \in ChainType /\ ChainedIn(PutIn(m, n, b, a), m, n, b, a)
<1> DEFINE p == SetPprev(m, a, n)
           q == PutIn(m, n, b, a)
<1>1. n \in Links /\ n \in Targets /\ b \in Targets
  BY DEF Links, Targets
<1>2. /\ p \in ChainType /\ p.next = m.next
      /\ \A x \in Entries : p.pprev[x] = IF x = a THEN n ELSE m.pprev[x]
  BY <1>1, SetPprevIs
<1>3. q = [p EXCEPT !.next[n] = a, !.next[b] = n, !.pprev[n] = b]
  BY DEF PutIn
<1> HIDE DEF p, q
<1>4. /\ q \in ChainType
      /\ q.next = [p.next EXCEPT ![n] = a, ![b] = n] /\ q.pprev = [p.pprev EXCEPT ![n] = b]
  BY <1>1, <1>2, <1>3 DEF ChainType
<1>5. p.next \in [Links -> Targets] /\ p.pprev \in [Entries -> Targets]
  BY <1>2 DEF ChainType
<1>6. ChainedIn(q, m, n, b, a)
  BY <1>1, <1>2, <1>4, <1>5 DEF ChainedIn
<1> QED
  BY <1>4, <1>6 DEF q

LEMMA PutBeforeIs ==
  ASSUME NEW m \in ChainType, NEW n \in Entries, NEW b \in Links, NEW a \in Entries,
         n # a, n # b
  PROVE  /\ PutBeforeEntry(m, n, b, a) \in ChainType
         /\ ChainedIn(PutBeforeEntry(m, n, b, a), m, n, b, a)
<1> DEFINE q == PutBeforeEntry(m, n, b, a)
<1>1. n \in Links /\ n \in Targets /\ b \in Targets /\ a \in Targets
  BY DEF Links, Targets
<1>2. q = [m EXCEPT !.pprev[n] = b, !.next[n] = a, !.pprev[a] = n, !.next[b] = n]
  BY DEF PutBeforeEntry
<1> HIDE DEF q
<1>3. /\ q \in ChainType
      /\ q.next = [m.next EXCEPT ![n] = a, ![b] = n]
      /\ q.pprev = [m.pprev EXCEPT ![n] = b, ![a] = n]
  BY <1>1, <1>2 DEF ChainType
<1>4. m.next \in [Links -> Targets] /\ m.pprev \in [Entries -> Targets]
  BY DEF ChainType
<1>5. ChainedIn(q, m, n, b, a)
  BY <1>1, <1>3, <1>4 DEF ChainedIn
<1> QED
  BY <1>3, <1>5 DEF q

LEMMA TakenOutIs ==
  ASSUME NEW m \in ChainType, NEW n \in Entries, NEW b \in Links, NEW a \in Targets
  PROVE  /\ TakenOut(m, n, b, a) \in ChainType
         /\ ChainedOut(TakenOut(m, n, b, a), m, n, b, a)
         /\ TakenOutInit(m, n, b, a) \in ChainType
         /\ ChainedOut(TakenOutInit(m, n, b, a), m, n, b, a)
<1> DEFINE o == [m EXCEPT !.next[b] = a]
           p == SetPprev(o, a, b)
           q == TakenOut(m, n, b, a)
           r == TakenOutInit(m, n, b, a)
<1>1. n \in Links /\ b \in Targets /\ Nil \in Targets
  BY DEF Links, Targets
<1>2. o \in ChainType /\ o.next = [m.next EXCEPT ![b] = a] /\ o.pprev = m.pprev
  BY DEF ChainType
<1>3. q = [p EXCEPT !.pprev[n] = Nil] /\ r = [q EXCEPT !.next[n] = Nil]
  BY DEF TakenOut, TakenOutInit
<1> HIDE DEF o, q, r
<1>4. /\ p \in ChainType /\ p.next = o.next
      /\ \A x \in Entries : p.pprev[x] = IF x = a THEN b ELSE m.pprev[x]
  <2>1. o \in ChainType /\ o.pprev = m.pprev
    BY <1>2
  <2>2. /\ SetPprev(o, a, b) \in ChainType /\ SetPprev(o, a, b).next = o.next
        /\ \A x \in Entries : SetPprev(o, a, b).pprev[x] = IF x = a THEN b ELSE o.pprev[x]
    <3>1. b \in Targets
      BY <1>1
    <3>2. o \in ChainType
      BY <2>1
    <3> HIDE <1>1, <1>2, <1>3, <2>1
    <3> QED
      BY <3>1, <3>2, SetPprevIs
  <2> QED
    BY <2>1, <2>2
<1> HIDE DEF p
<1>5. q \in ChainType /\ q.next = p.next /\ q.pprev = [p.pprev EXCEPT ![n] = Nil]
  BY <1>1, <1>3, <1>4 DEF ChainType
<1>6. r \in ChainType /\ r.next = [q.next EXCEPT ![n] = Nil] /\ r.pprev = q.pprev
  BY <1>1, <1>3, <1>5 DEF ChainType
<1>7. /\ m.next \in [Links -> Targets] /\ q.next \in [Links -> Targets]
      /\ p.pprev \in [Entries -> Targets]
  BY <1>4, <1>5 DEF ChainType
<1>8. ChainedOut(q, m, n, b, a)
  BY <1>1, <1>2, <1>4, <1>5, <1>7 DEF ChainedOut
<1>9. ChainedOut(r, m, n, b, a)
  BY <1>1, <1>6, <1>7, <1>8 DEF ChainedOut
<1> QED
  BY <1>5, <1>6, <1>8, <1>9 DEF q, r

LEMMA SwappedIs ==
  ASSUME NEW m \in ChainType, NEW o \in Entries, NEW n \in Entries, NEW b \in Links,
         NEW a \in Targets, n # o, n # a, n # b
  PROVE  /\ Swapped(m, o, n, b, a) \in ChainType
         /\ \A x \in Links : Swapped(m, o, n, b, a).next[x] =
               IF x = b THEN n ELSE IF x = n THEN a ELSE m.next[x]
         /\ \A x \in Entries : Swapped(m, o, n, b, a).pprev[x] =
               IF x = o THEN Nil ELSE IF x = a THEN n ELSE IF x = n THEN b ELSE m.pprev[x]
<1> DEFINE p == SetPprev(m, a, n)
           q == Swapped(m, o, n, b, a)
<1>1. n \in Links /\ n \in Targets /\ b \in Targets /\ Nil \in Targets
  BY DEF Links, Targets
<1>2. /\ p \in ChainType /\ p.next = m.next
      /\ \A x \in Entries : p.pprev[x] = IF x = a THEN n ELSE m.pprev[x]
  BY <1>1, SetPprevIs
<1>3. q = [p EXCEPT !.next[n] = a, !.pprev[n] = b, !.next[b] = n, !.pprev[o] = Nil]
  BY DEF Swapped
<1> HIDE DEF p, q
<1>4. /\ q \in ChainType
      /\ q.next = [p.next EXCEPT ![n] = a, ![b] = n]
      /\ q.pprev = [p.pprev EXCEPT ![n] = b, ![o] = Nil]
  BY <1>1, <1>2, <1>3 DEF ChainType
<1>5. p.next \in [Links -> Targets] /\ p.pprev \in [Entries -> Targets]
  BY <1>2 DEF ChainType
<1>6. \A x \in Links : q.next[x] = IF x = b THEN n ELSE IF x = n THEN a ELSE m.next[x]
  BY <1>1, <1>2, <1>4, <1>5
<1>7. \A x \in Entries : q.pprev[x] = IF x = o THEN Nil ELSE IF x = a THEN n
                                      ELSE IF x = n THEN b ELSE m.pprev[x]
  BY <1>1, <1>2, <1>4, <1>5
<1> QED
  BY <1>4, <1>6, <1>7 DEF q

-----------------------------------------------------------------------------
(* Every hlist call is a step of ListSeq *)

LEMMA ChainSteps ==
  ASSUME NEW L, NEW N, ChainHolds(chain', L, N)
  PROVE  Chained(chain)' = L /\ HListInv'
<1>1. Chained(chain') = L
  BY ChainedIs
<1>2. N = Members(Entries, L)
  BY DEF ChainHolds, Among
<1> QED
  BY <1>1, <1>2 DEF HListInv

LEMMA EntryAt ==
  ASSUME NEW m, NEW L, NEW N, ChainHolds(m, L, N), NEW n \in N
  PROVE  /\ n \in Entries /\ m \in ChainType
         /\ \E h \in Buckets : \E k \in DOMAIN L[h] :
               /\ L[h][k] = n /\ Along(h, L[h], k) = n
               /\ k \in 1 .. Len(L[h]) /\ Len(L[h]) \in Nat
               /\ m.next[n] = Along(h, L[h], k + 1) /\ m.pprev[n] = Along(h, L[h], k - 1)
               /\ m.next[n] \in Targets /\ m.pprev[n] \in Links
               /\ m.next[n] # n /\ m.pprev[n] # n
<1>1. PICK h \in Buckets : n \in Entries /\ \E k \in DOMAIN L[h] : L[h][k] = n
  BY DEF ChainHolds, Among, Members
<1>2. PICK k \in DOMAIN L[h] : L[h][k] = n
  BY <1>1
<1> DEFINE s == L[h]
<1>3. s \in Seq(Entries) /\ Leads(m, h, s) /\ m \in ChainType
  BY DEF ChainHolds, Among
<1>4. k \in 1 .. Len(s) /\ Len(s) \in Nat /\ Along(h, s, k) = n
  BY <1>2, <1>3, AlongIs
<1>5. /\ k \in 0 .. Len(s) /\ k - 1 \in 0 .. Len(s)
      /\ k \in 0 .. Len(s) + 1 /\ k - 1 \in 0 .. Len(s) + 1 /\ k + 1 \in 0 .. Len(s) + 1
      /\ k + 1 # k /\ k - 1 # k
  BY <1>4
<1>6. m.next[n] = Along(h, s, k + 1) /\ m.pprev[n] = Along(h, s, k - 1)
  <2>1. m.next[Along(h, s, k)] = Along(h, s, k + 1)
    BY <1>3, <1>5 DEF Leads
  <2>2. m.pprev[s[k]] = Along(h, s, k - 1)
    BY <1>2, <1>3 DEF Leads
  <2> QED
    BY <1>2, <1>4, <2>1, <2>2
<1>7. Along(h, s, k + 1) \in Targets /\ Along(h, s, k - 1) \in Links
  BY <1>3, <1>5, AlongIs
<1>8. Along(h, s, k + 1) # n /\ Along(h, s, k - 1) # n
  BY <1>4, <1>5, AlongApart
<1> QED
  BY <1>1, <1>2, <1>3, <1>4, <1>6, <1>7, <1>8

\* What ListSeq calls linked, taken off, and the place of a node.
LEMMA HashedIs ==
  ASSUME HListInv
  PROVE  LET L == Chained(chain)
             N == Members(Entries, L)
         IN  /\ ChainHolds(chain, L, N)
             /\ \A n \in Entries : Hashed(n) <=> n \in N
             /\ Chain!Linked = N
             /\ \A h \in Buckets : \A k \in DOMAIN L[h] :
                   /\ L[h][k] \in Chain!In(h)
                   /\ Chain!Place(L[h][k], h) = k
                   /\ Chain!AllWithout(L[h][k]) = [L EXCEPT ![h] = RemoveAt(L[h], k)]
<1> DEFINE L == Chained(chain)
           N == Members(Entries, L)
<1>1. ChainHolds(chain, L, N)
  BY DEF HListInv
<1>2. /\ L \in [Buckets -> Seq(Entries)] /\ DOMAIN L = Buckets
      /\ \A h \in Buckets : \A i \in DOMAIN L[h] : L[h][i] \in Entries
  <2>1. L \in [Buckets -> Seq(Entries)]
    BY <1>1 DEF ChainHolds, Among
  <2> QED
    BY <2>1, LenProperties
<1>3. \A n \in Entries : Hashed(n) <=> n \in N
  BY <1>1 DEF ChainHolds, Hashed
<1>4. Chain!Linked = N
  BY <1>2 DEF Chain!Linked, Chain!In, Chain!ToSet, Members
<1>5. ASSUME NEW h \in Buckets, NEW k \in DOMAIN L[h]
      PROVE  /\ L[h][k] \in Chain!In(h)
             /\ Chain!Place(L[h][k], h) = k
             /\ Chain!AllWithout(L[h][k]) = [L EXCEPT ![h] = RemoveAt(L[h], k)]
  <2> DEFINE n == L[h][k]
  <2>1. \A g \in Buckets : \A i \in DOMAIN L[g] : L[g][i] = n => g = h /\ i = k
    BY <1>1, <1>2 DEF ChainHolds, Among, Apart
  <2>2. Chain!Position(n, L[h]) = k
    BY <2>1 DEF Chain!Position
  <2>3. n \in Chain!ToSet(L[h]) /\ \A g \in Buckets : g # h => n \notin Chain!ToSet(L[g])
    BY <2>1 DEF Chain!ToSet
  <2> HIDE DEF n, L
  <2>4. Chain!Without(n, L[h]) = RemoveAt(L[h], k)
    BY <2>2, <2>3 DEF Chain!Without, Chain!RemoveAt, RemoveAt
  <2>5. \A g \in Buckets : g # h => Chain!Without(n, L[g]) = L[g]
    BY <2>3 DEF Chain!Without
  <2>6. [g \in Buckets |-> Chain!Without(n, L[g])] = [L EXCEPT ![h] = RemoveAt(L[h], k)]
    BY <1>2, <2>4, <2>5
  <2> QED
    BY <2>2, <2>3, <2>6 DEF Chain!In, Chain!Place, Chain!AllWithout, L, n
<1> QED
  BY <1>1, <1>3, <1>4, <1>5

\* A node in no list is nowhere along one.
LEMMA NotAlong ==
  ASSUME NEW m, NEW L, NEW N, ChainHolds(m, L, N), NEW n \in Entries, n \notin N,
         NEW h \in Buckets, NEW i \in 0 .. Len(L[h]) + 1
  PROVE  Along(h, L[h], i) # n
<1> DEFINE s == L[h]
<1>1. L \in [Buckets -> Seq(Entries)] /\ N = Members(Entries, L)
  BY DEF ChainHolds, Among
<1>2. Nil # n /\ h # n
  BY HListAssumption
<1>3. \A j \in DOMAIN s : s[j] # n
  BY <1>1, ListsAre
<1> QED
  BY <1>2, <1>3 DEF Along

LEMMA AddHeadStep ==
  ASSUME HListInv, NEW n \in Entries, NEW h \in Buckets, HlistAddHead(n, h)
  PROVE  HListInv' /\ Chain!AddFront(n, h)
<1> DEFINE L == Chained(chain)
           N == Members(Entries, L)
           s == L[h]
           a == chain.next[h]
<1>1. ChainHolds(chain, L, N) /\ n \notin N /\ Chain!Linked = N
  BY HashedIs DEF HlistAddHead
<1>2. chain' = PutIn(chain, n, h, a) /\ hcall' = <<"add", n, h>>
  BY DEF HlistAddHead, Chains, PutIn
<1> HIDE DEF L, N
<1>3. s \in Seq(Entries) /\ chain \in ChainType /\ Leads(chain, h, s)
  BY <1>1 DEF ChainHolds, Among
<1>4. Len(s) \in Nat /\ 0 \in 0 .. Len(s) /\ 1 \in 0 .. Len(s) + 1 /\ 0 + 1 = 1
  BY <1>3, LenProperties
<1>5. Along(h, s, 0) = h /\ a = Along(h, s, 1) /\ a \in Targets
  BY <1>3, <1>4, AlongIs DEF Leads
<1>6. n # a /\ n # h /\ h \in Links
  BY <1>1, <1>4, <1>5, NotAlong, HListAssumption DEF Links
<1> HIDE DEF s, a
<1>7. chain' \in ChainType /\ ChainedIn(chain', chain, n, h, a)
  BY <1>2, <1>3, <1>5, <1>6, PutInIs
<1>8. InsertedAs(Entries, s, 0, n, <<n>> \o s)
  BY <1>3, EndsAre
<1>9. ChainHolds(chain', [L EXCEPT ![h] = <<n>> \o s], N \cup {n})
  <2>1. ChainedIn(chain', chain, n, Along(h, s, 0), Along(h, s, 0 + 1))
    BY <1>4, <1>5, <1>7
  <2> QED
    BY <1>1, <1>4, <1>7, <1>8, <2>1, EntryIn DEF s
<1>10. Chained(chain)' = [L EXCEPT ![h] = <<n>> \o s] /\ HListInv'
  BY <1>9, ChainSteps
<1> QED
  BY <1>1, <1>2, <1>10 DEF Chain!AddFront, L, s

LEMMA AddBeforeStep ==
  ASSUME HListInv, NEW n \in Entries, NEW at \in Entries, HlistAddBefore(n, at)
  PROVE  HListInv' /\ \E h \in Buckets : Chain!AddBefore(n, h, at)
<1> DEFINE L == Chained(chain)
           N == Members(Entries, L)
           b == chain.pprev[at]
<1>1. ChainHolds(chain, L, N) /\ n \notin N /\ at \in N /\ Chain!Linked = N
  BY HashedIs DEF HlistAddBefore
<1>2. chain' = PutBeforeEntry(chain, n, b, at) /\ hcall' = <<"add_before", n, at>>
  BY DEF HlistAddBefore, Chains, PutBeforeEntry
<1>3. \A h \in Buckets : \A k \in DOMAIN L[h] :
         L[h][k] = at => at \in Chain!In(h) /\ Chain!Place(at, h) = k
  BY HashedIs
<1> HIDE DEF L, N
<1>4. PICK h \in Buckets : \E k \in DOMAIN L[h] :
         /\ L[h][k] = at /\ Along(h, L[h], k) = at
         /\ k \in 1 .. Len(L[h]) /\ Len(L[h]) \in Nat
         /\ b = Along(h, L[h], k - 1) /\ b \in Links
  BY <1>1, EntryAt
<1>5. PICK k \in DOMAIN L[h] :
         /\ L[h][k] = at /\ Along(h, L[h], k) = at
         /\ k \in 1 .. Len(L[h]) /\ Len(L[h]) \in Nat
         /\ b = Along(h, L[h], k - 1) /\ b \in Links
  BY <1>4
<1> DEFINE s == L[h]
           t == InsertAt(s, k, n)
<1>6. s \in Seq(Entries) /\ chain \in ChainType
  BY <1>1 DEF ChainHolds, Among
<1>7. /\ k - 1 \in 0 .. Len(s) /\ (k - 1) + 1 = k
      /\ k - 1 \in 0 .. Len(s) + 1 /\ k \in 0 .. Len(s) + 1
  BY <1>5
<1>8. n # at /\ n # b
  BY <1>1, <1>5, <1>7, NotAlong
<1> HIDE DEF b, s
<1>9. chain' \in ChainType /\ ChainedIn(chain', chain, n, b, at)
  BY <1>2, <1>5, <1>6, <1>8, PutBeforeIs
<1>10. InsertedAs(Entries, s, k - 1, n, t)
  <2>1. InsertedAs(Entries, s, k - 1, n, InsertAt(s, (k - 1) + 1, n))
    BY <1>6, <1>7, InsertedIs
  <2> QED
    BY <1>7, <2>1
<1> HIDE DEF t
<1>11. ChainHolds(chain', [L EXCEPT ![h] = t], N \cup {n})
  <2>1. ChainedIn(chain', chain, n, Along(h, s, k - 1), Along(h, s, (k - 1) + 1))
    BY <1>5, <1>7, <1>9 DEF s
  <2> QED
    BY <1>1, <1>7, <1>9, <1>10, <2>1, EntryIn DEF s
<1>12. Chained(chain)' = [L EXCEPT ![h] = t] /\ HListInv'
  BY <1>11, ChainSteps
<1>13. at \in Chain!In(h) /\ Chain!Place(at, h) = k
  BY <1>3, <1>5
<1>14. Chain!InsertAt(s, k, n) = t
  BY DEF Chain!InsertAt, InsertAt, t
<1> QED
  BY <1>1, <1>2, <1>12, <1>13, <1>14 DEF Chain!AddBefore, L, s

LEMMA AddAfterStep ==
  ASSUME HListInv, NEW n \in Entries, NEW at \in Entries, HlistAddAfter(n, at)
  PROVE  HListInv' /\ \E h \in Buckets : Chain!AddAfter(n, h, at)
<1> DEFINE L == Chained(chain)
           N == Members(Entries, L)
           a == chain.next[at]
<1>1. ChainHolds(chain, L, N) /\ n \notin N /\ at \in N /\ Chain!Linked = N
  BY HashedIs DEF HlistAddAfter
<1>2. chain' = PutIn(chain, n, at, a) /\ hcall' = <<"add_after", n, at>>
  BY DEF HlistAddAfter, Chains, PutIn
<1>3. \A h \in Buckets : \A k \in DOMAIN L[h] :
         L[h][k] = at => at \in Chain!In(h) /\ Chain!Place(at, h) = k
  BY HashedIs
<1> HIDE DEF L, N
<1>4. PICK h \in Buckets : \E k \in DOMAIN L[h] :
         /\ L[h][k] = at /\ Along(h, L[h], k) = at
         /\ k \in 1 .. Len(L[h]) /\ Len(L[h]) \in Nat
         /\ a = Along(h, L[h], k + 1) /\ a \in Targets
  BY <1>1, EntryAt
<1>5. PICK k \in DOMAIN L[h] :
         /\ L[h][k] = at /\ Along(h, L[h], k) = at
         /\ k \in 1 .. Len(L[h]) /\ Len(L[h]) \in Nat
         /\ a = Along(h, L[h], k + 1) /\ a \in Targets
  BY <1>4
<1> DEFINE s == L[h]
           t == InsertAt(s, k + 1, n)
<1>6. s \in Seq(Entries) /\ chain \in ChainType
  BY <1>1 DEF ChainHolds, Among
<1>7. k \in 0 .. Len(s) /\ k \in 0 .. Len(s) + 1 /\ k + 1 \in 0 .. Len(s) + 1
  BY <1>5
<1>8. n # at /\ n # a /\ at \in Links
  BY <1>1, <1>5, <1>7, NotAlong DEF Links
<1> HIDE DEF a, s
<1>9. chain' \in ChainType /\ ChainedIn(chain', chain, n, at, a)
  BY <1>2, <1>5, <1>6, <1>8, PutInIs
<1>10. InsertedAs(Entries, s, k, n, t)
  BY <1>6, <1>7, InsertedIs
<1> HIDE DEF t
<1>11. ChainHolds(chain', [L EXCEPT ![h] = t], N \cup {n})
  <2>1. ChainedIn(chain', chain, n, Along(h, s, k), Along(h, s, k + 1))
    BY <1>5, <1>9 DEF s
  <2> QED
    BY <1>1, <1>7, <1>9, <1>10, <2>1, EntryIn DEF s
<1>12. Chained(chain)' = [L EXCEPT ![h] = t] /\ HListInv'
  BY <1>11, ChainSteps
<1>13. at \in Chain!In(h) /\ Chain!Place(at, h) = k
  BY <1>3, <1>5
<1>14. Chain!InsertAt(s, k + 1, n) = t
  BY DEF Chain!InsertAt, InsertAt, t
<1> QED
  BY <1>1, <1>2, <1>12, <1>13, <1>14 DEF Chain!AddAfter, L, s

LEMMA HlistDelStep ==
  ASSUME HListInv, NEW n \in Entries, HlistDel(n)
  PROVE  HListInv' /\ Chain!Delete(n)
<1> DEFINE L == Chained(chain)
           N == Members(Entries, L)
           a == chain.next[n]
           b == chain.pprev[n]
<1>1. ChainHolds(chain, L, N) /\ n \in N /\ Chain!Linked = N
  BY HashedIs DEF HlistDel
<1>2. /\ chain' = TakenOut(chain, n, b, a) \/ chain' = TakenOutInit(chain, n, b, a)
      /\ hcall' = <<"del", n>>
  BY DEF HlistDel, Chains, TakenOut, TakenOutInit
<1>3. \A h \in Buckets : \A k \in DOMAIN L[h] :
         L[h][k] = n => Chain!AllWithout(n) = [L EXCEPT ![h] = RemoveAt(L[h], k)]
  BY HashedIs
<1> HIDE DEF L, N
<1>4. PICK h \in Buckets : \E k \in DOMAIN L[h] :
         /\ L[h][k] = n /\ a \in Targets /\ b \in Links
         /\ a = Along(h, L[h], k + 1) /\ b = Along(h, L[h], k - 1)
  BY <1>1, EntryAt
<1>5. PICK k \in DOMAIN L[h] :
         /\ L[h][k] = n /\ a \in Targets /\ b \in Links
         /\ a = Along(h, L[h], k + 1) /\ b = Along(h, L[h], k - 1)
  BY <1>4
<1> DEFINE s == L[h]
           t == RemoveAt(s, k)
<1>6. s \in Seq(Entries) /\ chain \in ChainType
  BY <1>1 DEF ChainHolds, Among
<1> HIDE DEF a, b
<1>7. chain' \in ChainType /\ ChainedOut(chain', chain, n, b, a)
  BY <1>2, <1>5, <1>6, TakenOutIs
<1>8. DeletedAs(Entries, s, k, t)
  BY <1>6, DeletedIs
<1> HIDE DEF t
<1>9. ChainHolds(chain', [L EXCEPT ![h] = t], N \ {n})
  <2>1. ChainedOut(chain', chain, L[h][k], Along(h, L[h], k - 1), Along(h, L[h], k + 1))
    BY <1>5, <1>7
  <2>2. ChainHolds(chain', [L EXCEPT ![h] = t], N \ {L[h][k]})
    BY <1>1, <1>7, <1>8, <2>1, EntryOut
  <2> QED
    BY <1>5, <2>2
<1>10. Chained(chain)' = [L EXCEPT ![h] = t] /\ HListInv'
  BY <1>9, ChainSteps
<1> QED
  BY <1>1, <1>2, <1>3, <1>5, <1>10 DEF Chain!Delete, t

LEMMA SwapStep ==
  ASSUME HListInv, NEW old \in Entries, NEW new \in Entries, HlistReplace(old, new)
  PROVE  HListInv' /\ \E h \in Buckets : Chain!ReplaceBy(old, h, new)
<1> DEFINE L == Chained(chain)
           N == Members(Entries, L)
           a == chain.next[old]
           b == chain.pprev[old]
<1>1. ChainHolds(chain, L, N) /\ new \notin N /\ old \in N /\ Chain!Linked = N
  BY HashedIs DEF HlistReplace
<1>2. chain' = Swapped(chain, old, new, b, a) /\ hcall' = <<"replace", old, new>>
  BY DEF HlistReplace, Chains, Swapped
<1>3. \A h \in Buckets : \A k \in DOMAIN L[h] :
         L[h][k] = old => old \in Chain!In(h) /\ Chain!Place(old, h) = k
  BY HashedIs
<1> HIDE DEF L, N
<1>4. PICK h \in Buckets : \E k \in DOMAIN L[h] :
         /\ L[h][k] = old /\ a \in Targets /\ b \in Links
         /\ k \in 1 .. Len(L[h]) /\ Len(L[h]) \in Nat
         /\ a = Along(h, L[h], k + 1) /\ b = Along(h, L[h], k - 1)
  BY <1>1, EntryAt
<1>5. PICK k \in DOMAIN L[h] :
         /\ L[h][k] = old /\ a \in Targets /\ b \in Links
         /\ k \in 1 .. Len(L[h]) /\ Len(L[h]) \in Nat
         /\ a = Along(h, L[h], k + 1) /\ b = Along(h, L[h], k - 1)
  BY <1>4
<1>6. k - 1 \in 0 .. Len(L[h]) + 1 /\ k + 1 \in 0 .. Len(L[h]) + 1
  BY <1>5
<1>7. new # old /\ new # a /\ new # b /\ chain \in ChainType
  <2>1. new # a /\ new # b
    BY <1>1, <1>5, <1>6, NotAlong
  <2> QED
    BY <1>1, <2>1 DEF ChainHolds
<1> HIDE DEF a, b
<1> DEFINE q == Swapped(chain, old, new, b, a)
<1>8. /\ q \in ChainType
      /\ \A x \in Links : q.next[x] =
            IF x = b THEN new ELSE IF x = new THEN a ELSE chain.next[x]
      /\ \A x \in Entries : q.pprev[x] =
            IF x = old THEN Nil ELSE IF x = a THEN new ELSE IF x = new THEN b ELSE chain.pprev[x]
  BY <1>5, <1>7, SwappedIs
<1> HIDE DEF q
<1>9. ChainHolds(q, [L EXCEPT ![h][k] = new], (N \ {old}) \cup {new})
  BY <1>1, <1>5, <1>8, EntryReplaced
<1>10. Chained(chain)' = [L EXCEPT ![h][k] = new] /\ HListInv'
  <2>1. chain' = q
    BY <1>2 DEF q
  <2> QED
    BY <1>9, <2>1, ChainSteps
<1>11. old \in Chain!In(h) /\ Chain!Place(old, h) = k
  BY <1>3, <1>5
<1> QED
  BY <1>1, <1>2, <1>10, <1>11 DEF Chain!ReplaceBy, L

LEMMA HListStart ==
  ASSUME HListInit
  PROVE  HListInv /\ Chain!SeqInit
<1> DEFINE L == [h \in Buckets |-> <<>>]
<1>1. /\ chain \in ChainType
      /\ \A h \in Buckets : chain.next[h] = Nil
      /\ \A n \in Entries : chain.pprev[n] = Nil
  BY DEF HListInit, ChainType, Links, Targets
<1>2. L \in [Buckets -> Seq(Entries)] /\ \A h \in Buckets : L[h] = <<>>
  <2>1. <<>> \in Seq(Entries)
    OBVIOUS
  <2> QED
    BY <2>1
<1> HIDE DEF L
<1>3. \A h \in Buckets : Leads(chain, h, L[h])
  <2> SUFFICES ASSUME NEW h \in Buckets PROVE Leads(chain, h, <<>>)
    BY <1>2
  <2>1. Along(h, <<>>, 0) = h /\ Along(h, <<>>, 0 + 1) = Nil /\ 0 .. Len(<<>>) = {0}
    BY DEF Along
  <2>2. DOMAIN <<>> = {}
    OBVIOUS
  <2> QED
    BY <1>1, <2>1, <2>2 DEF Leads
<1>4. Apart(L) /\ Members(Entries, L) = {}
  <2>1. \A h \in Buckets : DOMAIN L[h] = {}
    BY <1>2
  <2> QED
    BY <1>2, <2>1 DEF Apart, Members
<1>5. ChainHolds(chain, L, {})
  BY <1>1, <1>2, <1>3, <1>4 DEF ChainHolds, Among
<1>6. Chained(chain) = L
  BY <1>5, ChainedIs
<1>7. HListInv
  BY <1>4, <1>5, <1>6 DEF HListInv
<1> QED
  BY <1>6, <1>7 DEF Chain!SeqInit, HListInit, L

LEMMA HListStep ==
  ASSUME HListInv, [HListNext]_hlistVars
  PROVE  HListInv' /\ [Chain!SeqNext]_hlistVars
<1>1. CASE UNCHANGED hlistVars
  <2>1. chain' = chain
    BY <1>1 DEF hlistVars
  <2>2. Chained(chain)' = Chained(chain)
    BY <2>1
  <2> QED
    BY <1>1, <2>1, <2>2 DEF HListInv
<1>2. ASSUME NEW n \in Entries, NEW h \in Buckets, HlistAddHead(n, h)
      PROVE  HListInv' /\ Chain!SeqNext
  BY <1>2, AddHeadStep DEF Chain!SeqNext
<1>3. ASSUME NEW n \in Entries, HlistDel(n)
      PROVE  HListInv' /\ Chain!SeqNext
  BY <1>3, HlistDelStep DEF Chain!SeqNext
<1>4. ASSUME NEW n \in Entries, NEW at \in Entries,
             HlistAddBefore(n, at) \/ HlistAddAfter(n, at) \/ HlistReplace(at, n)
      PROVE  HListInv' /\ Chain!SeqNext
  <2>1. CASE HlistAddBefore(n, at)
    BY <2>1, AddBeforeStep DEF Chain!SeqNext
  <2>2. CASE HlistAddAfter(n, at)
    BY <2>2, AddAfterStep DEF Chain!SeqNext
  <2>3. CASE HlistReplace(at, n)
    BY <2>3, SwapStep DEF Chain!SeqNext
  <2> QED
    BY <1>4, <2>1, <2>2, <2>3
<1> QED
  BY <1>1, <1>2, <1>3, <1>4 DEF HListNext

\* The buckets of klist.h's hlists hold sequences of nodes, pprev names what
\* leads to each node and is NULL exactly for the nodes in none, and
\* hlist_add_head, hlist_add_before, hlist_add_after, hlist_del,
\* hlist_del_init, hlist_replace_rcu and their rcu forms change them as their
\* names say.
THEOREM BucketsImplementSequences == HListSpec => []HListInv /\ BucketsAreSequences
<1>1. HListInit => HListInv /\ Chain!SeqInit
  BY HListStart
<1>2. HListInv /\ [HListNext]_hlistVars => HListInv' /\ [Chain!SeqNext]_hlistVars
  BY HListStep
<1> QED
  BY <1>1, <1>2, PTL DEF HListSpec, BucketsAreSequences

\* Both kinds of list together, which is what the run checks.
THEOREM ListsKeepSequences == KListSpec /\ HListSpec => ListsAreSequences
<1> QED
  BY ListsImplementSequences, BucketsImplementSequences, PTL DEF ListsAreSequences
=============================================================================
