--------------------------- MODULE JsonCharsProofs ---------------------------
(***************************************************************************)
(* What JsonChars asks of parson.c, for inputs of any length and any bytes *)
(* (TestBytes and MaxLength bound only what TLC looks at).                 *)
(*                                                                         *)
(* The operators of JsonChars are recursive functions of a position.  Each *)
(* is shown to exist and to satisfy its equation first (SumBy, EndBy,      *)
(* ReadBy, EscapedBy, ValidBy, FormedBy, BlankedBy, KindsBy), and what it  *)
(* computes follows by induction on the positions.                         *)
(***************************************************************************)
EXTENDS JsonChars, SequenceTheorems, FiniteSetTheorems, WellFoundedInduction, TLAPS

-----------------------------------------------------------------------------
(* Numbers, and induction over an interval of them *)

\* A set of numbers has a least one.
LEMMA LeastNumber ==
  ASSUME NEW S \in SUBSET Nat, S # {}
  PROVE  \E i \in S : \A j \in S : i <= j
<1> DEFINE R == OpToRel(<, Nat)
<1>1. \A i, j \in Nat : i < j => <<i, j>> \in R
  BY DEF OpToRel
<1>2. IsWellFoundedOn(R, Nat)
  BY NatLessThanWellFounded
<1> HIDE DEF R
<1>3. PICK i \in S : \A j \in S : ~(<<j, i>> \in R)
  BY <1>2, WFMin
<1>4. ASSUME NEW j \in S PROVE i <= j
  <2>1. ~(j < i)
    BY <1>1, <1>3
  <2> QED
    BY <2>1
<1> QED
  BY <1>4

\* Functions defined by recursion.  F[i][g] is the value at i, from the values g
\* at elements of a lower rank.
Local(F, D, V, rank) ==
  \A i \in D : \A g, h \in [D -> V] :
    (\A j \in D : rank[j] < rank[i] => g[j] = h[j]) => F[i][g] = F[i][h]

Recursive(g, D, V, F) == g \in [D -> V] /\ \A i \in D : g[i] = F[i][g]

LEMMA RecursionExists ==
  ASSUME NEW D, NEW V, NEW v0 \in V, NEW K \in Nat, NEW rank \in [D -> 0 .. K],
         NEW F \in [D -> [[D -> V] -> V]], Local(F, D, V, rank)
  PROVE  \E g : Recursive(g, D, V, F)
<1> DEFINE Fits(k, g) == \A i \in D : rank[i] < k => g[i] = F[i][g]
           Bad == {k \in Nat : ~ \E g \in [D -> V] : Fits(k, g)}
<1>1. 0 \notin Bad
  <2>1. [i \in D |-> v0] \in [D -> V]
    OBVIOUS
  <2>2. Fits(0, [i \in D |-> v0])
    OBVIOUS
  <2> HIDE DEF Fits
  <2> QED
    BY <2>1, <2>2
<1>2. ASSUME NEW k \in Nat, k \notin Bad PROVE k + 1 \notin Bad
  <2>1. PICK g \in [D -> V] : Fits(k, g)
    BY <1>2
  <2> DEFINE h == [i \in D |-> IF rank[i] = k THEN F[i][g] ELSE g[i]]
  <2>2. \A i \in D : F[i][g] \in V
    OBVIOUS
  <2>3. h \in [D -> V]
    BY <2>2
  <2>4. \A i \in D : h[i] = IF rank[i] = k THEN F[i][g] ELSE g[i]
    OBVIOUS
  <2> HIDE DEF h
  <2>5. ASSUME NEW i \in D, rank[i] < k + 1 PROVE h[i] = F[i][h]
    <3>1. \A j \in D : rank[j] < rank[i] => g[j] = h[j]
      BY <2>4, <2>5
    <3>2. F[i][g] = F[i][h]
      BY <2>3, <3>1 DEF Local
    <3>3. CASE rank[i] = k
      BY <2>4, <3>2, <3>3
    <3>4. CASE rank[i] < k
      BY <2>1, <2>4, <3>2, <3>4
    <3>5. PICK r \in Nat : r = rank[i]
      OBVIOUS
    <3>6. r < k + 1
      BY <2>5, <3>5
    <3>7. r = k \/ r < k
      BY <3>6
    <3> QED
      BY <3>3, <3>4, <3>5, <3>7
  <2>6. Fits(k + 1, h)
    BY <2>5
  <2> HIDE DEF Fits
  <2> QED
    BY <2>3, <2>6
<1>3. Bad = {}
  <2> SUFFICES ASSUME Bad # {} PROVE FALSE
    OBVIOUS
  <2>1. Bad \in SUBSET Nat
    OBVIOUS
  <2> HIDE DEF Bad
  <2>2. PICK k \in Bad : \A e \in Bad : k <= e
    BY <2>1, LeastNumber
  <2>3. k \in Nat /\ k # 0
    BY <1>1, <2>1, <2>2
  <2>4. k - 1 \in Nat /\ ~(k <= k - 1) /\ (k - 1) + 1 = k
    BY <2>3
  <2> QED
    BY <1>2, <2>2, <2>4
<1>4. PICK g \in [D -> V] : Fits(K + 1, g)
  <2>1. K + 1 \in Nat /\ K + 1 \notin Bad
    <3> HIDE DEF Bad
    <3> QED
      BY <1>3
  <2> QED
    BY <2>1
<1>5. \A i \in D : g[i] = F[i][g]
  BY <1>4
<1> QED
  BY <1>5 DEF Recursive

\* Induction upwards and downwards over an interval.
LEMMA Upwards ==
  ASSUME NEW m \in Nat, NEW S, 0 \in S,
         \A k \in 0 .. m : k \in S /\ k < m => k + 1 \in S
  PROVE  \A k \in 0 .. m : k \in S
<1> DEFINE Bad == {k \in 0 .. m : k \notin S}
<1> SUFFICES ASSUME Bad # {} PROVE FALSE
  OBVIOUS
<1>1. Bad \in SUBSET Nat
  OBVIOUS
<1>2. PICK k \in Bad : \A j \in Bad : k <= j
  <2> HIDE DEF Bad
  <2> QED
    BY <1>1, LeastNumber
<1>3. k \in 0 .. m /\ k \notin S /\ k # 0
  OBVIOUS
<1>4. k - 1 \in 0 .. m /\ ~(k <= k - 1) /\ (k - 1) + 1 = k /\ k - 1 < m
  BY <1>3
<1>5. k - 1 \notin Bad
  <2> HIDE DEF Bad
  <2> QED
    BY <1>2, <1>4
<1> QED
  BY <1>3, <1>4, <1>5

LEMMA Downwards ==
  ASSUME NEW m \in Nat, NEW S,
         \A i \in 1 .. m : (\A j \in 1 .. m : i < j => j \in S) => i \in S
  PROVE  \A i \in 1 .. m : i \in S
<1> DEFINE Bad == {d \in 0 .. m - 1 : m - d \notin S}
<1>1. Bad = {}
  <2> SUFFICES ASSUME Bad # {} PROVE FALSE
    OBVIOUS
  <2>1. Bad \in SUBSET Nat
    OBVIOUS
  <2>2. PICK d \in Bad : \A e \in Bad : d <= e
    <3> HIDE DEF Bad
    <3> QED
      BY <2>1, LeastNumber
  <2>3. d \in 0 .. m - 1 /\ m - d \notin S
    OBVIOUS
  <2>4. ASSUME NEW j \in 1 .. m, m - d < j PROVE j \in S
    <3>1. m - j \in 0 .. m - 1 /\ ~(d <= m - j) /\ m - (m - j) = j
      BY <2>3, <2>4
    <3>2. m - j \notin Bad
      <4> HIDE DEF Bad
      <4> QED
        BY <2>2, <3>1
    <3> QED
      BY <3>1, <3>2
  <2>5. m - d \in 1 .. m
    BY <2>3
  <2> QED
    BY <2>3, <2>4, <2>5
<1>2. ASSUME NEW i \in 1 .. m PROVE i \in S
  <2>1. m - i \in 0 .. m - 1 /\ m - (m - i) = i
    OBVIOUS
  <2>2. m - i \notin Bad
    BY <1>1
  <2>3. m - (m - i) \in S
    BY <2>1, <2>2
  <2> QED
    BY <2>1, <2>3
<1> QED
  BY <1>2

-----------------------------------------------------------------------------
(* The inputs *)

\* What an input is made of.
Alphabet(k) ==
  CASE k = "string" -> Chars \cup Digits
    [] k = "comments" -> SourceChars
    [] k = "utf8" -> TestBytes

\* The inputs are texts of the right kind.
CharInv == task \in {"string", "comments", "utf8"} /\ input \in Seq(Alphabet(task))

\* The inputs are texts of the kind their task reads: characters and escapes,
\* source characters, bytes.
THEOREM CharTyping == CharSpec => []CharInv
<1>1. CharInit => CharInv
  BY DEF CharInit, CharInv
<1>2. CharInv /\ [CharNext]_charVars => CharInv'
  <2> SUFFICES ASSUME CharInv, [CharNext]_charVars PROVE CharInv'
    OBVIOUS
  <2>1. CASE CharNext
    <3>1. PICK e \in Elements(task) : input' = input \o e
      BY <2>1 DEF CharNext
    <3>2. task' = task /\ task \in {"string", "comments", "utf8"} /\ input \in Seq(Alphabet(task))
      BY <2>1 DEF CharNext, CharInv
    <3>3. e \in Seq(Alphabet(task))
      <4>1. CASE task = "string"
        <5>1. "backslash" \in Chars /\ "u" \in Chars
          BY DEF Chars
        <5>2. e \in {<<c>> : c \in Chars} \cup {<<"backslash", "u", d>> : d \in Digits}
          BY <3>1, <4>1 DEF Elements
        <5>3. Alphabet(task) = Chars \cup Digits
          BY <4>1 DEF Alphabet
        <5>4. CASE e \in {<<c>> : c \in Chars}
          <6>1. PICK c \in Chars : e = <<c>>
            BY <5>4
          <6>2. c \in Alphabet(task)
            BY <5>3
          <6> QED
            BY <6>1, <6>2
        <5>5. CASE e \in {<<"backslash", "u", d>> : d \in Digits}
          <6>1. PICK d \in Digits : e = <<"backslash", "u", d>>
            BY <5>5
          <6>2. "backslash" \in Alphabet(task) /\ "u" \in Alphabet(task) /\ d \in Alphabet(task)
            BY <5>1, <5>3
          <6> QED
            BY <6>1, <6>2
        <5> QED
          BY <5>2, <5>4, <5>5
      <4>2. CASE task = "comments"
        <5>1. Alphabet(task) = SourceChars /\ e \in {<<c>> : c \in SourceChars}
          BY <3>1, <4>2 DEF Elements, Alphabet
        <5> QED
          BY <5>1
      <4>3. CASE task = "utf8"
        <5>1. Alphabet(task) = TestBytes /\ e \in {<<b>> : b \in TestBytes}
          BY <3>1, <4>3 DEF Elements, Alphabet
        <5> QED
          BY <5>1
      <4> QED
        BY <3>2, <4>1, <4>2, <4>3
    <3>4. input' \in Seq(Alphabet(task))
      BY <3>1, <3>2, <3>3, ConcatProperties
    <3> QED
      BY <3>2, <3>4 DEF CharInv
  <2>2. CASE UNCHANGED charVars
    BY <2>2 DEF CharInv, charVars
  <2> QED
    BY <2>1, <2>2
<1> QED
  BY <1>1, <1>2, PTL DEF CharSpec

-----------------------------------------------------------------------------
(* UTF-8 *)

\* A string of bytes.
ByteString(t) == t \in Seq(Nat) /\ \A i \in 1 .. Len(t) : t[i] <= 255

\* Every element of a string of bytes is a byte.
LEMMA ByteAt ==
  ASSUME NEW t, ByteString(t)
  PROVE  Len(t) \in Nat /\ \A i \in 1 .. Len(t) : t[i] \in Nat /\ t[i] <= 255
BY DEF ByteString

\* What num_bytes_in_utf8_sequence says, by the first byte.
LEMMA OneByte ==
  ASSUME NEW b \in Nat, b <= 255
  PROVE  /\ NumBytes(b) \in {0, 1, 2, 3, 4}
         /\ NumBytes(b) = 1 <=> b <= 127
         /\ NumBytes(b) = 2 <=> 194 <= b /\ b <= 223
         /\ NumBytes(b) = 3 <=> 224 <= b /\ b <= 239
         /\ NumBytes(b) = 4 <=> 240 <= b /\ b <= 244
BY DEF NumBytes, IsCont

\* The code points of the sequences of each length, whose bytes are a, b, c, d.
Code2(a, b) == (a % 32) * 64 + (b % 64)
Code3(a, b, c) == ((a % 16) * 64 + (b % 64)) * 64 + (c % 64)
Code4(a, b, c, d) == (((a % 8) * 64 + (b % 64)) * 64 + (c % 64)) * 64 + (d % 64)

\* Which code points the sequences of two bytes have.
LEMMA CodeTwo ==
  ASSUME NEW a \in Nat, 194 <= a, a <= 223,
         NEW b \in Nat, IsCont(b),
         NEW cp, cp = Code2(a, b)
  PROVE  /\ ~Overlong(cp, 2)
         /\ cp <= LastCodePoint
         /\ ~Surrogate(cp)
<1>1. 128 <= b /\ b <= 191
  BY DEF IsCont
<1>2. a % 32 = a - 192
  OBVIOUS
<1>3. b % 64 = b - 128
  BY <1>1
<1>4. cp = (a - 192) * 64 + (b - 128)
  BY <1>2, <1>3 DEF Code2
<1>5. cp = 64 * a + b - 12416
  BY <1>1, <1>4, SMT
<1>6. ~Overlong(cp, 2)
  BY <1>1, <1>5, SMT DEF Overlong
<1>7. cp <= LastCodePoint
  BY <1>1, <1>5, SMT DEF LastCodePoint
<1>8. ~Surrogate(cp)
  BY <1>1, <1>5, SMT DEF Surrogate
<1> QED
  BY <1>6, <1>7, <1>8

\* Of three bytes: those that need as many, surrogates included.
LEMMA CodeThree ==
  ASSUME NEW a \in Nat, 224 <= a, a <= 239,
         NEW b \in Nat, IsCont(b), NEW c \in Nat, IsCont(c),
         NEW cp, cp = Code3(a, b, c)
  PROVE  /\ ~Overlong(cp, 3) <=> ~(a = 224 /\ b < 160)
         /\ cp <= LastCodePoint
         /\ Surrogate(cp) <=> a = 237 /\ b > 159
<1>1. 128 <= b /\ b <= 191 /\ 128 <= c /\ c <= 191
  BY DEF IsCont
<1>2. a % 16 = a - 224
  OBVIOUS
<1>3. b % 64 = b - 128
  BY <1>1
<1>4. c % 64 = c - 128
  BY <1>1
<1>5. cp = ((a - 224) * 64 + (b - 128)) * 64 + (c - 128)
  BY <1>2, <1>3, <1>4 DEF Code3
<1>6. cp = 4096 * a + 64 * b + c - 925824
  BY <1>1, <1>5, SMT
<1>7. ~Overlong(cp, 3) <=> ~(a = 224 /\ b < 160)
  BY <1>1, <1>6, SMT DEF Overlong
<1>8. cp <= LastCodePoint
  BY <1>1, <1>6, SMT DEF LastCodePoint
<1>9. Surrogate(cp) <=> a = 237 /\ b > 159
  BY <1>1, <1>6, SMT DEF Surrogate
<1> QED
  BY <1>7, <1>8, <1>9

\* Of four bytes: those that need as many, past the last one included.
LEMMA CodeFour ==
  ASSUME NEW a \in Nat, 240 <= a, a <= 244,
         NEW b \in Nat, IsCont(b), NEW c \in Nat, IsCont(c), NEW d \in Nat, IsCont(d),
         NEW cp, cp = Code4(a, b, c, d)
  PROVE  /\ ~Overlong(cp, 4) <=> ~(a = 240 /\ b < 144)
         /\ cp <= LastCodePoint <=> ~(a = 244 /\ b > 143)
         /\ ~Overlong(cp, 4) => ~Surrogate(cp)
<1>1. 128 <= b /\ b <= 191 /\ 128 <= c /\ c <= 191 /\ 128 <= d /\ d <= 191
  BY DEF IsCont
<1>2. a % 8 = a - 240
  OBVIOUS
<1>3. b % 64 = b - 128
  BY <1>1
<1>4. c % 64 = c - 128
  BY <1>1
<1>5. d % 64 = d - 128
  BY <1>1
<1>6. cp = (((a - 240) * 64 + (b - 128)) * 64 + (c - 128)) * 64 + (d - 128)
  BY <1>2, <1>3, <1>4, <1>5 DEF Code4
<1>7. cp = 262144 * a + 4096 * b + 64 * c + d - 63447168
  BY <1>1, <1>6, SMT
<1>8. ~Overlong(cp, 4) <=> ~(a = 240 /\ b < 144)
  BY <1>1, <1>7, SMT DEF Overlong
<1>9. cp <= LastCodePoint <=> ~(a = 244 /\ b > 143)
  BY <1>1, <1>7, SMT DEF LastCodePoint
<1>10. ~Overlong(cp, 4) => ~Surrogate(cp)
  BY <1>1, <1>7, SMT DEF Overlong, Surrogate
<1> QED
  BY <1>8, <1>9, <1>10

\* verify_utf8_sequence for a sequence of each length.
LEMMA VerifyTwo ==
  ASSUME NEW t, ByteString(t), NEW i \in 1 .. Len(t), i + 1 <= Len(t),
         NEW a \in Nat, a = t[i], NEW b \in Nat, b = t[i + 1],
         194 <= a, a <= 223
  PROVE  VerifySequence(t, i) <=> IsCont(b)
<1>1. NumBytes(t[i]) = 2 /\ Len(t) \in Nat
  BY OneByte, ByteAt
<1>2. (\A j \in 1 .. 2 - 1 : i + j <= Len(t) /\ IsCont(t[i + j])) <=> IsCont(b)
  <2>1. 1 .. 2 - 1 = {1}
    OBVIOUS
  <2> QED
    BY <2>1, <1>1
<1>3. SUFFICES ASSUME IsCont(b)
               PROVE  VerifySequence(t, i)
  BY <1>1, <1>2 DEF VerifySequence
<1> DEFINE cp == CodePoint(t, i, 2)
<1>4. cp = Code2(a, b)
  BY DEF CodePoint, Code2
<1>5. VerifySequence(t, i) <=> ~Overlong(cp, 2) /\ cp <= LastCodePoint /\ ~Surrogate(cp)
  BY <1>1, <1>2, <1>3 DEF VerifySequence
<1> HIDE DEF cp
<1>6. /\ ~Overlong(cp, 2)
      /\ cp <= LastCodePoint
      /\ ~Surrogate(cp)
  BY <1>3, <1>4, CodeTwo
<1> QED
  BY <1>5, <1>6

LEMMA VerifyThree ==
  ASSUME NEW t, ByteString(t), NEW i \in 1 .. Len(t), i + 2 <= Len(t),
         NEW a \in Nat, a = t[i], NEW b \in Nat, b = t[i + 1], NEW c \in Nat, c = t[i + 2],
         224 <= a, a <= 239
  PROVE  VerifySequence(t, i) <=> IsCont(b) /\ IsCont(c) /\ ~(a = 224 /\ b < 160) /\ ~(a = 237 /\ b > 159)
<1>1. NumBytes(t[i]) = 3 /\ Len(t) \in Nat
  BY OneByte, ByteAt
<1>2. (\A j \in 1 .. 3 - 1 : i + j <= Len(t) /\ IsCont(t[i + j])) <=> IsCont(b) /\ IsCont(c)
  <2>1. 1 .. 3 - 1 = {1, 2}
    OBVIOUS
  <2> QED
    BY <2>1, <1>1
<1>3. SUFFICES ASSUME IsCont(b), IsCont(c)
               PROVE  VerifySequence(t, i) <=> ~(a = 224 /\ b < 160) /\ ~(a = 237 /\ b > 159)
  BY <1>1, <1>2 DEF VerifySequence
<1> DEFINE cp == CodePoint(t, i, 3)
<1>4. cp = Code3(a, b, c)
  BY DEF CodePoint, Code3
<1>5. VerifySequence(t, i) <=> ~Overlong(cp, 3) /\ cp <= LastCodePoint /\ ~Surrogate(cp)
  BY <1>1, <1>2, <1>3 DEF VerifySequence
<1> HIDE DEF cp
<1>6. /\ ~Overlong(cp, 3) <=> ~(a = 224 /\ b < 160)
      /\ cp <= LastCodePoint
      /\ Surrogate(cp) <=> a = 237 /\ b > 159
  BY <1>3, <1>4, CodeThree
<1> QED
  BY <1>5, <1>6

LEMMA VerifyFour ==
  ASSUME NEW t, ByteString(t), NEW i \in 1 .. Len(t), i + 3 <= Len(t),
         NEW a \in Nat, a = t[i], NEW b \in Nat, b = t[i + 1], NEW c \in Nat, c = t[i + 2], NEW d \in Nat, d = t[i + 3],
         240 <= a, a <= 244
  PROVE  VerifySequence(t, i) <=> IsCont(b) /\ IsCont(c) /\ IsCont(d) /\ ~(a = 240 /\ b < 144) /\ ~(a = 244 /\ b > 143)
<1>1. NumBytes(t[i]) = 4 /\ Len(t) \in Nat
  BY OneByte, ByteAt
<1>2. (\A j \in 1 .. 4 - 1 : i + j <= Len(t) /\ IsCont(t[i + j])) <=> IsCont(b) /\ IsCont(c) /\ IsCont(d)
  <2>1. 1 .. 4 - 1 = {1, 2, 3}
    OBVIOUS
  <2> QED
    BY <2>1, <1>1
<1>3. SUFFICES ASSUME IsCont(b), IsCont(c), IsCont(d)
               PROVE  VerifySequence(t, i) <=> ~(a = 240 /\ b < 144) /\ ~(a = 244 /\ b > 143)
  BY <1>1, <1>2 DEF VerifySequence
<1> DEFINE cp == CodePoint(t, i, 4)
<1>4. cp = Code4(a, b, c, d)
  BY DEF CodePoint, Code4
<1>5. VerifySequence(t, i) <=> ~Overlong(cp, 4) /\ cp <= LastCodePoint /\ ~Surrogate(cp)
  BY <1>1, <1>2, <1>3 DEF VerifySequence
<1> HIDE DEF cp
<1>6. /\ ~Overlong(cp, 4) <=> ~(a = 240 /\ b < 144)
      /\ cp <= LastCodePoint <=> ~(a = 244 /\ b > 143)
      /\ ~Overlong(cp, 4) => ~Surrogate(cp)
  BY <1>3, <1>4, CodeFour
<1> QED
  BY <1>5, <1>6

\* Whether a form with one, two, three and four bytes fits.
Between(b, r) == r[1] <= b /\ b <= r[2]

LEMMA HasOne ==
  ASSUME NEW t, ByteString(t), NEW i \in 1 .. Len(t), NEW f, Len(f) = 1, DOMAIN f = {1}
  PROVE  HasForm(t, i, f) <=> Between(t[i], f[1])
<1>1. i + 1 - 1 = i /\ i <= Len(t)
  BY ByteAt
<1> QED
  BY <1>1 DEF HasForm, Between

LEMMA HasTwo ==
  ASSUME NEW t, ByteString(t), NEW i \in 1 .. Len(t), NEW f, Len(f) = 2, DOMAIN f = {1, 2}
  PROVE  HasForm(t, i, f) <=>
           i + 1 <= Len(t) /\ Between(t[i], f[1]) /\ Between(t[i + 1], f[2])
<1>1. i + 1 - 1 = i /\ i + 2 - 1 = i + 1
  OBVIOUS
<1> QED
  BY <1>1 DEF HasForm, Between

LEMMA HasThree ==
  ASSUME NEW t, ByteString(t), NEW i \in 1 .. Len(t), NEW f, Len(f) = 3, DOMAIN f = {1, 2, 3}
  PROVE  HasForm(t, i, f) <=>
           /\ i + 2 <= Len(t)
           /\ Between(t[i], f[1]) /\ Between(t[i + 1], f[2]) /\ Between(t[i + 2], f[3])
<1>1. i + 1 - 1 = i /\ i + 2 - 1 = i + 1 /\ i + 3 - 1 = i + 2
  OBVIOUS
<1> QED
  BY <1>1 DEF HasForm, Between

LEMMA HasFour ==
  ASSUME NEW t, ByteString(t), NEW i \in 1 .. Len(t), NEW f, Len(f) = 4,
         DOMAIN f = {1, 2, 3, 4}
  PROVE  HasForm(t, i, f) <=>
           /\ i + 3 <= Len(t) /\ Between(t[i], f[1]) /\ Between(t[i + 1], f[2])
           /\ Between(t[i + 2], f[3]) /\ Between(t[i + 3], f[4])
<1>1. i + 1 - 1 = i /\ i + 2 - 1 = i + 1 /\ i + 3 - 1 = i + 2 /\ i + 4 - 1 = i + 3
  OBVIOUS
<1> QED
  BY <1>1 DEF HasForm, Between

\* The forms, by their length.
LEMMA FormsAre ==
  ASSUME NEW f \in Forms
  PROVE  /\ Len(f) \in {1, 2, 3, 4}
         /\ Len(f) = 1 => f = << <<0, 127>> >>
         /\ Len(f) = 2 => f = << <<194, 223>>, <<128, 191>> >>
         /\ Len(f) = 3 => \/ f = << <<224, 224>>, <<160, 191>>, <<128, 191>> >>
                          \/ f = << <<225, 236>>, <<128, 191>>, <<128, 191>> >>
                          \/ f = << <<237, 237>>, <<128, 159>>, <<128, 191>> >>
                          \/ f = << <<238, 239>>, <<128, 191>>, <<128, 191>> >>
         /\ Len(f) = 4 => \/ f = << <<240, 240>>, <<144, 191>>, <<128, 191>>, <<128, 191>> >>
                          \/ f = << <<241, 243>>, <<128, 191>>, <<128, 191>>, <<128, 191>> >>
                          \/ f = << <<244, 244>>, <<128, 143>>, <<128, 191>>, <<128, 191>> >>
<1>1. \A p : Len(<<p>>) = 1
  OBVIOUS
<1>2. \A p, q : Len(<<p, q>>) = 2
  OBVIOUS
<1>3. \A p, q, r : Len(<<p, q, r>>) = 3
  OBVIOUS
<1>4. \A p, q, r, u : Len(<<p, q, r, u>>) = 4
  OBVIOUS
<1>5. \/ f = << <<0, 127>> >>
      \/ f = << <<194, 223>>, <<128, 191>> >>
      \/ f = << <<224, 224>>, <<160, 191>>, <<128, 191>> >>
      \/ f = << <<225, 236>>, <<128, 191>>, <<128, 191>> >>
      \/ f = << <<237, 237>>, <<128, 159>>, <<128, 191>> >>
      \/ f = << <<238, 239>>, <<128, 191>>, <<128, 191>> >>
      \/ f = << <<240, 240>>, <<144, 191>>, <<128, 191>>, <<128, 191>> >>
      \/ f = << <<241, 243>>, <<128, 191>>, <<128, 191>>, <<128, 191>> >>
      \/ f = << <<244, 244>>, <<128, 143>>, <<128, 191>>, <<128, 191>> >>
  BY DEF Forms
<1>6. CASE f = << <<0, 127>> >>
  BY <1>1, <1>6
<1>7. CASE f = << <<194, 223>>, <<128, 191>> >>
  BY <1>2, <1>7
<1>8. CASE \/ f = << <<224, 224>>, <<160, 191>>, <<128, 191>> >>
           \/ f = << <<225, 236>>, <<128, 191>>, <<128, 191>> >>
           \/ f = << <<237, 237>>, <<128, 159>>, <<128, 191>> >>
           \/ f = << <<238, 239>>, <<128, 191>>, <<128, 191>> >>
  <2>1. Len(f) = 3
    BY <1>3, <1>8
  <2> QED
    BY <2>1, <1>8
<1>9. CASE \/ f = << <<240, 240>>, <<144, 191>>, <<128, 191>>, <<128, 191>> >>
           \/ f = << <<241, 243>>, <<128, 191>>, <<128, 191>>, <<128, 191>> >>
           \/ f = << <<244, 244>>, <<128, 143>>, <<128, 191>>, <<128, 191>> >>
  <2>1. Len(f) = 4
    BY <1>4, <1>9
  <2> QED
    BY <2>1, <1>9
<1> QED
  BY <1>5, <1>6, <1>7, <1>8, <1>9

\* A form is as long as its first byte says.
LEMMA FormLength ==
  ASSUME NEW t, ByteString(t), NEW i \in 1 .. Len(t), NEW a \in Nat, a = t[i], a <= 255,
         NEW f \in Forms, HasForm(t, i, f)
  PROVE  Len(f) = NumBytes(a)
<1>1. f[1][1] <= a /\ a <= f[1][2]
  <2>1. 1 \in DOMAIN f
    BY DEF Forms
  <2>2. i + 1 - 1 = i
    OBVIOUS
  <2> QED
    BY <2>1, <2>2 DEF HasForm
<1>2. CASE Len(f) = 1
  <2>1. f[1][2] = 127
    BY <1>2, FormsAre
  <2> QED
    BY <1>1, <1>2, <2>1, OneByte
<1>3. CASE Len(f) = 2
  <2>1. f[1][1] = 194 /\ f[1][2] = 223
    BY <1>3, FormsAre
  <2> QED
    BY <1>1, <1>3, <2>1, OneByte
<1>4. CASE Len(f) = 3
  <2>1. f[1][1] \in {224, 225, 237, 238} /\ f[1][2] \in {224, 236, 237, 239}
    BY <1>4, FormsAre
  <2>2. 224 <= a /\ a <= 239
    BY <1>1, <2>1
  <2> QED
    BY <1>4, <2>2, OneByte
<1>5. CASE Len(f) = 4
  <2>1. f[1][1] \in {240, 241, 244} /\ f[1][2] \in {240, 243, 244}
    BY <1>5, FormsAre
  <2>2. 240 <= a /\ a <= 244
    BY <1>1, <2>1
  <2> QED
    BY <1>5, <2>2, OneByte
<1> QED
  BY <1>2, <1>3, <1>4, <1>5, FormsAre

\* A sequence that is accepted is all there.
LEMMA VerifyFits ==
  ASSUME NEW t, ByteString(t), NEW i \in 1 .. Len(t), VerifySequence(t, i)
  PROVE  NumBytes(t[i]) \in {1, 2, 3, 4} /\ i + NumBytes(t[i]) - 1 <= Len(t)
<1>1. t[i] \in Nat /\ t[i] <= 255 /\ Len(t) \in Nat
  BY ByteAt
<1> DEFINE n == NumBytes(t[i])
<1>2. n \in {0, 1, 2, 3, 4}
  BY <1>1, OneByte
<1>3. n > 0 /\ \A j \in 1 .. n - 1 : i + j <= Len(t)
  BY DEF VerifySequence
<1> HIDE DEF n
<1>4. n = 1 \/ i + (n - 1) <= Len(t)
  BY <1>2, <1>3
<1> QED
  BY <1>1, <1>2, <1>3, <1>4 DEF n

\* verify_utf8_sequence accepts exactly the forms of the standard.
LEMMA OneIsForm ==
  ASSUME NEW t, ByteString(t), NEW i \in 1 .. Len(t), NEW a \in Nat, a = t[i], a <= 127
  PROVE  VerifySequence(t, i) /\ \E f \in Forms : HasForm(t, i, f)
<1>1. NumBytes(a) = 1
  BY OneByte
<1>2. CodePoint(t, i, 1) = a
  BY DEF CodePoint
<1>3. ~Overlong(a, 1) /\ a <= LastCodePoint /\ ~Surrogate(a)
  BY SMT DEF Overlong, LastCodePoint, Surrogate
<1>4. VerifySequence(t, i)
  BY <1>1, <1>2, <1>3 DEF VerifySequence
<1> DEFINE A == << <<0, 127>> >>
<1>5. A \in Forms /\ Len(A) = 1 /\ DOMAIN A = {1} /\ A[1][1] = 0 /\ A[1][2] = 127
  BY DEF Forms
<1> HIDE DEF A
<1>6. HasForm(t, i, A)
  BY <1>5, HasOne DEF Between
<1> QED
  BY <1>4, <1>5, <1>6

LEMMA TwoIsForm ==
  ASSUME NEW t, ByteString(t), NEW i \in 1 .. Len(t), i + 1 <= Len(t),
         NEW a \in Nat, a = t[i], NEW b \in Nat, b = t[i + 1],
         194 <= a, a <= 223
  PROVE  VerifySequence(t, i) <=> \E f \in Forms : HasForm(t, i, f)
<1>1. VerifySequence(t, i) <=> 128 <= b /\ b <= 191
  BY VerifyTwo DEF IsCont
<1> DEFINE A == << <<194, 223>>, <<128, 191>> >>
<1>2. A \in Forms
  BY DEF Forms
<1>3. \A f \in Forms : HasForm(t, i, f) => f \in {A}
  <2> SUFFICES ASSUME NEW f \in Forms, HasForm(t, i, f) PROVE f \in {A}
    OBVIOUS
  <2>1. NumBytes(a) = 2 /\ a <= 255
    BY OneByte
  <2>2. Len(f) = 2
    BY <2>1, FormLength
  <2> QED
    BY <2>2, FormsAre
<1>4. HasForm(t, i, A) <=>
        194 <= a /\ a <= 223 /\ 128 <= b /\ b <= 191
  <2>1. Len(A) = 2 /\ DOMAIN A = {1, 2}
    OBVIOUS
  <2>2. /\ A[1][1] = 194 /\ A[1][2] = 223
        /\ A[2][1] = 128 /\ A[2][2] = 191
    OBVIOUS
  <2> HIDE DEF A
  <2>3. HasForm(t, i, A) <=>
          Between(a, A[1]) /\ Between(b, A[2])
    BY <2>1, HasTwo
  <2>4. Between(a, A[1]) <=> 194 <= a /\ a <= 223
    BY <2>2 DEF Between
  <2>5. Between(b, A[2]) <=> 128 <= b /\ b <= 191
    BY <2>2 DEF Between
  <2> QED
    BY <2>3, <2>4, <2>5
<1> HIDE DEF A
<1>5. VerifySequence(t, i) <=> HasForm(t, i, A)
  BY <1>1, <1>4
<1> QED
  BY <1>2, <1>3, <1>5

LEMMA ThreeIsForm ==
  ASSUME NEW t, ByteString(t), NEW i \in 1 .. Len(t), i + 2 <= Len(t),
         NEW a \in Nat, a = t[i], NEW b \in Nat, b = t[i + 1], NEW c \in Nat, c = t[i + 2],
         224 <= a, a <= 239
  PROVE  VerifySequence(t, i) <=> \E f \in Forms : HasForm(t, i, f)
<1>1. VerifySequence(t, i) <=> 
        /\ 128 <= b /\ b <= 191 /\ 128 <= c /\ c <= 191
        /\ ~(a = 224 /\ b < 160) /\ ~(a = 237 /\ b > 159)
  BY VerifyThree DEF IsCont
<1> DEFINE A == << <<224, 224>>, <<160, 191>>, <<128, 191>> >>
           B == << <<225, 236>>, <<128, 191>>, <<128, 191>> >>
           C == << <<237, 237>>, <<128, 159>>, <<128, 191>> >>
           D == << <<238, 239>>, <<128, 191>>, <<128, 191>> >>
<1>2. A \in Forms /\ B \in Forms /\ C \in Forms /\ D \in Forms
  BY DEF Forms
<1>3. \A f \in Forms : HasForm(t, i, f) => f \in {A, B, C, D}
  <2> SUFFICES ASSUME NEW f \in Forms, HasForm(t, i, f) PROVE f \in {A, B, C, D}
    OBVIOUS
  <2>1. NumBytes(a) = 3 /\ a <= 255
    BY OneByte
  <2>2. Len(f) = 3
    BY <2>1, FormLength
  <2> QED
    BY <2>2, FormsAre
<1>4. HasForm(t, i, A) <=>
        224 <= a /\ a <= 224 /\ 160 <= b /\ b <= 191 /\ 128 <= c /\ c <= 191
  <2>1. Len(A) = 3 /\ DOMAIN A = {1, 2, 3}
    OBVIOUS
  <2>2. /\ A[1][1] = 224 /\ A[1][2] = 224
        /\ A[2][1] = 160 /\ A[2][2] = 191
        /\ A[3][1] = 128 /\ A[3][2] = 191
    OBVIOUS
  <2> HIDE DEF A
  <2>3. HasForm(t, i, A) <=>
          Between(a, A[1]) /\ Between(b, A[2]) /\ Between(c, A[3])
    BY <2>1, HasThree
  <2>4. Between(a, A[1]) <=> 224 <= a /\ a <= 224
    BY <2>2 DEF Between
  <2>5. Between(b, A[2]) <=> 160 <= b /\ b <= 191
    BY <2>2 DEF Between
  <2>6. Between(c, A[3]) <=> 128 <= c /\ c <= 191
    BY <2>2 DEF Between
  <2> QED
    BY <2>3, <2>4, <2>5, <2>6
<1>5. HasForm(t, i, B) <=>
        225 <= a /\ a <= 236 /\ 128 <= b /\ b <= 191 /\ 128 <= c /\ c <= 191
  <2>1. Len(B) = 3 /\ DOMAIN B = {1, 2, 3}
    OBVIOUS
  <2>2. /\ B[1][1] = 225 /\ B[1][2] = 236
        /\ B[2][1] = 128 /\ B[2][2] = 191
        /\ B[3][1] = 128 /\ B[3][2] = 191
    OBVIOUS
  <2> HIDE DEF B
  <2>3. HasForm(t, i, B) <=>
          Between(a, B[1]) /\ Between(b, B[2]) /\ Between(c, B[3])
    BY <2>1, HasThree
  <2>4. Between(a, B[1]) <=> 225 <= a /\ a <= 236
    BY <2>2 DEF Between
  <2>5. Between(b, B[2]) <=> 128 <= b /\ b <= 191
    BY <2>2 DEF Between
  <2>6. Between(c, B[3]) <=> 128 <= c /\ c <= 191
    BY <2>2 DEF Between
  <2> QED
    BY <2>3, <2>4, <2>5, <2>6
<1>6. HasForm(t, i, C) <=>
        237 <= a /\ a <= 237 /\ 128 <= b /\ b <= 159 /\ 128 <= c /\ c <= 191
  <2>1. Len(C) = 3 /\ DOMAIN C = {1, 2, 3}
    OBVIOUS
  <2>2. /\ C[1][1] = 237 /\ C[1][2] = 237
        /\ C[2][1] = 128 /\ C[2][2] = 159
        /\ C[3][1] = 128 /\ C[3][2] = 191
    OBVIOUS
  <2> HIDE DEF C
  <2>3. HasForm(t, i, C) <=>
          Between(a, C[1]) /\ Between(b, C[2]) /\ Between(c, C[3])
    BY <2>1, HasThree
  <2>4. Between(a, C[1]) <=> 237 <= a /\ a <= 237
    BY <2>2 DEF Between
  <2>5. Between(b, C[2]) <=> 128 <= b /\ b <= 159
    BY <2>2 DEF Between
  <2>6. Between(c, C[3]) <=> 128 <= c /\ c <= 191
    BY <2>2 DEF Between
  <2> QED
    BY <2>3, <2>4, <2>5, <2>6
<1>7. HasForm(t, i, D) <=>
        238 <= a /\ a <= 239 /\ 128 <= b /\ b <= 191 /\ 128 <= c /\ c <= 191
  <2>1. Len(D) = 3 /\ DOMAIN D = {1, 2, 3}
    OBVIOUS
  <2>2. /\ D[1][1] = 238 /\ D[1][2] = 239
        /\ D[2][1] = 128 /\ D[2][2] = 191
        /\ D[3][1] = 128 /\ D[3][2] = 191
    OBVIOUS
  <2> HIDE DEF D
  <2>3. HasForm(t, i, D) <=>
          Between(a, D[1]) /\ Between(b, D[2]) /\ Between(c, D[3])
    BY <2>1, HasThree
  <2>4. Between(a, D[1]) <=> 238 <= a /\ a <= 239
    BY <2>2 DEF Between
  <2>5. Between(b, D[2]) <=> 128 <= b /\ b <= 191
    BY <2>2 DEF Between
  <2>6. Between(c, D[3]) <=> 128 <= c /\ c <= 191
    BY <2>2 DEF Between
  <2> QED
    BY <2>3, <2>4, <2>5, <2>6
<1> HIDE DEF A, B, C, D
<1>8. VerifySequence(t, i) <=> HasForm(t, i, A) \/ HasForm(t, i, B) \/ HasForm(t, i, C) \/ HasForm(t, i, D)
  BY <1>1, <1>4, <1>5, <1>6, <1>7
<1> QED
  BY <1>2, <1>3, <1>8

LEMMA FourIsForm ==
  ASSUME NEW t, ByteString(t), NEW i \in 1 .. Len(t), i + 3 <= Len(t),
         NEW a \in Nat, a = t[i], NEW b \in Nat, b = t[i + 1], NEW c \in Nat, c = t[i + 2], NEW d \in Nat, d = t[i + 3],
         240 <= a, a <= 244
  PROVE  VerifySequence(t, i) <=> \E f \in Forms : HasForm(t, i, f)
<1>1. VerifySequence(t, i) <=> 
        /\ 128 <= b /\ b <= 191 /\ 128 <= c /\ c <= 191 /\ 128 <= d /\ d <= 191
        /\ ~(a = 240 /\ b < 144) /\ ~(a = 244 /\ b > 143)
  BY VerifyFour DEF IsCont
<1> DEFINE A == << <<240, 240>>, <<144, 191>>, <<128, 191>>, <<128, 191>> >>
           B == << <<241, 243>>, <<128, 191>>, <<128, 191>>, <<128, 191>> >>
           C == << <<244, 244>>, <<128, 143>>, <<128, 191>>, <<128, 191>> >>
<1>2. A \in Forms /\ B \in Forms /\ C \in Forms
  BY DEF Forms
<1>3. \A f \in Forms : HasForm(t, i, f) => f \in {A, B, C}
  <2> SUFFICES ASSUME NEW f \in Forms, HasForm(t, i, f) PROVE f \in {A, B, C}
    OBVIOUS
  <2>1. NumBytes(a) = 4 /\ a <= 255
    BY OneByte
  <2>2. Len(f) = 4
    BY <2>1, FormLength
  <2> QED
    BY <2>2, FormsAre
<1>4. HasForm(t, i, A) <=>
        240 <= a /\ a <= 240 /\ 144 <= b /\ b <= 191 /\ 128 <= c /\ c <= 191 /\ 128 <= d /\ d <= 191
  <2>1. Len(A) = 4 /\ DOMAIN A = {1, 2, 3, 4}
    OBVIOUS
  <2>2. /\ A[1][1] = 240 /\ A[1][2] = 240
        /\ A[2][1] = 144 /\ A[2][2] = 191
        /\ A[3][1] = 128 /\ A[3][2] = 191
        /\ A[4][1] = 128 /\ A[4][2] = 191
    OBVIOUS
  <2> HIDE DEF A
  <2>3. HasForm(t, i, A) <=>
          Between(a, A[1]) /\ Between(b, A[2]) /\ Between(c, A[3]) /\ Between(d, A[4])
    BY <2>1, HasFour
  <2>4. Between(a, A[1]) <=> 240 <= a /\ a <= 240
    BY <2>2 DEF Between
  <2>5. Between(b, A[2]) <=> 144 <= b /\ b <= 191
    BY <2>2 DEF Between
  <2>6. Between(c, A[3]) <=> 128 <= c /\ c <= 191
    BY <2>2 DEF Between
  <2>7. Between(d, A[4]) <=> 128 <= d /\ d <= 191
    BY <2>2 DEF Between
  <2> QED
    BY <2>3, <2>4, <2>5, <2>6, <2>7
<1>5. HasForm(t, i, B) <=>
        241 <= a /\ a <= 243 /\ 128 <= b /\ b <= 191 /\ 128 <= c /\ c <= 191 /\ 128 <= d /\ d <= 191
  <2>1. Len(B) = 4 /\ DOMAIN B = {1, 2, 3, 4}
    OBVIOUS
  <2>2. /\ B[1][1] = 241 /\ B[1][2] = 243
        /\ B[2][1] = 128 /\ B[2][2] = 191
        /\ B[3][1] = 128 /\ B[3][2] = 191
        /\ B[4][1] = 128 /\ B[4][2] = 191
    OBVIOUS
  <2> HIDE DEF B
  <2>3. HasForm(t, i, B) <=>
          Between(a, B[1]) /\ Between(b, B[2]) /\ Between(c, B[3]) /\ Between(d, B[4])
    BY <2>1, HasFour
  <2>4. Between(a, B[1]) <=> 241 <= a /\ a <= 243
    BY <2>2 DEF Between
  <2>5. Between(b, B[2]) <=> 128 <= b /\ b <= 191
    BY <2>2 DEF Between
  <2>6. Between(c, B[3]) <=> 128 <= c /\ c <= 191
    BY <2>2 DEF Between
  <2>7. Between(d, B[4]) <=> 128 <= d /\ d <= 191
    BY <2>2 DEF Between
  <2> QED
    BY <2>3, <2>4, <2>5, <2>6, <2>7
<1>6. HasForm(t, i, C) <=>
        244 <= a /\ a <= 244 /\ 128 <= b /\ b <= 143 /\ 128 <= c /\ c <= 191 /\ 128 <= d /\ d <= 191
  <2>1. Len(C) = 4 /\ DOMAIN C = {1, 2, 3, 4}
    OBVIOUS
  <2>2. /\ C[1][1] = 244 /\ C[1][2] = 244
        /\ C[2][1] = 128 /\ C[2][2] = 143
        /\ C[3][1] = 128 /\ C[3][2] = 191
        /\ C[4][1] = 128 /\ C[4][2] = 191
    OBVIOUS
  <2> HIDE DEF C
  <2>3. HasForm(t, i, C) <=>
          Between(a, C[1]) /\ Between(b, C[2]) /\ Between(c, C[3]) /\ Between(d, C[4])
    BY <2>1, HasFour
  <2>4. Between(a, C[1]) <=> 244 <= a /\ a <= 244
    BY <2>2 DEF Between
  <2>5. Between(b, C[2]) <=> 128 <= b /\ b <= 143
    BY <2>2 DEF Between
  <2>6. Between(c, C[3]) <=> 128 <= c /\ c <= 191
    BY <2>2 DEF Between
  <2>7. Between(d, C[4]) <=> 128 <= d /\ d <= 191
    BY <2>2 DEF Between
  <2> QED
    BY <2>3, <2>4, <2>5, <2>6, <2>7
<1> HIDE DEF A, B, C
<1>7. VerifySequence(t, i) <=> HasForm(t, i, A) \/ HasForm(t, i, B) \/ HasForm(t, i, C)
  <2>1. CASE a = 240
    BY <1>1, <1>4, <1>5, <1>6, <2>1
  <2>2. CASE 241 <= a /\ a <= 243
    <3>1. ~HasForm(t, i, A) /\ ~HasForm(t, i, C)
      BY <1>4, <1>6, <2>2
    <3>2. VerifySequence(t, i) <=>
            128 <= b /\ b <= 191 /\ 128 <= c /\ c <= 191 /\ 128 <= d /\ d <= 191
      BY <1>1, <2>2
    <3> QED
      BY <1>5, <2>2, <3>1, <3>2
  <2>3. CASE a = 244
    BY <1>1, <1>4, <1>5, <1>6, <2>3
  <2> QED
    BY <2>1, <2>2, <2>3
<1> QED
  BY <1>2, <1>3, <1>7

\* verify_utf8_sequence accepts what has a form of the Unicode standard.
LEMMA VerifyIsForm ==
  ASSUME NEW t, ByteString(t), NEW i \in 1 .. Len(t)
  PROVE  VerifySequence(t, i) <=> \E f \in Forms : HasForm(t, i, f)
<1>1. t[i] \in Nat /\ t[i] <= 255 /\ Len(t) \in Nat
  BY ByteAt
<1>2. PICK a \in Nat : a = t[i]
  BY <1>1
<1>3. a <= 255
  BY <1>1, <1>2
<1> DEFINE n == NumBytes(a)
<1>4. n \in {0, 1, 2, 3, 4}
  BY <1>3, OneByte
<1>5. ASSUME NEW f \in Forms, HasForm(t, i, f) PROVE Len(f) = n /\ i + n - 1 <= Len(t)
  BY <1>2, <1>3, <1>5, FormLength DEF HasForm
<1>6. ASSUME VerifySequence(t, i) PROVE n # 0 /\ i + n - 1 <= Len(t)
  BY <1>2, <1>6, VerifyFits
<1>7. \A k \in Nat : i + k <= Len(t) => \E b \in Nat : b = t[i + k]
  BY <1>1, ByteAt
<1>8. CASE n = 0
  <2>1. ~VerifySequence(t, i)
    BY <1>6, <1>8
  <2>2. ASSUME NEW f \in Forms PROVE ~HasForm(t, i, f)
    <3>1. Len(f) \in {1, 2, 3, 4}
      BY FormsAre
    <3>2. Len(f) # n
      BY <1>8, <3>1
    <3> QED
      BY <1>5, <3>2
  <2> QED
    BY <2>1, <2>2
<1>9. CASE n = 1
  BY <1>2, <1>3, <1>9, OneByte, OneIsForm
<1>10. CASE n = 2
  <2>1. i + n - 1 = i + 1
    BY <1>10
  <2>2. CASE i + 1 <= Len(t)
    <3>1. PICK b \in Nat : b = t[i + 1]
      BY <1>7, <2>2
    <3>2. 194 <= a /\ a <= 223
      BY <1>3, <1>10, OneByte
    <3> QED
      BY <1>2, <2>2, <3>1, <3>2, TwoIsForm
  <2> QED
    BY <1>5, <1>6, <2>1, <2>2
<1>11. CASE n = 3
  <2>1. i + n - 1 = i + 2
    BY <1>11
  <2>2. CASE i + 2 <= Len(t)
    <3>1. PICK b \in Nat : b = t[i + 1]
      BY <1>1, <1>7, <2>2
    <3>2. PICK c \in Nat : c = t[i + 2]
      BY <1>7, <2>2
    <3>3. 224 <= a /\ a <= 239
      BY <1>3, <1>11, OneByte
    <3> QED
      BY <1>2, <2>2, <3>1, <3>2, <3>3, ThreeIsForm
  <2> QED
    BY <1>5, <1>6, <2>1, <2>2
<1>12. CASE n = 4
  <2>1. i + n - 1 = i + 3
    BY <1>12
  <2>2. CASE i + 3 <= Len(t)
    <3>1. PICK b \in Nat : b = t[i + 1]
      BY <1>1, <1>7, <2>2
    <3>2. PICK c \in Nat : c = t[i + 2]
      BY <1>1, <1>7, <2>2
    <3>3. PICK d \in Nat : d = t[i + 3]
      BY <1>7, <2>2
    <3>4. 240 <= a /\ a <= 244
      BY <1>3, <1>12, OneByte
    <3> QED
      BY <1>2, <2>2, <3>1, <3>2, <3>3, <3>4, FourIsForm
  <2> QED
    BY <1>5, <1>6, <2>1, <2>2
<1> QED
  BY <1>4, <1>8, <1>9, <1>10, <1>11, <1>12

\* The positions from which one can stop, after steps that are allowed.
Stops(g, D, Stop, Step) ==
  g \in [D -> BOOLEAN] /\ \A i \in D : g[i] <=> i \in Stop \/ \E j \in Step[i] : g[j]

LEMMA StopsExist ==
  ASSUME NEW D, NEW Stop \in SUBSET D, NEW Step \in [D -> SUBSET D]
  PROVE  \E g : Stops(g, D, Stop, Step)
<1> DEFINE Closed(S) == \A i \in S : i \in Stop \/ \E j \in Step[i] : j \in S
           Good == {i \in D : \E S \in SUBSET D : i \in S /\ Closed(S)}
           g == [i \in D |-> i \in Good]
<1>1. g \in [D -> BOOLEAN]
  OBVIOUS
<1>2. \A i \in D : g[i] <=> i \in Good
  OBVIOUS
<1> HIDE DEF g
<1>3. ASSUME NEW i \in Good PROVE i \in Stop \/ \E j \in Step[i] : j \in Good
  <2>1. PICK S \in SUBSET D : i \in S /\ Closed(S)
    OBVIOUS
  <2> QED
    BY <2>1
<1>4. ASSUME NEW i \in Stop PROVE i \in Good
  <2>1. Closed({i})
    OBVIOUS
  <2>2. {i} \in SUBSET D /\ i \in {i}
    OBVIOUS
  <2> HIDE DEF Closed
  <2> QED
    BY <2>1, <2>2
<1>5. ASSUME NEW i \in D, NEW j \in Step[i], j \in Good PROVE i \in Good
  <2>1. PICK S \in SUBSET D : j \in S /\ Closed(S)
    BY <1>5
  <2>2. Closed(S \cup {i})
    BY <2>1
  <2>3. S \cup {i} \in SUBSET D /\ i \in S \cup {i}
    OBVIOUS
  <2> HIDE DEF Closed
  <2> QED
    BY <2>2, <2>3
<1>6. Good \in SUBSET D
  OBVIOUS
<1> HIDE DEF Good, Closed
<1>7. ASSUME NEW i \in D PROVE g[i] <=> i \in Stop \/ \E j \in Step[i] : g[j]
  <2>1. Step[i] \in SUBSET D
    OBVIOUS
  <2>2. i \in Good <=> i \in Stop \/ \E j \in Step[i] : j \in Good
    BY <1>3, <1>4, <1>5, <1>7
  <2> QED
    BY <1>2, <2>1, <2>2
<1> QED
  BY <1>1, <1>7 DEF Stops

\* The function that is_valid_utf8 reads from.
ValidBy(valid, t, n) ==
  valid = [i \in 1 .. Len(t) + 1 |->
             i > n \/ (VerifySequence(t, i) /\ valid[i + NumBytes(t[i])])]

LEMMA ValidExists ==
  ASSUME NEW t, ByteString(t), NEW n \in 0 .. Len(t)
  PROVE  \E valid : ValidBy(valid, t, n)
<1> DEFINE D == 1 .. Len(t) + 1
           Stop == {i \in D : i > n}
           Step == [i \in D |-> {j \in D : i <= n /\ VerifySequence(t, i) /\ j = i + NumBytes(t[i])}]
<1>1. Stop \in SUBSET D /\ Step \in [D -> SUBSET D]
  OBVIOUS
<1>2. \A i \in D : i <= n => i \in 1 .. Len(t)
  BY ByteAt
<1>3. ASSUME NEW i \in D, i <= n, VerifySequence(t, i) PROVE i + NumBytes(t[i]) \in D
  <2>1. i \in 1 .. Len(t)
    BY <1>2, <1>3
  <2>2. NumBytes(t[i]) \in {1, 2, 3, 4} /\ i + NumBytes(t[i]) - 1 <= Len(t)
    BY <1>3, <2>1, VerifyFits
  <2>3. PICK k \in {1, 2, 3, 4} : k = NumBytes(t[i])
    BY <2>2
  <2>4. i + k - 1 <= Len(t)
    BY <2>2, <2>3
  <2>5. i + k \in 1 .. Len(t) + 1
    BY <2>4, <2>1, ByteAt
  <2> QED
    BY <2>3, <2>5
<1>5. PICK g : Stops(g, D, Stop, Step)
  <2> HIDE DEF D, Stop, Step
  <2> QED
    BY <1>1, StopsExist
<1>6. ASSUME NEW i \in D
      PROVE  g[i] = (i > n \/ (VerifySequence(t, i) /\ g[i + NumBytes(t[i])]))
  <2>1. i <= n <=> ~(i > n)
    BY ByteAt
  <2>2. \A j : j \in Step[i] <=> j \in D /\ i <= n /\ VerifySequence(t, i) /\ j = i + NumBytes(t[i])
    OBVIOUS
  <2>3. i \in Stop <=> i > n
    OBVIOUS
  <2>4. g[i] \in BOOLEAN
    BY <1>5 DEF Stops
  <2> HIDE DEF D, Stop, Step
  <2>5. g[i] <=> (i > n \/ (VerifySequence(t, i) /\ g[i + NumBytes(t[i])]))
    BY <1>3, <1>5, <2>1, <2>2, <2>3 DEF Stops
  <2> QED
    BY <2>4, <2>5
<1>7. g = [i \in D |-> g[i]]
  BY <1>5 DEF Stops
<1>8. ValidBy(g, t, n)
  BY <1>6, <1>7 DEF ValidBy
<1> QED
  BY <1>8

LEMMA ValidIs ==
  ASSUME NEW t, ByteString(t), NEW n \in 0 .. Len(t)
  PROVE  \E valid : ValidBy(valid, t, n) /\ IsValidUtf8(t, n) = valid[1]
<1> DEFINE v == CHOOSE valid : ValidBy(valid, t, n)
<1>1. ValidBy(v, t, n)
  BY ValidExists
<1>2. IsValidUtf8(t, n) = v[1]
  BY DEF IsValidUtf8, ValidBy
<1> QED
  BY <1>1, <1>2

\* The function that WellFormed reads from.
FormedBy(formed, t) ==
  formed = [i \in 1 .. Len(t) + 1 |->
              i > Len(t) \/ \E f \in Forms : HasForm(t, i, f) /\ formed[i + Len(f)]]

LEMMA FormedExists ==
  ASSUME NEW t, ByteString(t)
  PROVE  \E formed : FormedBy(formed, t)
<1> DEFINE D == 1 .. Len(t) + 1
           Stop == {i \in D : i > Len(t)}
           Step == [i \in D |-> {j \in D : \E f \in Forms : HasForm(t, i, f) /\ j = i + Len(f)}]
<1>1. Stop \in SUBSET D /\ Step \in [D -> SUBSET D]
  OBVIOUS
<1>2. ASSUME NEW i \in D, NEW f \in Forms, HasForm(t, i, f) PROVE i + Len(f) \in D
  <2>1. Len(f) \in {1, 2, 3, 4}
    BY FormsAre
  <2>2. i + Len(f) - 1 <= Len(t)
    BY <1>2 DEF HasForm
  <2> QED
    BY <2>1, <2>2, ByteAt
<1>3. PICK g : Stops(g, D, Stop, Step)
  <2> HIDE DEF D, Stop, Step
  <2> QED
    BY <1>1, StopsExist
<1>4. ASSUME NEW i \in D
      PROVE  g[i] = (i > Len(t) \/ \E f \in Forms : HasForm(t, i, f) /\ g[i + Len(f)])
  <2>1. \A j : j \in Step[i] <=> j \in D /\ \E f \in Forms : HasForm(t, i, f) /\ j = i + Len(f)
    OBVIOUS
  <2>2. i \in Stop <=> i > Len(t)
    OBVIOUS
  <2>3. g[i] \in BOOLEAN
    BY <1>3 DEF Stops
  <2> HIDE DEF D, Stop, Step
  <2>4. (\E j \in Step[i] : g[j]) <=> \E f \in Forms : HasForm(t, i, f) /\ g[i + Len(f)]
    BY <1>2, <2>1
  <2>5. g[i] <=> (i > Len(t) \/ \E f \in Forms : HasForm(t, i, f) /\ g[i + Len(f)])
    BY <1>3, <2>2, <2>4 DEF Stops
  <2> QED
    BY <2>3, <2>5
<1>5. g = [i \in D |-> g[i]]
  BY <1>3 DEF Stops
<1>6. FormedBy(g, t)
  BY <1>4, <1>5 DEF FormedBy
<1> QED
  BY <1>6

LEMMA FormedIs ==
  ASSUME NEW t, ByteString(t)
  PROVE  \E formed : FormedBy(formed, t) /\ WellFormed(t) = formed[1]
<1> DEFINE v == CHOOSE formed : FormedBy(formed, t)
<1>1. FormedBy(v, t)
  BY FormedExists
<1>2. WellFormed(t) = v[1]
  BY DEF WellFormed, FormedBy
<1> QED
  BY <1>1, <1>2

\* What is well formed up to k, seen from the whole string.
LEMMA FormedUpTo ==
  ASSUME NEW t, ByteString(t), NEW k \in 0 .. Len(t),
         NEW formed, FormedBy(formed, SubSeq(t, 1, k)),
         NEW i \in 1 .. k + 1
  PROVE  formed[i] <=> \/ i = k + 1
                       \/ /\ i <= k /\ VerifySequence(t, i)
                          /\ i + NumBytes(t[i]) <= k + 1
                          /\ formed[i + NumBytes(t[i])]
<1> DEFINE u == SubSeq(t, 1, k)
<1>1. /\ Len(t) \in Nat /\ k \in Nat /\ Len(u) = k
      /\ \A j \in 1 .. k : u[j] = t[j]
  BY SMT DEF ByteString
<1>2. formed[i] = (i > Len(u) \/ \E f \in Forms : HasForm(u, i, f) /\ formed[i + Len(f)])
  BY <1>1 DEF FormedBy
<1> HIDE DEF u
<1>3. CASE i = k + 1
  <2>1. i > Len(u)
    BY <1>1, <1>3
  <2>2. formed[i] = TRUE
    BY <1>2, <2>1
  <2> QED
    BY <1>3, <2>2
<1>4. CASE i <= k
  <2>1. i \in 1 .. Len(t) /\ ~(i > Len(u)) /\ i # k + 1
    BY <1>1, <1>4
  <2>2. PICK a \in Nat : a = t[i] /\ a <= 255
    BY <2>1, ByteAt
  <2> DEFINE n == NumBytes(a)
  <2>3. ASSUME NEW f \in Forms
        PROVE  HasForm(u, i, f) <=> HasForm(t, i, f) /\ i + Len(f) <= k + 1
    <3>1. Len(f) \in {1, 2, 3, 4} /\ DOMAIN f = 1 .. Len(f)
      BY FormsAre DEF Forms
    <3>2. PICK l \in {1, 2, 3, 4} : l = Len(f)
      BY <3>1
    <3>3. CASE i + l <= k + 1
      <4>1. \A j \in DOMAIN f : u[i + j - 1] = t[i + j - 1]
        BY <1>1, <3>1, <3>2, <3>3
      <4>2. i + Len(f) - 1 <= Len(u) /\ i + Len(f) - 1 <= Len(t)
        BY <1>1, <3>2, <3>3
      <4> QED
        BY <3>2, <3>3, <4>1, <4>2 DEF HasForm
    <3>4. CASE ~(i + l <= k + 1)
      <4>1. ~(i + Len(f) - 1 <= Len(u))
        BY <1>1, <3>2, <3>4
      <4> QED
        BY <3>2, <3>4, <4>1 DEF HasForm
    <3> QED
      BY <3>3, <3>4
  <2>4. ASSUME NEW f \in Forms, HasForm(t, i, f) PROVE Len(f) = n
    BY <2>1, <2>2, <2>4, FormLength
  <2>5. VerifySequence(t, i) <=> \E f \in Forms : HasForm(t, i, f)
    BY <2>1, VerifyIsForm
  <2>6. (\E f \in Forms : HasForm(u, i, f) /\ formed[i + Len(f)])
          <=> VerifySequence(t, i) /\ i + n <= k + 1 /\ formed[i + n]
    <3> HIDE DEF n
    <3> QED
      BY <2>3, <2>4, <2>5
  <2> QED
    BY <1>2, <1>4, <2>1, <2>2, <2>6
<1> QED
  BY <1>1, <1>3, <1>4

\* is_valid_utf8 accepts from i on what is well formed from i to some end past n.
LEMMA ValidIsFormed ==
  ASSUME NEW t, ByteString(t), NEW n \in 0 .. Len(t),
         NEW valid, ValidBy(valid, t, n),
         NEW formed, \A k \in 0 .. Len(t) : FormedBy(formed[k], SubSeq(t, 1, k)),
         NEW i \in 1 .. Len(t) + 1
  PROVE  valid[i] <=> \E k \in n .. Len(t) : i <= k + 1 /\ formed[k][i]
<1>1. Len(t) \in Nat
  BY ByteAt
<1> DEFINE m == Len(t) + 1
           Good(p) == valid[p] <=> \E k \in n .. Len(t) : p <= k + 1 /\ formed[k][p]
           Bad == {d \in 0 .. Len(t) : ~Good(m - d)}
<1>2. ASSUME NEW p \in 1 .. m
      PROVE  valid[p] = (p > n \/ (VerifySequence(t, p) /\ valid[p + NumBytes(t[p])]))
  BY DEF ValidBy
<1>3. ASSUME NEW p \in 1 .. m, p > n PROVE Good(p)
  <2>1. p - 1 \in n .. Len(t) /\ p - 1 \in 0 .. Len(t) /\ p <= (p - 1) + 1
    BY <1>1, <1>3
  <2>2. formed[p - 1][p]
    <3>1. FormedBy(formed[p - 1], SubSeq(t, 1, p - 1)) /\ p \in 1 .. (p - 1) + 1 /\ p = (p - 1) + 1
      BY <2>1
    <3> QED
      BY <2>1, <3>1, FormedUpTo
  <2>3. valid[p]
    BY <1>2, <1>3
  <2> QED
    BY <2>1, <2>2, <2>3
<1>4. ASSUME NEW p \in 1 .. m, p <= n,
             VerifySequence(t, p) => Good(p + NumBytes(t[p]))
      PROVE  Good(p)
  <2>1. p \in 1 .. Len(t) /\ ~(p > n)
    BY <1>1, <1>4
  <2>2. valid[p] <=> VerifySequence(t, p) /\ valid[p + NumBytes(t[p])]
    BY <1>2, <2>1
  <2>3. ASSUME NEW k \in n .. Len(t)
        PROVE  p <= k + 1 /\ formed[k][p] <=>
                 VerifySequence(t, p) /\ p + NumBytes(t[p]) <= k + 1 /\ formed[k][p + NumBytes(t[p])]
    <3>1. k \in 0 .. Len(t) /\ p \in 1 .. k + 1 /\ p <= k /\ p # k + 1 /\ p <= k + 1
      BY <1>1, <1>4
    <3>2. FormedBy(formed[k], SubSeq(t, 1, k))
      BY <3>1
    <3>3. formed[k][p] <=> \/ p = k + 1
                           \/ /\ p <= k /\ VerifySequence(t, p)
                              /\ p + NumBytes(t[p]) <= k + 1
                              /\ formed[k][p + NumBytes(t[p])]
      BY <3>1, <3>2, FormedUpTo
    <3> QED
      BY <3>1, <3>3
  <2>4. CASE VerifySequence(t, p)
    BY <1>4, <2>2, <2>3, <2>4
  <2>5. CASE ~VerifySequence(t, p)
    BY <2>2, <2>3, <2>5
  <2> QED
    BY <2>4, <2>5
<1>5. Bad = {}
  <2> SUFFICES ASSUME Bad # {} PROVE FALSE
    OBVIOUS
  <2>1. Bad \in SUBSET Nat
    OBVIOUS
  <2>2. PICK d \in Bad : \A e \in Bad : d <= e
    <3> HIDE DEF Bad
    <3> QED
      BY <2>1, LeastNumber
  <2>3. d \in 0 .. Len(t) /\ ~Good(m - d)
    OBVIOUS
  <2>4. PICK p \in 1 .. m : p = m - d
    BY <1>1, <2>3
  <2>5. ~Good(p)
    BY <2>3, <2>4
  <2> HIDE DEF Good
  <2>6. p <= n
    BY <1>1, <1>3, <2>5
  <2>7. VerifySequence(t, p) /\ ~Good(p + NumBytes(t[p]))
    BY <1>4, <2>5, <2>6
  <2>8. p \in 1 .. Len(t)
    BY <1>1, <2>6
  <2>9. NumBytes(t[p]) \in {1, 2, 3, 4} /\ p + NumBytes(t[p]) - 1 <= Len(t)
    BY <2>7, <2>8, VerifyFits
  <2>10. PICK s \in {1, 2, 3, 4} : s = NumBytes(t[p])
    BY <2>9
  <2>11. d \in Nat /\ s \in Nat /\ s > 0 /\ p + s <= Len(t) + 1 /\ p + d = Len(t) + 1
    <3>1. p + s - 1 <= Len(t)
      BY <2>9, <2>10
    <3>2. p \in Nat /\ d \in Nat /\ s \in Nat /\ s > 0
      BY <2>3, <2>10
    <3> QED
      BY <1>1, <2>4, <3>1, <3>2
  <2>12. d - s \in 0 .. Len(t) /\ Len(t) + 1 - (d - s) = p + s /\ d - s < d
    BY <1>1, <2>3, <2>11
  <2>13. ~Good(p + s)
    BY <2>7, <2>10
  <2>14. d - s \in Bad
    BY <2>12, <2>13
  <2>15. d <= d - s
    <3> HIDE DEF Bad
    <3> QED
      BY <2>2, <2>14
  <2> QED
    BY <2>11, <2>12, <2>15
<1>6. m - i \in 0 .. Len(t) /\ m - (m - i) = i
  BY <1>1
<1>7. Good(i)
  <2> HIDE DEF Good
  <2> QED
    BY <1>5, <1>6
<1> QED
  BY <1>7

\* What the standard accepts, for a string of bytes and a length.
LEMMA Utf8AcceptedAt ==
  ASSUME NEW t, ByteString(t), NEW n \in 0 .. Len(t)
  PROVE  IsValidUtf8(t, n) = \E k \in n .. Len(t) : WellFormed(SubSeq(t, 1, k))
<1>1. Len(t) \in Nat
  BY ByteAt
<1>2. PICK valid : ValidBy(valid, t, n) /\ IsValidUtf8(t, n) = valid[1]
  BY ValidIs
<1>3. \A k \in 0 .. Len(t) : ByteString(SubSeq(t, 1, k))
  BY SMT DEF ByteString
<1>4. \A k \in 0 .. Len(t) : \E g : FormedBy(g, SubSeq(t, 1, k)) /\ WellFormed(SubSeq(t, 1, k)) = g[1]
  BY <1>3, FormedIs
<1> DEFINE formed == [k \in 0 .. Len(t) |->
                        CHOOSE g : FormedBy(g, SubSeq(t, 1, k)) /\ WellFormed(SubSeq(t, 1, k)) = g[1]]
<1>5. \A k \in 0 .. Len(t) :
        FormedBy(formed[k], SubSeq(t, 1, k)) /\ WellFormed(SubSeq(t, 1, k)) = formed[k][1]
  BY <1>4
<1> HIDE DEF formed
<1>6. valid[1] <=> \E k \in n .. Len(t) : 1 <= k + 1 /\ formed[k][1]
  <2>1. 1 \in 1 .. Len(t) + 1
    BY <1>1
  <2> QED
    BY <1>2, <1>5, <2>1, ValidIsFormed
<1>7. valid[1] \in BOOLEAN
  <2>1. valid[1] = (1 > n \/ (VerifySequence(t, 1) /\ valid[1 + NumBytes(t[1])]))
    BY <1>1, <1>2 DEF ValidBy
  <2> QED
    BY <2>1
<1>8. \A k \in n .. Len(t) : k \in 0 .. Len(t) /\ 1 <= k + 1
  BY <1>1
<1>9. valid[1] <=> \E k \in n .. Len(t) : WellFormed(SubSeq(t, 1, k))
  BY <1>5, <1>6, <1>8
<1> QED
  BY <1>2, <1>7, <1>9

\* is_valid_utf8 and verify_utf8_sequence accept exactly the byte strings of the
\* Unicode standard, of any length and of any bytes, and those whose last sequence
\* a length cuts.
THEOREM Utf8IsAccepted == CharSpec => []Utf8Accepted
<1>1. CharInv => Utf8Accepted
  <2> SUFFICES ASSUME CharInv, task = "utf8", NEW n \in 0 .. Len(input)
               PROVE  IsValidUtf8(input, n) = \E k \in n .. Len(input) : WellFormed(SubSeq(input, 1, k))
    BY DEF Utf8Accepted
  <2>1. input \in Seq(TestBytes)
    BY DEF CharInv, Alphabet
  <2>2. \A b \in TestBytes : b \in Nat /\ b <= 255
    BY JsonCharsAssumption
  <2>3. ByteString(input)
    BY <2>1, <2>2 DEF ByteString
  <2> QED
    BY <2>3, Utf8AcceptedAt
<1> QED
  BY <1>1, CharTyping, PTL

-----------------------------------------------------------------------------
(* Quoted strings *)

\* The function that Bytes reads from.
SumBy(sum, t) ==
  sum = [k \in 0 .. Len(t) |-> IF k = 0 THEN 0 ELSE sum[k - 1] + Width(t[k])]

\* An element takes one to four bytes.
LEMMA WidthIs ==
  ASSUME NEW x
  PROVE  Width(x) \in Nat /\ Width(x) >= 1
BY DEF Width

LEMMA SumExists ==
  ASSUME NEW t, Len(t) \in Nat
  PROVE  \E sum : SumBy(sum, t)
<1> DEFINE D == 0 .. Len(t)
           rank == [k \in D |-> k]
           F == [k \in D |-> [g \in [D -> Nat] |-> IF k = 0 THEN 0 ELSE g[k - 1] + Width(t[k])]]
<1>1. \A k \in D : k # 0 => k - 1 \in D
  OBVIOUS
<1>2. ASSUME NEW k \in D, NEW g \in [D -> Nat]
      PROVE  (IF k = 0 THEN 0 ELSE g[k - 1] + Width(t[k])) \in Nat
  BY <1>1, WidthIs
<1>3. F \in [D -> [[D -> Nat] -> Nat]]
  BY <1>2
<1>4. \A k \in D : \A g \in [D -> Nat] : F[k][g] = IF k = 0 THEN 0 ELSE g[k - 1] + Width(t[k])
  OBVIOUS
<1>5. rank \in [D -> 0 .. Len(t)] /\ 0 \in Nat /\ \A k \in D : rank[k] = k
  OBVIOUS
<1>6. Local(F, D, Nat, rank)
  <2> SUFFICES ASSUME NEW i \in D, NEW g \in [D -> Nat], NEW h \in [D -> Nat],
                      \A j \in D : rank[j] < rank[i] => g[j] = h[j]
               PROVE  F[i][g] = F[i][h]
    BY DEF Local
  <2>1. i # 0 => i - 1 \in D /\ i - 1 < i
    OBVIOUS
  <2> HIDE DEF F, rank, D
  <2>2. i # 0 => g[i - 1] = h[i - 1]
    BY <1>5, <2>1
  <2> QED
    BY <1>4, <2>2
<1>7. \E g : Recursive(g, D, Nat, F)
  <2> HIDE DEF F, rank, D
  <2> QED
    BY <1>3, <1>5, <1>6, RecursionExists
<1>8. PICK sum : Recursive(sum, D, Nat, F)
  BY <1>7
<1>9. sum = [k \in D |-> IF k = 0 THEN 0 ELSE sum[k - 1] + Width(t[k])]
  <2>1. \A k \in D : sum[k] = IF k = 0 THEN 0 ELSE sum[k - 1] + Width(t[k])
    <3> HIDE DEF F, D
    <3> QED
      BY <1>4, <1>8 DEF Recursive
  <2> QED
    BY <1>8, <2>1 DEF Recursive
<1> QED
  BY <1>9 DEF SumBy

\* The number of bytes is a number.
LEMMA SumTyped ==
  ASSUME NEW t, Len(t) \in Nat, NEW sum, SumBy(sum, t)
  PROVE  /\ \A k \in 0 .. Len(t) : sum[k] \in Nat
         /\ sum[0] = 0
         /\ \A k \in 1 .. Len(t) : sum[k] = sum[k - 1] + Width(t[k])
<1> DEFINE S == {k \in 0 .. Len(t) : sum[k] \in Nat}
<1>1. sum[0] = 0
  BY DEF SumBy
<1>2. ASSUME NEW k \in 1 .. Len(t) PROVE sum[k] = sum[k - 1] + Width(t[k])
  BY <1>2 DEF SumBy
<1>3. 0 \in S
  BY <1>1
<1>4. ASSUME NEW k \in 0 .. Len(t), k \in S, k < Len(t) PROVE k + 1 \in S
  <2>1. k + 1 \in 1 .. Len(t) /\ (k + 1) - 1 = k
    BY <1>4
  <2>2. sum[k + 1] = sum[k] + Width(t[k + 1])
    BY <1>2, <2>1
  <2> QED
    BY <1>4, <2>1, <2>2, WidthIs
<1>5. \A k \in 0 .. Len(t) : k \in S
  <2> HIDE DEF S
  <2> QED
    BY <1>3, <1>4, Upwards
<1> QED
  BY <1>1, <1>2, <1>5

LEMMA BytesIs ==
  ASSUME NEW t, Len(t) \in Nat
  PROVE  \E sum : SumBy(sum, t) /\ Bytes(t) = sum[Len(t)]
<1> DEFINE v == CHOOSE sum : SumBy(sum, t)
<1>1. SumBy(v, t)
  BY SumExists
<1>2. Bytes(t) = v[Len(t)]
  BY DEF Bytes, SumBy
<1> QED
  BY <1>1, <1>2

\* The function that SkipQuotes reads from.
EndBy(end, t) ==
  end = [i \in 2 .. Len(t) + 1 |->
          IF i > Len(t) \/ t[i] = "nul" THEN 0
          ELSE IF t[i] = "quote" THEN i
          ELSE IF t[i] # "backslash" THEN end[i + 1]
          ELSE IF i = Len(t) \/ t[i + 1] = "nul" THEN 0
          ELSE end[i + 2]]

LEMMA EndExists ==
  ASSUME NEW t, NEW l \in Nat, l = Len(t)
  PROVE  \E end : EndBy(end, t)
<1> DEFINE D == 2 .. l + 1
           Value(i, g) ==
             IF i > l \/ t[i] = "nul" THEN 0
             ELSE IF t[i] = "quote" THEN i
             ELSE IF t[i] # "backslash" THEN g[i + 1]
             ELSE IF i = l \/ t[i + 1] = "nul" THEN 0
             ELSE g[i + 2]
           rank == [i \in D |-> l + 1 - i]
           F == [i \in D |-> [g \in [D -> Nat] |-> Value(i, g)]]
<1>1. \A i \in D : i \in Nat /\ (i <= l => i + 1 \in D) /\ (i <= l /\ i # l => i + 2 \in D)
  OBVIOUS
<1>2. \A i \in D : i > l \/ i <= l
  OBVIOUS
<1>3. ASSUME NEW i \in D, NEW g \in [D -> Nat] PROVE Value(i, g) \in Nat
  <2> HIDE DEF D
  <2> QED
    BY <1>1, <1>2
<1>4. F \in [D -> [[D -> Nat] -> Nat]]
  <2> HIDE DEF D, Value
  <2> QED
    BY <1>3
<1>5. \A i \in D : \A g \in [D -> Nat] : F[i][g] = Value(i, g)
  <2> HIDE DEF D, Value
  <2> QED
    OBVIOUS
<1>6. rank \in [D -> 0 .. l + 1] /\ \A i, j \in D : i < j => rank[j] < rank[i]
  OBVIOUS
<1>7. Local(F, D, Nat, rank)
  <2> SUFFICES ASSUME NEW i \in D, NEW g \in [D -> Nat], NEW h \in [D -> Nat],
                      \A j \in D : rank[j] < rank[i] => g[j] = h[j]
               PROVE  F[i][g] = F[i][h]
    BY DEF Local
  <2>1. i < i + 1 /\ i < i + 2
    OBVIOUS
  <2> HIDE DEF D, rank
  <2>2. \A j \in D : i < j => g[j] = h[j]
    BY <1>6
  <2>3. Value(i, g) = Value(i, h)
    <3>1. i <= l => g[i + 1] = h[i + 1]
      BY <1>1, <2>1, <2>2
    <3>2. i <= l /\ i # l => g[i + 2] = h[i + 2]
      BY <1>1, <2>1, <2>2
    <3> QED
      BY <1>2, <3>1, <3>2
  <2> HIDE DEF F, Value
  <2> QED
    BY <1>5, <2>3
<1>8. PICK end : Recursive(end, D, Nat, F)
  <2> HIDE DEF D, F, rank
  <2>1. 0 \in Nat /\ l + 1 \in Nat
    OBVIOUS
  <2> QED
    BY <1>4, <1>6, <1>7, <2>1, RecursionExists
<1>9. end = [i \in D |-> Value(i, end)]
  <2> HIDE DEF D, F, Value
  <2> QED
    BY <1>5, <1>8 DEF Recursive
<1> QED
  BY <1>9 DEF EndBy

LEMMA SkipIs ==
  ASSUME NEW t, Len(t) \in Nat
  PROVE  \E end : EndBy(end, t) /\ SkipQuotes(t) = IF t # <<>> /\ t[1] = "quote" THEN end[2] ELSE 0
<1> DEFINE v == CHOOSE end : EndBy(end, t)
<1>1. EndBy(v, t)
  BY EndExists
<1>2. SkipQuotes(t) = IF t # <<>> /\ t[1] = "quote" THEN v[2] ELSE 0
  BY DEF SkipQuotes, EndBy
<1> QED
  BY <1>1, <1>2

\* skip_quotes ends on a quote of the text, or fails.
LEMMA EndTyped ==
  ASSUME NEW t, NEW l \in Nat, l = Len(t), NEW end, EndBy(end, t)
  PROVE  \A i \in 2 .. l + 1 : end[i] = 0 \/ end[i] \in i .. l
<1> DEFINE S == {i \in 1 .. l + 1 : i = 1 \/ end[i] = 0 \/ end[i] \in i .. l}
<1>1. ASSUME NEW i \in 1 .. l + 1, \A j \in 1 .. l + 1 : i < j => j \in S
      PROVE  i \in S
  <2>1. CASE i = 1
    BY <2>1
  <2>2. CASE i # 1
    <3>1. end[i] = IF i > l \/ t[i] = "nul" THEN 0
                   ELSE IF t[i] = "quote" THEN i
                   ELSE IF t[i] # "backslash" THEN end[i + 1]
                   ELSE IF i = l \/ t[i + 1] = "nul" THEN 0
                   ELSE end[i + 2]
      BY <2>2 DEF EndBy
    <3>2. ASSUME NEW j \in 1 .. l + 1, i < j PROVE end[j] = 0 \/ end[j] \in i .. l
      <4>1. j \in S /\ j # 1
        BY <1>1, <3>2
      <4> QED
        BY <3>2, <4>1
    <3>3. i <= l => i + 1 \in 1 .. l + 1 /\ i < i + 1 /\ i \in i .. l
      BY <2>2
    <3>4. i <= l /\ i # l => i + 2 \in 1 .. l + 1 /\ i < i + 2
      BY <2>2
    <3>5. i > l \/ i <= l
      OBVIOUS
    <3>6. end[i] = 0 \/ end[i] \in i .. l
      BY <3>1, <3>2, <3>3, <3>4, <3>5
    <3> QED
      BY <3>6
  <2> QED
    BY <2>1, <2>2
<1>2. \A i \in 1 .. l + 1 : i \in S
  <2>1. l + 1 \in Nat
    OBVIOUS
  <2> HIDE DEF S
  <2> QED
    BY <1>1, <2>1, Downwards
<1> QED
  BY <1>2

Letters == Chars \cup Digits

\* What one character of a string is read from: its size, and the bytes it takes.
LEMMA CharacterIs ==
  ASSUME NEW t \in Seq(Letters), NEW i \in 1 .. Len(t), Character(t, i) # Invalid
  PROVE  /\ Character(t, i).char \in Letters
         /\ Character(t, i).size \in {1, 2, 3, 6}
         /\ i + Character(t, i).size <= Len(t) + 1
         /\ \/ Character(t, i).size = 1 /\ Character(t, i).char = t[i]
            \/ Character(t, i).size > 1 /\ Width(Character(t, i).char) <= Character(t, i).size
<1>1. Len(t) \in Nat /\ t[i] \in Letters
  OBVIOUS
<1>2. Width("quote") = 1 /\ Width("backslash") = 1 /\ Width("slash") = 1 /\ Width("newline") = 1
      /\ Width("control") = 1 /\ Width("nul") = 1 /\ Width("n") = 1 /\ Width("b2") = 2 /\ Width("b4") = 4
  BY DEF Width, Digits
<1>3. /\ "quote" \in Letters /\ "backslash" \in Letters /\ "slash" \in Letters /\ "newline" \in Letters
      /\ "control" \in Letters /\ "nul" \in Letters /\ "n" \in Letters /\ "b2" \in Letters /\ "b4" \in Letters
  BY DEF Letters, Chars
<1>4. CASE t[i] # "backslash"
  <2>1. Character(t, i) = [char |-> t[i], size |-> 1]
    BY <1>4 DEF Character
  <2> QED
    BY <1>1, <2>1
<1>5. CASE t[i] = "backslash"
  <2>1. i + 2 <= Len(t) + 1 /\ i # Len(t)
    BY <1>1, <1>5 DEF Character
  <2>2. CASE t[i + 1] \in {"quote", "backslash", "slash"}
    <3>1. Character(t, i) = [char |-> t[i + 1], size |-> 2]
      BY <1>5, <2>1, <2>2 DEF Character
    <3> QED
      BY <1>2, <1>3, <2>1, <2>2, <3>1
  <2>3. CASE t[i + 1] = "n"
    <3>1. Character(t, i) = [char |-> "newline", size |-> 2]
      BY <1>5, <2>1, <2>3 DEF Character
    <3> QED
      BY <1>2, <1>3, <2>1, <3>1
  <2>4. CASE t[i + 1] = "u"
    <3>1. Character(t, i) = Utf16(t, i + 2)
      BY <1>5, <2>1, <2>4 DEF Character
    <3>2. ~(i + 2 > Len(t)) /\ t[i + 2] \in Digits \ {"00g0", "de00"}
      BY <3>1 DEF Utf16
    <3>3. i + 3 <= Len(t) + 1
      BY <1>1, <3>2
    <3>4. CASE t[i + 2] # "d83d"
      <4>1. Character(t, i) = [char |-> Decoded(t[i + 2]), size |-> 3]
        BY <3>1, <3>2, <3>4 DEF Utf16
      <4>2. Decoded(t[i + 2]) \in {"control", "nul", "n", "b2"}
        BY <3>2, <3>4 DEF Decoded, Digits
      <4> QED
        BY <1>2, <1>3, <3>3, <4>1, <4>2
    <3>5. CASE t[i + 2] = "d83d"
      <4>1. At(t, i + 2 + 1, <<"backslash", "u", "de00">>) /\ Character(t, i) = [char |-> "b4", size |-> 6]
        BY <3>1, <3>2, <3>5 DEF Utf16
      <4>2. i + 6 <= Len(t) + 1
        <5>1. Len(<<"backslash", "u", "de00">>) = 3
          OBVIOUS
        <5> QED
          BY <1>1, <4>1, <5>1 DEF At
      <4> QED
        BY <1>2, <1>3, <4>1, <4>2
    <3> QED
      BY <3>4, <3>5
  <2> QED
    BY <1>5, <2>1, <2>2, <2>3, <2>4 DEF Character
<1> QED
  BY <1>4, <1>5

\* The function that Process reads from.
ReadBy(read, t) ==
  read = [i \in 1 .. Len(t) + 1 |->
          IF i > Len(t) \/ t[i] = "nul" THEN <<>>
          ELSE IF Character(t, i) = Invalid THEN Failure
          ELSE LET rest == read[i + Character(t, i).size]
               IN  IF rest = Failure THEN Failure ELSE <<Character(t, i).char>> \o rest]

\* Failure is no string.
LEMMA FailureIs ==
  Failure \notin Seq(Letters)
<1> SUFFICES ASSUME Failure \in Seq(Letters) PROVE FALSE
  OBVIOUS
<1>1. Failure[1] \in Letters /\ Failure[1] = "failure"
  BY DEF Failure
<1> QED
  BY <1>1 DEF Letters, Chars, Digits

LEMMA ReadExists ==
  ASSUME NEW t \in Seq(Letters)
  PROVE  \E read : ReadBy(read, t)
<1> DEFINE l == Len(t)
           D == 1 .. l + 1
           V == Seq(Letters) \cup {Failure}
           Value(i, g) ==
             IF i > l \/ t[i] = "nul" THEN <<>>
             ELSE IF Character(t, i) = Invalid THEN Failure
             ELSE IF g[i + Character(t, i).size] = Failure THEN Failure
             ELSE <<Character(t, i).char>> \o g[i + Character(t, i).size]
           rank == [i \in D |-> l + 1 - i]
           F == [i \in D |-> [g \in [D -> V] |-> Value(i, g)]]
<1>0. l \in Nat
  OBVIOUS
<1>1. ASSUME NEW i \in D, ~(i > l), Character(t, i) # Invalid
      PROVE  /\ Character(t, i).char \in Letters
             /\ i + Character(t, i).size \in D
             /\ i < i + Character(t, i).size
  <2>1. i \in 1 .. Len(t)
    BY <1>0, <1>1
  <2>2. PICK s \in {1, 2, 3, 6} : s = Character(t, i).size
    BY <1>1, <2>1, CharacterIs
  <2>3. i + s <= Len(t) + 1 /\ Character(t, i).char \in Letters
    BY <1>1, <2>1, <2>2, CharacterIs
  <2>4. i + s \in D /\ i < i + s
    BY <1>0, <2>1, <2>3
  <2> QED
    BY <2>2, <2>3, <2>4
<1>2. \A c \in Letters : \A s \in Seq(Letters) : <<c>> \o s \in Seq(Letters)
  OBVIOUS
<1>3. ASSUME NEW i \in D, NEW g \in [D -> V] PROVE Value(i, g) \in V
  <2>1. <<>> \in Seq(Letters)
    OBVIOUS
  <2> HIDE DEF D
  <2> QED
    BY <1>1, <1>2, <2>1
<1>4. F \in [D -> [[D -> V] -> V]]
  <2> HIDE DEF D, Value, V
  <2> QED
    BY <1>3
<1>5. \A i \in D : \A g \in [D -> V] : F[i][g] = Value(i, g)
  <2> HIDE DEF D, Value, V
  <2> QED
    OBVIOUS
<1>6. rank \in [D -> 0 .. l + 1] /\ \A i, j \in D : i < j => rank[j] < rank[i]
  BY <1>0
<1>7. Local(F, D, V, rank)
  <2> SUFFICES ASSUME NEW i \in D, NEW g \in [D -> V], NEW h \in [D -> V],
                      \A j \in D : rank[j] < rank[i] => g[j] = h[j]
               PROVE  F[i][g] = F[i][h]
    BY DEF Local
  <2> HIDE DEF D, rank
  <2>1. \A j \in D : i < j => g[j] = h[j]
    BY <1>6
  <2>2. Value(i, g) = Value(i, h)
    BY <1>1, <2>1
  <2> HIDE DEF F, Value
  <2> QED
    BY <1>5, <2>2
<1>8. PICK read : Recursive(read, D, V, F)
  <2>1. l + 1 \in Nat /\ Failure \in V
    BY <1>0
  <2> HIDE DEF D, F, V, rank
  <2> QED
    BY <1>4, <1>6, <1>7, <2>1, RecursionExists
<1>9. read = [i \in D |-> Value(i, read)]
  <2> HIDE DEF D, F, Value, V
  <2> QED
    BY <1>5, <1>8 DEF Recursive
<1> QED
  BY <1>9 DEF ReadBy

LEMMA ProcessIs ==
  ASSUME NEW t \in Seq(Letters)
  PROVE  \E read : ReadBy(read, t) /\ Process(t) = read[1]
<1> DEFINE v == CHOOSE read : ReadBy(read, t)
<1>1. ReadBy(v, t)
  BY ReadExists
<1>2. Process(t) = v[1]
  BY DEF Process, ReadBy
<1> QED
  BY <1>1, <1>2

\* Every element takes at least a byte.
LEMMA SumGrows ==
  ASSUME NEW t, NEW l \in Nat, l = Len(t), NEW sum, SumBy(sum, t), NEW k \in 0 .. l, NEW j \in k .. l
  PROVE  sum[j] >= sum[k] + (j - k)
<1> DEFINE S == {d \in 0 .. l - k : sum[k + d] >= sum[k] + d}
<1>1. /\ \A i \in 0 .. l : sum[i] \in Nat
      /\ \A i \in 1 .. l : sum[i] = sum[i - 1] + Width(t[i])
  BY SumTyped
<1>2. 0 \in S
  BY <1>1
<1>3. ASSUME NEW d \in 0 .. l - k, d \in S, d < l - k PROVE d + 1 \in S
  <2>1. k + d + 1 \in 1 .. l /\ (k + d + 1) - 1 = k + d /\ k + d \in 0 .. l /\ k + (d + 1) = k + d + 1
    BY <1>3
  <2>2. sum[k + d + 1] = sum[k + d] + Width(t[k + d + 1])
    BY <1>1, <2>1
  <2>3. PICK w \in Nat : w = Width(t[k + d + 1]) /\ w >= 1
    BY WidthIs
  <2>4. PICK a \in Nat : a = sum[k + d]
    BY <1>1, <2>1
  <2>5. PICK b \in Nat : b = sum[k]
    BY <1>1
  <2>6. a >= b + d
    BY <1>3, <2>4, <2>5
  <2>7. a + w >= b + (d + 1)
    BY <2>3, <2>6
  <2>8. sum[k + (d + 1)] >= sum[k] + (d + 1)
    BY <2>1, <2>2, <2>3, <2>4, <2>5, <2>7
  <2>9. d + 1 \in 0 .. l - k
    BY <1>3
  <2> QED
    BY <2>8, <2>9
<1>4. l - k \in Nat /\ j - k \in 0 .. l - k /\ k + (j - k) = j
  OBVIOUS
<1>5. j - k \in S
  <2> HIDE DEF S
  <2> QED
    BY <1>2, <1>3, <1>4, Upwards
<1> QED
  BY <1>4, <1>5

\* The bytes of a text, from those of its first element and its rest.
LEMMA BytesCons ==
  ASSUME NEW c \in Letters, NEW r \in Seq(Letters)
  PROVE  Bytes(r) \in Nat /\ Bytes(<<c>> \o r) = Width(c) + Bytes(r)
<1> DEFINE s == <<c>> \o r
           l == Len(r)
<1>1. /\ l \in Nat /\ Len(s) = l + 1 /\ s[1] = c
      /\ \A k \in 1 .. l : s[k + 1] = r[k]
  OBVIOUS
<1>2. PICK a : SumBy(a, r) /\ Bytes(r) = a[Len(r)]
  BY <1>1, BytesIs
<1>3. PICK b : SumBy(b, s) /\ Bytes(s) = b[Len(s)]
  <2>1. Len(s) \in Nat
    BY <1>1
  <2> HIDE DEF s
  <2> QED
    BY <2>1, BytesIs
<1>4. /\ \A k \in 0 .. l : a[k] \in Nat
      /\ a[0] = 0
      /\ \A k \in 1 .. l : a[k] = a[k - 1] + Width(r[k])
  BY <1>1, <1>2, SumTyped
<1> HIDE DEF s
<1>5. /\ \A k \in 0 .. l + 1 : b[k] \in Nat
      /\ b[0] = 0
      /\ \A k \in 1 .. l + 1 : b[k] = b[k - 1] + Width(s[k])
  BY <1>1, <1>3, SumTyped
<1> DEFINE S == {k \in 0 .. l : b[k + 1] = Width(c) + a[k]}
<1>6. 0 \in S
  <2>1. b[1] = b[1 - 1] + Width(s[1])
    BY <1>1, <1>5
  <2> QED
    BY <1>1, <1>4, <1>5, <2>1, WidthIs
<1>7. ASSUME NEW k \in 0 .. l, k \in S, k < l PROVE k + 1 \in S
  <2>1. k + 1 \in 1 .. l /\ (k + 1) - 1 = k /\ (k + 1) + 1 \in 1 .. l + 1 /\ ((k + 1) + 1) - 1 = k + 1
    BY <1>1, <1>7
  <2>2. s[(k + 1) + 1] = r[k + 1]
    BY <1>1, <2>1
  <2>3. a[k + 1] = a[k] + Width(r[k + 1])
    BY <1>4, <2>1
  <2>4. b[(k + 1) + 1] = b[k + 1] + Width(r[k + 1])
    BY <1>5, <2>1, <2>2
  <2>5. b[k + 1] = Width(c) + a[k] /\ a[k] \in Nat
    BY <1>4, <1>7
  <2>6. Width(c) \in Nat /\ Width(r[k + 1]) \in Nat
    BY WidthIs
  <2>7. b[(k + 1) + 1] = Width(c) + a[k + 1]
    BY <2>3, <2>4, <2>5, <2>6
  <2> QED
    BY <2>1, <2>7
<1>8. l \in S
  <2>1. l \in 0 .. l
    BY <1>1
  <2> HIDE DEF S
  <2> QED
    BY <1>1, <1>6, <1>7, <2>1, Upwards
<1> QED
  BY <1>1, <1>2, <1>3, <1>4, <1>8 DEF s

LEMMA BytesNone ==
  Bytes(<<>>) = 0
<1>1. Len(<<>>) = 0
  OBVIOUS
<1>2. PICK a : SumBy(a, <<>>) /\ Bytes(<<>>) = a[Len(<<>>)]
  BY <1>1, BytesIs
<1> QED
  BY <1>1, <1>2, SumTyped

\* process_string reads characters, and they fit what they were read from.
LEMMA ReadFits ==
  ASSUME NEW t \in Seq(Letters), NEW read, ReadBy(read, t), NEW sum, SumBy(sum, t),
         NEW i \in 1 .. Len(t) + 1, read[i] # Failure
  PROVE  read[i] \in Seq(Letters) /\ Bytes(read[i]) <= sum[Len(t)] - sum[i - 1]
<1> DEFINE l == Len(t)
           Good(p) == read[p] = Failure \/ (read[p] \in Seq(Letters) /\ Bytes(read[p]) + sum[p - 1] <= sum[l])
           S == {p \in 1 .. l + 1 : Good(p)}
<1>1. l \in Nat
  OBVIOUS
<1>2. /\ \A k \in 0 .. l : sum[k] \in Nat
      /\ \A k \in 1 .. l : sum[k] = sum[k - 1] + Width(t[k])
  BY <1>1, SumTyped
<1>3. ASSUME NEW p \in 1 .. l + 1, \A j \in 1 .. l + 1 : p < j => j \in S
      PROVE  p \in S
  <2>1. read[p] = IF p > Len(t) \/ t[p] = "nul" THEN <<>>
                  ELSE IF Character(t, p) = Invalid THEN Failure
                  ELSE LET rest == read[p + Character(t, p).size]
                       IN  IF rest = Failure THEN Failure ELSE <<Character(t, p).char>> \o rest
    BY DEF ReadBy
  <2>2. p - 1 \in 0 .. l /\ l \in p - 1 .. l /\ l \in 0 .. l
    BY <1>1
  <2>3. CASE p > Len(t) \/ t[p] = "nul"
    <3>1. read[p] = <<>> /\ <<>> \in Seq(Letters)
      BY <2>1, <2>3
    <3>2. sum[l] >= sum[p - 1] + (l - (p - 1))
      BY <1>1, <2>2, SumGrows
    <3>3. sum[l] \in Nat /\ sum[p - 1] \in Nat /\ l - (p - 1) \in Nat
      BY <1>2, <2>2
    <3>4. Bytes(read[p]) + sum[p - 1] <= sum[l]
      BY <3>1, <3>2, <3>3, BytesNone
    <3> QED
      BY <3>1, <3>4
  <2>4. CASE ~(p > Len(t) \/ t[p] = "nul") /\ Character(t, p) = Invalid
    BY <2>1, <2>4
  <2>5. CASE ~(p > Len(t) \/ t[p] = "nul") /\ Character(t, p) # Invalid
    <3>1. p \in 1 .. Len(t)
      BY <1>1, <2>5
    <3> DEFINE c == Character(t, p).char
               q == p + Character(t, p).size
    <3>2. PICK s \in {1, 2, 3, 6} : s = Character(t, p).size
      BY <2>5, <3>1, CharacterIs
    <3>3. /\ c \in Letters
          /\ p + s <= l + 1
          /\ (s = 1 /\ c = t[p]) \/ (s > 1 /\ Width(c) <= s)
      <4>1. /\ Character(t, p).char \in Letters
            /\ p + Character(t, p).size <= Len(t) + 1
            /\ \/ Character(t, p).size = 1 /\ Character(t, p).char = t[p]
               \/ Character(t, p).size > 1 /\ Width(Character(t, p).char) <= Character(t, p).size
        BY <2>5, <3>1, CharacterIs
      <4> QED
        BY <3>2, <4>1
    <3>4. q = p + s /\ q \in 1 .. l + 1 /\ p < q /\ q - 1 = p - 1 + s /\ q - 1 \in p - 1 .. l /\ q - 1 \in 0 .. l
      BY <1>1, <3>1, <3>2, <3>3
    <3>5. CASE read[q] = Failure
      BY <2>1, <2>5, <3>5
    <3>6. CASE read[q] # Failure
      <4>1. read[p] = <<c>> \o read[q]
        BY <2>1, <2>5, <3>6
      <4> HIDE DEF c, q
      <4>2. q \in S
        BY <1>3, <3>4
      <4>3. read[q] \in Seq(Letters) /\ Bytes(read[q]) + sum[q - 1] <= sum[l]
        BY <3>6, <4>2
      <4>4. read[p] \in Seq(Letters)
        BY <3>3, <4>1, <4>3
      <4>5. Bytes(read[p]) = Width(c) + Bytes(read[q]) /\ Bytes(read[q]) \in Nat
        BY <3>3, <4>1, <4>3, BytesCons
      <4>6. sum[q - 1] >= sum[p - 1] + Width(c)
        <5>1. CASE s = 1
          <6>1. c = t[p] /\ q - 1 = p
            BY <1>1, <3>1, <3>3, <3>4, <5>1
          <6>2. sum[p] = sum[p - 1] + Width(t[p])
            BY <1>2, <3>1
          <6> QED
            BY <1>2, <2>2, <6>1, <6>2, WidthIs
        <5>2. CASE s > 1
          <6>1. Width(c) <= s
            BY <3>3, <5>2
          <6>2. sum[q - 1] >= sum[p - 1] + ((q - 1) - (p - 1))
            BY <1>1, <2>2, <3>4, SumGrows
          <6>3. (q - 1) - (p - 1) = s
            BY <1>1, <3>1, <3>2, <3>4
          <6>4. sum[q - 1] \in Nat /\ sum[p - 1] \in Nat /\ Width(c) \in Nat
            BY <1>2, <2>2, <3>4, WidthIs
          <6> QED
            BY <3>2, <6>1, <6>2, <6>3, <6>4
        <5> QED
          BY <3>2, <5>1, <5>2
      <4>7. sum[q - 1] \in Nat /\ sum[p - 1] \in Nat /\ Width(c) \in Nat /\ sum[l] \in Nat
        BY <1>2, <2>2, <3>4, WidthIs
      <4>8. Bytes(read[p]) + sum[p - 1] <= sum[l]
        BY <4>3, <4>5, <4>6, <4>7
      <4> QED
        BY <4>4, <4>8
    <3> QED
      BY <3>5, <3>6
  <2> QED
    BY <2>3, <2>4, <2>5
<1>4. \A p \in 1 .. l + 1 : p \in S
  <2>1. l + 1 \in Nat
    BY <1>1
  <2> HIDE DEF S
  <2> QED
    BY <1>3, <2>1, Downwards
<1>5. read[i] \in Seq(Letters) /\ Bytes(read[i]) + sum[i - 1] <= sum[l]
  BY <1>4
<1>6. Bytes(read[i]) \in Nat
  <2>1. Len(read[i]) \in Nat
    BY <1>5
  <2>2. PICK a : SumBy(a, read[i]) /\ Bytes(read[i]) = a[Len(read[i])]
    BY <2>1, BytesIs
  <2>3. \A k \in 0 .. Len(read[i]) : a[k] \in Nat
    BY <2>1, <2>2, SumTyped
  <2> QED
    BY <2>1, <2>2, <2>3
<1>7. i - 1 \in 0 .. l /\ l \in 0 .. l
  BY <1>1
<1>8. sum[i - 1] \in Nat /\ sum[l] \in Nat
  BY <1>2, <1>7
<1> QED
  BY <1>5, <1>6, <1>8

\* What a character is written as.
LEMMA EscapeIs ==
  ASSUME NEW c \in Letters
  PROVE  \/ /\ EscapeChar(c) = <<c>>
            /\ c \notin {"quote", "backslash", "newline", "control", "nul"}
         \/ \E x \in {"quote", "backslash", "slash", "n"} :
              /\ EscapeChar(c) = <<"backslash", x>>
              /\ x = "n" => c = "newline"
              /\ x # "n" => c = x
         \/ \E d \in {"0000", "0001"} :
              /\ EscapeChar(c) = <<"backslash", "u", d>>
              /\ c = Decoded(d)
<1>1. Decoded("0001") = "control" /\ Decoded("0000") = "nul"
  BY DEF Decoded
<1>2. CASE c \in {"quote", "backslash"}
  <2>1. EscapeChar(c) = <<"backslash", c>>
    BY <1>2 DEF EscapeChar
  <2> QED
    BY <1>2, <2>1
<1>3. CASE c = "slash" /\ EscapeSlashes
  <2>1. EscapeChar(c) = <<"backslash", "slash">>
    BY <1>3 DEF EscapeChar
  <2> QED
    BY <1>3, <2>1
<1>4. CASE c = "newline"
  <2>1. EscapeChar(c) = <<"backslash", "n">>
    BY <1>4 DEF EscapeChar
  <2> QED
    BY <1>4, <2>1
<1>5. CASE c = "control"
  <2>1. EscapeChar(c) = <<"backslash", "u", "0001">>
    BY <1>5 DEF EscapeChar
  <2> QED
    BY <1>1, <1>5, <2>1
<1>6. CASE c = "nul"
  <2>1. EscapeChar(c) = <<"backslash", "u", "0000">>
    BY <1>6 DEF EscapeChar
  <2> QED
    BY <1>1, <1>6, <2>1
<1>7. CASE c \notin {"quote", "backslash", "newline", "control", "nul"} /\ ~(c = "slash" /\ EscapeSlashes)
  <2>1. EscapeChar(c) = <<c>>
    BY <1>7 DEF EscapeChar
  <2> QED
    BY <1>7, <2>1
<1> QED
  BY <1>2, <1>3, <1>4, <1>5, <1>6, <1>7

\* What a character is written as is a text.
LEMMA EscapeTyped ==
  ASSUME NEW c \in Letters
  PROVE  EscapeChar(c) \in Seq(Letters) /\ Len(EscapeChar(c)) \in {1, 2, 3}
<1>1. /\ "quote" \in Letters /\ "backslash" \in Letters /\ "slash" \in Letters /\ "n" \in Letters
      /\ "u" \in Letters /\ "0000" \in Letters /\ "0001" \in Letters
  BY DEF Letters, Chars, Digits
<1>2. CASE EscapeChar(c) = <<c>>
  BY <1>2
<1>3. ASSUME NEW x \in {"quote", "backslash", "slash", "n"}, EscapeChar(c) = <<"backslash", x>>
      PROVE  EscapeChar(c) \in Seq(Letters) /\ Len(EscapeChar(c)) \in {1, 2, 3}
  <2>1. x \in Letters
    BY <1>1
  <2> QED
    BY <1>1, <1>3, <2>1
<1>4. ASSUME NEW d \in {"0000", "0001"}, EscapeChar(c) = <<"backslash", "u", d>>
      PROVE  EscapeChar(c) \in Seq(Letters) /\ Len(EscapeChar(c)) \in {1, 2, 3}
  <2>1. d \in Letters
    BY <1>1
  <2> QED
    BY <1>1, <1>4, <2>1
<1> QED
  BY <1>2, <1>3, <1>4, EscapeIs

\* The text t holds c, as it is written, at i.
Stands(t, i, c) ==
  LET e == EscapeChar(c)
  IN  i + Len(e) <= Len(t) + 1 /\ \A j \in 1 .. Len(e) : t[i + j - 1] = e[j]

LEMMA StandsRead ==
  ASSUME NEW t \in Seq(Letters), NEW c \in Letters, NEW i \in Nat, i >= 1, Stands(t, i, c)
  PROVE  /\ i <= Len(t) /\ t[i] # "nul"
         /\ Character(t, i) # Invalid
         /\ Character(t, i).char = c
         /\ Character(t, i).size = Len(EscapeChar(c))
<1> DEFINE e == EscapeChar(c)
<1>1. Len(t) \in Nat
  OBVIOUS
<1>2. CASE e = <<c>> /\ c \notin {"quote", "backslash", "newline", "control", "nul"}
  <2>1. Len(e) = 1 /\ e[1] = c
    BY <1>2
  <2>2. i <= Len(t) /\ t[i] = c
    <3>1. i + 1 - 1 = i /\ 1 \in 1 .. 1
      OBVIOUS
    <3> QED
      BY <1>1, <2>1, <3>1 DEF Stands
  <2>3. Character(t, i) = [char |-> t[i], size |-> 1]
    BY <1>2, <2>2 DEF Character
  <2>4. c # "none"
    BY DEF Letters, Chars, Digits
  <2> QED
    BY <1>2, <2>1, <2>2, <2>3, <2>4 DEF Invalid
<1>3. ASSUME NEW x \in {"quote", "backslash", "slash", "n"}, e = <<"backslash", x>>,
             x = "n" => c = "newline", x # "n" => c = x
      PROVE  /\ i <= Len(t) /\ t[i] # "nul"
             /\ Character(t, i) # Invalid
             /\ Character(t, i).char = c
             /\ Character(t, i).size = Len(e)
  <2>1. Len(e) = 2 /\ e[1] = "backslash" /\ e[2] = x
    BY <1>3
  <2>2. i < Len(t) /\ t[i] = "backslash" /\ t[i + 1] = x
    <3>1. i + 1 - 1 = i /\ i + 2 - 1 = i + 1 /\ 1 \in 1 .. 2 /\ 2 \in 1 .. 2
      OBVIOUS
    <3> QED
      BY <1>1, <2>1, <3>1 DEF Stands
  <2>3. i # Len(t) /\ i <= Len(t)
    BY <1>1, <2>2
  <2>4. Character(t, i) = [char |-> c, size |-> 2]
    BY <1>3, <2>2, <2>3 DEF Character
  <2>5. c # "none"
    BY DEF Letters, Chars, Digits
  <2> QED
    BY <2>1, <2>2, <2>3, <2>4, <2>5 DEF Invalid
<1>4. ASSUME NEW d \in {"0000", "0001"}, e = <<"backslash", "u", d>>, c = Decoded(d)
      PROVE  /\ i <= Len(t) /\ t[i] # "nul"
             /\ Character(t, i) # Invalid
             /\ Character(t, i).char = c
             /\ Character(t, i).size = Len(e)
  <2>1. Len(e) = 3 /\ e[1] = "backslash" /\ e[2] = "u" /\ e[3] = d
    BY <1>4
  <2>2. i + 2 <= Len(t) /\ t[i] = "backslash" /\ t[i + 1] = "u" /\ t[i + 2] = d
    <3>1. i + 1 - 1 = i /\ i + 2 - 1 = i + 1 /\ i + 3 - 1 = i + 2 /\ 1 \in 1 .. 3 /\ 2 \in 1 .. 3 /\ 3 \in 1 .. 3
      OBVIOUS
    <3> QED
      BY <1>1, <2>1, <3>1 DEF Stands
  <2>3. i # Len(t) /\ i <= Len(t) /\ ~(i + 2 > Len(t))
    BY <1>1, <2>2
  <2>4. Character(t, i) = Utf16(t, i + 2)
    BY <2>2, <2>3 DEF Character
  <2>5. d \in Digits /\ d # "00g0" /\ d # "de00" /\ d # "d83d"
    BY <1>4 DEF Digits
  <2>6. Utf16(t, i + 2) = [char |-> c, size |-> 3]
    BY <1>4, <2>2, <2>3, <2>5 DEF Utf16
  <2>7. c # "none"
    BY DEF Letters, Chars, Digits
  <2> QED
    BY <2>1, <2>2, <2>3, <2>4, <2>6, <2>7 DEF Invalid
<1> QED
  BY <1>2, <1>3, <1>4, EscapeIs

LEMMA StandsSkip ==
  ASSUME NEW t \in Seq(Letters), NEW c \in Letters, NEW i \in Nat, i >= 2, Stands(t, i, c),
         NEW end, EndBy(end, t)
  PROVE  end[i] = end[i + Len(EscapeChar(c))]
<1> DEFINE e == EscapeChar(c)
<1>1. Len(t) \in Nat
  OBVIOUS
<1>2. ASSUME NEW j \in 2 .. Len(t) + 1
      PROVE  end[j] = IF j > Len(t) \/ t[j] = "nul" THEN 0
                      ELSE IF t[j] = "quote" THEN j
                      ELSE IF t[j] # "backslash" THEN end[j + 1]
                      ELSE IF j = Len(t) \/ t[j + 1] = "nul" THEN 0
                      ELSE end[j + 2]
  BY <1>2 DEF EndBy
<1>3. CASE e = <<c>> /\ c \notin {"quote", "backslash", "newline", "control", "nul"}
  <2>1. Len(e) = 1 /\ e[1] = c
    BY <1>3
  <2>2. i <= Len(t) /\ t[i] = c
    <3>1. i + 1 - 1 = i /\ 1 \in 1 .. 1
      OBVIOUS
    <3> QED
      BY <1>1, <2>1, <3>1 DEF Stands
  <2>3. i \in 2 .. Len(t) + 1 /\ ~(i > Len(t))
    BY <1>1, <2>2
  <2>4. end[i] = end[i + 1]
    BY <1>2, <1>3, <2>2, <2>3
  <2> QED
    BY <2>1, <2>4
<1>4. ASSUME NEW x \in {"quote", "backslash", "slash", "n"}, e = <<"backslash", x>>
      PROVE  end[i] = end[i + Len(e)]
  <2>1. Len(e) = 2 /\ e[1] = "backslash" /\ e[2] = x
    BY <1>4
  <2>2. i < Len(t) /\ t[i] = "backslash" /\ t[i + 1] = x
    <3>1. i + 1 - 1 = i /\ i + 2 - 1 = i + 1 /\ 1 \in 1 .. 2 /\ 2 \in 1 .. 2
      OBVIOUS
    <3> QED
      BY <1>1, <2>1, <3>1 DEF Stands
  <2>3. i # Len(t) /\ ~(i > Len(t)) /\ i \in 2 .. Len(t) + 1
    BY <1>1, <2>2
  <2>4. end[i] = end[i + 2]
    BY <1>2, <2>2, <2>3
  <2> QED
    BY <2>1, <2>4
<1>5. ASSUME NEW d \in {"0000", "0001"}, e = <<"backslash", "u", d>>
      PROVE  end[i] = end[i + Len(e)]
  <2>1. Len(e) = 3 /\ e[1] = "backslash" /\ e[2] = "u" /\ e[3] = d
    BY <1>5
  <2>2. i + 2 <= Len(t) /\ t[i] = "backslash" /\ t[i + 1] = "u" /\ t[i + 2] = d
    <3>1. i + 1 - 1 = i /\ i + 2 - 1 = i + 1 /\ i + 3 - 1 = i + 2 /\ 1 \in 1 .. 3 /\ 2 \in 1 .. 3 /\ 3 \in 1 .. 3
      OBVIOUS
    <3> QED
      BY <1>1, <2>1, <3>1 DEF Stands
  <2>3. /\ i # Len(t) /\ ~(i > Len(t)) /\ i \in 2 .. Len(t) + 1
        /\ ~(i + 2 > Len(t)) /\ i + 2 \in 2 .. Len(t) + 1 /\ (i + 2) + 1 = i + 3
    BY <1>1, <2>2
  <2>4. end[i] = end[i + 2]
    BY <1>2, <2>2, <2>3
  <2>5. end[i + 2] = end[(i + 2) + 1]
    BY <1>2, <2>2, <2>3
  <2> QED
    BY <2>1, <2>3, <2>4, <2>5
<1> QED
  BY <1>3, <1>4, <1>5, EscapeIs

\* The text c is a followed by b.
Joins(c, a, b) ==
  /\ c \in Seq(Letters)
  /\ Len(a) \in Nat /\ Len(b) \in Nat /\ Len(c) = Len(a) + Len(b)
  /\ \A j \in 1 .. Len(a) : c[j] = a[j]
  /\ \A j \in 1 .. Len(b) : c[Len(a) + j] = b[j]

LEMMA Joined ==
  ASSUME NEW a \in Seq(Letters), NEW b \in Seq(Letters)
  PROVE  Joins(a \o b, a, b)
BY DEF Joins

\* The function that Quoted reads from.
EscapedBy(escaped, s) ==
  escaped = [k \in 0 .. Len(s) |->
               IF k = 0 THEN <<>> ELSE escaped[k - 1] \o EscapeChar(s[k])]

LEMMA EscapedExists ==
  ASSUME NEW s \in Seq(Letters)
  PROVE  \E escaped : EscapedBy(escaped, s)
<1> DEFINE l == Len(s)
           D == 0 .. l
           V == Seq(Letters)
           Value(k, g) == IF k = 0 THEN <<>> ELSE g[k - 1] \o EscapeChar(s[k])
           rank == [k \in D |-> k]
           F == [k \in D |-> [g \in [D -> V] |-> Value(k, g)]]
<1>1. l \in Nat /\ <<>> \in V
  OBVIOUS
<1>2. \A k \in D : k # 0 => k - 1 \in D /\ k - 1 < k /\ s[k] \in Letters
  BY <1>1
<1>3. ASSUME NEW k \in D, NEW g \in [D -> V] PROVE Value(k, g) \in V
  <2>1. CASE k = 0
    BY <1>1, <2>1
  <2>2. CASE k # 0
    <3>1. g[k - 1] \in Seq(Letters) /\ EscapeChar(s[k]) \in Seq(Letters)
      BY <1>2, <2>2, EscapeTyped
    <3>2. g[k - 1] \o EscapeChar(s[k]) \in Seq(Letters)
      BY <3>1
    <3> QED
      BY <2>2, <3>2
  <2> QED
    BY <2>1, <2>2
<1>4. F \in [D -> [[D -> V] -> V]]
  <2> HIDE DEF D, Value, V
  <2> QED
    BY <1>3
<1>5. \A k \in D : \A g \in [D -> V] : F[k][g] = Value(k, g)
  <2> HIDE DEF D, Value, V
  <2> QED
    OBVIOUS
<1>6. rank \in [D -> 0 .. l] /\ \A i, j \in D : i < j => rank[i] < rank[j]
  BY <1>1
<1>7. Local(F, D, V, rank)
  <2> SUFFICES ASSUME NEW i \in D, NEW g \in [D -> V], NEW h \in [D -> V],
                      \A j \in D : rank[j] < rank[i] => g[j] = h[j]
               PROVE  F[i][g] = F[i][h]
    BY DEF Local
  <2> HIDE DEF D, rank
  <2>1. i # 0 => g[i - 1] = h[i - 1]
    BY <1>2, <1>6
  <2>2. Value(i, g) = Value(i, h)
    BY <2>1
  <2> HIDE DEF F, Value
  <2> QED
    BY <1>5, <2>2
<1>8. PICK escaped : Recursive(escaped, D, V, F)
  <2> HIDE DEF D, F, V, rank, l
  <2> QED
    BY <1>1, <1>4, <1>6, <1>7, RecursionExists
<1>9. escaped = [k \in D |-> Value(k, escaped)]
  <2> HIDE DEF D, F, Value, V
  <2> QED
    BY <1>5, <1>8 DEF Recursive
<1> QED
  BY <1>9 DEF EscapedBy

LEMMA QuotedIs ==
  ASSUME NEW s \in Seq(Letters)
  PROVE  \E escaped : EscapedBy(escaped, s) /\ Quoted(s) = <<"quote">> \o escaped[Len(s)] \o <<"quote">>
<1> DEFINE v == CHOOSE escaped : EscapedBy(escaped, s)
<1>1. EscapedBy(v, s)
  BY EscapedExists
<1>2. Quoted(s) = <<"quote">> \o v[Len(s)] \o <<"quote">>
  BY DEF Quoted, EscapedBy
<1> QED
  BY <1>1, <1>2

LEMMA EscapedTyped ==
  ASSUME NEW s \in Seq(Letters), NEW escaped, EscapedBy(escaped, s)
  PROVE  /\ \A k \in 0 .. Len(s) : escaped[k] \in Seq(Letters)
         /\ escaped[0] = <<>>
         /\ \A k \in 1 .. Len(s) : escaped[k] = escaped[k - 1] \o EscapeChar(s[k])
<1> DEFINE l == Len(s)
           S == {k \in 0 .. l : escaped[k] \in Seq(Letters)}
<1>0. l \in Nat
  OBVIOUS
<1>1. escaped[0] = <<>>
  BY <1>0 DEF EscapedBy
<1>2. ASSUME NEW k \in 1 .. l PROVE escaped[k] = escaped[k - 1] \o EscapeChar(s[k])
  BY <1>0, <1>2 DEF EscapedBy
<1>3. 0 \in S
  <2>1. escaped[0] \in Seq(Letters)
    BY <1>1
  <2>2. 0 \in 0 .. l
    BY <1>0
  <2> QED
    BY <2>1, <2>2
<1>4. ASSUME NEW k \in 0 .. l, k \in S, k < l PROVE k + 1 \in S
  <2>1. k + 1 \in 1 .. l /\ (k + 1) - 1 = k
    BY <1>0, <1>4
  <2>2. escaped[k + 1] = escaped[k] \o EscapeChar(s[k + 1])
    BY <1>2, <2>1
  <2>3. EscapeChar(s[k + 1]) \in Seq(Letters)
    BY <2>1, EscapeTyped
  <2>4. escaped[k] \in Seq(Letters)
    BY <1>4
  <2>5. escaped[k + 1] \in Seq(Letters)
    BY <2>2, <2>3, <2>4
  <2> QED
    BY <2>1, <2>5
<1>5. \A k \in 0 .. l : k \in S
  <2> HIDE DEF S
  <2> QED
    BY <1>0, <1>3, <1>4, Upwards
<1> QED
  BY <1>1, <1>2, <1>5

\* What has been written stays.
LEMMA EscapedGrows ==
  ASSUME NEW s \in Seq(Letters), NEW escaped, EscapedBy(escaped, s),
         NEW k \in 0 .. Len(s), NEW m \in k .. Len(s)
  PROVE  /\ Len(escaped[k]) <= Len(escaped[m])
         /\ \A j \in 1 .. Len(escaped[k]) : escaped[m][j] = escaped[k][j]
<1> DEFINE l == Len(s)
           Good(n) == /\ Len(escaped[k]) <= Len(escaped[n])
                      /\ \A j \in 1 .. Len(escaped[k]) : escaped[n][j] = escaped[k][j]
           S == {d \in 0 .. l - k : Good(k + d)}
<1>1. l \in Nat /\ k + 0 = k /\ l - k \in Nat
  OBVIOUS
<1>2. /\ \A i \in 0 .. l : escaped[i] \in Seq(Letters)
      /\ \A i \in 1 .. l : escaped[i] = escaped[i - 1] \o EscapeChar(s[i])
  BY EscapedTyped
<1>3. Len(escaped[k]) \in Nat
  BY <1>2
<1>4. 0 \in S
  BY <1>1, <1>3
<1>5. ASSUME NEW d \in 0 .. l - k, d \in S, d < l - k PROVE d + 1 \in S
  <2>1. PICK n \in 0 .. l : n = k + d
    BY <1>1, <1>5
  <2>2. n + 1 = k + (d + 1) /\ n + 1 \in 1 .. l /\ (n + 1) - 1 = n /\ d + 1 \in 0 .. l - k
    BY <1>1, <1>5, <2>1
  <2>3. Good(n)
    BY <1>5, <2>1
  <2>4. escaped[n + 1] = escaped[n] \o EscapeChar(s[n + 1])
    BY <1>2, <2>2
  <2>5. escaped[n] \in Seq(Letters) /\ EscapeChar(s[n + 1]) \in Seq(Letters)
    BY <1>2, <2>2, EscapeTyped
  <2>6. /\ Len(escaped[n]) \in Nat
        /\ Len(escaped[n]) <= Len(escaped[n + 1]) /\ Len(escaped[n + 1]) \in Nat
        /\ \A j \in 1 .. Len(escaped[n]) : escaped[n + 1][j] = escaped[n][j]
    <3>1. /\ escaped[n + 1] \in Seq(Letters)
          /\ Len(escaped[n]) \in Nat /\ Len(EscapeChar(s[n + 1])) \in Nat
          /\ Len(escaped[n + 1]) = Len(escaped[n]) + Len(EscapeChar(s[n + 1]))
          /\ \A j \in 1 .. Len(escaped[n]) : escaped[n + 1][j] = escaped[n][j]
      <4>1. Joins(escaped[n + 1], escaped[n], EscapeChar(s[n + 1]))
        BY <2>4, <2>5, Joined
      <4> QED
        BY <4>1 DEF Joins
    <3>2. PICK x \in Nat, y \in Nat : x = Len(escaped[n]) /\ y = Len(EscapeChar(s[n + 1]))
      BY <3>1
    <3>3. x <= x + y /\ x + y \in Nat
      OBVIOUS
    <3>4. Len(escaped[n + 1]) = x + y
      BY <3>1, <3>2
    <3> QED
      BY <3>1, <3>2, <3>3, <3>4
  <2>7. Good(n + 1)
    BY <1>3, <2>3, <2>6
  <2> QED
    BY <2>2, <2>7
<1>6. m - k \in 0 .. l - k /\ k + (m - k) = m
  BY <1>1
<1>7. m - k \in S
  <2> HIDE DEF S
  <2> QED
    BY <1>1, <1>4, <1>5, <1>6, Upwards
<1> QED
  BY <1>6, <1>7

\* The k-th character of s stands in what s is written as.
Written(escaped, s, k) ==
  /\ s[k] \in Letters
  /\ Len(escaped[k]) = Len(escaped[k - 1]) + Len(EscapeChar(s[k]))
  /\ Len(escaped[k]) <= Len(escaped[Len(s)])
  /\ \A j \in 1 .. Len(EscapeChar(s[k])) :
       escaped[Len(s)][Len(escaped[k - 1]) + j] = EscapeChar(s[k])[j]

LEMMA EscapedStands ==
  ASSUME NEW s \in Seq(Letters), NEW escaped, EscapedBy(escaped, s), NEW k \in 1 .. Len(s)
  PROVE  Written(escaped, s, k)
<1> DEFINE l == Len(s)
           e == EscapeChar(s[k])
<1>1. l \in Nat /\ k - 1 \in 0 .. l /\ k \in 0 .. l /\ l \in k .. l /\ s[k] \in Letters
  OBVIOUS
<1>2. escaped[k - 1] \in Seq(Letters) /\ e \in Seq(Letters) /\ escaped[k] = escaped[k - 1] \o e
  BY <1>1, EscapedTyped, EscapeTyped
<1>3. /\ Len(escaped[k]) <= Len(escaped[l])
      /\ \A j \in 1 .. Len(escaped[k]) : escaped[l][j] = escaped[k][j]
  BY <1>1, EscapedGrows
<1> HIDE DEF e
<1>4. /\ Len(escaped[k]) = Len(escaped[k - 1]) + Len(e)
      /\ Len(escaped[k - 1]) \in Nat /\ Len(e) \in Nat
      /\ \A j \in 1 .. Len(e) : escaped[k][Len(escaped[k - 1]) + j] = e[j]
  BY <1>2
<1>5. \A j \in 1 .. Len(e) : Len(escaped[k - 1]) + j \in 1 .. Len(escaped[k])
  BY <1>4
<1> QED
  BY <1>1, <1>3, <1>4, <1>5 DEF e, Written

\* The text t starts with u in quotes.
Starts(t, u) ==
  /\ t \in Seq(Letters) /\ u \in Seq(Letters)
  /\ Len(t) \in Nat /\ Len(u) \in Nat /\ Len(u) + 2 <= Len(t)
  /\ t[1] = "quote" /\ t[Len(u) + 2] = "quote"
  /\ \A j \in 1 .. Len(u) : t[j + 1] = u[j]

LEMMA QuotesStart ==
  ASSUME NEW u \in Seq(Letters), NEW tail \in Seq(Letters)
  PROVE  Starts((<<"quote">> \o u \o <<"quote">>) \o tail, u)
<1> DEFINE t == (<<"quote">> \o u \o <<"quote">>) \o tail
<1>3. "quote" \in Letters
  BY DEF Letters, Chars
<1>4. /\ t \in Seq(Letters)
      /\ Len(t) = Len(u) + 2 + Len(tail) /\ Len(u) \in Nat /\ Len(tail) \in Nat
      /\ t[1] = "quote" /\ t[Len(u) + 2] = "quote"
      /\ \A j \in 1 .. Len(u) : t[j + 1] = u[j]
  <2> DEFINE q == <<"quote">>
             a == q \o u
             b == a \o q
  <2>1. q \in Seq(Letters) /\ Len(q) = 1 /\ q[1] = "quote"
    BY <1>3
  <2> HIDE DEF q
  <2>2. /\ a \in Seq(Letters) /\ Len(u) \in Nat /\ Len(a) = 1 + Len(u)
        /\ a[1] = "quote"
        /\ \A j \in 1 .. Len(u) : a[1 + j] = u[j]
    <3>1. Joins(a, q, u)
      BY <2>1, Joined
    <3> HIDE DEF a
    <3>2. 1 \in 1 .. Len(q)
      BY <2>1
    <3> QED
      BY <2>1, <3>1, <3>2 DEF Joins
  <2> HIDE DEF a
  <2>3. /\ b \in Seq(Letters) /\ Len(b) = Len(a) + 1
        /\ \A j \in 1 .. Len(a) : b[j] = a[j]
        /\ b[Len(a) + 1] = "quote"
    <3>1. Joins(b, a, q)
      BY <2>1, <2>2, Joined
    <3> HIDE DEF b
    <3>2. 1 \in 1 .. Len(q)
      BY <2>1
    <3> QED
      BY <2>1, <3>1, <3>2 DEF Joins
  <2> HIDE DEF b
  <2>4. t = b \o tail
    BY DEF a, b, q
  <2> HIDE DEF t
  <2>5. /\ t \in Seq(Letters) /\ Len(tail) \in Nat /\ Len(t) = Len(b) + Len(tail)
        /\ \A j \in 1 .. Len(b) : t[j] = b[j]
    <3>1. Joins(t, b, tail)
      BY <2>3, <2>4, Joined
    <3> QED
      BY <3>1 DEF Joins
  <2>6. \A j \in 1 .. Len(u) : j + 1 = 1 + j /\ j + 1 \in 1 .. Len(a) /\ j + 1 \in 1 .. Len(b)
    BY <2>2, <2>3
  <2>7. /\ 1 \in 1 .. Len(a) /\ 1 \in 1 .. Len(b)
        /\ Len(u) + 2 = Len(a) + 1 /\ Len(a) + 1 \in 1 .. Len(b)
        /\ Len(t) = Len(u) + 2 + Len(tail)
    BY <2>2, <2>3, <2>5
  <2>8. t[1] = "quote" /\ t[Len(u) + 2] = "quote"
    BY <2>2, <2>3, <2>5, <2>7
  <2>9. \A j \in 1 .. Len(u) : t[j + 1] = u[j]
    <3> SUFFICES ASSUME NEW j \in 1 .. Len(u) PROVE t[j + 1] = u[j]
      OBVIOUS
    <3>1. t[j + 1] = b[j + 1]
      BY <2>5, <2>6
    <3>2. b[j + 1] = a[j + 1]
      BY <2>3, <2>6
    <3>3. a[j + 1] = u[j]
      BY <2>2, <2>6
    <3> QED
      BY <3>1, <3>2, <3>3
  <2> QED
    BY <2>2, <2>5, <2>7, <2>8, <2>9
<1> HIDE DEF t
<1>5. Len(t) \in Nat /\ Len(u) + 2 <= Len(t)
  BY <1>4
<1>6. Starts(t, u)
  BY <1>4, <1>5 DEF Starts
<1> QED
  BY <1>6 DEF t

\* skip_quotes finds the end of a string as it is written, whatever follows it.
LEMMA SkipQuoted ==
  ASSUME NEW s \in Seq(Letters), NEW escaped, EscapedBy(escaped, s),
         NEW u, u = escaped[Len(s)], NEW t, Starts(t, u)
  PROVE  /\ SkipQuotes(t) = Len(u) + 2
         /\ SubSeq(t, 2, Len(u) + 1) = u
<1> DEFINE l == Len(s)
<1>1. l \in Nat /\ l \in 0 .. l
  OBVIOUS
<1>2. u \in Seq(Letters)
  BY DEF Starts
<1>4. /\ t \in Seq(Letters)
      /\ Len(t) \in Nat /\ Len(u) \in Nat /\ Len(u) + 2 <= Len(t)
      /\ t[1] = "quote" /\ t[Len(u) + 2] = "quote"
      /\ \A j \in 1 .. Len(u) : t[j + 1] = u[j]
  BY DEF Starts
<1>5. SubSeq(t, 2, Len(u) + 1) = u
  BY <1>2, <1>4
<1>6. PICK end : EndBy(end, t) /\ SkipQuotes(t) = IF t # <<>> /\ t[1] = "quote" THEN end[2] ELSE 0
  <2>1. Len(t) \in Nat
    BY <1>4
  <2> QED
    BY <2>1, SkipIs
<1>7. t # <<>> /\ SkipQuotes(t) = end[2]
  BY <1>4, <1>6
<1>8. end[Len(u) + 2] = Len(u) + 2
  <2>1. Len(u) + 2 \in 2 .. Len(t) + 1 /\ ~(Len(u) + 2 > Len(t))
    BY <1>4
  <2> QED
    BY <1>4, <1>6, <2>1 DEF EndBy
<1> DEFINE S == {d \in 0 .. l : end[Len(escaped[l - d]) + 2] = Len(u) + 2}
<1>9. 0 \in S
  <2>1. l - 0 = l
    BY <1>1
  <2> QED
    BY <1>1, <1>8, <2>1
<1>10. ASSUME NEW d \in 0 .. l, d \in S, d < l PROVE d + 1 \in S
  <2>1. PICK k \in 1 .. l : k = l - d
    BY <1>1, <1>10
  <2>2. l - (d + 1) = k - 1 /\ d + 1 \in 0 .. l
    BY <1>1, <1>10, <2>1
  <2> DEFINE e == EscapeChar(s[k])
             p == Len(escaped[k - 1])
  <2>3. /\ s[k] \in Letters /\ Len(escaped[k]) = p + Len(e)
        /\ Len(escaped[k]) <= Len(u)
        /\ \A j \in 1 .. Len(e) : u[p + j] = e[j]
    <3>1. Written(escaped, s, k)
      BY EscapedStands
    <3> QED
      BY <3>1 DEF Written
  <2>4. p \in Nat /\ Len(e) \in Nat
    <3>1. k - 1 \in 0 .. l
      BY <1>1
    <3>2. escaped[k - 1] \in Seq(Letters)
      BY <3>1, EscapedTyped
    <3> QED
      BY <2>3, <3>2, EscapeTyped
  <2> HIDE DEF e, p
  <2>5. \A j \in 1 .. Len(e) : (p + 2) + j - 1 = (p + j) + 1 /\ p + j \in 1 .. Len(u)
    BY <1>4, <2>3, <2>4
  <2>6. (p + 2) + Len(e) <= Len(t) + 1
    BY <1>4, <2>3, <2>4
  <2>7. Stands(t, p + 2, s[k])
    BY <1>4, <2>3, <2>5, <2>6 DEF Stands, e
  <2>8. end[p + 2] = end[(p + 2) + Len(e)]
    <3>1. p + 2 \in Nat /\ p + 2 >= 2
      BY <2>4
    <3>2. PICK i \in Nat : i = p + 2 /\ i >= 2
      BY <3>1
    <3>3. t \in Seq(Letters) /\ s[k] \in Letters /\ Stands(t, i, s[k]) /\ EndBy(end, t)
      BY <1>4, <1>6, <2>3, <2>7, <3>2
    <3>4. end[i] = end[i + Len(EscapeChar(s[k]))]
      <4>1. i >= 2
        BY <3>2
      <4> QED
        BY <3>3, <4>1, StandsSkip
    <3> QED
      BY <3>2, <3>4 DEF e
  <2>9. (p + 2) + Len(e) = Len(escaped[k]) + 2
    BY <2>3, <2>4
  <2>10. end[p + 2] = Len(u) + 2
    BY <1>10, <2>1, <2>8, <2>9
  <2> QED
    BY <2>2, <2>10 DEF p
<1>11. l \in S
  <2> HIDE DEF S
  <2> QED
    BY <1>1, <1>9, <1>10, Upwards
<1>12. Len(escaped[l - l]) = 0
  <2>1. l - l = 0
    BY <1>1
  <2>2. escaped[0] = <<>> /\ Len(<<>>) = 0
    BY EscapedTyped
  <2> QED
    BY <2>1, <2>2
<1>13. end[2] = Len(u) + 2
  BY <1>11, <1>12
<1> QED
  BY <1>5, <1>7, <1>13

\* process_string reads what pjson_serialize_string has written.
LEMMA ProcessEscaped ==
  ASSUME NEW s \in Seq(Letters), NEW escaped, EscapedBy(escaped, s)
  PROVE  Process(escaped[Len(s)]) = s
<1> DEFINE l == Len(s)
           u == escaped[l]
<1>1. l \in Nat /\ l \in 0 .. l
  OBVIOUS
<1>2. u \in Seq(Letters) /\ escaped[0] = <<>> /\ Len(<<>>) = 0
  BY <1>1, EscapedTyped
<1>3. PICK read : ReadBy(read, u) /\ Process(u) = read[1]
  <2> HIDE DEF u
  <2> QED
    BY <1>2, ProcessIs
<1>4. Len(u) \in Nat
  BY <1>2
<1> DEFINE S == {d \in 0 .. l : read[Len(escaped[l - d]) + 1] = SubSeq(s, l - d + 1, l)}
<1>5. 0 \in S
  <2>1. l - 0 = l /\ SubSeq(s, l + 1, l) = <<>>
    BY <1>1
  <2>2. read[Len(u) + 1] = <<>>
    <3>1. Len(u) + 1 \in 1 .. Len(u) + 1 /\ Len(u) + 1 > Len(u)
      BY <1>4
    <3> HIDE DEF u
    <3> QED
      BY <1>3, <3>1 DEF ReadBy
  <2>3. read[Len(escaped[l]) + 1] = SubSeq(s, l + 1, l)
    BY <2>1, <2>2
  <2>4. l - 0 + 1 = l + 1 /\ 0 \in 0 .. l
    BY <1>1
  <2> QED
    BY <2>1, <2>3, <2>4
<1>6. ASSUME NEW d \in 0 .. l, d \in S, d < l PROVE d + 1 \in S
  <2>1. PICK k \in 1 .. l : k = l - d
    BY <1>1, <1>6
  <2>2. l - (d + 1) = k - 1 /\ d + 1 \in 0 .. l /\ (k - 1) + 1 = k
    BY <1>1, <1>6, <2>1
  <2> DEFINE e == EscapeChar(s[k])
             p == Len(escaped[k - 1])
  <2>3. /\ s[k] \in Letters /\ Len(escaped[k]) = p + Len(e)
        /\ Len(escaped[k]) <= Len(u)
        /\ \A j \in 1 .. Len(e) : u[p + j] = e[j]
    <3>1. Written(escaped, s, k)
      BY EscapedStands
    <3> QED
      BY <3>1 DEF Written
  <2>4. p \in Nat /\ Len(e) \in Nat
    <3>1. k - 1 \in 0 .. l
      BY <1>1
    <3>2. escaped[k - 1] \in Seq(Letters)
      BY <3>1, EscapedTyped
    <3> QED
      BY <2>3, <3>2, EscapeTyped
  <2> HIDE DEF e, p, u
  <2>5. \A j \in 1 .. Len(e) : (p + 1) + j - 1 = p + j
    BY <2>4
  <2>6. (p + 1) + Len(e) <= Len(u) + 1
    BY <1>4, <2>3, <2>4
  <2>7. Stands(u, p + 1, s[k])
    BY <2>3, <2>5, <2>6 DEF Stands, e
  <2>8. /\ p + 1 <= Len(u) /\ u[p + 1] # "nul"
        /\ Character(u, p + 1) # Invalid
        /\ Character(u, p + 1).char = s[k]
        /\ Character(u, p + 1).size = Len(e)
    <3>1. p + 1 \in Nat /\ p + 1 >= 1
      BY <2>4
    <3> QED
      BY <1>2, <2>3, <2>7, <3>1, StandsRead DEF e
  <2>9. (p + 1) + Len(e) = Len(escaped[k]) + 1
    BY <2>3, <2>4
  <2> DEFINE rest == read[(p + 1) + Len(e)]
  <2>10. rest = SubSeq(s, k + 1, l)
    BY <1>6, <2>1, <2>9
  <2>11. rest # Failure
    <3>1. SubSeq(s, k + 1, l) \in Seq(Letters)
      BY <1>1
    <3> QED
      BY <2>10, <3>1, FailureIs
  <2>12. read[p + 1] = <<s[k]>> \o rest
    <3>1. p + 1 \in 1 .. Len(u) + 1 /\ ~(p + 1 > Len(u))
      BY <1>4, <2>4, <2>8
    <3> QED
      BY <1>3, <2>8, <2>11, <3>1 DEF ReadBy
  <2> HIDE DEF rest
  <2>13. <<s[k]>> \o SubSeq(s, k + 1, l) = SubSeq(s, k, l)
    BY <1>1
  <2>14. read[p + 1] = SubSeq(s, k, l)
    BY <2>10, <2>12, <2>13
  <2> QED
    BY <2>2, <2>14 DEF p
<1>7. l \in S
  <2> HIDE DEF S
  <2> QED
    BY <1>1, <1>5, <1>6, Upwards
<1>8. l - l = 0 /\ SubSeq(s, 1, l) = s
  BY <1>1
<1>9. read[1] = s
  BY <1>2, <1>7, <1>8
<1> QED
  BY <1>3, <1>9

\* A string that is written is read back, whatever follows it.
LEMMA QuotedReads ==
  ASSUME NEW s \in Seq(Letters), NEW tail \in Seq(Letters)
  PROVE  QuotedString(Quoted(s) \o tail) = s
<1>1. PICK escaped : EscapedBy(escaped, s) /\ Quoted(s) = <<"quote">> \o escaped[Len(s)] \o <<"quote">>
  BY QuotedIs
<1> DEFINE u == escaped[Len(s)]
           t == Quoted(s) \o tail
<1>2. SkipQuotes(t) = Len(u) + 2 /\ SubSeq(t, 2, Len(u) + 1) = u
  <2>1. t = (<<"quote">> \o u \o <<"quote">>) \o tail
    BY <1>1
  <2>2. u \in Seq(Letters)
    <3>1. Len(s) \in 0 .. Len(s)
      OBVIOUS
    <3> QED
      BY <1>1, <3>1, EscapedTyped
  <2> HIDE DEF t
  <2>3. Starts(t, u)
    <3> HIDE DEF u
    <3> QED
      BY <2>1, <2>2, QuotesStart
  <2> QED
    BY <1>1, <2>3, SkipQuoted
<1>3. Len(u) \in Nat
  <2>1. Len(s) \in 0 .. Len(s)
    OBVIOUS
  <2> QED
    BY <1>1, <2>1, EscapedTyped
<1> HIDE DEF t, u
<1>4. SkipQuotes(t) # 0 /\ SkipQuotes(t) - 1 = Len(u) + 1
  BY <1>2, <1>3
<1>5. QuotedString(t) = Process(u)
  BY <1>2, <1>4 DEF QuotedString
<1> QED
  BY <1>1, <1>5, ProcessEscaped DEF t, u

\* What is read from a text fits in its bytes.
LEMMA ReadIsString ==
  ASSUME NEW s \in Seq(Letters), NEW t, t = <<"quote">> \o s \o <<"quote">>,
         QuotedString(t) # Failure
  PROVE  QuotedString(t) \in Seq(Letters) /\ Bytes(QuotedString(t)) <= Bytes(s)
<1> DEFINE l == Len(s)
<1>1. "quote" \in Letters
  BY DEF Letters, Chars
<1>2. /\ t \in Seq(Letters) /\ Len(t) = l + 2 /\ l \in Nat
      /\ \A j \in 1 .. l : t[j + 1] = s[j]
  BY <1>1
<1>3. SkipQuotes(t) # 0 /\ QuotedString(t) = Process(SubSeq(t, 2, SkipQuotes(t) - 1))
  BY DEF QuotedString
<1>4. SkipQuotes(t) \in 2 .. l + 2
  <2>1. PICK end : EndBy(end, t) /\ SkipQuotes(t) = IF t # <<>> /\ t[1] = "quote" THEN end[2] ELSE 0
    <3>1. Len(t) \in Nat
      BY <1>2
    <3> QED
      BY <3>1, SkipIs
  <2>2. SkipQuotes(t) = end[2] /\ 2 \in 2 .. (l + 2) + 1 /\ l + 2 \in Nat
    BY <1>2, <1>3, <2>1
  <2>3. end[2] = 0 \/ end[2] \in 2 .. l + 2
    BY <1>2, <2>1, <2>2, EndTyped
  <2> QED
    BY <1>3, <2>2, <2>3
<1>5. PICK m \in 0 .. l : m = SkipQuotes(t) - 2
  BY <1>2, <1>4
<1>6. SkipQuotes(t) - 1 = m + 1
  BY <1>4, <1>5
<1> DEFINE u == SubSeq(t, 2, m + 1)
<1>7. /\ u \in Seq(Letters) /\ Len(u) = m
      /\ \A j \in 1 .. m : u[j] = s[j]
  <2>1. m + 1 <= Len(t)
    BY <1>2
  <2>2. u \in Seq(Letters) /\ Len(u) = m /\ \A j \in 1 .. m : u[j] = t[j + 1]
    BY <1>2, <2>1
  <2> QED
    BY <1>2, <2>2
<1>8. QuotedString(t) = Process(u)
  BY <1>3, <1>6
<1> HIDE DEF u
<1>9. PICK read : ReadBy(read, u) /\ Process(u) = read[1]
  BY <1>7, ProcessIs
<1>10. PICK a : SumBy(a, u)
  BY <1>7, SumExists
<1>11. PICK b : SumBy(b, s) /\ Bytes(s) = b[l]
  BY <1>2, BytesIs
<1>12. /\ \A k \in 0 .. m : a[k] \in Nat
       /\ a[0] = 0
       /\ \A k \in 1 .. m : a[k] = a[k - 1] + Width(u[k])
  <2>1. Len(u) \in Nat
    BY <1>7
  <2> QED
    BY <1>7, <1>10, <2>1, SumTyped
<1>13. /\ \A k \in 0 .. l : b[k] \in Nat
       /\ b[0] = 0
       /\ \A k \in 1 .. l : b[k] = b[k - 1] + Width(s[k])
  BY <1>2, <1>11, SumTyped
<1>14. read[1] \in Seq(Letters) /\ Bytes(read[1]) <= a[m] - a[0]
  <2>1. 1 \in 1 .. Len(u) + 1 /\ 1 - 1 = 0 /\ read[1] # Failure
    BY <1>7, <1>8, <1>9
  <2> QED
    BY <1>7, <1>9, <1>10, <2>1, ReadFits
<1> DEFINE S == {k \in 0 .. m : a[k] = b[k]}
<1>15. 0 \in S
  BY <1>12, <1>13
<1>16. ASSUME NEW k \in 0 .. m, k \in S, k < m PROVE k + 1 \in S
  <2>1. k + 1 \in 1 .. m /\ k + 1 \in 1 .. l /\ (k + 1) - 1 = k
    BY <1>2, <1>16
  <2>2. a[k + 1] = a[k] + Width(u[k + 1]) /\ b[k + 1] = b[k] + Width(s[k + 1])
    BY <1>12, <1>13, <2>1
  <2>3. a[k + 1] = b[k + 1]
    BY <1>7, <1>16, <2>1, <2>2
  <2> QED
    BY <2>1, <2>3
<1>17. m \in S
  <2>1. m \in Nat /\ m \in 0 .. m
    OBVIOUS
  <2> HIDE DEF S
  <2> QED
    BY <1>15, <1>16, <2>1, Upwards
<1>18. b[l] >= b[m] + (l - m)
  <2>1. l \in m .. l
    BY <1>2
  <2> QED
    BY <1>2, <1>11, <2>1, SumGrows
<1>19. Bytes(read[1]) \in Nat
  <2>1. Len(read[1]) \in Nat
    BY <1>14
  <2>2. PICK c : SumBy(c, read[1]) /\ Bytes(read[1]) = c[Len(read[1])]
    BY <2>1, BytesIs
  <2>3. \A k \in 0 .. Len(read[1]) : c[k] \in Nat
    BY <2>1, <2>2, SumTyped
  <2> QED
    BY <2>1, <2>2, <2>3
<1>20. b[l] \in Nat /\ b[m] \in Nat /\ a[m] = b[m] /\ a[0] = 0
  BY <1>2, <1>12, <1>13, <1>17
<1>21. Bytes(read[1]) <= b[l]
  BY <1>2, <1>14, <1>18, <1>19, <1>20
<1> QED
  BY <1>8, <1>9, <1>11, <1>14, <1>21

\* Whatever pjson_serialize_string writes, get_quoted_string reads back, and what
\* process_string reads fits its buffer, for strings of any length.
THEOREM StringsAlwaysSurvive == CharSpec => []StringsSurvive
<1>1. CharInv => StringsSurvive
  <2> SUFFICES ASSUME CharInv, task = "string" PROVE StringsSurvive
    BY DEF StringsSurvive
  <2>1. input \in Seq(Letters)
    BY DEF CharInv, Alphabet, Letters
  <2> DEFINE t == <<"quote">> \o input \o <<"quote">>
             read == QuotedString(t)
  <2>2. QuotedString(Quoted(input) \o input) = input
    BY <2>1, QuotedReads
  <2>3. ASSUME read # Failure PROVE Bytes(read) <= Bytes(input) /\ QuotedString(Quoted(read)) = read
    <3>1. read \in Seq(Letters) /\ Bytes(read) <= Bytes(input)
      BY <2>1, <2>3, ReadIsString
    <3> HIDE DEF read
    <3>2. <<>> \in Seq(Letters)
      OBVIOUS
    <3>3. QuotedString(Quoted(read) \o <<>>) = read
      BY <3>1, <3>2, QuotedReads
    <3>4. Quoted(read) \o <<>> = Quoted(read)
      <4>1. PICK escaped : EscapedBy(escaped, read) /\ Quoted(read) = <<"quote">> \o escaped[Len(read)] \o <<"quote">>
        BY <3>1, QuotedIs
      <4>2. escaped[Len(read)] \in Seq(Letters) /\ "quote" \in Letters
        <5>1. Len(read) \in 0 .. Len(read)
          BY <3>1
        <5> QED
          BY <3>1, <4>1, <5>1, EscapedTyped DEF Letters, Chars
      <4>3. Quoted(read) \in Seq(Letters)
        BY <4>1, <4>2
      <4> QED
        BY <4>3
    <3> QED
      BY <3>1, <3>3, <3>4
  <2> QED
    BY <2>2, <2>3 DEF StringsSurvive
<1> QED
  BY <1>1, CharTyping, PTL

-----------------------------------------------------------------------------
(* Comments *)

\* Where a token of one or two elements stands.
LEMMA AtOne ==
  ASSUME NEW X, NEW t \in Seq(X), NEW i \in Nat, i >= 1, NEW a
  PROVE  At(t, i, <<a>>) <=> i <= Len(t) /\ t[i] = a
<1>1. Len(<<a>>) = 1 /\ i + 1 - 1 = i /\ Len(t) \in Nat
  OBVIOUS
<1>2. At(t, i, <<a>>) <=> i <= Len(t) /\ SubSeq(t, i, i) = <<a>>
  BY <1>1 DEF At
<1>3. i <= Len(t) => Len(SubSeq(t, i, i)) = 1 /\ SubSeq(t, i, i)[1] = t[i] /\ SubSeq(t, i, i) \in Seq(X)
  BY <1>1
<1>4. i <= Len(t) /\ t[i] = a => SubSeq(t, i, i) = <<a>>
  <2> SUFFICES ASSUME i <= Len(t), t[i] = a PROVE SubSeq(t, i, i) = <<a>>
    OBVIOUS
  <2>1. a \in X
    BY <1>1
  <2>2. <<a>> \in Seq(X) /\ Len(<<a>>) = 1 /\ <<a>>[1] = a
    BY <2>1
  <2>3. \A j \in 1 .. Len(<<a>>) : <<a>>[j] = SubSeq(t, i, i)[j]
    BY <1>3, <2>2
  <2> QED
    BY <1>3, <2>2, <2>3, SeqEqual
<1>5. <<a>>[1] = a
  OBVIOUS
<1> QED
  BY <1>2, <1>3, <1>4, <1>5

LEMMA AtTwo ==
  ASSUME NEW X, NEW t \in Seq(X), NEW i \in Nat, i >= 1, NEW a, NEW b
  PROVE  At(t, i, <<a, b>>) <=> i + 1 <= Len(t) /\ t[i] = a /\ t[i + 1] = b
<1>1. Len(<<a, b>>) = 2 /\ i + 2 - 1 = i + 1 /\ Len(t) \in Nat
  OBVIOUS
<1>2. At(t, i, <<a, b>>) <=> i + 1 <= Len(t) /\ SubSeq(t, i, i + 1) = <<a, b>>
  BY <1>1 DEF At
<1>3. i + 1 <= Len(t) => /\ Len(SubSeq(t, i, i + 1)) = 2 /\ SubSeq(t, i, i + 1) \in Seq(X)
                         /\ SubSeq(t, i, i + 1)[1] = t[i] /\ SubSeq(t, i, i + 1)[2] = t[i + 1]
  BY <1>1
<1>4. i + 1 <= Len(t) /\ t[i] = a /\ t[i + 1] = b => SubSeq(t, i, i + 1) = <<a, b>>
  <2> SUFFICES ASSUME i + 1 <= Len(t), t[i] = a, t[i + 1] = b PROVE SubSeq(t, i, i + 1) = <<a, b>>
    OBVIOUS
  <2>1. a \in X /\ b \in X
    BY <1>1
  <2>2. <<a, b>> \in Seq(X) /\ Len(<<a, b>>) = 2 /\ <<a, b>>[1] = a /\ <<a, b>>[2] = b
    BY <2>1
  <2>3. \A j \in 1 .. Len(<<a, b>>) : <<a, b>>[j] = SubSeq(t, i, i + 1)[j]
    <3>1. \A j \in 1 .. 2 : j = 1 \/ j = 2
      OBVIOUS
    <3> QED
      BY <1>3, <2>2, <3>1
  <2> QED
    BY <1>3, <2>2, <2>3, SeqEqual
<1>5. <<a, b>>[1] = a /\ <<a, b>>[2] = b
  OBVIOUS
<1> QED
  BY <1>2, <1>3, <1>4, <1>5

\* strstr
LEMMA FindIs ==
  ASSUME NEW t, NEW l \in Nat, l = Len(t), NEW i \in 1 .. l + 1, NEW token
  PROVE  /\ Find(t, i, token) \in i .. l + 1
         /\ Find(t, i, token) <= l => At(t, Find(t, i, token), token)
         /\ i <= l /\ At(t, i, token) => Find(t, i, token) = i
         /\ i <= l /\ ~At(t, i, token) => Find(t, i, token) = Find(t, i + 1, token)
<1> DEFINE S == {j \in i .. l : At(t, j, token)} \cup {l + 1}
<1>1. S \in SUBSET Nat /\ S # {} /\ S \subseteq i .. l + 1
  OBVIOUS
<1>2. Find(t, i, token) = Min(S)
  BY DEF Find
<1>3. Min(S) \in S /\ \A j \in S : Min(S) <= j
  <2> HIDE DEF S
  <2>1. \E x \in S : \A y \in S : x <= y
    BY <1>1, LeastNumber
  <2> QED
    BY <2>1 DEF Min
<1>4. Find(t, i, token) \in i .. l + 1
  BY <1>1, <1>2, <1>3
<1>5. ASSUME Find(t, i, token) <= l PROVE At(t, Find(t, i, token), token)
  <2>1. Find(t, i, token) # l + 1
    BY <1>4, <1>5
  <2> QED
    BY <1>2, <1>3, <2>1
<1>6. ASSUME i <= l, At(t, i, token) PROVE Find(t, i, token) = i
  <2>1. i \in S
    BY <1>6
  <2> HIDE DEF S
  <2> QED
    BY <1>2, <1>3, <1>4, <2>1
<1>7. ASSUME i <= l, ~At(t, i, token) PROVE Find(t, i, token) = Find(t, i + 1, token)
  <2>1. \A j \in i .. l : j = i \/ j \in i + 1 .. l
    OBVIOUS
  <2>2. \A j \in i + 1 .. l : j \in i .. l
    OBVIOUS
  <2>3. {j \in i .. l : At(t, j, token)} = {j \in i + 1 .. l : At(t, j, token)}
    BY <1>7, <2>1, <2>2
  <2> QED
    BY <2>3 DEF Find
<1> QED
  BY <1>4, <1>5, <1>6, <1>7

\* The function that Blanked reads from.
Modes == {"code", "string"}

BlankAt(t, start, end, i, g, mode) ==
  LET at == IF i <= Len(t) /\ t[i] = "backslash" THEN i + 1 ELSE i
      close == Find(t, at + Len(start), end)
  IN  IF at > Len(t) THEN {}
      ELSE IF t[i] = "quote"
      THEN g[i + 1][IF mode = "code" THEN "string" ELSE "code"]
      ELSE IF mode # "code" \/ ~At(t, at, start) THEN g[at + 1][mode]
      ELSE IF close > Len(t) THEN at .. at + Len(start) - 1
      ELSE Comment(at, close, end) \cup g[close + Len(end)]["code"]

BlankedBy(from, t, start, end) ==
  from = [i \in 1 .. Len(t) + 1 |-> [mode \in Modes |-> BlankAt(t, start, end, i, from, mode)]]

Tokens(start, end) == Len(start) \in {1, 2} /\ Len(end) \in {1, 2}

SameAfter(g, h, i, m) == \A j \in 1 .. m : i < j => g[j] = h[j]

\* What comes after i is all that the value at i depends on.
LEMMA BlankLocal ==
  ASSUME NEW t, NEW l \in Nat, l = Len(t), NEW start, NEW end, Tokens(start, end),
         NEW i \in 1 .. l + 1, NEW g, NEW h, SameAfter(g, h, i, l + 1), NEW mode
  PROVE  BlankAt(t, start, end, i, g, mode) = BlankAt(t, start, end, i, h, mode)
<1> DEFINE at == IF i <= Len(t) /\ t[i] = "backslash" THEN i + 1 ELSE i
           close == Find(t, at + Len(start), end)
<1>1. CASE at > l
  BY <1>1 DEF BlankAt
<1>2. CASE ~(at > l)
  <2>1. at \in i .. l /\ i \in 1 .. l
    BY <1>2
  <2>2. i + 1 \in 1 .. l + 1 /\ i < i + 1 /\ at + 1 \in 1 .. l + 1 /\ i < at + 1
    BY <2>1
  <2>3. ASSUME At(t, at, start), ~(close > l)
        PROVE  close + Len(end) \in 1 .. l + 1 /\ i < close + Len(end)
    <3> DEFINE q == at + Len(start)
    <3>1. at + Len(start) - 1 <= l
      BY <2>3 DEF At
    <3> HIDE DEF at
    <3>2. q \in 1 .. l + 1 /\ q \in i .. l + 1
      BY <2>1, <3>1 DEF Tokens
    <3> HIDE DEF q
    <3>3. /\ Find(t, q, end) \in q .. l + 1
          /\ Find(t, q, end) <= l => At(t, Find(t, q, end), end)
      BY <3>2, FindIs
    <3>4. close = Find(t, q, end)
      BY DEF q
    <3> HIDE DEF close
    <3>5. close \in q .. l + 1 /\ close <= l
      BY <2>3, <3>2, <3>3, <3>4
    <3>6. close + Len(end) - 1 <= l
      BY <3>3, <3>4, <3>5 DEF At
    <3>7. PICK e \in {1, 2} : e = Len(end)
      BY DEF Tokens
    <3>8. close + e - 1 <= l
      BY <3>6, <3>7
    <3>9. PICK c \in Nat : c = close /\ i <= c
      BY <3>2, <3>5
    <3>10. c + e \in 1 .. l + 1 /\ i < c + e
      BY <3>8, <3>9
    <3> QED
      BY <3>7, <3>9, <3>10
  <2>4. g[i + 1] = h[i + 1] /\ g[at + 1] = h[at + 1]
    BY <2>2 DEF SameAfter
  <2>5. At(t, at, start) /\ ~(close > l) => g[close + Len(end)] = h[close + Len(end)]
    BY <2>3 DEF SameAfter
  <2> QED
    BY <2>4, <2>5 DEF BlankAt
<1> QED
  BY <1>1, <1>2

LEMMA BlankedExists ==
  ASSUME NEW t, NEW l \in Nat, l = Len(t), NEW start, NEW end, Tokens(start, end)
  PROVE  \E from : BlankedBy(from, t, start, end)
<1> DEFINE m == l + 1
           Value(i, g) == [mode \in Modes |-> BlankAt(t, start, end, i, g, mode)]
           Part0(k, g) == \A i \in k .. m : g[i] = Value(i, g)
           S == {k \in 1 .. m : \E g : Part0(k, g)}
<1>1. ASSUME NEW i \in 1 .. m, NEW g, NEW h, SameAfter(g, h, i, m)
      PROVE  Value(i, g) = Value(i, h)
  <2>1. ASSUME NEW mode \in Modes PROVE BlankAt(t, start, end, i, g, mode) = BlankAt(t, start, end, i, h, mode)
    BY <1>1, BlankLocal
  <2> QED
    BY <2>1
<1>2. ASSUME NEW k \in 1 .. m, \A j \in 1 .. m : k < j => j \in S PROVE k \in S
  <2>1. PICK g : \A i \in k + 1 .. m : g[i] = Value(i, g)
    <3>1. CASE k = m
      <4>1. k + 1 .. m = {}
        BY <3>1
      <4> QED
        BY <4>1
    <3>2. CASE k # m
      <4>1. k + 1 \in 1 .. m /\ k < k + 1
        BY <3>2
      <4>2. k + 1 \in S
        BY <1>2, <4>1
      <4> QED
        BY <4>2
    <3> QED
      BY <3>1, <3>2
  <2> DEFINE h == [i \in 1 .. m |-> IF i = k THEN Value(k, g) ELSE g[i]]
  <2> HIDE DEF Value
  <2>2. \A i \in 1 .. m : h[i] = IF i = k THEN Value(k, g) ELSE g[i]
    OBVIOUS
  <2> HIDE DEF h
  <2>3. ASSUME NEW i \in k .. m PROVE h[i] = Value(i, h)
    <3>1. i \in 1 .. m /\ (i = k \/ i \in k + 1 .. m)
      OBVIOUS
    <3>2. SameAfter(g, h, i, m)
      BY <2>2 DEF SameAfter
    <3>3. Value(i, g) = Value(i, h)
      BY <1>1, <3>1, <3>2
    <3> QED
      BY <2>1, <2>2, <3>1, <3>3
  <2> QED
    BY <2>3
<1>3. 1 \in S
  <2>1. m \in Nat /\ 1 \in 1 .. m
    OBVIOUS
  <2> HIDE DEF S, m
  <2> QED
    BY <1>2, <2>1, Downwards
<1>4. PICK g : \A i \in 1 .. m : g[i] = Value(i, g)
  BY <1>3
<1> DEFINE from == [i \in 1 .. m |-> g[i]]
<1>5. from = [i \in 1 .. m |-> Value(i, from)]
  <2>1. ASSUME NEW i \in 1 .. m PROVE from[i] = Value(i, from)
    <3>1. SameAfter(g, from, i, m)
      BY DEF SameAfter
    <3>2. Value(i, g) = Value(i, from)
      <4> HIDE DEF from, Value
      <4> QED
        BY <1>1, <3>1
    <3> HIDE DEF Value
    <3> QED
      BY <1>4, <3>2
  <2> HIDE DEF Value
  <2> QED
    BY <2>1
<1>6. BlankedBy(from, t, start, end)
  <2> HIDE DEF from
  <2> QED
    BY <1>5 DEF BlankedBy
<1> QED
  BY <1>6

LEMMA BlankedIs ==
  ASSUME NEW t, NEW l \in Nat, l = Len(t), NEW start, NEW end, Tokens(start, end)
  PROVE  \E from : BlankedBy(from, t, start, end) /\ Blanked(t, start, end) = from[1]["code"]
<1> DEFINE v == CHOOSE from : BlankedBy(from, t, start, end)
<1>1. BlankedBy(v, t, start, end)
  BY BlankedExists
<1>2. Blanked(t, start, end) = v[1]["code"]
  BY DEF Blanked, BlankedBy, BlankAt, Modes
<1> QED
  BY <1>1, <1>2

\* What an element can be part of.
Ins == {"code", "string", "block", "line"}

Is(kind, size, next) == [kind |-> kind, size |-> size, next |-> next]

\* The parts that the code, a string and a comment start with.
LEMMA PartOfCode ==
  ASSUME NEW X, NEW t \in Seq(X), NEW i \in 1 .. Len(t)
  PROVE  /\ t[i] = "quote" => Part(t, i, "code") = Is("string", 1, "string")
         /\ At(t, i, BlockStart) => Part(t, i, "code") = Is("block", 2, "block")
         /\ At(t, i, LineStart) => Part(t, i, "code") = Is("line", 2, "line")
         /\ t[i] # "quote" /\ ~At(t, i, BlockStart) /\ ~At(t, i, LineStart)
              => Part(t, i, "code") = Is("code", 1, "code")
<1>1. At(t, i, BlockStart) <=> i + 1 <= Len(t) /\ t[i] = "slash" /\ t[i + 1] = "*"
  BY AtTwo DEF BlockStart
<1>2. At(t, i, LineStart) <=> i + 1 <= Len(t) /\ t[i] = "slash" /\ t[i + 1] = "slash"
  BY AtTwo DEF LineStart
<1>3. CASE t[i] = "quote"
  <2>1. ~At(t, i, BlockStart) /\ ~At(t, i, LineStart)
    BY <1>1, <1>2, <1>3
  <2> QED
    BY <1>3, <2>1 DEF Part, Is
<1>4. CASE At(t, i, BlockStart)
  <2>1. t[i] # "quote" /\ ~At(t, i, LineStart)
    BY <1>1, <1>2, <1>4
  <2> QED
    BY <1>4, <2>1 DEF Part, Is
<1>5. CASE At(t, i, LineStart)
  <2>1. t[i] # "quote" /\ ~At(t, i, BlockStart)
    BY <1>1, <1>2, <1>5
  <2> QED
    BY <1>5, <2>1 DEF Part, Is
<1>6. CASE t[i] # "quote" /\ ~At(t, i, BlockStart) /\ ~At(t, i, LineStart)
  BY <1>6 DEF Part, Is
<1> QED
  BY <1>3, <1>4, <1>5, <1>6

LEMMA PartOfString ==
  ASSUME NEW X, NEW t \in Seq(X), NEW i \in 1 .. Len(t)
  PROVE  /\ t[i] = "backslash" /\ i < Len(t) => Part(t, i, "string") = Is("string", 2, "string")
         /\ t[i] = "quote" => Part(t, i, "string") = Is("string", 1, "code")
         /\ ~(t[i] = "backslash" /\ i < Len(t)) /\ t[i] # "quote"
              => Part(t, i, "string") = Is("string", 1, "string")
BY DEF Part, Is

LEMMA PartOfComment ==
  ASSUME NEW X, NEW t \in Seq(X), NEW i \in 1 .. Len(t)
  PROVE  /\ At(t, i, BlockEnd) => Part(t, i, "block") = Is("block", 2, "code") /\ i + 1 <= Len(t)
         /\ ~At(t, i, BlockEnd) => Part(t, i, "block") = Is("block", 1, "block")
         /\ t[i] = "newline" => Part(t, i, "line") = Is("line", 1, "code")
         /\ t[i] # "newline" => Part(t, i, "line") = Is("line", 1, "line")
<1>1. At(t, i, BlockEnd) <=> i + 1 <= Len(t) /\ t[i] = "*" /\ t[i + 1] = "slash"
  BY AtTwo DEF BlockEnd
<1> QED
  BY <1>1 DEF Part, Is

\* A part has one or two elements, and all of them are there.
LEMMA PartTyped ==
  ASSUME NEW X, NEW t \in Seq(X), NEW i \in 1 .. Len(t), NEW in \in Ins
  PROVE  /\ Part(t, i, in).kind \in Ins /\ Part(t, i, in).next \in Ins
         /\ Part(t, i, in).size \in {1, 2}
         /\ i + Part(t, i, in).size <= Len(t) + 1
<1>0. Len(t) \in Nat
  OBVIOUS
<1>1. /\ At(t, i, BlockStart) => i + 1 <= Len(t)
      /\ At(t, i, LineStart) => i + 1 <= Len(t)
  BY AtTwo DEF BlockStart, LineStart
<1>2. \A k, n \in Ins : Is(k, 1, n).kind \in Ins /\ Is(k, 1, n).next \in Ins /\ Is(k, 1, n).size = 1
  BY DEF Is
<1>3. \A k, n \in Ins : Is(k, 2, n).kind \in Ins /\ Is(k, 2, n).next \in Ins /\ Is(k, 2, n).size = 2
  BY DEF Is
<1>4. (\E k, n \in Ins : Part(t, i, in) = Is(k, 1, n))
        \/ (i + 1 <= Len(t) /\ \E k, n \in Ins : Part(t, i, in) = Is(k, 2, n))
  <2>0. "code" \in Ins /\ "string" \in Ins /\ "block" \in Ins /\ "line" \in Ins
    BY DEF Ins
  <2>1. CASE in = "code"
    BY <1>1, <2>0, <2>1, PartOfCode
  <2>2. CASE in = "string"
    <3>1. i < Len(t) => i + 1 <= Len(t)
      BY <1>0
    <3> QED
      BY <2>0, <2>2, <3>1, PartOfString
  <2>3. CASE in \in {"block", "line"}
    BY <2>0, <2>3, PartOfComment
  <2> QED
    BY <2>1, <2>2, <2>3 DEF Ins
<1>5. CASE \E k, n \in Ins : Part(t, i, in) = Is(k, 1, n)
  <2>1. i + 1 <= Len(t) + 1
    BY <1>0
  <2> QED
    BY <1>2, <1>5, <2>1
<1>6. CASE i + 1 <= Len(t) /\ \E k, n \in Ins : Part(t, i, in) = Is(k, 2, n)
  <2>1. i + 2 <= Len(t) + 1
    BY <1>0, <1>6
  <2> QED
    BY <1>3, <1>6, <2>1
<1> QED
  BY <1>4, <1>5, <1>6

\* The function that Kinds reads from.
KindsAt(t, i, g, in) ==
  IF i > Len(t) THEN [j \in {i} |-> in]
  ELSE LET part == Part(t, i, in)
           rest == g[i + part.size][part.next]
       IN  [j \in i .. Len(t) + 1 |-> IF j < i + part.size THEN part.kind ELSE rest[j]]

KindsBy(from, t) ==
  from = [i \in 1 .. Len(t) + 1 |-> [in \in Ins |-> KindsAt(t, i, from, in)]]

\* What comes after i is all that the kinds from i on depend on.
LEMMA KindsLocal ==
  ASSUME NEW X, NEW t \in Seq(X), NEW l \in Nat, l = Len(t), NEW i \in 1 .. l + 1,
         NEW g, NEW h, SameAfter(g, h, i, l + 1), NEW in \in Ins
  PROVE  KindsAt(t, i, g, in) = KindsAt(t, i, h, in)
<1>1. CASE i > l
  BY <1>1 DEF KindsAt
<1>2. CASE ~(i > l)
  <2>1. i \in 1 .. Len(t)
    BY <1>2
  <2>2. PICK s \in {1, 2} : s = Part(t, i, in).size /\ i + s <= l + 1
    BY <2>1, PartTyped
  <2>3. i + s \in 1 .. l + 1 /\ i < i + s
    BY <2>2
  <2>4. g[i + s] = h[i + s]
    BY <2>3 DEF SameAfter
  <2> QED
    BY <2>2, <2>4 DEF KindsAt
<1> QED
  BY <1>1, <1>2

LEMMA KindsExist ==
  ASSUME NEW X, NEW t \in Seq(X), NEW l \in Nat, l = Len(t)
  PROVE  \E from : KindsBy(from, t)
<1> DEFINE m == l + 1
           Value(i, g) == [in \in Ins |-> KindsAt(t, i, g, in)]
           Part0(k, g) == \A i \in k .. m : g[i] = Value(i, g)
           S == {k \in 1 .. m : \E g : Part0(k, g)}
<1>1. ASSUME NEW i \in 1 .. m, NEW g, NEW h, SameAfter(g, h, i, m)
      PROVE  Value(i, g) = Value(i, h)
  <2>1. ASSUME NEW in \in Ins PROVE KindsAt(t, i, g, in) = KindsAt(t, i, h, in)
    BY <1>1, KindsLocal
  <2> QED
    BY <2>1
<1>2. ASSUME NEW k \in 1 .. m, \A j \in 1 .. m : k < j => j \in S PROVE k \in S
  <2>1. PICK g : \A i \in k + 1 .. m : g[i] = Value(i, g)
    <3>1. CASE k = m
      <4>1. k + 1 .. m = {}
        BY <3>1
      <4> QED
        BY <4>1
    <3>2. CASE k # m
      <4>1. k + 1 \in 1 .. m /\ k < k + 1
        BY <3>2
      <4>2. k + 1 \in S
        BY <1>2, <4>1
      <4> QED
        BY <4>2
    <3> QED
      BY <3>1, <3>2
  <2> DEFINE h == [i \in 1 .. m |-> IF i = k THEN Value(k, g) ELSE g[i]]
  <2> HIDE DEF Value
  <2>2. \A i \in 1 .. m : h[i] = IF i = k THEN Value(k, g) ELSE g[i]
    OBVIOUS
  <2> HIDE DEF h
  <2>3. ASSUME NEW i \in k .. m PROVE h[i] = Value(i, h)
    <3>1. i \in 1 .. m /\ (i = k \/ i \in k + 1 .. m)
      OBVIOUS
    <3>2. SameAfter(g, h, i, m)
      BY <2>2 DEF SameAfter
    <3>3. Value(i, g) = Value(i, h)
      BY <1>1, <3>1, <3>2
    <3> QED
      BY <2>1, <2>2, <3>1, <3>3
  <2> QED
    BY <2>3
<1>3. 1 \in S
  <2>1. m \in Nat /\ 1 \in 1 .. m
    OBVIOUS
  <2> HIDE DEF S, m
  <2> QED
    BY <1>2, <2>1, Downwards
<1>4. PICK g : \A i \in 1 .. m : g[i] = Value(i, g)
  BY <1>3
<1> DEFINE from == [i \in 1 .. m |-> g[i]]
<1>5. from = [i \in 1 .. m |-> Value(i, from)]
  <2>1. ASSUME NEW i \in 1 .. m PROVE from[i] = Value(i, from)
    <3>1. SameAfter(g, from, i, m)
      BY DEF SameAfter
    <3>2. Value(i, g) = Value(i, from)
      <4> HIDE DEF from, Value
      <4> QED
        BY <1>1, <3>1
    <3> HIDE DEF Value
    <3> QED
      BY <1>4, <3>2
  <2> HIDE DEF Value
  <2> QED
    BY <2>1
<1>6. KindsBy(from, t)
  <2> HIDE DEF from
  <2> QED
    BY <1>5 DEF KindsBy
<1> QED
  BY <1>6

LEMMA KindsIs ==
  ASSUME NEW X, NEW t \in Seq(X)
  PROVE  \E from : KindsBy(from, t) /\ Kinds(t) = from[1]["code"]
<1> DEFINE v == CHOOSE from : KindsBy(from, t)
<1>1. Len(t) \in Nat
  OBVIOUS
<1>2. KindsBy(v, t)
  BY <1>1, KindsExist
<1>3. Kinds(t) = v[1]["code"]
  BY DEF Kinds, KindsBy, KindsAt, Ins
<1> QED
  BY <1>2, <1>3

\* From i on, inside `in`, the elements are what `kind` says.
Agree(from, t, kind, i, in) == \A j \in i .. Len(t) + 1 : from[i][in][j] = kind[j]

LEMMA KindsUnfold ==
  ASSUME NEW t, NEW from, KindsBy(from, t), NEW i \in 1 .. Len(t) + 1, NEW in \in Ins
  PROVE  from[i][in] = KindsAt(t, i, from, in)
BY DEF KindsBy

\* The kinds of one part, and what is agreed on after it.
LEMMA AgreeStep ==
  ASSUME NEW X, NEW t \in Seq(X), NEW from, KindsBy(from, t), NEW kind,
         NEW i \in 1 .. Len(t), NEW in \in Ins, Agree(from, t, kind, i, in),
         NEW k, NEW s \in Nat, 1 <= s, s <= 2, NEW n \in Ins, Part(t, i, in) = Is(k, s, n), i + s <= Len(t) + 1
  PROVE  /\ kind[i] = k
         /\ s = 2 => kind[i + 1] = k
         /\ Agree(from, t, kind, i + s, n)
<1>1. Len(t) \in Nat
  OBVIOUS
<1>2. Part(t, i, in).kind = k /\ Part(t, i, in).size = s /\ Part(t, i, in).next = n
  BY DEF Is
<1>3. from[i][in] = KindsAt(t, i, from, in)
  <2>1. i \in 1 .. Len(t) + 1
    BY <1>1
  <2> QED
    BY <2>1, KindsUnfold
<1>4. from[i][in] = [j \in i .. Len(t) + 1 |-> IF j < i + s THEN k ELSE from[i + s][n][j]]
  <2>1. ~(i > Len(t))
    BY <1>1
  <2> QED
    BY <1>2, <1>3, <2>1 DEF KindsAt
<1>5. \A j \in i .. Len(t) + 1 : kind[j] = IF j < i + s THEN k ELSE from[i + s][n][j]
  BY <1>4 DEF Agree
<1>6. i \in i .. Len(t) + 1 /\ i < i + s
  BY <1>1
<1>7. s = 2 => i + 1 \in i .. Len(t) + 1 /\ i + 1 < i + s
  BY <1>1
<1>8. \A j \in i + s .. Len(t) + 1 : j \in i .. Len(t) + 1 /\ ~(j < i + s)
  BY <1>1
<1>9. Agree(from, t, kind, i + s, n)
  BY <1>5, <1>8 DEF Agree
<1> QED
  BY <1>5, <1>6, <1>7, <1>9

LEMMA AgreeOne ==
  ASSUME NEW X, NEW t \in Seq(X), NEW from, KindsBy(from, t), NEW kind,
         NEW i \in 1 .. Len(t), NEW in \in Ins, Agree(from, t, kind, i, in),
         NEW k, NEW n \in Ins, Part(t, i, in) = Is(k, 1, n)
  PROVE  kind[i] = k /\ Agree(from, t, kind, i + 1, n)
<1>1. PICK s \in Nat : s = 1 /\ 1 <= s /\ s <= 2
  OBVIOUS
<1>2. Part(t, i, in) = Is(k, s, n) /\ i + s <= Len(t) + 1
  BY <1>1
<1>3. kind[i] = k /\ Agree(from, t, kind, i + s, n)
  BY <1>1, <1>2, AgreeStep
<1> QED
  BY <1>1, <1>3

LEMMA AgreeTwo ==
  ASSUME NEW X, NEW t \in Seq(X), NEW from, KindsBy(from, t), NEW kind,
         NEW i \in 1 .. Len(t), NEW in \in Ins, Agree(from, t, kind, i, in),
         NEW k, NEW n \in Ins, Part(t, i, in) = Is(k, 2, n), i + 1 <= Len(t)
  PROVE  kind[i] = k /\ kind[i + 1] = k /\ Agree(from, t, kind, i + 2, n)
<1>1. PICK s \in Nat : s = 2 /\ 1 <= s /\ s <= 2
  OBVIOUS
<1>2. Part(t, i, in) = Is(k, s, n) /\ i + s <= Len(t) + 1
  BY <1>1
<1>3. kind[i] = k /\ (s = 2 => kind[i + 1] = k) /\ Agree(from, t, kind, i + s, n)
  BY <1>1, <1>2, AgreeStep
<1> QED
  BY <1>1, <1>3

LEMMA AgreeEnd ==
  ASSUME NEW X, NEW t \in Seq(X), NEW from, KindsBy(from, t), NEW kind,
         NEW in \in Ins, Agree(from, t, kind, Len(t) + 1, in)
  PROVE  kind[Len(t) + 1] = in
<1> DEFINE m == Len(t) + 1
<1>1. m \in 1 .. m /\ m > Len(t) /\ m \in m .. m
  OBVIOUS
<1>2. from[m][in] = KindsAt(t, m, from, in)
  BY <1>1 DEF KindsBy
<1>3. from[m][in] = [j \in {m} |-> in]
  BY <1>1, <1>2 DEF KindsAt
<1>4. from[m][in][m] = in
  BY <1>3
<1> QED
  BY <1>1, <1>4 DEF Agree

\* The texts that CommentsRemoved is about.
PlainText(t, kind) ==
  /\ kind[Len(t) + 1] = "code"
  /\ \A i \in 1 .. Len(t) : kind[i] \in {"line", "block"} => t[i] \notin {"quote", "backslash"}
  /\ \A i \in 1 .. Len(t) : kind[i] = "line" => ~At(t, i, BlockStart)
  /\ \A i \in 1 .. Len(t) : kind[i] = "code" => t[i] # "backslash"

\* What the model reads at i is what blanking out sees there.
LEMMA BlankSteps ==
  ASSUME NEW t, NEW l \in Nat, l = Len(t), NEW start, NEW end, Tokens(start, end),
         NEW from, BlankedBy(from, t, start, end), NEW i \in 1 .. l + 1
  PROVE  /\ i = l + 1 => from[i]["code"] = {} /\ from[i]["string"] = {}
         /\ i <= l /\ t[i] = "quote" => /\ from[i]["code"] = from[i + 1]["string"]
                                        /\ from[i]["string"] = from[i + 1]["code"]
         /\ i <= l /\ t[i] \notin {"quote", "backslash"} => from[i]["string"] = from[i + 1]["string"]
         /\ i < l /\ t[i] = "backslash" => from[i]["string"] = from[i + 2]["string"]
         /\ i <= l /\ t[i] \notin {"quote", "backslash"} /\ ~At(t, i, start)
              => from[i]["code"] = from[i + 1]["code"]
<1>1. from[i]["code"] = BlankAt(t, start, end, i, from, "code")
      /\ from[i]["string"] = BlankAt(t, start, end, i, from, "string")
  BY DEF BlankedBy, Modes
<1>2. CASE i = l + 1
  <2>1. ~(i <= l) /\ i > l
    BY <1>2
  <2>2. BlankAt(t, start, end, i, from, "code") = {} /\ BlankAt(t, start, end, i, from, "string") = {}
    BY <2>1 DEF BlankAt
  <2> QED
    BY <1>1, <2>1, <2>2
<1>3. CASE i <= l /\ t[i] = "quote"
  <2>1. ~(i > l) /\ i # l + 1
    BY <1>3
  <2> QED
    BY <1>1, <1>3, <2>1 DEF BlankAt
<1>4. CASE i <= l /\ t[i] \notin {"quote", "backslash"}
  <2>1. ~(i > l) /\ i # l + 1
    BY <1>4
  <2>2. BlankAt(t, start, end, i, from, "string") = from[i + 1]["string"]
    BY <1>4, <2>1 DEF BlankAt
  <2>3. ~At(t, i, start) => BlankAt(t, start, end, i, from, "code") = from[i + 1]["code"]
    BY <1>4, <2>1 DEF BlankAt
  <2> QED
    BY <1>1, <1>4, <2>1, <2>2, <2>3
<1>5. CASE i <= l /\ t[i] = "backslash"
  <2>1. i # l + 1 /\ i <= l
    BY <1>5
  <2>2. ASSUME i < l PROVE from[i]["string"] = from[i + 2]["string"]
    <3>1. ~(i + 1 > l) /\ (i + 1) + 1 = i + 2
      BY <2>2
    <3>2. BlankAt(t, start, end, i, from, "string") = from[i + 2]["string"]
      BY <1>5, <3>1 DEF BlankAt
    <3> QED
      BY <1>1, <3>2
  <2> QED
    BY <1>5, <2>1, <2>2
<1> QED
  BY <1>2, <1>3, <1>4, <1>5

\* The elements from i on that are part of k.
KindFrom(kind, l, i, k) == {j \in i .. l : kind[j] = k}

\* How the elements of a kind change over a part.
LEMMA KindSkip ==
  ASSUME NEW l \in Nat, NEW i \in 1 .. l, NEW kind, NEW k, kind[i] # k
  PROVE  KindFrom(kind, l, i, k) = KindFrom(kind, l, i + 1, k)
<1>1. \A j : j \in i .. l <=> j = i \/ j \in i + 1 .. l
  OBVIOUS
<1> QED
  BY <1>1 DEF KindFrom

LEMMA KindJump ==
  ASSUME NEW l \in Nat, NEW i \in 1 .. l, NEW c \in i .. l, NEW kind, NEW k,
         \A j \in i .. c : kind[j] = k
  PROVE  KindFrom(kind, l, i, k) = (i .. c) \cup KindFrom(kind, l, c + 1, k)
<1>1. \A j : j \in i .. l <=> j \in i .. c \/ j \in c + 1 .. l
  OBVIOUS
<1> QED
  BY <1>1 DEF KindFrom

LEMMA KindNone ==
  ASSUME NEW l \in Nat, NEW kind, NEW k
  PROVE  KindFrom(kind, l, l + 1, k) = {}
<1>1. l + 1 .. l = {}
  OBVIOUS
<1> QED
  BY <1>1 DEF KindFrom

\* A block comment that ends is closed where strstr finds its end.
BlockCloses(from, t, kind, i, close) ==
  /\ close \in i .. Len(t) /\ close + 1 <= Len(t)
  /\ \A j \in i .. close + 1 : kind[j] = "block"
  /\ Agree(from, t, kind, close + 2, "code")

LEMMA BlockClosed ==
  ASSUME NEW X, NEW t \in Seq(X), NEW l \in Nat, l = Len(t), NEW from, KindsBy(from, t), NEW kind,
         kind[l + 1] = "code", NEW i \in 1 .. l + 1, Agree(from, t, kind, i, "block")
  PROVE  BlockCloses(from, t, kind, i, Find(t, i, BlockEnd))
<1> DEFINE Good(p) == Agree(from, t, kind, p, "block") => BlockCloses(from, t, kind, p, Find(t, p, BlockEnd))
           S == {p \in 1 .. l + 1 : Good(p)}
<1>0. "block" \in Ins /\ "code" \in Ins
  BY DEF Ins
<1>1. ASSUME NEW p \in 1 .. l + 1, \A j \in 1 .. l + 1 : p < j => j \in S PROVE p \in S
  <2> SUFFICES ASSUME Agree(from, t, kind, p, "block")
               PROVE  BlockCloses(from, t, kind, p, Find(t, p, BlockEnd))
    OBVIOUS
  <2>1. p # l + 1
    <3> SUFFICES ASSUME p = l + 1 PROVE FALSE
      OBVIOUS
    <3>1. kind[Len(t) + 1] = "block"
      BY <1>0, AgreeEnd
    <3> QED
      BY <3>1
  <2>2. p \in 1 .. Len(t) /\ p <= l /\ p + 1 <= Len(t) + 1 /\ p + 1 \in 1 .. l + 1 /\ p < p + 1
    BY <2>1
  <2>3. CASE At(t, p, BlockEnd)
    <3>1. Part(t, p, "block") = Is("block", 2, "code") /\ p + 1 <= Len(t)
      BY <2>2, <2>3, PartOfComment
    <3>2. p + 2 <= Len(t) + 1 /\ 2 \in {1, 2}
      BY <3>1
    <3>3. kind[p] = "block" /\ kind[p + 1] = "block" /\ Agree(from, t, kind, p + 2, "code")
      BY <1>0, <2>2, <3>1, AgreeTwo
    <3>4. Find(t, p, BlockEnd) = p
      BY <2>2, <2>3, FindIs
    <3>5. \A j \in p .. p + 1 : j = p \/ j = p + 1
      BY <2>2
    <3>6. p \in p .. Len(t)
      BY <2>2
    <3> QED
      BY <3>1, <3>3, <3>4, <3>5, <3>6 DEF BlockCloses
  <2>4. CASE ~At(t, p, BlockEnd)
    <3>1. Part(t, p, "block") = Is("block", 1, "block") /\ 1 \in {1, 2}
      BY <2>2, <2>4, PartOfComment
    <3>2. kind[p] = "block" /\ Agree(from, t, kind, p + 1, "block")
      BY <1>0, <2>2, <3>1, AgreeOne
    <3>3. Find(t, p, BlockEnd) = Find(t, p + 1, BlockEnd)
      BY <2>2, <2>4, FindIs
    <3>4. BlockCloses(from, t, kind, p + 1, Find(t, p + 1, BlockEnd))
      BY <1>1, <2>2, <3>2
    <3>5. PICK c : c = Find(t, p + 1, BlockEnd)
      OBVIOUS
    <3>6. /\ c \in p + 1 .. Len(t) /\ c + 1 <= Len(t)
          /\ \A j \in p + 1 .. c + 1 : kind[j] = "block"
          /\ Agree(from, t, kind, c + 2, "code")
      BY <3>4, <3>5 DEF BlockCloses
    <3>7. c \in p .. Len(t) /\ \A j \in p .. c + 1 : j = p \/ j \in p + 1 .. c + 1
      BY <2>2, <3>6
    <3>8. BlockCloses(from, t, kind, p, c)
      BY <3>2, <3>6, <3>7 DEF BlockCloses
    <3> QED
      BY <3>3, <3>5, <3>8
  <2> QED
    BY <2>3, <2>4
<1>2. i \in S
  <2>1. l + 1 \in Nat
    OBVIOUS
  <2> HIDE DEF S
  <2> QED
    BY <1>1, <2>1, Downwards
<1> QED
  BY <1>2

\* A line comment that ends is closed at the first end of line, in any text that
\* keeps what lines are made of.
LineCloses(from, t, kind, i, close) ==
  /\ close \in i .. Len(t)
  /\ \A j \in i .. close : kind[j] = "line"
  /\ Agree(from, t, kind, close + 1, "code")

LEMMA LineClosed ==
  ASSUME NEW X, NEW t \in Seq(X), NEW l \in Nat, l = Len(t), NEW from, KindsBy(from, t), NEW kind,
         kind[l + 1] = "code",
         NEW Y, NEW u \in Seq(Y), Len(u) = l, \A j \in 1 .. l : kind[j] = "line" => u[j] = t[j],
         NEW i \in 1 .. l + 1, Agree(from, t, kind, i, "line")
  PROVE  LineCloses(from, t, kind, i, Find(u, i, LineEnd))
<1> DEFINE Good(p) == Agree(from, t, kind, p, "line") => LineCloses(from, t, kind, p, Find(u, p, LineEnd))
           S == {p \in 1 .. l + 1 : Good(p)}
<1>0. "line" \in Ins /\ "code" \in Ins
  BY DEF Ins
<1>1. ASSUME NEW p \in 1 .. l + 1, \A j \in 1 .. l + 1 : p < j => j \in S PROVE p \in S
  <2> SUFFICES ASSUME Agree(from, t, kind, p, "line")
               PROVE  LineCloses(from, t, kind, p, Find(u, p, LineEnd))
    OBVIOUS
  <2>1. p # l + 1
    <3> SUFFICES ASSUME p = l + 1 PROVE FALSE
      OBVIOUS
    <3>1. kind[Len(t) + 1] = "line"
      BY <1>0, AgreeEnd
    <3> QED
      BY <3>1
  <2>2. p \in 1 .. Len(t) /\ p <= l /\ p + 1 <= Len(t) + 1 /\ p + 1 \in 1 .. l + 1 /\ p < p + 1 /\ p \in Nat /\ p >= 1
    BY <2>1
  <2>3. At(u, p, LineEnd) <=> u[p] = "newline"
    BY <2>2, AtOne DEF LineEnd
  <2>4. CASE t[p] = "newline"
    <3>1. Part(t, p, "line") = Is("line", 1, "code") /\ 1 \in {1, 2}
      BY <2>2, <2>4, PartOfComment
    <3>2. kind[p] = "line" /\ Agree(from, t, kind, p + 1, "code")
      BY <1>0, <2>2, <3>1, AgreeOne
    <3>3. At(u, p, LineEnd)
      BY <2>2, <2>3, <2>4, <3>2
    <3>4. Find(u, p, LineEnd) = p
      BY <2>2, <3>3, FindIs
    <3>5. \A j \in p .. p : j = p
      BY <2>2
    <3>6. p \in p .. Len(t)
      BY <2>2
    <3> QED
      BY <3>2, <3>4, <3>5, <3>6 DEF LineCloses
  <2>5. CASE t[p] # "newline"
    <3>1. Part(t, p, "line") = Is("line", 1, "line") /\ 1 \in {1, 2}
      BY <2>2, <2>5, PartOfComment
    <3>2. kind[p] = "line" /\ Agree(from, t, kind, p + 1, "line")
      BY <1>0, <2>2, <3>1, AgreeOne
    <3>3. ~At(u, p, LineEnd)
      BY <2>2, <2>3, <2>5, <3>2
    <3>4. Find(u, p, LineEnd) = Find(u, p + 1, LineEnd)
      BY <2>2, <3>3, FindIs
    <3>5. LineCloses(from, t, kind, p + 1, Find(u, p + 1, LineEnd))
      BY <1>1, <2>2, <3>2
    <3>6. PICK c : c = Find(u, p + 1, LineEnd)
      OBVIOUS
    <3>7. /\ c \in p + 1 .. Len(t)
          /\ \A j \in p + 1 .. c : kind[j] = "line"
          /\ Agree(from, t, kind, c + 1, "code")
      BY <3>5, <3>6 DEF LineCloses
    <3>8. c \in p .. Len(t) /\ \A j \in p .. c : j = p \/ j \in p + 1 .. c
      BY <2>2, <3>7
    <3>9. LineCloses(from, t, kind, p, c)
      BY <3>2, <3>7, <3>8 DEF LineCloses
    <3> QED
      BY <3>4, <3>6, <3>9
  <2> QED
    BY <2>4, <2>5
<1>2. i \in S
  <2>1. l + 1 \in Nat
    OBVIOUS
  <2> HIDE DEF S
  <2> QED
    BY <1>1, <2>1, Downwards
<1> QED
  BY <1>2

\* The predicates of the two lemmas above, for a text read from i on.
ReadsOn(from, t, start, i) ==
  /\ t[i] = "quote" => from[i]["code"] = from[i + 1]["string"] /\ from[i]["string"] = from[i + 1]["code"]
  /\ t[i] \notin {"quote", "backslash"} => from[i]["string"] = from[i + 1]["string"]
  /\ i < Len(t) /\ t[i] = "backslash" => from[i]["string"] = from[i + 2]["string"]
  /\ t[i] \notin {"quote", "backslash"} /\ ~At(t, i, start) => from[i]["code"] = from[i + 1]["code"]

LEMMA BlankReads ==
  ASSUME NEW t, NEW l \in Nat, l = Len(t), NEW start, NEW end, Tokens(start, end),
         NEW from, BlankedBy(from, t, start, end), NEW i \in Nat, 1 <= i, i <= l
  PROVE  ReadsOn(from, t, start, i)
<1>1. i \in 1 .. l + 1
  OBVIOUS
<1> QED
  BY <1>1, BlankSteps DEF ReadsOn

Jumps(from, i, k) == from[i]["code"] = (i .. k - 1) \cup from[k]["code"]

LEMMA BlankJumps ==
  ASSUME NEW t, NEW l \in Nat, l = Len(t), NEW start, NEW end, Tokens(start, end),
         NEW from, BlankedBy(from, t, start, end), NEW i \in 1 .. l,
         t[i] \notin {"quote", "backslash"}, At(t, i, start),
         NEW q \in Nat, q = i + Len(start), NEW c \in Nat, c = Find(t, q, end), c <= l,
         NEW k \in Nat, k = c + Len(end)
  PROVE  Jumps(from, i, k)
<1>1. c = Find(t, i + Len(start), end) /\ c + Len(end) = k /\ ~(i > l) /\ ~(c > l) /\ i \in 1 .. l + 1
  OBVIOUS
<1>2. from[i]["code"] = BlankAt(t, start, end, i, from, "code")
  BY <1>1 DEF BlankedBy, Modes
<1>3. BlankAt(t, start, end, i, from, "code") = Comment(i, c, end) \cup from[k]["code"]
  BY <1>1 DEF BlankAt
<1>4. Comment(i, c, end) = i .. k - 1
  BY <1>1 DEF Comment
<1> QED
  BY <1>2, <1>3, <1>4 DEF Jumps

LEMMA KindJumps ==
  ASSUME NEW l \in Nat, NEW i \in 1 .. l, NEW k \in Nat, i < k, k <= l + 1, NEW kind, NEW x,
         \A j \in i .. k - 1 : kind[j] = x
  PROVE  KindFrom(kind, l, i, x) = (i .. k - 1) \cup KindFrom(kind, l, k, x)
<1>1. PICK c \in i .. l : c = k - 1 /\ c + 1 = k
  OBVIOUS
<1>2. \A j \in i .. c : kind[j] = x
  BY <1>1
<1>3. KindFrom(kind, l, i, x) = (i .. c) \cup KindFrom(kind, l, c + 1, x)
  BY <1>2, KindJump
<1> QED
  BY <1>1, <1>3

\* The first pass: from i on, the block comments are blanked out, and nothing else.
BlocksBlanked(from, t, kind, blank, i) ==
  /\ Agree(from, t, kind, i, "code") => blank[i]["code"] = KindFrom(kind, Len(t), i, "block")
  /\ Agree(from, t, kind, i, "string") => blank[i]["string"] = KindFrom(kind, Len(t), i, "block")
  /\ Agree(from, t, kind, i, "line") => blank[i]["code"] = KindFrom(kind, Len(t), i, "block")

LEMMA BlockPass ==
  ASSUME NEW X, NEW t \in Seq(X), NEW l \in Nat, l = Len(t), NEW from, KindsBy(from, t), NEW kind,
         PlainText(t, kind), NEW blank, BlankedBy(blank, t, BlockStart, BlockEnd),
         NEW i \in 1 .. l + 1
  PROVE  BlocksBlanked(from, t, kind, blank, i)
<1> DEFINE S == {p \in 1 .. l + 1 : BlocksBlanked(from, t, kind, blank, p)}
           Rest(p) == KindFrom(kind, l, p, "block")
<1>0. "line" \in Ins /\ "code" \in Ins /\ "string" \in Ins /\ "block" \in Ins
  BY DEF Ins
<1>1. Tokens(BlockStart, BlockEnd) /\ Len(BlockStart) = 2 /\ Len(BlockEnd) = 2
  BY DEF Tokens, BlockStart, BlockEnd
<1>2. /\ kind[l + 1] = "code"
      /\ \A p \in 1 .. l : kind[p] \in {"line", "block"} => t[p] \notin {"quote", "backslash"}
      /\ \A p \in 1 .. l : kind[p] = "line" => ~At(t, p, BlockStart)
      /\ \A p \in 1 .. l : kind[p] = "code" => t[p] # "backslash"
  BY DEF PlainText
<1>3. ASSUME NEW p \in 1 .. l + 1, \A j \in 1 .. l + 1 : p < j => j \in S PROVE p \in S
  <2>1. CASE p = l + 1
    <3>1. blank[p]["code"] = {} /\ blank[p]["string"] = {}
      BY <1>1, <2>1, BlankSteps
    <3>2. Rest(p) = {}
      BY <2>1, KindNone
    <3> QED
      BY <3>1, <3>2 DEF BlocksBlanked
  <2>2. CASE p # l + 1
    <3>1. p \in 1 .. l /\ p \in 1 .. Len(t) /\ p <= l /\ p + 1 \in 1 .. l + 1 /\ p < p + 1
      BY <2>2
    <3>2. /\ Agree(from, t, kind, p + 1, "code") => blank[p + 1]["code"] = Rest(p + 1)
          /\ Agree(from, t, kind, p + 1, "string") => blank[p + 1]["string"] = Rest(p + 1)
          /\ Agree(from, t, kind, p + 1, "line") => blank[p + 1]["code"] = Rest(p + 1)
      BY <1>3, <3>1 DEF BlocksBlanked
    <3>3. p + 1 <= l => p + 2 \in 1 .. l + 1 /\ p < p + 2
      BY <3>1
    <3>4. p + 1 <= l =>
          /\ Agree(from, t, kind, p + 2, "code") => blank[p + 2]["code"] = Rest(p + 2)
          /\ Agree(from, t, kind, p + 2, "string") => blank[p + 2]["string"] = Rest(p + 2)
          /\ Agree(from, t, kind, p + 2, "line") => blank[p + 2]["code"] = Rest(p + 2)
      BY <1>3, <3>3 DEF BlocksBlanked
    <3>5. kind[p] # "block" => Rest(p) = Rest(p + 1)
      BY <3>1, KindSkip
    <3>6. p + 1 <= l /\ kind[p + 1] # "block" => Rest(p + 1) = Rest(p + 2)
      <4>1. p + 1 <= l => p + 1 \in 1 .. l /\ (p + 1) + 1 = p + 2
        BY <3>1
      <4> QED
        BY <4>1, KindSkip
    <3>7. /\ t[p] = "quote" => blank[p]["code"] = blank[p + 1]["string"] /\ blank[p]["string"] = blank[p + 1]["code"]
          /\ t[p] \notin {"quote", "backslash"} => blank[p]["string"] = blank[p + 1]["string"]
          /\ p < l /\ t[p] = "backslash" => blank[p]["string"] = blank[p + 2]["string"]
          /\ t[p] \notin {"quote", "backslash"} /\ ~At(t, p, BlockStart) => blank[p]["code"] = blank[p + 1]["code"]
      <4>1. p \in Nat /\ 1 <= p
        BY <3>1
      <4>2. ReadsOn(blank, t, BlockStart, p)
        BY <1>1, <3>1, <4>1, BlankReads
      <4> QED
        BY <4>2 DEF ReadsOn
    <3>8. ASSUME p + 1 <= l, t[p + 1] \notin {"quote", "backslash"}, ~At(t, p + 1, BlockStart)
          PROVE  blank[p + 1]["code"] = blank[p + 2]["code"]
      <4>1. PICK q \in Nat : q = p + 1
        BY <3>1
      <4>2. 1 <= q /\ q <= l /\ q + 1 = p + 2
        BY <3>1, <3>8, <4>1
      <4>3. ReadsOn(blank, t, BlockStart, q)
        BY <1>1, <4>2, BlankReads
      <4>4. blank[q]["code"] = blank[q + 1]["code"]
        BY <3>8, <4>1, <4>3 DEF ReadsOn
      <4> QED
        BY <4>1, <4>2, <4>4
    <3> HIDE DEF Rest
    <3>9. ASSUME Agree(from, t, kind, p, "code") PROVE blank[p]["code"] = Rest(p)
      <4>1. CASE t[p] = "quote"
        <5>1. Part(t, p, "code") = Is("string", 1, "string")
          BY <3>1, <4>1, PartOfCode
        <5>2. kind[p] = "string" /\ Agree(from, t, kind, p + 1, "string")
          BY <1>0, <3>1, <3>9, <5>1, AgreeOne
        <5> QED
          BY <3>2, <3>5, <3>7, <4>1, <5>2
      <4>2. CASE At(t, p, BlockStart)
        <5>1. p + 1 <= Len(t) /\ t[p] = "slash" /\ p >= 1 /\ p \in Nat
          <6>1. p >= 1 /\ p \in Nat
            BY <3>1
          <6> QED
            BY <4>2, <6>1, AtTwo DEF BlockStart
        <5>2. Part(t, p, "code") = Is("block", 2, "block")
          BY <3>1, <4>2, PartOfCode
        <5>3. kind[p] = "block" /\ kind[p + 1] = "block" /\ Agree(from, t, kind, p + 2, "block")
          BY <1>0, <3>1, <3>9, <5>1, <5>2, AgreeTwo
        <5>4. p + 2 \in 1 .. l + 1
          BY <3>3, <5>1
        <5> DEFINE q == p + 2
                   close == Find(t, q, BlockEnd)
        <5>5. BlockCloses(from, t, kind, q, close)
          BY <1>2, <5>3, <5>4, BlockClosed
        <5>6. close \in p + 2 .. Len(t) /\ close + 1 <= Len(t)
              /\ (\A j \in p + 2 .. close + 1 : kind[j] = "block")
              /\ Agree(from, t, kind, close + 2, "code")
          BY <5>5 DEF BlockCloses
        <5>7. p + Len(BlockStart) = q
          BY <1>1
        <5> HIDE DEF close
        <5>8. PICK c \in Nat : c = close
          BY <3>1, <5>6
        <5>9. c \in p + 2 .. l /\ c + 1 <= l /\ c + 2 \in 1 .. l + 1 /\ p < c + 2
              /\ c + 1 \in p .. l /\ (c + 1) + 1 = c + 2 /\ c + 2 - 1 = c + 1 /\ c <= l
          BY <3>1, <5>6, <5>8
        <5>10. PICK k \in Nat : k = c + 2
          OBVIOUS
        <5>11. Jumps(blank, p, k)
          <6>1. c = Find(t, q, BlockEnd) /\ q \in Nat /\ q = p + Len(BlockStart) /\ k = c + Len(BlockEnd) /\ c <= l
            BY <1>1, <3>1, <5>7, <5>8, <5>9, <5>10 DEF close
          <6>2. t[p] \notin {"quote", "backslash"} /\ p \in 1 .. l
            BY <3>1, <5>1
          <6> HIDE DEF q
          <6> QED
            BY <1>1, <4>2, <6>1, <6>2, BlankJumps
        <5>12. blank[k]["code"] = Rest(k)
          <6>1. k \in S
            BY <1>3, <5>9, <5>10
          <6> QED
            BY <5>6, <5>8, <5>10, <6>1 DEF BlocksBlanked, Rest
        <5>13. p < k /\ k <= l + 1 /\ (\A j \in p .. k - 1 : j = p \/ j = p + 1 \/ j \in p + 2 .. c + 1)
          BY <3>1, <5>9, <5>10
        <5>14. \A j \in p .. k - 1 : kind[j] = "block"
          BY <5>3, <5>6, <5>8, <5>13
        <5>15. Rest(p) = (p .. k - 1) \cup Rest(k)
          BY <3>1, <5>13, <5>14, KindJumps DEF Rest
        <5> QED
          BY <5>11, <5>12, <5>15 DEF Jumps
      <4>3. CASE At(t, p, LineStart)
        <5>1. p + 1 <= Len(t) /\ t[p] = "slash" /\ p + 1 <= l /\ p + 1 \in 1 .. l
          <6>1. p >= 1 /\ p \in Nat
            BY <3>1
          <6>2. p + 1 <= Len(t) /\ t[p] = "slash"
            BY <4>3, <6>1, AtTwo DEF LineStart
          <6> QED
            BY <3>1, <6>2
        <5>2. Part(t, p, "code") = Is("line", 2, "line")
          BY <3>1, <4>3, PartOfCode
        <5>3. kind[p] = "line" /\ kind[p + 1] = "line" /\ Agree(from, t, kind, p + 2, "line")
          BY <1>0, <3>1, <3>9, <5>1, <5>2, AgreeTwo
        <5>4. blank[p]["code"] = blank[p + 1]["code"]
          BY <1>2, <3>1, <3>7, <5>1, <5>3
        <5>5. blank[p + 1]["code"] = blank[p + 2]["code"]
          BY <1>2, <3>8, <5>1, <5>3
        <5> QED
          BY <3>4, <3>5, <3>6, <5>1, <5>3, <5>4, <5>5
      <4>4. CASE t[p] # "quote" /\ ~At(t, p, BlockStart) /\ ~At(t, p, LineStart)
        <5>1. Part(t, p, "code") = Is("code", 1, "code")
          BY <3>1, <4>4, PartOfCode
        <5>2. kind[p] = "code" /\ Agree(from, t, kind, p + 1, "code")
          BY <1>0, <3>1, <3>9, <5>1, AgreeOne
        <5>3. t[p] \notin {"quote", "backslash"}
          BY <1>2, <3>1, <4>4, <5>2
        <5> QED
          BY <3>2, <3>5, <3>7, <4>4, <5>2, <5>3
      <4> QED
        BY <4>1, <4>2, <4>3, <4>4
    <3>10. ASSUME Agree(from, t, kind, p, "string") PROVE blank[p]["string"] = Rest(p)
      <4>1. CASE t[p] = "backslash" /\ p < l
        <5>1. Part(t, p, "string") = Is("string", 2, "string") /\ p + 1 <= Len(t) /\ p + 1 <= l
          BY <3>1, <4>1, PartOfString
        <5>2. kind[p] = "string" /\ kind[p + 1] = "string" /\ Agree(from, t, kind, p + 2, "string")
          BY <1>0, <3>1, <3>10, <5>1, AgreeTwo
        <5> QED
          BY <3>4, <3>5, <3>6, <3>7, <4>1, <5>1, <5>2
      <4>2. CASE t[p] = "quote"
        <5>1. Part(t, p, "string") = Is("string", 1, "code")
          BY <3>1, <4>2, PartOfString
        <5>2. kind[p] = "string" /\ Agree(from, t, kind, p + 1, "code")
          BY <1>0, <3>1, <3>10, <5>1, AgreeOne
        <5> QED
          BY <3>2, <3>5, <3>7, <4>2, <5>2
      <4>3. CASE ~(t[p] = "backslash" /\ p < l) /\ t[p] # "quote"
        <5>1. Part(t, p, "string") = Is("string", 1, "string")
          BY <3>1, <4>3, PartOfString
        <5>2. kind[p] = "string" /\ Agree(from, t, kind, p + 1, "string")
          BY <1>0, <3>1, <3>10, <5>1, AgreeOne
        <5>3. t[p] # "backslash"
          <6> SUFFICES ASSUME t[p] = "backslash" PROVE FALSE
            OBVIOUS
          <6>1. p + 1 = Len(t) + 1
            BY <3>1, <4>3
          <6>2. kind[Len(t) + 1] = "string"
            BY <1>0, <5>2, <6>1, AgreeEnd
          <6> QED
            BY <1>2, <6>2
        <5> QED
          BY <3>2, <3>5, <3>7, <4>3, <5>2, <5>3
      <4> QED
        BY <4>1, <4>2, <4>3
    <3>11. ASSUME Agree(from, t, kind, p, "line") PROVE blank[p]["code"] = Rest(p)
      <4>1. kind[p] = "line" /\ (Agree(from, t, kind, p + 1, "line") \/ Agree(from, t, kind, p + 1, "code"))
        <5>1. CASE t[p] = "newline"
          <6>1. Part(t, p, "line") = Is("line", 1, "code")
            BY <3>1, <5>1, PartOfComment
          <6> QED
            BY <1>0, <3>1, <3>11, <6>1, AgreeOne
        <5>2. CASE t[p] # "newline"
          <6>1. Part(t, p, "line") = Is("line", 1, "line")
            BY <3>1, <5>2, PartOfComment
          <6> QED
            BY <1>0, <3>1, <3>11, <6>1, AgreeOne
        <5> QED
          BY <5>1, <5>2
      <4>2. blank[p]["code"] = blank[p + 1]["code"]
        BY <1>2, <3>1, <3>7, <4>1
      <4> QED
        BY <3>2, <3>5, <4>1, <4>2
    <3>12. BlocksBlanked(from, t, kind, blank, p)
      BY <3>9, <3>10, <3>11 DEF BlocksBlanked, Rest
    <3> QED
      BY <3>12
  <2> QED
    BY <2>1, <2>2
<1>4. i \in S
  <2>1. l + 1 \in Nat
    OBVIOUS
  <2> HIDE DEF S
  <2> QED
    BY <1>3, <2>1, Downwards
<1> QED
  BY <1>4

\* The text that the first pass leaves.
Spaced(t, kind, u) ==
  Len(u) = Len(t) /\ \A j \in 1 .. Len(t) : u[j] = IF kind[j] = "block" THEN " " ELSE t[j]

\* No line comment starts in it but where one starts in t.
LEMMA SpacedStarts ==
  ASSUME NEW X, NEW t \in Seq(X), NEW l \in Nat, l = Len(t), NEW kind,
         NEW Y, NEW u \in Seq(Y), Spaced(t, kind, u), NEW i \in Nat, 1 <= i, i <= l
  PROVE  /\ kind[i] = "block" => u[i] = " " /\ ~At(u, i, LineStart)
         /\ kind[i] # "block" => u[i] = t[i]
         /\ At(u, i, LineStart) => At(t, i, LineStart)
<1>1. Len(u) = l /\ i \in 1 .. Len(t) /\ (u[i] = IF kind[i] = "block" THEN " " ELSE t[i])
  <2>1. Len(u) = l
    BY DEF Spaced
  <2>2. i \in 1 .. Len(t)
    OBVIOUS
  <2>3. \A j \in 1 .. Len(t) : (u[j] = IF kind[j] = "block" THEN " " ELSE t[j])
    BY DEF Spaced
  <2> QED
    BY <2>1, <2>2, <2>3
<1>2. /\ At(u, i, LineStart) <=> i + 1 <= l /\ u[i] = "slash" /\ u[i + 1] = "slash"
      /\ At(t, i, LineStart) <=> i + 1 <= l /\ t[i] = "slash" /\ t[i + 1] = "slash"
  <2>1. At(u, i, LineStart) <=> i + 1 <= Len(u) /\ u[i] = "slash" /\ u[i + 1] = "slash"
    BY AtTwo DEF LineStart
  <2>2. At(t, i, LineStart) <=> i + 1 <= Len(t) /\ t[i] = "slash" /\ t[i + 1] = "slash"
    BY AtTwo DEF LineStart
  <2> QED
    BY <1>1, <2>1, <2>2
<1>3. i + 1 <= l => u[i + 1] = IF kind[i + 1] = "block" THEN " " ELSE t[i + 1]
  <2>1. i + 1 <= l => i + 1 \in 1 .. Len(t)
    OBVIOUS
  <2> QED
    BY <2>1 DEF Spaced
<1>4. " " # "slash"
  OBVIOUS
<1> QED
  BY <1>1, <1>2, <1>3, <1>4

\* The second pass: from i on, the line comments are blanked out, and nothing else.
LinesBlanked(from, t, kind, blank, i) ==
  /\ Agree(from, t, kind, i, "code") => blank[i]["code"] = KindFrom(kind, Len(t), i, "line")
  /\ Agree(from, t, kind, i, "string") => blank[i]["string"] = KindFrom(kind, Len(t), i, "line")
  /\ Agree(from, t, kind, i, "block") => blank[i]["code"] = KindFrom(kind, Len(t), i, "line")

LEMMA LinePass ==
  ASSUME NEW X, NEW t \in Seq(X), NEW l \in Nat, l = Len(t), NEW from, KindsBy(from, t), NEW kind,
         PlainText(t, kind), NEW Y, NEW u \in Seq(Y), Spaced(t, kind, u),
         NEW blank, BlankedBy(blank, u, LineStart, LineEnd),
         NEW i \in 1 .. l + 1
  PROVE  LinesBlanked(from, t, kind, blank, i)
<1> DEFINE S == {p \in 1 .. l + 1 : LinesBlanked(from, t, kind, blank, p)}
           Rest(p) == KindFrom(kind, l, p, "line")
<1>0. "line" \in Ins /\ "code" \in Ins /\ "string" \in Ins /\ "block" \in Ins
  BY DEF Ins
<1>1. Tokens(LineStart, LineEnd) /\ Len(LineStart) = 2 /\ Len(LineEnd) = 1
  BY DEF Tokens, LineStart, LineEnd
<1>2. /\ kind[l + 1] = "code"
      /\ \A p \in 1 .. l : kind[p] \in {"line", "block"} => t[p] \notin {"quote", "backslash"}
      /\ \A p \in 1 .. l : kind[p] = "code" => t[p] # "backslash"
  BY DEF PlainText
<1>3. l = Len(u) /\ " " \notin {"quote", "backslash"}
  BY DEF Spaced
<1>4. ASSUME NEW p \in 1 .. l + 1, \A j \in 1 .. l + 1 : p < j => j \in S PROVE p \in S
  <2>1. CASE p = l + 1
    <3>1. blank[p]["code"] = {} /\ blank[p]["string"] = {}
      BY <1>1, <1>3, <2>1, BlankSteps
    <3>2. Rest(p) = {}
      BY <2>1, KindNone
    <3> QED
      BY <3>1, <3>2 DEF LinesBlanked
  <2>2. CASE p # l + 1
    <3>1. p \in 1 .. l /\ p \in 1 .. Len(t) /\ p <= l /\ p + 1 \in 1 .. l + 1 /\ p < p + 1 /\ p \in Nat /\ 1 <= p
      BY <2>2
    <3>2. /\ Agree(from, t, kind, p + 1, "code") => blank[p + 1]["code"] = Rest(p + 1)
          /\ Agree(from, t, kind, p + 1, "string") => blank[p + 1]["string"] = Rest(p + 1)
          /\ Agree(from, t, kind, p + 1, "block") => blank[p + 1]["code"] = Rest(p + 1)
      BY <1>4, <3>1 DEF LinesBlanked
    <3>3. p + 1 <= l => p + 2 \in 1 .. l + 1 /\ p < p + 2
      BY <3>1
    <3>4. p + 1 <= l =>
          /\ Agree(from, t, kind, p + 2, "code") => blank[p + 2]["code"] = Rest(p + 2)
          /\ Agree(from, t, kind, p + 2, "string") => blank[p + 2]["string"] = Rest(p + 2)
          /\ Agree(from, t, kind, p + 2, "block") => blank[p + 2]["code"] = Rest(p + 2)
      BY <1>4, <3>3 DEF LinesBlanked
    <3>5. kind[p] # "line" => Rest(p) = Rest(p + 1)
      BY <3>1, KindSkip
    <3>6. p + 1 <= l /\ kind[p + 1] # "line" => Rest(p + 1) = Rest(p + 2)
      <4>1. p + 1 <= l => p + 1 \in 1 .. l /\ (p + 1) + 1 = p + 2
        BY <3>1
      <4> QED
        BY <4>1, KindSkip
    <3>7. /\ u[p] = "quote" => blank[p]["code"] = blank[p + 1]["string"] /\ blank[p]["string"] = blank[p + 1]["code"]
          /\ u[p] \notin {"quote", "backslash"} => blank[p]["string"] = blank[p + 1]["string"]
          /\ p < l /\ u[p] = "backslash" => blank[p]["string"] = blank[p + 2]["string"]
          /\ u[p] \notin {"quote", "backslash"} /\ ~At(u, p, LineStart) => blank[p]["code"] = blank[p + 1]["code"]
      <4>1. ReadsOn(blank, u, LineStart, p)
        BY <1>1, <1>3, <3>1, BlankReads
      <4> QED
        BY <1>3, <4>1 DEF ReadsOn
    <3>8. /\ kind[p] = "block" => u[p] = " " /\ ~At(u, p, LineStart)
          /\ kind[p] # "block" => u[p] = t[p]
          /\ At(u, p, LineStart) => At(t, p, LineStart)
      BY <3>1, SpacedStarts
    <3>9. kind[p] = "block" => blank[p]["code"] = blank[p + 1]["code"]
      BY <1>3, <3>7, <3>8
    <3>10. ASSUME p + 1 <= l, kind[p + 1] = "block"
           PROVE  blank[p + 1]["code"] = blank[p + 2]["code"]
      <4>1. PICK q \in Nat : q = p + 1
        BY <3>1
      <4>2. 1 <= q /\ q <= l /\ q + 1 = p + 2 /\ kind[q] = "block"
        BY <3>1, <3>10, <4>1
      <4>3. ReadsOn(blank, u, LineStart, q)
        BY <1>1, <1>3, <4>2, BlankReads
      <4>4. u[q] = " " /\ ~At(u, q, LineStart)
        <5>1. kind[q] = "block" => u[q] = " " /\ ~At(u, q, LineStart)
          BY <4>2, SpacedStarts
        <5> QED
          BY <4>2, <5>1
      <4>5. blank[q]["code"] = blank[q + 1]["code"]
        BY <1>3, <4>3, <4>4 DEF ReadsOn
      <4> QED
        BY <4>1, <4>2, <4>5
    <3> HIDE DEF Rest
    <3>11. ASSUME Agree(from, t, kind, p, "code") PROVE blank[p]["code"] = Rest(p)
      <4>1. CASE t[p] = "quote"
        <5>1. Part(t, p, "code") = Is("string", 1, "string")
          BY <3>1, <4>1, PartOfCode
        <5>2. kind[p] = "string" /\ Agree(from, t, kind, p + 1, "string")
          BY <1>0, <3>1, <3>11, <5>1, AgreeOne
        <5> QED
          BY <3>2, <3>5, <3>7, <3>8, <4>1, <5>2
      <4>2. CASE At(t, p, BlockStart)
        <5>1. p + 1 <= Len(t) /\ p + 1 <= l
          BY <3>1, <4>2, AtTwo DEF BlockStart
        <5>2. Part(t, p, "code") = Is("block", 2, "block")
          BY <3>1, <4>2, PartOfCode
        <5>3. kind[p] = "block" /\ kind[p + 1] = "block" /\ Agree(from, t, kind, p + 2, "block")
          BY <1>0, <3>1, <3>11, <5>1, <5>2, AgreeTwo
        <5> QED
          BY <3>4, <3>5, <3>6, <3>9, <3>10, <5>1, <5>3
      <4>3. CASE At(t, p, LineStart)
        <5>1. p + 1 <= Len(t) /\ t[p] = "slash" /\ t[p + 1] = "slash"
          BY <3>1, <4>3, AtTwo DEF LineStart
        <5>2. Part(t, p, "code") = Is("line", 2, "line")
          BY <3>1, <4>3, PartOfCode
        <5>3. kind[p] = "line" /\ kind[p + 1] = "line" /\ Agree(from, t, kind, p + 2, "line")
          BY <1>0, <3>1, <3>11, <5>1, <5>2, AgreeTwo
        <5>4. p + 2 \in 1 .. l + 1 /\ p + 1 \in 1 .. l
          BY <3>1, <3>3, <5>1
        <5>5. u[p] = "slash" /\ u[p + 1] = "slash" /\ p + 1 <= Len(u)
          BY <1>3, <3>1, <5>1, <5>3, <5>4 DEF Spaced
        <5>6. At(u, p, LineStart)
          BY <3>1, <5>5, AtTwo DEF LineStart
        <5> DEFINE q == p + 2
                   close == Find(u, q, LineEnd)
        <5>7. LineCloses(from, t, kind, q, close)
          <6>1. \A j \in 1 .. l : kind[j] = "line" => u[j] = t[j]
            BY DEF Spaced
          <6>2. Len(u) = l
            BY <1>3
          <6>3. q \in 1 .. l + 1 /\ Agree(from, t, kind, q, "line")
            BY <5>3, <5>4
          <6> HIDE DEF q
          <6> QED
            BY <1>2, <6>1, <6>2, <6>3, LineClosed
        <5>8. close \in p + 2 .. Len(t) /\ (\A j \in p + 2 .. close : kind[j] = "line")
              /\ Agree(from, t, kind, close + 1, "code")
          BY <5>7 DEF LineCloses
        <5>9. p + Len(LineStart) = q
          BY <1>1
        <5> HIDE DEF close
        <5>10. PICK c \in Nat : c = close
          BY <3>1, <5>8
        <5>11. c \in p + 2 .. l /\ c + 1 \in 1 .. l + 1 /\ p < c + 1 /\ c <= l
          BY <3>1, <5>8, <5>10
        <5>12. PICK k \in Nat : k = c + 1
          OBVIOUS
        <5>13. Jumps(blank, p, k)
          <6>1. c = Find(u, q, LineEnd) /\ q \in Nat /\ q = p + Len(LineStart) /\ k = c + Len(LineEnd) /\ c <= l
            BY <1>1, <3>1, <5>9, <5>10, <5>11, <5>12 DEF close
          <6>2. u[p] \notin {"quote", "backslash"} /\ p \in 1 .. l
            BY <3>1, <5>5
          <6> HIDE DEF q
          <6> QED
            BY <1>1, <1>3, <5>6, <6>1, <6>2, BlankJumps
        <5>14. blank[k]["code"] = Rest(k)
          <6>1. k \in S
            BY <1>4, <5>11, <5>12
          <6> QED
            BY <5>8, <5>10, <5>12, <6>1 DEF LinesBlanked, Rest
        <5>15. p < k /\ k <= l + 1 /\ (\A j \in p .. k - 1 : j = p \/ j = p + 1 \/ j \in p + 2 .. c)
          BY <3>1, <5>11, <5>12
        <5>16. \A j \in p .. k - 1 : kind[j] = "line"
          BY <5>3, <5>8, <5>10, <5>15
        <5>17. Rest(p) = (p .. k - 1) \cup Rest(k)
          BY <3>1, <5>15, <5>16, KindJumps DEF Rest
        <5> QED
          BY <5>13, <5>14, <5>17 DEF Jumps
      <4>4. CASE t[p] # "quote" /\ ~At(t, p, BlockStart) /\ ~At(t, p, LineStart)
        <5>1. Part(t, p, "code") = Is("code", 1, "code")
          BY <3>1, <4>4, PartOfCode
        <5>2. kind[p] = "code" /\ Agree(from, t, kind, p + 1, "code")
          BY <1>0, <3>1, <3>11, <5>1, AgreeOne
        <5>3. u[p] \notin {"quote", "backslash"} /\ ~At(u, p, LineStart)
          BY <1>2, <3>1, <3>8, <4>4, <5>2
        <5> QED
          BY <3>2, <3>5, <3>7, <5>2, <5>3
      <4> QED
        BY <4>1, <4>2, <4>3, <4>4
    <3>12. ASSUME Agree(from, t, kind, p, "string") PROVE blank[p]["string"] = Rest(p)
      <4>1. CASE t[p] = "backslash" /\ p < l
        <5>1. Part(t, p, "string") = Is("string", 2, "string") /\ p + 1 <= Len(t) /\ p + 1 <= l
          BY <3>1, <4>1, PartOfString
        <5>2. kind[p] = "string" /\ kind[p + 1] = "string" /\ Agree(from, t, kind, p + 2, "string")
          BY <1>0, <3>1, <3>12, <5>1, AgreeTwo
        <5> QED
          BY <3>4, <3>5, <3>6, <3>7, <3>8, <4>1, <5>1, <5>2
      <4>2. CASE t[p] = "quote"
        <5>1. Part(t, p, "string") = Is("string", 1, "code")
          BY <3>1, <4>2, PartOfString
        <5>2. kind[p] = "string" /\ Agree(from, t, kind, p + 1, "code")
          BY <1>0, <3>1, <3>12, <5>1, AgreeOne
        <5> QED
          BY <3>2, <3>5, <3>7, <3>8, <4>2, <5>2
      <4>3. CASE ~(t[p] = "backslash" /\ p < l) /\ t[p] # "quote"
        <5>1. Part(t, p, "string") = Is("string", 1, "string")
          BY <3>1, <4>3, PartOfString
        <5>2. kind[p] = "string" /\ Agree(from, t, kind, p + 1, "string")
          BY <1>0, <3>1, <3>12, <5>1, AgreeOne
        <5>3. t[p] # "backslash"
          <6> SUFFICES ASSUME t[p] = "backslash" PROVE FALSE
            OBVIOUS
          <6>1. p + 1 = Len(t) + 1
            BY <3>1, <4>3
          <6>2. kind[Len(t) + 1] = "string"
            BY <1>0, <5>2, <6>1, AgreeEnd
          <6> QED
            BY <1>2, <6>2
        <5> QED
          BY <3>2, <3>5, <3>7, <3>8, <4>3, <5>2, <5>3
      <4> QED
        BY <4>1, <4>2, <4>3
    <3>13. ASSUME Agree(from, t, kind, p, "block") PROVE blank[p]["code"] = Rest(p)
      <4>1. CASE At(t, p, BlockEnd)
        <5>1. Part(t, p, "block") = Is("block", 2, "code") /\ p + 1 <= Len(t) /\ p + 1 <= l
          BY <3>1, <4>1, PartOfComment
        <5>2. kind[p] = "block" /\ kind[p + 1] = "block" /\ Agree(from, t, kind, p + 2, "code")
          BY <1>0, <3>1, <3>13, <5>1, AgreeTwo
        <5> QED
          BY <3>4, <3>5, <3>6, <3>9, <3>10, <5>1, <5>2
      <4>2. CASE ~At(t, p, BlockEnd)
        <5>1. Part(t, p, "block") = Is("block", 1, "block")
          BY <3>1, <4>2, PartOfComment
        <5>2. kind[p] = "block" /\ Agree(from, t, kind, p + 1, "block")
          BY <1>0, <3>1, <3>13, <5>1, AgreeOne
        <5> QED
          BY <3>2, <3>5, <3>9, <5>2
      <4> QED
        BY <4>1, <4>2
    <3>14. LinesBlanked(from, t, kind, blank, p)
      BY <3>11, <3>12, <3>13 DEF LinesBlanked, Rest
    <3> QED
      BY <3>14
  <2> QED
    BY <2>1, <2>2
<1>5. i \in S
  <2>1. l + 1 \in Nat
    OBVIOUS
  <2> HIDE DEF S
  <2> QED
    BY <1>4, <2>1, Downwards
<1> QED
  BY <1>5

\* What parson is given with its comments blanked out.
LEMMA CommentsBlanked ==
  ASSUME NEW X, NEW t \in Seq(X), PlainText(t, Kinds(t))
  PROVE  RemoveComments(t) =
           [i \in DOMAIN t |-> IF i \in {j \in DOMAIN t : Kinds(t)[j] \in {"line", "block"}} THEN " " ELSE t[i]]
<1> DEFINE kind == Kinds(t)
           l == Len(t)
           u == Strip(t, BlockStart, BlockEnd)
<1>1. l \in Nat /\ DOMAIN t = 1 .. l /\ 1 \in 1 .. l + 1 /\ t \in [1 .. l -> X]
  OBVIOUS
<1>2. Tokens(BlockStart, BlockEnd) /\ Tokens(LineStart, LineEnd)
  BY DEF Tokens, BlockStart, BlockEnd, LineStart, LineEnd
<1>3. PICK from : KindsBy(from, t) /\ kind = from[1]["code"]
  BY KindsIs
<1>4. Agree(from, t, kind, 1, "code")
  BY <1>3 DEF Agree
<1> HIDE DEF kind
<1>5. PlainText(t, kind)
  BY DEF kind
<1>6. Blanked(t, BlockStart, BlockEnd) = KindFrom(kind, l, 1, "block")
  <2>1. PICK blank : BlankedBy(blank, t, BlockStart, BlockEnd) /\ Blanked(t, BlockStart, BlockEnd) = blank[1]["code"]
    BY <1>1, <1>2, BlankedIs
  <2>2. BlocksBlanked(from, t, kind, blank, 1)
    BY <1>1, <1>3, <1>5, <2>1, BlockPass
  <2> QED
    BY <1>4, <2>1, <2>2 DEF BlocksBlanked
<1>7. u = [i \in 1 .. l |-> IF kind[i] = "block" THEN " " ELSE t[i]]
  BY <1>1, <1>6 DEF Strip, BlankOut, KindFrom
<1> HIDE DEF u
<1>8. u \in Seq(X \cup {" "}) /\ Len(u) = l /\ DOMAIN u = 1 .. l
  <2> HIDE DEF l
  <2>1. u \in [1 .. l -> X \cup {" "}]
    BY <1>1, <1>7
  <2>2. l \in Nat
    BY <1>1
  <2> DEFINE Z == X \cup {" "}
  <2> HIDE DEF Z
  <2>3. u \in [1 .. l -> Z]
    BY <2>1 DEF Z
  <2>4. u \in Seq(Z)
    BY <2>2, <2>3
  <2>5. DOMAIN u = 1 .. Len(u) /\ DOMAIN u = 1 .. l /\ Len(u) \in Nat
    BY <2>3, <2>4
  <2>6. Len(u) = l
    <3>1. PICK m \in Nat : m = Len(u)
      BY <2>5
    <3>2. \A j : j \in 1 .. m <=> j \in 1 .. l
      BY <2>5, <3>1
    <3>3. (m \in 1 .. m <=> m \in 1 .. l) /\ (l \in 1 .. m <=> l \in 1 .. l)
      BY <3>2
    <3> QED
      BY <2>2, <3>1, <3>3
  <2> QED
    BY <2>4, <2>5, <2>6 DEF Z
<1>9. Spaced(t, kind, u)
  BY <1>7, <1>8 DEF Spaced
<1>10. Blanked(u, LineStart, LineEnd) = KindFrom(kind, l, 1, "line")
  <2>1. PICK blank : BlankedBy(blank, u, LineStart, LineEnd) /\ Blanked(u, LineStart, LineEnd) = blank[1]["code"]
    BY <1>1, <1>2, <1>8, BlankedIs
  <2>2. LinesBlanked(from, t, kind, blank, 1)
    BY <1>1, <1>3, <1>5, <1>8, <1>9, <2>1, LinePass
  <2> QED
    BY <1>4, <2>1, <2>2 DEF LinesBlanked
<1>11. RemoveComments(t) = [i \in 1 .. l |-> IF kind[i] = "line" THEN " " ELSE u[i]]
  BY <1>1, <1>8, <1>10 DEF RemoveComments, Strip, BlankOut, KindFrom, u
<1>12. RemoveComments(t) = [i \in 1 .. l |-> IF kind[i] \in {"line", "block"} THEN " " ELSE t[i]]
  BY <1>7, <1>11
<1>13. \A i \in DOMAIN t : i \in {j \in DOMAIN t : kind[j] \in {"line", "block"}} <=> kind[i] \in {"line", "block"}
  OBVIOUS
<1> QED
  BY <1>1, <1>12, <1>13 DEF kind

\* remove_comments, run for blocks and then for lines, blanks out the comments of
\* any text that is not one of its exceptions, and leaves its strings alone.
THEOREM CommentsAreRemoved == CharSpec => []CommentsRemoved
<1>1. CharInv => CommentsRemoved
  <2> SUFFICES ASSUME CharInv PROVE CommentsRemoved
    OBVIOUS
  <2>1. input \in Seq(Alphabet(task)) /\ DOMAIN input = 1 .. Len(input)
    BY DEF CharInv
  <2> DEFINE kind == Kinds(input)
             comment == {i \in DOMAIN input : kind[i] \in {"line", "block"}}
             plain ==
               /\ kind[Len(input) + 1] = "code"
               /\ \A i \in comment : input[i] \notin {"quote", "backslash"}
               /\ \A i \in comment : kind[i] = "line" => ~At(input, i, BlockStart)
               /\ \A i \in DOMAIN input : kind[i] = "code" => input[i] # "backslash"
  <2>2. plain => PlainText(input, kind)
    <3> HIDE DEF kind
    <3> QED
      BY <2>1 DEF PlainText
  <2>3. plain => RemoveComments(input) = [i \in DOMAIN input |-> IF i \in comment THEN " " ELSE input[i]]
    BY <2>1, <2>2, CommentsBlanked
  <2> QED
    BY <2>3 DEF CommentsRemoved
<1> QED
  BY <1>1, CharTyping, PTL
=============================================================================
