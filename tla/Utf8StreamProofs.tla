-------------------------- MODULE Utf8StreamProofs --------------------------
(***************************************************************************)
(* Utf8Stream hands out the text of what arrived and nothing else, for     *)
(* every set of texts and every way to cut them.                           *)
(***************************************************************************)
EXTENDS Utf8Stream, SequenceTheorems, WellFoundedInduction, TLAPS

-----------------------------------------------------------------------------
\* A set of numbers that is not empty has a least one.
LEMMA LeastNumber ==
  ASSUME NEW T \in SUBSET Nat, T # {}
  PROVE  \E x \in T : \A y \in T : x <= y
<1> DEFINE R == OpToRel(<, Nat)
<1>1. IsWellFoundedOn(R, Nat)
  BY NatLessThanWellFounded
<1>2. \A x, y \in Nat : y < x => <<y, x>> \in R
  BY DEF OpToRel
<1> HIDE DEF R
<1>3. PICK x \in T : \A y \in T : ~(<<y, x>> \in R)
  BY <1>1, WFMin
<1>4. QED
  <2>1. x \in Nat /\ \A y \in T : y \in Nat /\ ~(y < x)
    BY <1>2, <1>3
  <2>2. QED
    BY <2>1

LEMMA BomText == BOM \in Str /\ Len(BOM) = 3 /\ BOM[1] = EF /\ BOM[2] = BB /\ BOM[3] = BF
<1>1. EF \in Byte /\ BB \in Byte /\ BF \in Byte
  BY ByteAssumption
<1>2. QED
  BY <1>1 DEF BOM, Str

\* A window of three bytes is the byte order mark if its bytes are.
LEMMA Window ==
  ASSUME NEW v \in Str, NEW k \in 1..(Len(v) - 2)
  PROVE  SubSeq(v, k, k + 2) = BOM <=> v[k] = EF /\ v[k + 1] = BB /\ v[k + 2] = BF
<1> DEFINE s == SubSeq(v, k, k + 2)
<1>1. s \in Seq(Byte) /\ Len(s) = 3 /\ \A q \in 1..3 : s[q] = v[k + q - 1]
  <2>1. k \in Int /\ k + 2 \in Int /\ v \in Seq(Byte) /\ Len(v) \in Nat
        /\ \A i \in k..(k + 2) : i \in 1..Len(v)
    BY DEF Str
  <2>2. \A i \in k..(k + 2) : v[i] \in Byte
    BY ONLY <2>1, ElementOfSeq
  <2>3. k <= k + 2 /\ (k + 2) - k + 1 = 3
    BY ONLY <2>1
  <2>4. /\ s \in Seq(Byte)
        /\ Len(s) = IF k <= k + 2 THEN (k + 2) - k + 1 ELSE 0
        /\ \A q \in 1..((k + 2) - k + 1) : s[q] = v[k + q - 1]
    BY <2>1, <2>2, SubSeqProperties
  <2>5. QED
    BY <2>3, <2>4
<1> HIDE DEF s
<1>2. s[1] = v[k] /\ s[2] = v[k + 1] /\ s[3] = v[k + 2]
  <2>1. 1 \in 1..3 /\ 2 \in 1..3 /\ 3 \in 1..3
        /\ k + 1 - 1 = k /\ k + 2 - 1 = k + 1 /\ k + 3 - 1 = k + 2
    BY DEF Str
  <2>2. QED
    BY <1>1, <2>1
<1>3. s = BOM <=> s[1] = EF /\ s[2] = BB /\ s[3] = BF
  <2>1. s = BOM => s[1] = EF /\ s[2] = BB /\ s[3] = BF
    BY BomText
  <2>2. ASSUME s[1] = EF /\ s[2] = BB /\ s[3] = BF
        PROVE  s = BOM
    <3>1. \A q \in 1..3 : q = 1 \/ q = 2 \/ q = 3
      OBVIOUS
    <3>2. \A q \in 1..3 : s[q] = BOM[q]
      BY <2>2, <3>1, BomText
    <3>3. QED
      BY <1>1, <3>2, BomText, SeqEqual DEF Str
  <2>3. QED
    BY <2>1, <2>2
<1>4. QED
  BY <1>2, <1>3 DEF s

(***************************************************************************)
(* Position i of v is well-formed: it holds a byte of a text, and if that  *)
(* is one of the three of U+FEFF, the character is there.                  *)
(***************************************************************************)
Mark(v, k) == k \in 1..(Len(v) - 2) /\ v[k] = EF /\ v[k + 1] = BB /\ v[k + 2] = BF

WellFormed(v, i) ==
  /\ v[i] \notin Ill
  /\ v[i] \in {EF, BB, BF} => \E k \in {i - 2, i - 1, i} : Mark(v, k)

LEMMA ValidByPosition ==
  ASSUME NEW v \in Str
  PROVE  ValidUtf8(v) <=> \A i \in 1..Len(v) : WellFormed(v, i)
<1>1. Len(v) \in Nat
  BY DEF Str
<1>2. ASSUME NEW i \in 1..Len(v)
      PROVE  (\E k \in 1..(Len(v) - 2) : i \in k..(k + 2) /\ SubSeq(v, k, k + 2) = BOM)
               <=> \E k \in {i - 2, i - 1, i} : Mark(v, k)
  <2>1. ASSUME NEW k \in 1..(Len(v) - 2), i \in k..(k + 2), SubSeq(v, k, k + 2) = BOM
        PROVE  k \in {i - 2, i - 1, i} /\ Mark(v, k)
    <3>1. k = i - 2 \/ k = i - 1 \/ k = i
      BY <1>1, <2>1
    <3>2. QED
      BY <2>1, <3>1, Window DEF Mark
  <2>2. ASSUME NEW k \in {i - 2, i - 1, i}, Mark(v, k)
        PROVE  k \in 1..(Len(v) - 2) /\ i \in k..(k + 2) /\ SubSeq(v, k, k + 2) = BOM
    <3>1. k \in 1..(Len(v) - 2)
      BY <2>2 DEF Mark
    <3>2. i \in k..(k + 2)
      BY <1>1, <2>2, <3>1
    <3>3. QED
      BY <2>2, <3>1, <3>2, Window DEF Mark
  <2>3. QED
    BY <2>1, <2>2
<1>3. QED
  BY <1>2 DEF ValidUtf8, WellFormed

\* What a text and what follows it have at which position.
LEMMA JoinedAt ==
  ASSUME NEW v \in Str, NEW w \in Str
  PROVE  /\ v \o w \in Str /\ Len(v \o w) = Len(v) + Len(w)
         /\ Len(v) \in Nat /\ Len(w) \in Nat
         /\ \A i \in 1..Len(v) : (v \o w)[i] = v[i]
         /\ \A i \in 1..Len(w) : (v \o w)[Len(v) + i] = w[i]
<1> DEFINE j == v \o w
           n == Len(v)
           m == Len(w)
<1>1. /\ j \in Seq(Byte) /\ Len(j) = n + m
      /\ \A i \in 1..(n + m) : j[i] = IF i <= n THEN v[i] ELSE w[i - n]
  BY ConcatProperties DEF Str
<1>2. n \in Nat /\ m \in Nat
  BY DEF Str
<1> HIDE DEF j, n, m
<1>3. \A i \in 1..n : i \in 1..(n + m) /\ i <= n
  BY <1>2
<1>4. \A i \in 1..m : n + i \in 1..(n + m) /\ ~(n + i <= n) /\ n + i - n = i
  BY <1>2
<1>5. QED
  BY <1>1, <1>2, <1>3, <1>4 DEF j, n, m, Str

\* A mark in the joined text that begins in a valid text ends there.
LEMMA MarksDoNotStraddle ==
  ASSUME NEW v \in Str, NEW w \in Str, ValidUtf8(v),
         NEW k \in 1..Len(v), Mark(v \o w, k)
  PROVE  Mark(v, k)
<1> DEFINE j == v \o w
           n == Len(v)
<1>1. /\ n \in Nat /\ \A i \in 1..n : j[i] = v[i]
      /\ j[k] = EF /\ j[k + 1] = BB /\ j[k + 2] = BF
  BY JoinedAt DEF Mark
<1>2. n \in 1..n
  BY <1>1
<1> HIDE DEF j
<1>3. v[n] \in {EF, BB} => FALSE
  <2>1. WellFormed(v, n)
    BY <1>2, ValidByPosition
  <2> SUFFICES ASSUME v[n] \in {EF, BB}
               PROVE  FALSE
    OBVIOUS
  <2>2. PICK q \in {n - 2, n - 1, n} : Mark(v, q)
    BY <2>1 DEF WellFormed
  <2>3. q \in 1..(n - 2) /\ v[q + 2] = BF
    BY <2>2 DEF Mark
  <2>4. q = n - 2 /\ q + 2 = n
    BY <1>1, <2>2, <2>3
  <2>5. QED
    BY <2>3, <2>4, CharacterAssumption
<1>4. k # n /\ k + 1 # n
  <2>1. v[k] = EF
    BY <1>1
  <2>2. k + 1 = n => v[n] = BB
    BY <1>1, <1>2
  <2>3. QED
    BY <1>3, <2>1, <2>2
<1>5. k \in 1..(n - 2) /\ k + 1 \in 1..n /\ k + 2 \in 1..n
  BY <1>1, <1>4
<1>6. QED
  BY <1>1, <1>5 DEF Mark

\* After a valid text, a text is valid exactly if the two together are.
LEMMA ValidConcat ==
  ASSUME NEW v \in Str, NEW w \in Str, ValidUtf8(v)
  PROVE  ValidUtf8(v \o w) <=> ValidUtf8(w)
<1> DEFINE j == v \o w
           n == Len(v)
           m == Len(w)
<1>1. /\ j \in Str /\ Len(j) = n + m /\ n \in Nat /\ m \in Nat
      /\ \A i \in 1..n : j[i] = v[i]
      /\ \A i \in 1..m : j[n + i] = w[i]
  BY JoinedAt
<1>2. ASSUME NEW k, Mark(v, k)
      PROVE  Mark(j, k)
  <2>1. k \in 1..(n - 2) /\ v[k] = EF /\ v[k + 1] = BB /\ v[k + 2] = BF
    BY <1>2 DEF Mark
  <2> HIDE DEF j, n, m
  <2>2. k \in 1..n /\ k + 1 \in 1..n /\ k + 2 \in 1..n /\ k \in 1..(n + m - 2)
    BY <1>1, <2>1
  <2>3. QED
    BY <1>1, <2>1, <2>2 DEF Mark
<1>3. ASSUME NEW k \in Int, k > 0
      PROVE  Mark(w, k) <=> Mark(j, n + k)
  <2> HIDE DEF j, n
  <2>1. k \in 1..(m - 2) <=> n + k \in 1..(n + m - 2)
    BY <1>1, <1>3
  <2>2. k \in 1..(m - 2) => k \in 1..m /\ k + 1 \in 1..m /\ k + 2 \in 1..m
                            /\ n + (k + 1) = n + k + 1 /\ n + (k + 2) = n + k + 2
    BY <1>1, <1>3
  <2>3. k \in 1..(m - 2) =>
          j[n + k] = w[k] /\ j[n + k + 1] = w[k + 1] /\ j[n + k + 2] = w[k + 2]
    BY <1>1, <2>2
  <2> HIDE DEF m
  <2>4. QED
    BY <1>1, <2>1, <2>3 DEF Mark, m
<1>4. ASSUME NEW i \in 1..n
      PROVE  WellFormed(v, i) => WellFormed(j, i)
  BY <1>1, <1>2 DEF WellFormed
<1>5. ASSUME NEW i \in 1..m
      PROVE  WellFormed(j, n + i) <=> WellFormed(w, i)
  <2>1. j[n + i] = w[i]
    BY <1>1
  <2>2. ASSUME NEW k \in {i - 2, i - 1, i}, Mark(w, k)
        PROVE  \E q \in {n + i - 2, n + i - 1, n + i} : Mark(j, q)
    <3>1. k \in Int /\ k > 0
      BY <2>2 DEF Mark
    <3>2. n + k \in {n + i - 2, n + i - 1, n + i}
      BY <1>1, <2>2
    <3>3. QED
      BY <1>3, <2>2, <3>1, <3>2
  <2>3. ASSUME NEW q \in {n + i - 2, n + i - 1, n + i}, Mark(j, q)
        PROVE  \E k \in {i - 2, i - 1, i} : Mark(w, k)
    <3>1. q \in 1..(n + m - 2)
      BY <1>1, <2>3 DEF Mark
    <3>2. q > n
      <4>1. SUFFICES ASSUME q \in 1..n
                     PROVE  FALSE
        BY <1>1, <3>1
      <4>2. Mark(v, q)
        BY <2>3, <4>1, MarksDoNotStraddle
      <4>3. q \in 1..(n - 2)
        BY <4>2 DEF Mark
      <4> HIDE DEF n, m, j
      <4>4. QED
        BY <1>1, <2>3, <4>3
    <3>3. q - n \in Int /\ q - n > 0 /\ n + (q - n) = q /\ q - n \in {i - 2, i - 1, i}
      BY <1>1, <2>3, <3>1, <3>2
    <3>4. QED
      BY <1>3, <2>3, <3>3
  <2>4. QED
    BY <2>1, <2>2, <2>3 DEF WellFormed
<1>6. ASSUME NEW i \in 1..(n + m)
      PROVE  i \in 1..n \/ (i - n \in 1..m /\ i = n + (i - n))
  BY <1>1
<1>7. ASSUME NEW i \in 1..m
      PROVE  n + i \in 1..(n + m)
  BY <1>1
<1> HIDE DEF j, n, m
<1>8. ValidUtf8(v) <=> \A i \in 1..n : WellFormed(v, i)
  BY ValidByPosition DEF n
<1>9. ValidUtf8(w) <=> \A i \in 1..m : WellFormed(w, i)
  BY ValidByPosition DEF m
<1>10. ValidUtf8(j) <=> \A i \in 1..(n + m) : WellFormed(j, i)
  BY <1>1, ValidByPosition
<1>11. ValidUtf8(j) => ValidUtf8(w)
  BY <1>5, <1>7, <1>9, <1>10
<1>12. ASSUME ValidUtf8(w), NEW i \in 1..(n + m)
       PROVE  WellFormed(j, i)
  BY <1>4, <1>5, <1>6, <1>8, <1>9, <1>12
<1>13. QED
  BY <1>10, <1>11, <1>12 DEF j

LEMMA Associates ==
  ASSUME NEW x \in Str, NEW y \in Str, NEW z \in Str
  PROVE  (x \o y) \o z = x \o (y \o z) /\ x \o y \in Str
BY ConcatAssociative, JoinedAt DEF Str

\* The same by a name, which the provers find in a large step.
InARow(x, y, z) == (x \o y) \o z = x \o (y \o z)

LEMMA Regroup ==
  ASSUME NEW x \in Str, NEW y \in Str, NEW z \in Str
  PROVE  InARow(x, y, z)
<1>1. (x \o y) \o z = x \o (y \o z)
  BY ConcatAssociative DEF Str
<1>2. QED
  BY <1>1 DEF InARow

-----------------------------------------------------------------------------
LEMMA EmptyText == <<>> \in Str /\ ValidUtf8(<<>>)
<1>1. <<>> \in Str /\ Len(<<>>) = 0
  BY EmptySeq DEF Str
<1>2. QED
  BY <1>1, ValidByPosition

LEMMA TextCut ==
  ASSUME NEW b \in Str, NEW n \in 0..Len(b)
  PROVE  /\ SubSeq(b, 1, n) \in Str /\ Len(SubSeq(b, 1, n)) = n
         /\ \A i \in 1..n : SubSeq(b, 1, n)[i] = b[i]
         /\ From(b, n + 1) \in Str
         /\ SubSeq(b, 1, n) \o From(b, n + 1) = b
<1>1. b \in Seq(Byte) /\ Len(b) \in Nat /\ n \in Int /\ n <= Len(b) /\ n >= 0
  BY DEF Str
<1>2. SubSeq(b, 1, n) \in Seq(Byte) /\ Len(SubSeq(b, 1, n)) = n
      /\ \A i \in 1..n : SubSeq(b, 1, n)[i] = b[i]
  BY <1>1
<1>3. SubSeq(b, n + 1, Len(b)) \in Seq(Byte)
  BY <1>1
<1>4. 1 \in 1..(Len(b) + 1) /\ n \in (1 - 1)..Len(b) /\ Len(b) \in n..Len(b)
  BY <1>1
<1>5. SubSeq(b, 1, n) \o SubSeq(b, n + 1, Len(b)) = SubSeq(b, 1, Len(b))
  BY <1>1, <1>4, ConcatAdjacentSubSeq, Zenon
<1>6. SubSeq(b, 1, Len(b)) = b
  BY <1>1, SubSeqFull
<1>7. QED
  BY <1>2, <1>3, <1>5, <1>6 DEF From, Str

\* There is a longest beginning that is valid, and ValidUpTo is its length.
LEMMA Longest ==
  ASSUME NEW b \in Str
  PROVE  /\ ValidUpTo(b) \in 0..Len(b)
         /\ ValidUtf8(Valid(b))
         /\ \A m \in 0..Len(b) : ValidUtf8(SubSeq(b, 1, m)) => m <= ValidUpTo(b)
<1> DEFINE l == Len(b)
           T == {d \in 0..l : IsValidUpTo(l - d, b)}
<1>1. l \in Nat
  BY DEF Str
<1>2. IsValidUpTo(0, b)
  <2>1. 0 \in 0..l
    BY <1>1
  <2>2. SubSeq(b, 1, 0) \in Str /\ Len(SubSeq(b, 1, 0)) = 0
    BY <2>1, TextCut
  <2>3. SubSeq(b, 1, 0) = <<>>
    BY <2>2, EmptySeq DEF Str
  <2>4. QED
    BY <2>1, <2>3, EmptyText DEF IsValidUpTo
<1>3. PICK d \in T : \A e \in T : d <= e
  <2>1. l \in T
    BY <1>1, <1>2
  <2>2. T \in SUBSET Nat
    BY <1>1
  <2>3. QED
    BY <2>1, <2>2, LeastNumber
<1>4. /\ d \in 0..l /\ IsValidUpTo(l - d, b) /\ l - d \in 0..l
      /\ \A m \in (l - d + 1)..l : ~IsValidUpTo(m, b)
  <2>1. d \in 0..l /\ IsValidUpTo(l - d, b) /\ l - d \in 0..l
    BY <1>1, <1>3
  <2>2. ASSUME NEW m \in (l - d + 1)..l, IsValidUpTo(m, b)
        PROVE  FALSE
    <3>1. l - m \in 0..l /\ l - (l - m) = m /\ l - m < d
      BY <1>1, <2>1, <2>2
    <3>2. l - m \in T
      BY <2>2, <3>1
    <3>3. QED
      BY <1>1, <1>3, <2>1, <3>1, <3>2
  <2>3. QED
    BY <2>1, <2>2
<1> DEFINE n == ValidUpTo(b)
<1>5. n \in 0..l /\ IsValidUpTo(n, b) /\ \A m \in (n + 1)..l : ~IsValidUpTo(m, b)
  BY <1>4 DEF ValidUpTo
<1> HIDE DEF n, T
<1>6. ASSUME NEW m \in 0..l, ValidUtf8(SubSeq(b, 1, m))
      PROVE  m <= n
  <2>1. IsValidUpTo(m, b)
    BY <1>6 DEF IsValidUpTo
  <2>2. m \notin (n + 1)..l
    BY <1>5, <2>1
  <2>3. QED
    BY <1>1, <1>5, <2>2
<1>7. QED
  BY <1>5, <1>6 DEF IsValidUpTo, Valid, n

LEMMA LongestIs ==
  ASSUME NEW b \in Str, NEW n \in 0..Len(b), ValidUtf8(SubSeq(b, 1, n)),
         \A m \in 0..Len(b) : ValidUtf8(SubSeq(b, 1, m)) => m <= n
  PROVE  ValidUpTo(b) = n
<1>1. ValidUpTo(b) \in 0..Len(b) /\ n <= ValidUpTo(b)
  BY Longest
<1>2. ValidUpTo(b) <= n
  BY <1>1, Longest DEF Valid
<1>3. QED
  BY <1>1, <1>2

\* What is valid of a text, and what is held back, are the text.
LEMMA ValidAndHeldBack ==
  ASSUME NEW b \in Str
  PROVE  /\ Valid(b) \in Str /\ HeldBack(b) \in Str
         /\ Len(Valid(b)) = ValidUpTo(b)
         /\ Valid(b) \o HeldBack(b) = b
<1>1. ValidUpTo(b) \in 0..Len(b)
  BY Longest
<1>2. QED
  BY <1>1, TextCut DEF Valid, HeldBack

(***************************************************************************)
(* After a valid text, what is valid of the bytes that follow comes to it, *)
(* and the same bytes are held back: the bytes that were handed out need   *)
(* not be looked at again.                                                 *)
(***************************************************************************)
LEMMA ValidOfJoin ==
  ASSUME NEW v \in Str, NEW r \in Str, ValidUtf8(v)
  PROVE  /\ ValidUpTo(v \o r) = Len(v) + ValidUpTo(r)
         /\ Valid(v \o r) = v \o Valid(r)
<1> DEFINE j == v \o r
           k == Len(v)
           n == ValidUpTo(r)
<1>1. /\ j \in Str /\ Len(j) = k + Len(r) /\ k \in Nat /\ Len(r) \in Nat
      /\ \A i \in 1..k : j[i] = v[i]
      /\ \A i \in 1..Len(r) : j[k + i] = r[i]
  BY JoinedAt
<1>2. n \in 0..Len(r) /\ ValidUtf8(SubSeq(r, 1, n))
      /\ \A m \in 0..Len(r) : ValidUtf8(SubSeq(r, 1, m)) => m <= n
  BY Longest DEF Valid
<1> HIDE DEF j, n
<1>3. ASSUME NEW m \in 0..Len(r)
      PROVE  /\ k + m \in 0..Len(j)
             /\ SubSeq(j, 1, k + m) = v \o SubSeq(r, 1, m)
             /\ ValidUtf8(SubSeq(j, 1, k + m)) <=> ValidUtf8(SubSeq(r, 1, m))
  <2> DEFINE a == SubSeq(j, 1, k + m)
             c == SubSeq(r, 1, m)
  <2>1. k + m \in 0..Len(j)
    BY <1>1
  <2>2. a \in Str /\ Len(a) = k + m /\ \A i \in 1..(k + m) : a[i] = j[i]
    BY <1>1, <2>1, TextCut
  <2>3. c \in Str /\ Len(c) = m /\ \A i \in 1..m : c[i] = r[i]
    BY TextCut
  <2> HIDE DEF a, c
  <2>4. /\ v \o c \in Str /\ Len(v \o c) = k + m
        /\ \A i \in 1..k : (v \o c)[i] = v[i]
        /\ \A i \in 1..m : (v \o c)[k + i] = c[i]
    BY <2>3, JoinedAt
  <2>5. ASSUME NEW i \in 1..(k + m)
        PROVE  a[i] = (v \o c)[i]
    <3>1. CASE i \in 1..k
      BY <1>1, <2>2, <2>4, <3>1
    <3>2. CASE i \notin 1..k
      <4>1. i - k \in 1..m /\ i - k \in 1..Len(r) /\ k + (i - k) = i
        BY <1>1, <3>2
      <4>2. j[i] = r[i - k] /\ (v \o c)[i] = c[i - k] /\ c[i - k] = r[i - k]
        BY <1>1, <2>3, <2>4, <4>1
      <4>3. QED
        BY <2>2, <4>2
    <3>3. QED
      BY <3>1, <3>2
  <2>6. a = v \o c
    <3>1. a \in Seq(Byte) /\ v \o c \in Seq(Byte) /\ Len(a) = Len(v \o c)
          /\ \A i \in 1..Len(a) : a[i] = (v \o c)[i]
      BY <2>2, <2>4, <2>5 DEF Str
    <3>2. QED
      BY <3>1, SeqEqual
  <2>7. ValidUtf8(v \o c) <=> ValidUtf8(c)
    BY <2>3, ValidConcat
  <2>8. QED
    BY <2>1, <2>6, <2>7 DEF a, c
<1>4. ASSUME NEW m \in 0..Len(j), ValidUtf8(SubSeq(j, 1, m))
      PROVE  m <= k + n
  <2>1. CASE m <= k
    BY <1>1, <1>2, <2>1
  <2>2. CASE m > k
    <3>1. m - k \in 0..Len(r) /\ k + (m - k) = m
      BY <1>1, <2>2
    <3>2. ValidUtf8(SubSeq(r, 1, m - k))
      BY <1>3, <1>4, <3>1
    <3>3. m - k <= n
      BY <1>2, <3>1, <3>2
    <3>4. QED
      BY <1>1, <1>2, <3>1, <3>3
  <2>3. QED
    BY <1>1, <2>1, <2>2
<1>5. k + n \in 0..Len(j) /\ ValidUtf8(SubSeq(j, 1, k + n))
  BY <1>2, <1>3
<1>6. ValidUpTo(j) = k + n
  BY <1>1, <1>4, <1>5, LongestIs
<1>7. Valid(j) = v \o Valid(r)
  BY <1>2, <1>3, <1>6 DEF Valid, n
<1>8. QED
  BY <1>6, <1>7 DEF j, n

\* What is held back has no text at its beginning.
LEMMA NoTextHeldBack ==
  ASSUME NEW b \in Str
  PROVE  ValidUpTo(HeldBack(b)) = 0
<1>1. /\ Valid(b) \in Str /\ HeldBack(b) \in Str /\ ValidUtf8(Valid(b))
      /\ Valid(b) \o HeldBack(b) = b /\ Len(Valid(b)) = ValidUpTo(b)
  BY ValidAndHeldBack, Longest
<1>2. ValidUpTo(b) = ValidUpTo(b) + ValidUpTo(HeldBack(b))
  <2>1. ValidUpTo(Valid(b) \o HeldBack(b)) = Len(Valid(b)) + ValidUpTo(HeldBack(b))
    BY <1>1, ValidOfJoin, Zenon
  <2>2. QED
    BY ONLY <1>1, <2>1
<1>3. ValidUpTo(b) \in Nat /\ ValidUpTo(HeldBack(b)) \in Nat
  <2>1. Len(b) \in Nat /\ Len(HeldBack(b)) \in Nat
    BY <1>1 DEF Str
  <2>2. QED
    BY <1>1, <2>1, Longest
<1>4. QED
  BY <1>2, <1>3

LEMMA WholeIsValid ==
  ASSUME NEW b \in Str
  PROVE  ValidUtf8(b) <=> ValidUpTo(b) = Len(b)
<1>1. Len(b) \in Nat /\ SubSeq(b, 1, Len(b)) = b
  BY SubSeqFull DEF Str
<1>2. ValidUpTo(b) \in 0..Len(b) /\ Len(b) \in 0..Len(b)
  BY <1>1, Longest
<1>3. ValidUtf8(b) => Len(b) <= ValidUpTo(b)
  BY <1>1, <1>2, Longest
<1>4. ValidUpTo(b) = Len(b) => ValidUtf8(b)
  BY <1>1, Longest DEF Valid
<1>5. QED
  BY <1>1, <1>2, <1>3, <1>4

\* The beginning of a text that has no text at its own is part of a character.
LEMMA PartOfACharacter ==
  ASSUME NEW b \in Str, NEW w \in Str, ValidUpTo(b) = 0, ValidUtf8(b \o w)
  PROVE  Len(b) < Len(BOM)
<1> SUFFICES ASSUME Len(b) >= 3
             PROVE  FALSE
  BY BomText DEF Str
<1> DEFINE j == b \o w
<1>1. /\ j \in Str /\ Len(j) = Len(b) + Len(w) /\ Len(b) \in Nat /\ Len(w) \in Nat
      /\ \A i \in 1..Len(b) : j[i] = b[i]
  BY JoinedAt
<1>2. \A m \in 0..Len(b) : ValidUtf8(SubSeq(b, 1, m)) => m <= 0
  BY Longest
<1> HIDE DEF j
<1>3. 1 \in 1..Len(b) /\ 2 \in 1..Len(b) /\ 3 \in 1..Len(b)
      /\ 1 \in 0..Len(b) /\ 3 \in 0..Len(b) /\ 1 \in 1..Len(j)
  BY <1>1
<1>4. WellFormed(j, 1)
  BY <1>1, <1>3, ValidByPosition DEF j
<1>5. CASE b[1] \notin {EF, BB, BF}
  <2> DEFINE a == SubSeq(b, 1, 1)
  <2>1. a \in Str /\ Len(a) = 1 /\ a[1] = b[1]
    BY <1>3, TextCut
  <2> HIDE DEF a
  <2>2. WellFormed(a, 1)
    BY <1>1, <1>3, <1>4, <1>5, <2>1 DEF WellFormed
  <2>3. ValidUtf8(a)
    <3>1. \A i \in 1..1 : i = 1
      OBVIOUS
    <3>2. QED
      BY <2>1, <2>2, <3>1, ValidByPosition
  <2>4. QED
    BY <1>2, <1>3, <2>3 DEF a
<1>6. CASE b[1] \in {EF, BB, BF}
  <2>1. PICK k \in {1 - 2, 1 - 1, 1} : Mark(j, k)
    BY <1>1, <1>3, <1>4, <1>6 DEF WellFormed
  <2>2. k = 1
    BY <2>1 DEF Mark
  <2>3. b[1] = EF /\ b[2] = BB /\ b[3] = BF
    BY <1>1, <1>3, <2>1, <2>2 DEF Mark
  <2> DEFINE a == SubSeq(b, 1, 3)
  <2>4. a \in Str /\ Len(a) = 3 /\ a[1] = EF /\ a[2] = BB /\ a[3] = BF
    <3>1. a \in Str /\ Len(a) = 3 /\ \A i \in 1..3 : a[i] = b[i]
      BY <1>3, TextCut
    <3>2. QED
      BY <2>3, <3>1
  <2> HIDE DEF a
  <2>5. Mark(a, 1)
    BY <2>4 DEF Mark
  <2>6. ASSUME NEW i \in 1..3
        PROVE  WellFormed(a, i)
    <3>1. a[i] \notin Ill
      BY <2>4, ByteAssumption
    <3>2. 1 \in {i - 2, i - 1, i}
      OBVIOUS
    <3>3. QED
      BY <2>5, <3>1, <3>2 DEF WellFormed
  <2>7. ValidUtf8(a)
    BY <2>4, <2>6, ValidByPosition
  <2>8. QED
    BY <1>2, <1>3, <2>7 DEF a
<1>7. QED
  BY <1>5, <1>6

-----------------------------------------------------------------------------
\* The types hold at first and after every step.
LEMMA TypeInductive ==
  /\ Init => TypeOK
  /\ TypeOK /\ [Next]_vars => TypeOK'
<1>1. Init => TypeOK
  BY WiresAssumption, EmptyText DEF Init, TypeOK
<1>2. ASSUME TypeOK, [Next]_vars
      PROVE  TypeOK'
  <2>1. CASE InnerPending \/ InnerErr \/ PollTerminated \/ UNCHANGED vars
    BY <1>2, <2>1 DEF InnerPending, InnerErr, PollTerminated, vars, TypeOK
  <2>2. ASSUME NEW n \in 0..Len(wire), InnerChunk(n)
        PROVE  TypeOK'
    <3> DEFINE received == buffer \o SubSeq(wire, 1, n)
    <3>1. SubSeq(wire, 1, n) \in Str /\ From(wire, n + 1) \in Str
      BY <1>2, TextCut DEF TypeOK
    <3>2. received \in Str
      BY <1>2, <3>1, JoinedAt DEF TypeOK
    <3> HIDE DEF received
    <3>3. Valid(received) \in Str /\ HeldBack(received) \in Str
      BY <3>2, ValidAndHeldBack
    <3>4. out \o Valid(received) \in Str
      BY <1>2, <3>3, JoinedAt DEF TypeOK
    <3>5. QED
      BY <1>2, <2>2, <3>1, <3>3, <3>4 DEF InnerChunk, TypeOK, received
  <2>3. CASE InnerEnd
    <3>1. out \o buffer \in Str
      BY <1>2, JoinedAt DEF TypeOK
    <3>2. QED
      BY <1>2, <2>3, <3>1, EmptyText DEF InnerEnd, TypeOK
  <2>4. QED
    BY <1>2, <2>1, <2>2, <2>3 DEF Next
<1>3. QED
  BY <1>1, <1>2

(***************************************************************************)
(* Utf8Stream is type-correct.                                             *)
(***************************************************************************)
THEOREM Utf8TypeCorrect == Spec => []TypeOK
BY TypeInductive, PTL DEF Spec

-----------------------------------------------------------------------------
(***************************************************************************)
(* While the stream is active the text is what was handed out, what is     *)
(* held back and what is to come; the first is valid and the second begins *)
(* with no text.  When it has ended, all that was text is out.             *)
(***************************************************************************)
Carried ==
  /\ state = "Active" =>
       /\ source = (out \o buffer) \o wire
       /\ ValidUtf8(out)
       /\ ValidUpTo(buffer) = 0
  /\ state = "Terminated" => wire = <<>> /\ out = Valid(source)

\* What the end of the inner stream finds.
LEMMA EndFinds ==
  ASSUME TypeOK, Carried, InnerEnd
  PROVE  /\ source = out \o buffer /\ out = Valid(source) /\ out' = out
         /\ ret' = IF buffer = <<>> THEN "none" ELSE "utf8error"
<1>1. /\ wire = <<>> /\ source = (out \o buffer) \o wire
      /\ ValidUtf8(out) /\ ValidUpTo(buffer) = 0 /\ out \in Str /\ buffer \in Str
  BY DEF InnerEnd, Carried, TypeOK
<1>2. out \o buffer \in Str
  BY <1>1, JoinedAt
<1>3. source = out \o buffer
  BY <1>1, <1>2, ConcatEmptySeq DEF Str
<1>4. SubSeq(buffer, 1, 0) = <<>>
  BY SubSeqEmpty
<1>5. Valid(source) = out
  <2>1. Valid(source) = out \o SubSeq(buffer, 1, 0)
    BY <1>1, <1>3, ValidOfJoin DEF Valid
  <2>2. QED
    BY <1>1, <1>4, <2>1, ConcatEmptySeq DEF Str
<1>6. ~(buffer # <<>> /\ ValidUtf8(buffer))
  BY <1>1, WholeIsValid, EmptySeq DEF Str
<1>7. QED
  BY <1>3, <1>5, <1>6 DEF InnerEnd

LEMMA CarriedInductive ==
  /\ Init => Carried
  /\ TypeOK /\ Carried /\ [Next]_vars => Carried'
<1>1. Init => Carried
  <2> SUFFICES ASSUME Init
               PROVE  Carried
    OBVIOUS
  <2>1. /\ state = "Active" /\ source \in Str /\ wire = source
        /\ out = <<>> /\ buffer = <<>>
    BY WiresAssumption DEF Init
  <2>2. (<<>> \o <<>>) \o source = source
    BY <2>1, EmptyText, ConcatEmptySeq DEF Str
  <2>3. ValidUpTo(<<>>) = 0
    BY EmptyText, WholeIsValid
  <2>4. QED
    BY <2>1, <2>2, <2>3, EmptyText DEF Carried
<1>2. ASSUME TypeOK, Carried, [Next]_vars
      PROVE  Carried'
  <2>1. CASE InnerPending \/ InnerErr \/ PollTerminated \/ UNCHANGED vars
    BY <1>2, <2>1 DEF InnerPending, InnerErr, PollTerminated, vars, Carried
  <2>2. ASSUME NEW n \in 0..Len(wire), InnerChunk(n)
        PROVE  Carried'
    <3> DEFINE chunk == SubSeq(wire, 1, n)
               rest == From(wire, n + 1)
               received == buffer \o chunk
    <3>1. /\ source = (out \o buffer) \o wire /\ ValidUtf8(out)
          /\ out \in Str /\ buffer \in Str /\ wire \in Str
      BY <1>2, <2>2 DEF InnerChunk, Carried, TypeOK
    <3>2. chunk \in Str /\ rest \in Str /\ wire = chunk \o rest
      BY <3>1, TextCut
    <3> HIDE DEF chunk, rest
    <3>3. received \in Str
      BY <3>1, <3>2, JoinedAt
    <3> HIDE DEF received
    <3>4. /\ Valid(received) \in Str /\ HeldBack(received) \in Str
          /\ ValidUtf8(Valid(received)) /\ Valid(received) \o HeldBack(received) = received
          /\ ValidUpTo(HeldBack(received)) = 0
      BY <3>3, ValidAndHeldBack, Longest, NoTextHeldBack
    <3>5. source = ((out \o Valid(received)) \o HeldBack(received)) \o rest
      <4>1. source = ((out \o buffer) \o chunk) \o rest
        <5>1. out \o buffer \in Str
          BY <3>1, Associates
        <5>2. ((out \o buffer) \o chunk) \o rest = (out \o buffer) \o (chunk \o rest)
          <6>1. InARow(out \o buffer, chunk, rest)
            BY <3>2, <5>1, Regroup
          <6>2. QED
            BY <6>1 DEF InARow
        <5>3. QED
          BY <3>1, <3>2, <5>2
      <4>2. (out \o buffer) \o chunk = out \o received
        <5>1. out \in Str /\ buffer \in Str /\ chunk \in Str
          BY <3>1, <3>2
        <5>2. (out \o buffer) \o chunk = out \o (buffer \o chunk)
          <6>1. InARow(out, buffer, chunk)
            BY <5>1, Regroup
          <6>2. QED
            BY <6>1 DEF InARow
        <5>3. QED
          BY <5>2 DEF received
      <4>3. (out \o Valid(received)) \o HeldBack(received) = out \o received
        <5>1. (out \o Valid(received)) \o HeldBack(received)
                = out \o (Valid(received) \o HeldBack(received))
          <6>1. out \in Str /\ Valid(received) \in Str /\ HeldBack(received) \in Str
            BY <3>1, <3>4
          <6>2. QED
            <7>1. InARow(out, Valid(received), HeldBack(received))
              BY <6>1, Regroup
            <7>2. QED
              BY <7>1 DEF InARow
        <5>2. QED
          BY <3>4, <5>1
      <4>4. QED
        BY <4>1, <4>2, <4>3
    <3>6. ValidUtf8(out \o Valid(received))
      BY <3>1, <3>4, ValidConcat
    <3>7. /\ state' = "Active" /\ source' = source /\ wire' = rest
          /\ out' = out \o Valid(received) /\ buffer' = HeldBack(received)
      BY <2>2 DEF InnerChunk, chunk, rest, received
    <3>8. QED
      BY <3>4, <3>5, <3>6, <3>7 DEF Carried
  <2>3. CASE InnerEnd
    BY <1>2, <2>3, EndFinds DEF InnerEnd, Carried
  <2>4. QED
    BY <1>2, <2>1, <2>2, <2>3 DEF Next
<1>3. QED
  BY <1>1, <1>2

(***************************************************************************)
(* At any time the strings handed out are the longest beginning of the     *)
(* bytes that have arrived that is UTF-8.                                  *)
(***************************************************************************)
THEOREM AllTextHandedOut == Spec => []HandsOutAllText
<1>1. TypeOK /\ Carried => HandsOutAllText
  <2> SUFFICES ASSUME TypeOK, Carried
               PROVE  HandsOutAllText
    OBVIOUS
  <2>1. CASE state = "Active"
    <3>1. /\ source = (out \o buffer) \o wire /\ ValidUtf8(out) /\ ValidUpTo(buffer) = 0
          /\ out \in Str /\ buffer \in Str /\ wire \in Str
      BY <2>1 DEF Carried, TypeOK
    <3>2. out \o buffer \in Str
      BY <3>1, JoinedAt
    <3>3. Arrived = out \o buffer
      <4> DEFINE a == out \o buffer
      <4>1. a \in Seq(Byte) /\ wire \in Seq(Byte) /\ source = a \o wire
            /\ Len(a) \in Nat /\ Len(wire) \in Nat /\ Len(source) - Len(wire) = Len(a)
        BY <3>1, <3>2, JoinedAt DEF Str
      <4> HIDE DEF a
      <4>2. Arrived = SubSeq(a \o wire, 1, Len(a))
        BY <4>1 DEF Arrived
      <4>3. CASE Len(a) = 0
        <5>1. Arrived = <<>>
          BY <4>2, <4>3, SubSeqEmpty
        <5>2. a = <<>>
          BY <4>1, <4>3, EmptySeq
        <5>3. QED
          BY <5>1, <5>2 DEF a
      <4>4. CASE Len(a) # 0
        <5>1. 1 \in 1..Len(a) /\ Len(a) \in 1..Len(a)
          BY <4>1, <4>4
        <5>2. SubSeq(a \o wire, 1, Len(a)) = SubSeq(a, 1, Len(a))
          BY <4>1, <5>1, SubSeqOfConcat1
        <5>3. QED
          BY <4>1, <4>2, <5>2, SubSeqFull DEF a
      <4>5. QED
        BY <4>3, <4>4
    <3>4. Valid(out \o buffer) = out \o SubSeq(buffer, 1, 0)
      BY <3>1, ValidOfJoin DEF Valid
    <3>5. out \o SubSeq(buffer, 1, 0) = out
      BY <3>1, SubSeqEmpty, ConcatEmptySeq DEF Str
    <3>6. QED
      BY <3>3, <3>4, <3>5 DEF HandsOutAllText
  <2>2. CASE state = "Terminated"
    <3>1. wire = <<>> /\ out = Valid(source) /\ source \in Seq(Byte)
      BY <2>2, WiresAssumption DEF Carried, TypeOK, Str
    <3>2. Arrived = source
      BY <3>1, EmptySeq, SubSeqFull DEF Arrived
    <3>3. QED
      BY <3>1, <3>2 DEF HandsOutAllText
  <2>3. QED
    BY <2>1, <2>2 DEF TypeOK
<1>2. QED
  BY <1>1, CarriedInductive, TypeInductive, PTL DEF Spec

(***************************************************************************)
(* While all of the text is UTF-8, less than a character is held back.     *)
(***************************************************************************)
THEOREM LittleIsHeldBack == Spec => []HoldsLessThanACharacter
<1>1. TypeOK /\ Carried => HoldsLessThanACharacter
  <2> SUFFICES ASSUME TypeOK, Carried, ValidUtf8(source)
               PROVE  Len(buffer) < Len(BOM)
    BY DEF HoldsLessThanACharacter
  <2>1. CASE state = "Active"
    <3>1. /\ source = (out \o buffer) \o wire /\ ValidUtf8(out) /\ ValidUpTo(buffer) = 0
          /\ out \in Str /\ buffer \in Str /\ wire \in Str
      BY <2>1 DEF Carried, TypeOK
    <3>2. source = out \o (buffer \o wire) /\ buffer \o wire \in Str
      <4>1. InARow(out, buffer, wire)
        BY <3>1, Regroup
      <4>2. buffer \o wire \in Str
        BY <3>1, JoinedAt
      <4>3. QED
        BY <3>1, <4>1, <4>2 DEF InARow
    <3>3. ValidUtf8(buffer \o wire)
      BY <3>1, <3>2, ValidConcat
    <3>4. QED
      BY <3>1, <3>3, PartOfACharacter
  <2>2. CASE state = "Terminated"
    BY <2>2, BomText, EmptySeq DEF TypeOK
  <2>3. QED
    BY <2>1, <2>2 DEF TypeOK
<1>2. QED
  BY <1>1, CarriedInductive, TypeInductive, PTL DEF Spec

\* A stream terminates at the end of the inner one, and there alone.
LEMMA OnlyEndTerminates ==
  ASSUME TypeOK, [Next]_vars, state = "Active", state' = "Terminated"
  PROVE  InnerEnd
BY DEF Next, InnerPending, InnerErr, InnerChunk, PollTerminated, vars

(***************************************************************************)
(* The consumer is told at the end of bytes that were no text, if and only *)
(* if there were some.                                                     *)
(***************************************************************************)
THEOREM EndTellsOfLoss == Spec => EndTellsLoss
<1>1. ASSUME TypeOK, Carried, [Next]_vars, state = "Active", state' = "Terminated"
      PROVE  ret' = "utf8error" <=> out' # source
  <2>1. /\ source = out \o buffer /\ out' = out
        /\ ret' = IF buffer = <<>> THEN "none" ELSE "utf8error"
        /\ out \in Seq(Byte) /\ buffer \in Seq(Byte)
    BY <1>1, OnlyEndTerminates, EndFinds DEF TypeOK, Str
  <2>2. out \o buffer = out <=> buffer = <<>>
    BY <2>1, ConcatEmptySeq, ConcatSimplifications
  <2>3. QED
    BY <2>1, <2>2
<1>2. TypeOK /\ Carried /\ [Next]_vars =>
        [state = "Active" /\ state' = "Terminated" => (ret' = "utf8error" <=> out' # source)]_vars
  BY <1>1
<1>3. QED
  BY <1>2, CarriedInductive, TypeInductive, PTL DEF Spec, EndTellsLoss

(***************************************************************************)
(* The end returns no string: there never is one to return.                *)
(***************************************************************************)
THEOREM NothingLeftAtEnd == Spec => NoStringAtEnd
<1>1. TypeOK /\ Carried /\ [Next]_vars =>
        [state = "Active" /\ state' = "Terminated" => ret' # "string"]_vars
  <2>1. ASSUME TypeOK, Carried, [Next]_vars, state = "Active", state' = "Terminated"
        PROVE  ret' # "string"
    BY <2>1, OnlyEndTerminates, EndFinds
  <2>2. QED
    BY <2>1
<1>2. QED
  BY <1>1, CarriedInductive, TypeInductive, PTL DEF Spec, NoStringAtEnd
=============================================================================
