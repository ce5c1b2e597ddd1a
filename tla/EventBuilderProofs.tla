------------------------- MODULE EventBuilderProofs -------------------------
(***************************************************************************)
(* Facts about the line parser, the event builder and the byte order mark, *)
(* for every line and every byte sequence.                                 *)
(***************************************************************************)
EXTENDS EventBuilder, SequenceTheorems, TLAPS

\* The part of s \o t from a position in s is the part of s with t after it.
LEMMA SubSeqToEnd ==
  ASSUME NEW S, NEW s \in Seq(S), NEW t \in Seq(S), NEW m \in 1..(Len(s) + 1)
  PROVE  SubSeq(s \o t, m, Len(s \o t)) = SubSeq(s, m, Len(s)) \o t
<1> DEFINE l == SubSeq(s \o t, m, Len(s \o t))
           r == SubSeq(s, m, Len(s))
<1>1. /\ s \o t \in Seq(S) /\ Len(s \o t) = Len(s) + Len(t)
      /\ \A i \in 1..(Len(s) + Len(t)) :
           (s \o t)[i] = IF i <= Len(s) THEN s[i] ELSE t[i - Len(s)]
  BY ConcatProperties
<1>2. /\ l \in Seq(S) /\ Len(l) = Len(s) + Len(t) - m + 1
      /\ \A i \in 1..Len(l) : l[i] = (s \o t)[m + i - 1]
  BY <1>1
<1>3. /\ r \in Seq(S) /\ Len(r) = Len(s) - m + 1
      /\ \A i \in 1..Len(r) : r[i] = s[m + i - 1]
  OBVIOUS
<1> HIDE DEF l, r
<1>4. /\ r \o t \in Seq(S) /\ Len(r \o t) = Len(r) + Len(t)
      /\ \A i \in 1..(Len(r) + Len(t)) :
           (r \o t)[i] = IF i <= Len(r) THEN r[i] ELSE t[i - Len(r)]
  BY <1>3, ConcatProperties
<1>5. ASSUME NEW i \in 1..Len(l)
      PROVE  l[i] = (r \o t)[i]
  <2>1. /\ i \in Nat /\ m \in Nat /\ Len(s) \in Nat /\ Len(t) \in Nat
        /\ m + i - 1 \in 1..(Len(s) + Len(t)) /\ i \in 1..(Len(r) + Len(t))
        /\ m + i - 1 - Len(s) = i - Len(r)
        /\ i <= Len(r) <=> m + i - 1 <= Len(s)
    BY <1>2, <1>3
  <2>2. l[i] = IF m + i - 1 <= Len(s) THEN s[m + i - 1] ELSE t[m + i - 1 - Len(s)]
    <3>1. l[i] = (s \o t)[m + i - 1]
      BY <1>2
    <3>2. (s \o t)[m + i - 1]
            = IF m + i - 1 <= Len(s) THEN s[m + i - 1] ELSE t[m + i - 1 - Len(s)]
      BY <1>1, <2>1
    <3>3. QED
      BY <3>1, <3>2, Zenon
  <2>3. (r \o t)[i] = IF i <= Len(r) THEN r[i] ELSE t[i - Len(r)]
    BY <1>4, <2>1, Zenon
  <2>4. CASE i <= Len(r)
    <3>1. i \in 1..Len(r)
      BY <2>1, <2>4
    <3>2. QED
      BY <1>3, <2>1, <2>2, <2>3, <2>4, <3>1, Zenon
  <2>5. CASE ~(i <= Len(r))
    BY <2>1, <2>2, <2>3, <2>5, Zenon
  <2>6. QED
    BY <2>4, <2>5
<1>6. Len(l) = Len(r \o t)
  BY <1>2, <1>3, <1>4
<1>7. l = r \o t
  BY <1>2, <1>4, <1>5, <1>6, SeqEqual, Zenon
<1>8. QED
  BY <1>7 DEF l, r

\* A text cut in two is the text.
LEMMA CutAndJoin ==
  ASSUME NEW w \in Str, NEW n \in 0..Len(w)
  PROVE  /\ SubSeq(w, 1, n) \in Str /\ From(w, n + 1) \in Str
         /\ SubSeq(w, 1, n) \o From(w, n + 1) = w
<1>1. Len(w) \in Nat /\ 1 \in 1..(Len(w) + 1) /\ n \in (1 - 1)..Len(w) /\ Len(w) \in n..Len(w)
  BY DEF Str
<1>2. SubSeq(w, 1, n) \o SubSeq(w, n + 1, Len(w)) = SubSeq(w, 1, Len(w))
  BY <1>1, ConcatAdjacentSubSeq, Zenon DEF Str
<1>3. SubSeq(w, 1, Len(w)) = w
  BY SubSeqFull DEF Str
<1>4. SubSeq(w, 1, n) \in Str
  BY <1>1 DEF Str
<1>5. SubSeq(w, n + 1, Len(w)) \in Str
  BY <1>1 DEF Str
<1>6. QED
  BY <1>2, <1>3, <1>4, <1>5 DEF From

\* The first position of a byte is the only one, and Memchr returns it.
LEMMA MemchrIsFirst ==
  ASSUME NEW S, NEW b, NEW i \in 1..Len(b), Len(b) \in Nat, IsFirst(i, S, b)
  PROVE  Memchr(S, b) = i
<1>1. ASSUME NEW j \in 1..Len(b), IsFirst(j, S, b)
      PROVE  j = i
  BY <1>1 DEF IsFirst
<1>2. IsFirst(Memchr(S, b), S, b) /\ Memchr(S, b) \in 1..Len(b)
  BY DEF Memchr
<1>3. QED
  BY <1>1, <1>2

\* Where a buffer with a line is split.
LEMMA EolAtIsFirst ==
  ASSUME NEW b \in Str, HasLine(b)
  PROVE  /\ EolAt(b) \in 1..Len(b)
         /\ IsFirst(EolAt(b), Eol, b)
         /\ b[EolAt(b)] = CR => EolAt(b) < Len(b)
<1>1. PICK i \in 1..Len(b) : IsFirst(i, Eol, b) /\ (b[i] = CR => i < Len(b))
  BY DEF HasLine
<1>2. EolAt(b) = i
  BY <1>1, MemchrIsFirst DEF EolAt, Str
<1>3. QED
  BY <1>1, <1>2

LEMMA SplitType ==
  ASSUME NEW b \in Str, HasLine(b)
  PROVE  /\ LineOf(b) \in Str /\ RestOf(b) \in Str
         /\ Len(RestOf(b)) < Len(b)
<1>1. EolAt(b) \in 1..Len(b) /\ NextLineAt(b) \in 2..(Len(b) + 1)
  BY EolAtIsFirst DEF NextLineAt, CrLfAt, Str
<1>2. QED
  BY <1>1 DEF LineOf, RestOf, Str

(***************************************************************************)
(* A line that was found stays the line that is found, whatever arrives    *)
(* after it.                                                               *)
(***************************************************************************)
THEOREM LineIsStable ==
  ASSUME NEW b \in Str, NEW c \in Str, HasLine(b)
  PROVE  /\ HasLine(b \o c)
         /\ LineOf(b \o c) = LineOf(b)
         /\ RestOf(b \o c) = RestOf(b) \o c
<1> DEFINE i == EolAt(b)
<1>1. /\ i \in 1..Len(b)
      /\ IsFirst(i, Eol, b)
      /\ b[i] = CR => i < Len(b)
  BY EolAtIsFirst
<1>2. /\ b \o c \in Str /\ Len(b \o c) = Len(b) + Len(c)
      /\ \A k \in 1..Len(b) : (b \o c)[k] = b[k]
  BY DEF Str
<1>3. IsFirst(i, Eol, b \o c)
  BY <1>1, <1>2 DEF IsFirst, Str
<1>4. HasLine(b \o c)
  BY <1>1, <1>2, <1>3 DEF HasLine, Str
<1>5. EolAt(b \o c) = i
  <2>1. i \in 1..Len(b \o c) /\ Len(b \o c) \in Nat
    BY <1>1, <1>2 DEF Str
  <2>2. QED
    BY <1>3, <2>1, MemchrIsFirst DEF EolAt
<1>6. LineOf(b \o c) = LineOf(b)
  BY <1>1, <1>2, <1>5 DEF LineOf, Str
<1>7. CrLfAt(b \o c, i) <=> CrLfAt(b, i)
  BY <1>1, <1>2 DEF CrLfAt, Str
<1>8. NextLineAt(b \o c) = NextLineAt(b) /\ NextLineAt(b) \in 2..(Len(b) + 1)
  BY <1>1, <1>5, <1>7 DEF NextLineAt, CrLfAt, Str
<1>9. RestOf(b \o c) = RestOf(b) \o c
  <2>1. NextLineAt(b) \in 1..(Len(b) + 1)
    BY <1>8 DEF Str
  <2>2. QED
    BY <1>8, <2>1, SubSeqToEnd, Zenon DEF RestOf, Str
<1>10. QED
  BY <1>4, <1>6, <1>9

-----------------------------------------------------------------------------
\* The two owning parsers read every line alike.
LEMMA OwningReadersAlike ==
  ASSUME NEW line \in Str
  PROVE  ParseLineFromBytes(line) = ParseLineFromBuffer(line)
<1>1. CASE HasColon(line) /\ line # <<>>
  <2> DEFINE c == ColonAt(line)
  <2>1. c \in 1..Len(line) /\ Len(line) \in Nat
    BY <1>1, MemchrIsFirst DEF HasColon, ColonAt, Str
  <2>2. c < Len(line) <=> c + 1 <= Len(line)
    BY <2>1
  <2>3. QED
    BY <1>1, <2>2 DEF ParseLineFromBytes, ParseLineFromBuffer, ValueStart
<1>2. CASE ~HasColon(line) \/ line = <<>>
  BY <1>2 DEF ParseLineFromBytes, ParseLineFromBuffer
<1>3. QED
  BY <1>1, <1>2

\* And so does the borrowing one.
THEOREM ReadersAlike ==
  ASSUME NEW line \in Str
  PROVE  /\ ReadLine(line) = ParseLineFromBuffer(line)
         /\ ParseLineFromBytes(line) = ParseLineFromBuffer(line)
<1> SUFFICES ReadLine(line) = ParseLineFromBuffer(line)
  BY OwningReadersAlike
<1>1. CASE line = <<>>
  BY <1>1 DEF ReadLine, ParseLineFromBuffer, HasColon
<1>2. CASE line # <<>> /\ ~HasColon(line)
  BY <1>2 DEF ReadLine, ParseLineFromBuffer
<1>3. CASE HasColon(line)
  <2> DEFINE c == ColonAt(line)
             v == From(line, c + 1)
  <2>1. line # <<>> /\ c \in 1..Len(line)
    BY <1>3, MemchrIsFirst DEF HasColon, ColonAt, Str
  <2>2. /\ v # <<>> <=> c + 1 <= Len(line)
        /\ v # <<>> => v[1] = line[c + 1]
        /\ From(v, 2) = From(line, c + 2)
    <3>1. v # <<>> <=> c + 1 <= Len(line)
      <4>1. v \in Seq(Byte) /\ Len(v) = Len(line) - c /\ Len(line) \in Nat
        BY <2>1 DEF From, Str
      <4> HIDE DEF v
      <4>2. v # <<>> <=> Len(v) # 0
        BY <4>1, EmptySeq
      <4>3. QED
        BY <2>1, <4>1, <4>2
    <3>2. v # <<>> => v[1] = line[c + 1]
      BY <2>1, <3>1 DEF From, Str
    <3>3. From(v, 2) = From(line, c + 2)
      <4>1. /\ v \in Str /\ Len(v) = Len(line) - c
            /\ \A i \in 1..Len(v) : v[i] = line[c + i]
        BY <2>1 DEF From, Str
      <4> HIDE DEF v
      <4>2. /\ From(v, 2) \in Str
            /\ Len(From(v, 2)) = IF Len(v) > 0 THEN Len(v) - 1 ELSE 0
            /\ \A i \in 1..Len(From(v, 2)) : From(v, 2)[i] = v[i + 1]
        BY <4>1 DEF From, Str
      <4>3. /\ From(line, c + 2) \in Str
            /\ Len(From(line, c + 2)) = IF Len(line) > c THEN Len(line) - c - 1 ELSE 0
            /\ \A i \in 1..Len(From(line, c + 2)) : From(line, c + 2)[i] = line[c + 1 + i]
        BY <2>1 DEF From, Str
      <4>4. Len(From(v, 2)) = Len(From(line, c + 2))
        BY <2>1, <4>1, <4>2, <4>3 DEF Str
      <4>5. ASSUME NEW i \in 1..Len(From(v, 2))
            PROVE  From(v, 2)[i] = From(line, c + 2)[i]
        <5>1. i + 1 \in 1..Len(v) /\ c + (i + 1) = c + 1 + i
          BY <2>1, <4>1, <4>2 DEF Str
        <5>2. v[i + 1] = line[c + 1 + i]
          BY <4>1, <5>1
        <5>3. i \in 1..Len(From(line, c + 2))
          BY <4>4
        <5>4. QED
          BY <4>2, <4>3, <5>2, <5>3
      <4>6. QED
        BY <4>2, <4>3, <4>4, <4>5, SeqEqual, Zenon DEF Str
    <3>4. QED
      BY <3>1, <3>2, <3>3
  <2>3. StripSpace(v) = From(line, ValueStart(line))
    BY <2>2 DEF StripSpace, ValueStart
  <2>4. QED
    BY <1>3, <2>1, <2>3 DEF ReadLine, ParseLineFromBuffer
<1>4. QED
  BY <1>1, <1>2, <1>3

\* Two bytes of a text.
Two(b, i) == /\ SubSeq(b, i, i + 1) \in Str /\ Len(SubSeq(b, i, i + 1)) = 2
             /\ SubSeq(b, i, i + 1)[1] = b[i] /\ SubSeq(b, i, i + 1)[2] = b[i + 1]

LEMMA TwoBytes ==
  ASSUME NEW b \in Str, NEW i \in 1..Len(b), i + 1 \in 1..Len(b)
  PROVE  Two(b, i)
<1> DEFINE s == SubSeq(b, i, i + 1)
<1>1. /\ i \in Int /\ i + 1 \in Int /\ b \in Seq(Byte) /\ Len(b) \in Nat
      /\ \A k \in i..(i + 1) : k \in 1..Len(b)
  BY DEF Str
<1>2. \A k \in i..(i + 1) : b[k] \in Byte
  BY ONLY <1>1, ElementOfSeq
<1>3. /\ s \in Seq(Byte)
      /\ Len(s) = IF i <= i + 1 THEN (i + 1) - i + 1 ELSE 0
      /\ \A q \in 1..((i + 1) - i + 1) : s[q] = b[i + q - 1]
  BY <1>1, <1>2, SubSeqProperties
<1>4. i <= i + 1 /\ (i + 1) - i + 1 = 2 /\ i + 1 - 1 = i /\ i + 2 - 1 = i + 1
      /\ 1 \in 1..2 /\ 2 \in 1..2
  BY ONLY <1>1
<1> HIDE DEF s
<1>5. s \in Seq(Byte) /\ Len(s) = 2 /\ s[1] = b[i] /\ s[2] = b[i + 1]
  BY <1>3, <1>4
<1>6. QED
  BY <1>5 DEF s, Two, Str

\* The sequences of one byte and of two.
LEMMA ShortText ==
  /\ \A s \in Str : Len(s) = 1 => s = <<s[1]>>
  /\ \A s \in Str : Len(s) = 2 => s = <<s[1], s[2]>>
<1>1. ASSUME NEW s \in Str, Len(s) = 1
      PROVE  s = <<s[1]>>
  <2> DEFINE t == <<s[1]>>
  <2>1. t \in Seq(Byte) /\ Len(t) = 1 /\ t[1] = s[1]
    BY <1>1 DEF Str
  <2> HIDE DEF t
  <2>2. \A k \in 1..Len(s) : s[k] = t[k]
    BY <1>1, <2>1
  <2>3. s = t
    BY <1>1, <2>1, <2>2, SeqEqual DEF Str
  <2>4. QED
    BY <2>3 DEF t
<1>2. ASSUME NEW s \in Str, Len(s) = 2
      PROVE  s = <<s[1], s[2]>>
  <2> DEFINE t == <<s[1], s[2]>>
  <2>1. t \in Seq(Byte) /\ Len(t) = 2 /\ t[1] = s[1] /\ t[2] = s[2]
    <3>1. s[1] \in Byte /\ s[2] \in Byte
      <4>1. \A k \in 1..Len(s) : s[k] \in Byte
        BY <1>2, ElementOfSeq DEF Str
      <4>2. 1 \in 1..Len(s) /\ 2 \in 1..Len(s)
        BY <1>2
      <4>3. QED
        BY <4>1, <4>2
    <3>2. \A x, y \in Byte : /\ <<x, y>> \in Seq(Byte) /\ Len(<<x, y>>) = 2
                             /\ <<x, y>>[1] = x /\ <<x, y>>[2] = y
      OBVIOUS
    <3>3. QED
      BY <3>1, <3>2
  <2> HIDE DEF t
  <2>2. \A k \in 1..Len(s) : s[k] = t[k]
    <3>1. \A k \in 1..Len(s) : k = 1 \/ k = 2
      BY <1>2
    <3>2. QED
      BY <2>1, <3>1
  <2>3. s = t
    BY <1>2, <2>1, <2>2, SeqEqual DEF Str
  <2>4. QED
    BY <2>3 DEF t
<1>3. QED
  BY <1>1, <1>2

(***************************************************************************)
(* A split at a line end (find_eol, parser.rs:93) leaves no end inside the *)
(* line, loses nothing but one end, and after a lone CR there is a byte    *)
(* that shows it is one.                                                   *)
(***************************************************************************)
THEOREM SplitLosesNothing ==
  ASSUME NEW b \in Str, HasLine(b)
  PROVE  /\ \A k \in 1..Len(LineOf(b)) : LineOf(b)[k] \notin Eol
         /\ \E end \in Ends :
              /\ b = LineOf(b) \o (end \o RestOf(b))
              /\ end = <<CR>> => RestOf(b) # <<>> /\ Head(RestOf(b)) # LF
<1> DEFINE i == EolAt(b)
           n == NextLineAt(b)
           end == SubSeq(b, i, n - 1)
<1>1. /\ i \in 1..Len(b) /\ Len(b) \in Nat
      /\ b[i] \in {CR, LF} /\ \A j \in 1..(i - 1) : b[j] \notin Eol
      /\ b[i] = CR => i < Len(b)
  BY EolAtIsFirst DEF IsFirst, Eol, Str
<1>2. n \in {i + 1, i + 2} /\ n <= Len(b) + 1 /\ (n = i + 2 <=> CrLfAt(b, i))
  BY <1>1 DEF NextLineAt, CrLfAt
<1> HIDE DEF i, n
<1>3. \A k \in 1..Len(LineOf(b)) : LineOf(b)[k] \notin Eol
  <2>1. LineOf(b) = SubSeq(b, 1, i - 1)
    BY DEF LineOf, i
  <2>2. QED
    BY <1>1, <2>1 DEF Str
<1>4. b = LineOf(b) \o (end \o RestOf(b))
  <2>1. end \o SubSeq(b, n, Len(b)) = SubSeq(b, i, Len(b))
    <3>1. /\ i \in 1..(Len(b) + 1) /\ (n - 1) \in (i - 1)..Len(b)
          /\ Len(b) \in (n - 1)..Len(b) /\ n = (n - 1) + 1
      BY <1>1, <1>2
    <3>2. end \o SubSeq(b, (n - 1) + 1, Len(b)) = SubSeq(b, i, Len(b))
      BY <3>1, ConcatAdjacentSubSeq DEF Str
    <3>3. QED
      BY <3>1, <3>2
  <2>2. SubSeq(b, 1, i - 1) \o SubSeq(b, i, Len(b)) = b
    <3>1. (i - 1) \in 0..Len(b) /\ i = (i - 1) + 1
      BY <1>1
    <3>2. SubSeq(b, 1, i - 1) \o From(b, (i - 1) + 1) = b
      BY <3>1, CutAndJoin
    <3>3. QED
      BY <3>1, <3>2 DEF From
  <2>3. LineOf(b) = SubSeq(b, 1, i - 1) /\ RestOf(b) = SubSeq(b, n, Len(b))
    BY DEF LineOf, RestOf, i, n
  <2>4. QED
    BY <2>1, <2>2, <2>3
<1>5. CASE n = i + 1
  <2>1. end = <<b[i]>>
    <3>1. end \in Str /\ Len(end) = 1 /\ end[1] = b[i]
      BY <1>1, <1>5 DEF Str
    <3>2. QED
      BY <3>1, ShortText
  <2>2. ASSUME b[i] = CR
        PROVE  RestOf(b) # <<>> /\ Head(RestOf(b)) # LF
    <3>1. i < Len(b) /\ b[i + 1] # LF
      BY <1>1, <1>2, <1>5, <2>2 DEF CrLfAt
    <3>2. RestOf(b) = SubSeq(b, i + 1, Len(b))
      BY <1>5 DEF RestOf, n
    <3>3. RestOf(b) \in Seq(Byte) /\ Len(RestOf(b)) >= 1 /\ RestOf(b)[1] = b[i + 1]
      BY <1>1, <3>1, <3>2 DEF Str
    <3>4. QED
      BY <3>1, <3>3
  <2>3. CR # LF
    BY ByteAssumption
  <2>4. CASE b[i] = CR
    BY <1>3, <1>4, <2>1, <2>2, <2>4 DEF Ends
  <2>5. CASE b[i] = LF
    <3>1. <<LF>> # <<CR>>
      BY <2>3
    <3>2. QED
      BY <1>3, <1>4, <2>1, <2>5, <3>1 DEF Ends
  <2>6. QED
    BY <1>1, <2>4, <2>5
<1>6. CASE n = i + 2
  <2>1. b[i] = CR /\ b[i + 1] = LF /\ i + 1 <= Len(b)
    BY <1>1, <1>2, <1>6 DEF CrLfAt
  <2>2. end = <<CR, LF>>
    <3>1. end \in Str /\ Len(end) = 2 /\ end[1] = CR /\ end[2] = LF
      <4>1. i \in 1..Len(b) /\ i + 1 \in 1..Len(b) /\ Len(b) \in Nat
        BY <1>1, <2>1
      <4>2. end = SubSeq(b, i, i + 1)
        BY <1>6, <4>1
      <4>3. Two(b, i)
        BY <4>1, TwoBytes
      <4>4. QED
        BY <2>1, <4>2, <4>3 DEF Two
    <3>2. end = <<end[1], end[2]>>
      BY <3>1, ShortText
    <3>3. QED
      BY <3>1, <3>2
  <2>3. <<CR, LF>> # <<CR>>
    OBVIOUS
  <2>4. QED
    BY <1>3, <1>4, <2>2, <2>3 DEF Ends
<1>7. QED
  BY <1>2, <1>5, <1>6

LEMMA RawLineType ==
  ASSUME NEW line \in Str
  PROVE  ParseLineFromBuffer(line) \in RawLine
<1>1. CASE HasColon(line) /\ line # <<>>
  <2> DEFINE c == ColonAt(line)
  <2>1. c \in 1..Len(line)
    BY <1>1, MemchrIsFirst DEF HasColon, ColonAt, Str
  <2>2. SubSeq(line, 1, c - 1) \in Str
    BY <2>1 DEF Str
  <2>3. ValueStart(line) \in 2..(Len(line) + 1)
    BY <2>1 DEF ValueStart, Str
  <2>4. From(line, ValueStart(line)) \in Str
    BY <2>3 DEF From, Str
  <2>5. QED
    BY <1>1, <2>2, <2>4
    DEF ParseLineFromBuffer, RawLine, FieldLine, CommentLine, Option, Str
<1>2. CASE line = <<>> \/ ~HasColon(line)
  BY <1>2 DEF ParseLineFromBuffer, RawLine, FieldLine, EmptyLine, Option, Str
<1>3. QED
  BY <1>1, <1>2

-----------------------------------------------------------------------------
\* The empty text is UTF-8, and so is the line that push_str joins to another.
LEMMA EmptyIsUtf8 == ValidUtf8(<<>>)
<1>1. Len(<<>>) = 0
  OBVIOUS
<1>2. 1..0 = {}
  OBVIOUS
<1>3. QED
  BY <1>1, <1>2 DEF ValidUtf8

LEMMA JoinIsUtf8 ==
  ASSUME NEW v \in Str, NEW w \in Str, ValidUtf8(v), ValidUtf8(w)
  PROVE  ValidUtf8(v \o <<LF>> \o w)
<1> DEFINE j == v \o <<LF>> \o w
<1>1. LF \in Byte /\ LF \notin Ill /\ LF \notin {EF, BB, BF} /\ BOM \in Str /\ Len(BOM) = 3
  <2>1. EF \in Byte /\ BB \in Byte /\ BF \in Byte /\ LF \in Byte
    BY ByteAssumption
  <2>2. LF \notin Ill /\ LF \notin {EF, BB, BF}
    BY ByteAssumption
  <2>3. QED
    BY <2>1, <2>2 DEF BOM, Str
<1>2. /\ j \in Str /\ Len(j) = Len(v) + 1 + Len(w)
      /\ \A i \in 1..Len(v) : j[i] = v[i]
      /\ j[Len(v) + 1] = LF
      /\ \A i \in 1..Len(w) : j[Len(v) + 1 + i] = w[i]
  BY <1>1 DEF Str
<1> HIDE DEF j
<1>3. ASSUME NEW i \in 1..Len(v), v[i] \in {EF, BB, BF}
      PROVE  \E k \in 1..(Len(j) - 2) : i \in k..(k + 2) /\ SubSeq(j, k, k + 2) = BOM
  <2>1. PICK k \in 1..(Len(v) - 2) : i \in k..(k + 2) /\ SubSeq(v, k, k + 2) = BOM
    BY <1>3 DEF ValidUtf8
  <2>2. SubSeq(j, k, k + 2) = SubSeq(v, k, k + 2)
    <3>1. /\ k \in 1..(Len(j) - 2) /\ k + 2 \in 1..Len(v)
          /\ j \in Seq(Byte) /\ v \in Seq(Byte)
      BY <1>2 DEF Str
    <3>2. SubSeq(j, k, k + 2) \in Seq(Byte) /\ Len(SubSeq(j, k, k + 2)) = 3
          /\ \A q \in 1..3 : SubSeq(j, k, k + 2)[q] = j[k + q - 1]
      BY <1>2, <3>1
    <3>3. SubSeq(v, k, k + 2) \in Seq(Byte) /\ Len(SubSeq(v, k, k + 2)) = 3
          /\ \A q \in 1..3 : SubSeq(v, k, k + 2)[q] = v[k + q - 1]
      BY <3>1
    <3>4. \A q \in 1..3 : j[k + q - 1] = v[k + q - 1]
      BY <1>2, <3>1
    <3>5. QED
      BY <3>2, <3>3, <3>4, SeqEqual
  <2>3. k \in 1..(Len(j) - 2)
    BY <1>2 DEF Str
  <2>4. QED
    BY <2>1, <2>2, <2>3
<1>4. ASSUME NEW i \in 1..Len(w), w[i] \in {EF, BB, BF}
      PROVE  \E k \in 1..(Len(j) - 2) :
               Len(v) + 1 + i \in k..(k + 2) /\ SubSeq(j, k, k + 2) = BOM
  <2>1. PICK k \in 1..(Len(w) - 2) : i \in k..(k + 2) /\ SubSeq(w, k, k + 2) = BOM
    BY <1>4 DEF ValidUtf8
  <2> DEFINE m == Len(v) + 1 + k
  <2>2. SubSeq(j, m, m + 2) = SubSeq(w, k, k + 2)
    <3>1. /\ m \in 1..(Len(j) - 2) /\ k + 2 \in 1..Len(w)
          /\ j \in Seq(Byte) /\ w \in Seq(Byte)
      BY <1>2 DEF Str
    <3>2. SubSeq(j, m, m + 2) \in Seq(Byte) /\ Len(SubSeq(j, m, m + 2)) = 3
          /\ \A q \in 1..3 : SubSeq(j, m, m + 2)[q] = j[m + q - 1]
      BY <1>2, <3>1
    <3>3. SubSeq(w, k, k + 2) \in Seq(Byte) /\ Len(SubSeq(w, k, k + 2)) = 3
          /\ \A q \in 1..3 : SubSeq(w, k, k + 2)[q] = w[k + q - 1]
      BY <3>1
    <3>4. ASSUME NEW q \in 1..3
          PROVE  j[m + q - 1] = w[k + q - 1]
      <4>1. k + q - 1 \in 1..Len(w) /\ m + q - 1 = Len(v) + 1 + (k + q - 1)
        BY <3>1, <1>2 DEF Str
      <4>2. QED
        BY <1>2, <4>1
    <3>5. QED
      BY <3>2, <3>3, <3>4, SeqEqual
  <2>3. m \in 1..(Len(j) - 2) /\ Len(v) + 1 + i \in m..(m + 2)
    BY <1>2, <2>1 DEF Str
  <2>4. QED
    BY <2>1, <2>2, <2>3
<1>5. ASSUME NEW i \in 1..Len(j)
      PROVE  /\ j[i] \notin Ill
             /\ j[i] \in {EF, BB, BF} =>
                  \E k \in 1..(Len(j) - 2) : i \in k..(k + 2) /\ SubSeq(j, k, k + 2) = BOM
  <2>1. CASE i \in 1..Len(v)
    BY <2>1, <1>2, <1>3 DEF ValidUtf8
  <2>2. CASE i = Len(v) + 1
    BY <2>2, <1>1, <1>2
  <2>3. CASE i > Len(v) + 1
    <3> DEFINE d == i - Len(v) - 1
    <3>1. d \in 1..Len(w) /\ i = Len(v) + 1 + d
      BY <2>3, <1>2 DEF Str
    <3>2. j[i] = w[d]
      BY <1>2, <3>1
    <3>3. QED
      BY <3>1, <3>2, <1>4 DEF ValidUtf8
  <2>4. i \in 1..Len(v) \/ i = Len(v) + 1 \/ i > Len(v) + 1
    BY <1>2 DEF Str
  <2>5. QED
    BY <2>1, <2>2, <2>3, <2>4
<1>6. ValidUtf8(j)
  BY <1>5 DEF ValidUtf8
<1>7. QED
  BY <1>6 DEF j

-----------------------------------------------------------------------------
\* The types of what a line goes through.
LEMMA ValidateType ==
  ASSUME NEW raw \in RawLine
  PROVE  Validate(raw) \in ValidLine
<1>1. FieldName(raw.name) \in {"Event", "Data", "Id", "Retry", "Ignored"}
  BY DEF FieldName
<1>2. QED
  BY <1>1 DEF Validate, ValidLine, RawLine

LEMMA PushType ==
  ASSUME NEW data \in Option(Str), NEW str \in Str
  PROVE  PushStr(data, str) \in Str
BY ByteAssumption DEF PushStr, Option, Str

LEMMA UnwrapType ==
  ASSUME NEW value \in Option(Str)
  PROVE  UnwrapOrEmpty(value) \in Str
BY DEF UnwrapOrEmpty, Option, Str

LEMMA AddType ==
  ASSUME NEW b \in Builder, NEW l \in ValidLine
  PROVE  Add(b, l) \in Builder
<1>1. UnwrapOrEmpty(l.value) \in Str /\ PushStr(b.data, UnwrapOrEmpty(l.value)) \in Str
  BY PushType, UnwrapType DEF ValidLine, Builder
<1>2. l.value \in DOMAIN Millis => Millis[l.value] \in Nat
  BY BuilderAssumption
<1>3. l.value # None => l.value \in Str
  BY DEF ValidLine, Option
<1>4. QED
  BY <1>1, <1>2, <1>3 DEF Add, Builder, Option

LEMMA DispatchType ==
  ASSUME NEW b \in Builder
  PROVE  /\ AfterDispatch(b) \in Builder
         /\ Dispatched(b) \in Event \cup {None}
<1>1. AfterDispatch(b) \in Builder
  <2>1. EmptyBuilder \in Builder
    BY EmptySeq DEF EmptyBuilder, Builder, Option, Str
  <2>2. b.id \in Str
    BY DEF Builder
  <2>3. QED
    BY <2>1, <2>2 DEF AfterDispatch, Builder
<1>2. Dispatched(b) \in Event \cup {None}
  <2> DEFINE type == IF b.event = <<>> THEN Message ELSE b.event
  <2>1. type \in Str /\ b.id \in Str /\ b.retry \in Option(Nat)
    BY BuilderAssumption DEF Builder
  <2> HIDE DEF type
  <2>2. ASSUME b.data # None
        PROVE  [event |-> type, data |-> b.data, id |-> b.id, retry |-> b.retry] \in Event
    BY <2>1, <2>2 DEF Builder, Event, Option
  <2>3. QED
    BY <2>2 DEF Dispatched, type
<1>3. QED
  BY <1>1, <1>2

LEMMA ParseStepType ==
  ASSUME NEW b \in Builder, NEW line \in Str
  PROVE  /\ ParseStep(b, line).builder \in Builder
         /\ ParseStep(b, line).item \in Item \cup {None}
         /\ ~b.isComplete => ~ParseStep(b, line).builder.isComplete
<1> DEFINE raw == ParseLineFromBuffer(line)
           added == Add(b, Validate(raw))
<1>1. added \in Builder
  BY RawLineType, ValidateType, AddType
<1>2. CASE ~Validates(raw)
  BY <1>2 DEF ParseStep, Item
<1>3. CASE Validates(raw) /\ added.isComplete
  <2>1. ~AfterDispatch(added).isComplete
    BY DEF AfterDispatch, EmptyBuilder
  <2>2. QED
    BY <1>1, <1>3, <2>1, DispatchType DEF ParseStep, Item
<1>4. CASE Validates(raw) /\ ~added.isComplete
  BY <1>1, <1>4 DEF ParseStep
<1>5. QED
  BY <1>2, <1>3, <1>4

LEMMA StripType ==
  ASSUME NEW b \in Str
  PROVE  StripBom(b) \in Str /\ CloseLine(b) \in Str
<1>1. Len(BOM) = 3
  BY DEF BOM
<1>2. StripBom(b) \in Str
  BY <1>1 DEF StripBom, HasBom, From, Str
<1>3. CloseLine(b) \in Str
  BY ByteAssumption DEF CloseLine, Str
<1>4. QED
  BY <1>2, <1>3

-----------------------------------------------------------------------------
\* What may be the beginning of a byte order mark has no line in it.
LEMMA UndecidedHasNoLine ==
  ASSUME NEW b \in Str, BomUndecided(b)
  PROVE  ~HasLine(b) /\ ~HasBom(b)
<1>1. Len(BOM) = 3 /\ \A i \in 1..3 : BOM[i] \notin Eol
  <2>1. EF \notin Eol /\ BB \notin Eol /\ BF \notin Eol
    BY ByteAssumption DEF Eol
  <2>2. Len(BOM) = 3 /\ BOM[1] = EF /\ BOM[2] = BB /\ BOM[3] = BF
    BY DEF BOM
  <2>3. \A i \in 1..3 : i = 1 \/ i = 2 \/ i = 3
    OBVIOUS
  <2>4. QED
    BY <2>1, <2>2, <2>3
<1>2. Len(b) \in 0..2 /\ \A i \in 1..Len(b) : b[i] = BOM[i]
  BY <1>1 DEF BomUndecided, Str
<1>3. QED
  BY <1>1, <1>2 DEF HasLine, IsFirst, HasBom

\* Once the byte order mark is decided on, more bytes do not change it.
LEMMA BomIsStable ==
  ASSUME NEW b \in Str, NEW c \in Str, ~BomUndecided(b)
  PROVE  /\ ~BomUndecided(b \o c)
         /\ StripBom(b \o c) = StripBom(b) \o c
<1> DEFINE t == b \o c
<1>1. /\ BOM \in Str /\ Len(BOM) = 3
  <2>1. EF \in Byte /\ BB \in Byte /\ BF \in Byte
    BY ByteAssumption
  <2>2. QED
    BY <2>1 DEF BOM, Str
<1>2. /\ t \in Str /\ Len(t) = Len(b) + Len(c) /\ Len(b) \in Nat /\ Len(c) \in Nat
      /\ \A i \in 1..Len(b) : t[i] = b[i]
  BY DEF Str
<1> HIDE DEF t
<1>3. CASE Len(b) < 3
  <2>1. PICK i \in 1..Len(b) : b[i] # BOM[i]
    <3>1. /\ SubSeq(BOM, 1, Len(b)) \in Str /\ Len(SubSeq(BOM, 1, Len(b))) = Len(b)
          /\ \A i \in 1..Len(b) : SubSeq(BOM, 1, Len(b))[i] = BOM[i]
      <4>1. 1 \in Int /\ Len(b) \in Int /\ BOM \in Seq(Byte)
        BY <1>1, <1>2 DEF Str
      <4>2. \A i \in 1..Len(b) : BOM[i] \in Byte
        <5>1. \A i \in 1..3 : BOM[i] \in Byte
          BY ByteAssumption DEF BOM
        <5>2. Len(b) \in Nat
          BY DEF Str
        <5>3. ASSUME NEW i \in 1..Len(b)
              PROVE  i \in 1..3
          BY <1>3, <5>2
        <5>4. QED
          BY <5>1, <5>3, Zenon
      <4>3. /\ SubSeq(BOM, 1, Len(b)) \in Seq(Byte)
            /\ Len(SubSeq(BOM, 1, Len(b))) = IF 1 <= Len(b) THEN Len(b) - 1 + 1 ELSE 0
            /\ \A i \in 1..(Len(b) - 1 + 1) : SubSeq(BOM, 1, Len(b))[i] = BOM[1 + i - 1]
        BY <4>1, <4>2, SubSeqProperties, SMT
      <4>4. QED
        <5> DEFINE p == SubSeq(BOM, 1, Len(b))
        <5> HIDE DEF p
        <5>1. /\ p \in Seq(Byte)
              /\ Len(p) = IF 1 <= Len(b) THEN Len(b) - 1 + 1 ELSE 0
              /\ \A i \in 1..(Len(b) - 1 + 1) : p[i] = BOM[1 + i - 1]
          BY <4>3 DEF p
        <5>2. p \in Seq(Byte) /\ Len(p) = Len(b) /\ \A i \in 1..Len(b) : p[i] = BOM[i]
          BY <1>2, <5>1
        <5>3. QED
          BY <5>2 DEF p, Str
    <3>2. b # SubSeq(BOM, 1, Len(b))
      BY <1>1, <1>3 DEF BomUndecided
    <3>3. QED
      BY <3>1, <3>2, SeqEqual DEF Str
  <2>2. ~BomUndecided(t)
    <3>1. ASSUME Len(t) < 3
          PROVE  SubSeq(BOM, 1, Len(t))[i] = BOM[i]
      BY <1>1, <1>2, <2>1, <3>1 DEF Str
    <3>2. QED
      BY <1>1, <1>2, <2>1, <3>1 DEF BomUndecided
  <2>3. ~HasBom(t)
    <3>1. ASSUME Len(t) >= 3
          PROVE  SubSeq(t, 1, 3)[i] = t[i]
      BY <1>2, <1>3, <2>1, <3>1 DEF Str
    <3>2. QED
      BY <1>1, <1>2, <2>1, <3>1 DEF HasBom
  <2>4. ~HasBom(b)
    BY <1>1, <1>3, <1>2 DEF HasBom
  <2>5. QED
    BY <2>2, <2>3, <2>4 DEF StripBom, t
<1>4. CASE Len(b) >= 3
  <2>1. ~BomUndecided(t)
    BY <1>1, <1>2, <1>4 DEF BomUndecided
  <2>2. SubSeq(t, 1, 3) = SubSeq(b, 1, 3)
    BY <1>4, SubSeqOfConcat1 DEF Str, t
  <2>3. HasBom(t) <=> HasBom(b)
    BY <1>1, <1>2, <1>4, <2>2 DEF HasBom
  <2>4. From(t, 4) = From(b, 4) \o c
    <3>1. 4 \in 1..(Len(b) + 1)
      BY <1>2, <1>4
    <3>2. QED
      BY <3>1, SubSeqToEnd, Zenon DEF From, Str, t
  <2>5. QED
    BY <1>1, <2>1, <2>3, <2>4 DEF StripBom, t
<1>5. QED
  BY <1>2, <1>3, <1>4 DEF t
=============================================================================
