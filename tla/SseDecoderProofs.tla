-------------------------- MODULE SseDecoderProofs --------------------------
(***************************************************************************)
(* The decoder keeps its types, hands out nothing but UTF-8 and lets no    *)
(* NUL into an id, on every text, and it decodes every text to what the    *)
(* reference reads off it.                                                 *)
(***************************************************************************)
EXTENDS SseReference, EventBuilderProofs, WellFoundedInduction

(***************************************************************************)
(* The decoder is type-correct.                                            *)
(***************************************************************************)
THEOREM DecoderTypeCorrect == Spec => []TypeOK
<1>1. Init => TypeOK
  BY WiresAssumption, EmptySeq
  DEF Init, TypeOK, EmptyBuilder, Builder, Option, Str
<1>2. TypeOK /\ [Next]_vars => TypeOK'
  <2> SUFFICES ASSUME TypeOK, [Next]_vars
               PROVE  TypeOK'
    OBVIOUS
  <2>1. CASE Start
    BY <2>1, StripType DEF Start, TypeOK
  <2>2. CASE Interpret
    <3>1. LineOf(text) \in Str /\ RestOf(text) \in Str
      BY <2>2, SplitType DEF Interpret, TypeOK
    <3> DEFINE step == ParseStep(builder, LineOf(text))
    <3>2. step.builder \in Builder /\ ~step.builder.isComplete /\ step.item \in Item \cup {None}
      BY <3>1, ParseStepType DEF TypeOK
    <3> HIDE DEF step
    <3>3. items' \in Seq(Item)
      <4>1. items' = IF step.item = None THEN items ELSE Append(items, step.item)
        BY <2>2 DEF Interpret, step
      <4>2. QED
        BY <3>2, <4>1 DEF TypeOK
    <3>4. text' = RestOf(text) /\ builder' = step.builder /\ phase' = phase
      BY <2>2 DEF Interpret, step
    <3>5. QED
      BY <3>1, <3>2, <3>3, <3>4 DEF TypeOK
  <2>3. CASE Finish
    BY <2>3, StripType DEF Finish, TypeOK
  <2>4. CASE UNCHANGED vars
    BY <2>4 DEF vars, TypeOK
  <2>5. QED
    BY <2>1, <2>2, <2>3, <2>4 DEF Next
<1>3. QED
  BY <1>1, <1>2, PTL DEF Spec

-----------------------------------------------------------------------------
\* A builder whose texts are UTF-8 and whose id has no NUL.
Clean(b) ==
  /\ ValidUtf8(b.event) /\ ValidUtf8(b.id)
  /\ b.data # None => ValidUtf8(b.data)
  /\ ~HasNul(b.id)

CleanItem(item) ==
  item # Utf8Error => ValidEvent(item) /\ ~HasNul(item.id)

LEMMA AddKeepsClean ==
  ASSUME NEW b \in Builder, NEW l \in ValidLine,
         l.value # None => ValidUtf8(l.value), Clean(b)
  PROVE  Clean(Add(b, l))
<1> DEFINE value == UnwrapOrEmpty(l.value)
           added == Add(b, l)
<1>1. value \in Str /\ ValidUtf8(value)
  BY UnwrapType, EmptyIsUtf8 DEF UnwrapOrEmpty, ValidLine
<1>2. ValidUtf8(PushStr(b.data, value))
  <2>1. CASE b.data = None
    BY <1>1, <2>1 DEF PushStr
  <2>2. CASE b.data # None
    <3>1. b.data \in Str /\ ValidUtf8(b.data)
      BY <2>2 DEF Builder, Option, Clean
    <3>2. ValidUtf8(b.data \o <<LF>> \o value)
      BY <1>1, <3>1, JoinIsUtf8
    <3>3. QED
      BY <2>2, <3>2 DEF PushStr
  <2>3. QED
    BY <2>1, <2>2
<1> HIDE DEF value
<1>3. /\ added.event = b.event \/ (l.value # None /\ added.event = l.value)
      /\ added.id = b.id \/ (~HasNul(value) /\ added.id = value)
      /\ added.data = b.data \/ added.data = PushStr(b.data, value)
  BY DEF Add, value, Builder
<1>4. QED
  BY <1>1, <1>2, <1>3 DEF Clean

LEMMA ParseStepKeepsClean ==
  ASSUME NEW b \in Builder, NEW line \in Str, Clean(b)
  PROVE  /\ Clean(ParseStep(b, line).builder)
         /\ ParseStep(b, line).item # None => CleanItem(ParseStep(b, line).item)
<1> DEFINE raw == ParseLineFromBuffer(line)
           added == Add(b, Validate(raw))
<1>1. raw \in RawLine /\ Validate(raw) \in ValidLine /\ Validate(raw).value = raw.value
  BY RawLineType, ValidateType DEF Validate
<1> HIDE DEF raw
<1>2. CASE ~Validates(raw)
  BY <1>2 DEF ParseStep, CleanItem, raw
<1>3. CASE Validates(raw)
  <2>1. added \in Builder /\ Clean(added)
    BY <1>1, <1>3, AddType, AddKeepsClean DEF Validates
  <2> HIDE DEF added
  <2>2. Clean(AfterDispatch(added))
    <3>1. /\ AfterDispatch(added).event = <<>> /\ AfterDispatch(added).id = added.id
          /\ AfterDispatch(added).data = None
      BY DEF AfterDispatch, EmptyBuilder
    <3>2. QED
      BY <2>1, <3>1, EmptyIsUtf8 DEF Clean
  <2>3. Dispatched(added) # None => CleanItem(Dispatched(added))
    BY <2>1, BuilderAssumption DEF Dispatched, Clean, CleanItem, ValidEvent
  <2>4. /\ ParseStep(b, line).builder \in {added, AfterDispatch(added)}
        /\ ParseStep(b, line).item \in {None, Dispatched(added)}
    BY <1>3 DEF ParseStep, raw, added
  <2>5. QED
    BY <2>1, <2>2, <2>3, <2>4
<1>4. QED
  BY <1>2, <1>3

CleanInv == Clean(builder) /\ \A k \in 1..Len(items) : CleanItem(items[k])

LEMMA CleanInvInductive ==
  /\ Init => CleanInv
  /\ TypeOK /\ CleanInv /\ [Next]_vars => CleanInv'
<1>1. Init => CleanInv
  BY EmptyIsUtf8 DEF Init, CleanInv, Clean, EmptyBuilder, HasNul
<1>2. TypeOK /\ CleanInv /\ [Next]_vars => CleanInv'
  <2> SUFFICES ASSUME TypeOK, CleanInv, [Next]_vars
               PROVE  CleanInv'
    OBVIOUS
  <2>1. CASE Interpret
    <3> DEFINE step == ParseStep(builder, LineOf(text))
    <3>1. LineOf(text) \in Str
      BY <2>1, SplitType DEF Interpret, TypeOK
    <3>2. Clean(step.builder) /\ (step.item # None => CleanItem(step.item))
      BY <3>1, ParseStepKeepsClean DEF TypeOK, CleanInv
    <3> HIDE DEF step
    <3>3. /\ builder' = step.builder
          /\ items' = IF step.item = None THEN items ELSE Append(items, step.item)
      BY <2>1 DEF Interpret, step
    <3>4. CASE step.item = None
      BY <3>2, <3>3, <3>4 DEF CleanInv
    <3>5. CASE step.item # None
      <4>1. /\ Len(items') = Len(items) + 1
            /\ \A k \in 1..Len(items) : items'[k] = items[k]
            /\ items'[Len(items) + 1] = step.item
        BY <3>3, <3>5 DEF TypeOK
      <4>2. ASSUME NEW k \in 1..Len(items')
            PROVE  CleanItem(items'[k])
        <5>1. k \in 1..Len(items) \/ k = Len(items) + 1
          BY <4>1 DEF TypeOK
        <5>2. QED
          BY <3>2, <3>5, <4>1, <5>1 DEF CleanInv
      <4>3. Clean(builder')
        BY <3>2, <3>3
      <4>4. QED
        BY <4>2, <4>3 DEF CleanInv, Clean, CleanItem, ValidEvent
    <3>6. QED
      BY <3>4, <3>5
  <2>2. CASE UNCHANGED <<builder, items>>
    BY <2>2 DEF CleanInv, Clean
  <2>3. QED
    BY <2>1, <2>2 DEF Next, Start, Finish, vars
<1>3. QED
  BY <1>1, <1>2

(***************************************************************************)
(* Every string the decoder keeps or hands out is UTF-8, so each unchecked *)
(* construction of a Str in the code is sound.                             *)
(***************************************************************************)
THEOREM DecoderTextIsValid == Spec => []ValidText
<1>1. CleanInv => ValidText
  BY DEF CleanInv, Clean, CleanItem, ValidText
<1>2. QED
  BY <1>1, CleanInvInductive, DecoderTypeCorrect, PTL DEF Spec

(***************************************************************************)
(* No event, and no event being received, has an id with a NUL.            *)
(***************************************************************************)
THEOREM DecoderIdsHaveNoNul == Spec => []NoNulId
<1>1. CleanInv => NoNulId
  BY DEF CleanInv, Clean, CleanItem, NoNulId
<1>2. QED
  BY <1>1, CleanInvInductive, DecoderTypeCorrect, PTL DEF Spec

-----------------------------------------------------------------------------
\* Induction, as a fact about a set of numbers.
LEMMA Induction ==
  ASSUME NEW T \in SUBSET Nat, 0 \in T, \A n \in T : n + 1 \in T
  PROVE  T = Nat
<1> DEFINE R == OpToRel(<, Nat)
           Rest == Nat \ T
<1> SUFFICES ASSUME Rest # {}
             PROVE  FALSE
  BY DEF Rest
<1>1. IsWellFoundedOn(R, Nat)
  BY NatLessThanWellFounded
<1>2. \A x, y \in Nat : y < x => <<y, x>> \in R
  BY DEF OpToRel
<1> HIDE DEF R
<1>3. PICK x \in Rest : \A y \in Rest : ~(<<y, x>> \in R)
  BY <1>1, WFMin
<1>4. x \in Nat /\ x # 0 /\ \A y \in Rest : ~(y < x)
  BY <1>2, <1>3
<1>5. x - 1 \in T
  BY <1>4
<1>6. (x - 1) + 1 \in T /\ (x - 1) + 1 = x
  BY <1>4, <1>5
<1>7. QED
  BY <1>3, <1>6

\* The concatenations of the first sequences of f, for every number of them.
IsUpTo(g, f, n) == g = [k \in 0..n |-> IF k = 0 THEN <<>> ELSE g[k - 1] \o f[k]]

\* There is such a function, whatever is concatenated.
LEMMA UpToExists ==
  ASSUME NEW f, NEW n \in Nat
  PROVE  \E g : IsUpTo(g, f, n)
<1> DEFINE T == {m \in Nat : \E g : IsUpTo(g, f, m)}
<1>1. 0 \in T
  <2> DEFINE g == [k \in 0..0 |-> <<>>]
  <2>1. g = [k \in 0..0 |-> IF k = 0 THEN <<>> ELSE g[k - 1] \o f[k]]
    OBVIOUS
  <2>2. QED
    BY <2>1 DEF IsUpTo
<1>2. ASSUME NEW m \in T
      PROVE  m + 1 \in T
  <2>1. PICK g : IsUpTo(g, f, m)
    OBVIOUS
  <2> DEFINE h == [k \in 0..(m + 1) |-> IF k <= m THEN g[k] ELSE g[m] \o f[m + 1]]
  <2>2. \A k \in 0..(m + 1) : h[k] = IF k = 0 THEN <<>> ELSE h[k - 1] \o f[k]
    <3>1. \A k \in 0..m : g[k] = IF k = 0 THEN <<>> ELSE g[k - 1] \o f[k]
      BY <2>1, Zenon DEF IsUpTo
    <3>2. m \in Nat
      OBVIOUS
    <3>3. ASSUME NEW k \in 0..(m + 1)
          PROVE  h[k] = IF k = 0 THEN <<>> ELSE h[k - 1] \o f[k]
      <4>1. CASE k = 0
        BY <3>1, <3>2, <4>1
      <4>2. CASE k \in 1..m
        BY <3>1, <3>2, <4>2
      <4>3. CASE k = m + 1
        BY <3>2, <4>3
      <4>4. QED
        BY <3>2, <4>1, <4>2, <4>3
    <3>4. QED
      BY <3>3
  <2>3. h = [k \in 0..(m + 1) |-> IF k = 0 THEN <<>> ELSE h[k - 1] \o f[k]]
    <3>1. h = [k \in 0..(m + 1) |-> h[k]]
      OBVIOUS
    <3> HIDE DEF h
    <3>2. QED
      BY <2>2, <3>1, Zenon
  <2>4. IsUpTo(h, f, m + 1)
    BY <2>3, Zenon DEF IsUpTo
  <2>5. QED
    BY <2>4
<1> HIDE DEF T
<1>3. T = Nat
  BY <1>1, <1>2, Induction DEF T
<1>4. QED
  BY <1>3 DEF T

\* The one that Flat chooses.
UpTo(f) == CHOOSE g : IsUpTo(g, f, Len(f))

\* Flat is the last of the concatenations, and each is made of the one before.
LEMMA UpToIs ==
  ASSUME NEW f, Len(f) \in Nat
  PROVE  /\ Flat(f) = UpTo(f)[Len(f)]
         /\ UpTo(f)[0] = <<>>
         /\ \A k \in 1..Len(f) : UpTo(f)[k] = UpTo(f)[k - 1] \o f[k]
<1>1. IsUpTo(UpTo(f), f, Len(f))
  BY UpToExists, Zenon DEF UpTo
<1>2. \A k \in 0..Len(f) : UpTo(f)[k] = IF k = 0 THEN <<>> ELSE UpTo(f)[k - 1] \o f[k]
  BY <1>1, Zenon DEF IsUpTo
<1>3. Flat(f) = UpTo(f)[Len(f)]
  BY Zenon DEF Flat, UpTo, IsUpTo
<1>4. UpTo(f)[0] = <<>>
  <2>1. 0 \in 0..Len(f)
    OBVIOUS
  <2>2. QED
    BY <1>2, <2>1, Zenon
<1>5. ASSUME NEW k \in 1..Len(f)
      PROVE  UpTo(f)[k] = UpTo(f)[k - 1] \o f[k]
  <2>1. k \in 0..Len(f) /\ k # 0
    OBVIOUS
  <2>2. QED
    BY <1>2, <2>1, Zenon
<1>6. QED
  BY <1>3, <1>4, <1>5, Zenon

\* Sequences with the same beginning have the same concatenations of it.
LEMMA UpToAgrees ==
  ASSUME NEW f, NEW g, Len(f) \in Nat, Len(g) \in Nat, NEW n \in 0..Len(f), n <= Len(g),
         \A k \in 1..n : f[k] = g[k]
  PROVE  UpTo(f)[n] = UpTo(g)[n]
<1> DEFINE T == {m \in Nat : m <= n => UpTo(f)[m] = UpTo(g)[m]}
<1>1. 0 \in T
  BY UpToIs
<1>2. ASSUME NEW m \in T
      PROVE  m + 1 \in T
  <2>1. CASE m + 1 <= n
    <3>1. m + 1 \in 1..Len(f) /\ m + 1 \in 1..Len(g) /\ m + 1 \in 1..n /\ (m + 1) - 1 = m
      BY <2>1
    <3>2. /\ UpTo(f)[m + 1] = UpTo(f)[(m + 1) - 1] \o f[m + 1]
          /\ UpTo(g)[m + 1] = UpTo(g)[(m + 1) - 1] \o g[m + 1]
      BY <3>1, UpToIs, Zenon
    <3>3. UpTo(f)[m] = UpTo(g)[m] /\ f[m + 1] = g[m + 1]
      BY <2>1, <3>1
    <3>4. UpTo(f)[m + 1] = UpTo(g)[m + 1]
      BY <3>1, <3>2, <3>3
    <3>5. QED
      BY <3>4
  <2>2. CASE ~(m + 1 <= n)
    BY <2>2
  <2>3. QED
    BY <2>1, <2>2
<1> HIDE DEF T
<1>3. T = Nat
  BY <1>1, <1>2, Induction DEF T
<1>4. QED
  BY <1>3 DEF T

(***************************************************************************)
(* Flat over one more: the sequences are given by position.                *)
(***************************************************************************)
LEMMA FlatOfNone ==
  ASSUME NEW f, Len(f) = 0
  PROVE  Flat(f) = <<>>
<1>1. Len(f) \in Nat
  OBVIOUS
<1>2. QED
  BY <1>1, UpToIs

\* One more sequence is appended to what the others make.
LEMMA FlatGrows ==
  ASSUME NEW f, NEW g, NEW n \in Nat, Len(f) = n, Len(g) = n + 1, \A k \in 1..n : f[k] = g[k]
  PROVE  Flat(g) = Flat(f) \o g[n + 1]
<1>1. /\ n + 1 \in 1..Len(g) /\ (n + 1) - 1 = n /\ n \in 0..Len(f)
      /\ Len(f) \in Nat /\ Len(g) \in Nat /\ n <= Len(g)
  OBVIOUS
<1>2. UpTo(g)[n + 1] = UpTo(g)[(n + 1) - 1] \o g[n + 1]
  BY <1>1, UpToIs, Zenon
<1>3. UpTo(f)[n] = UpTo(g)[n]
  BY <1>1, UpToAgrees, Zenon
<1>4. Flat(f) = UpTo(f)[n] /\ Flat(g) = UpTo(g)[n + 1]
  BY <1>1, UpToIs, Zenon
<1>5. QED
  BY <1>1, <1>2, <1>3, <1>4

\* Nothing but empty sequences make an empty one.
LEMMA FlatOfEmpties ==
  ASSUME NEW f, Len(f) \in Nat, \A k \in 1..Len(f) : f[k] = <<>>
  PROVE  Flat(f) = <<>>
<1> DEFINE T == {m \in Nat : m <= Len(f) => UpTo(f)[m] = <<>>}
<1>1. 0 \in T
  BY UpToIs
<1>2. ASSUME NEW m \in T
      PROVE  m + 1 \in T
  <2>1. CASE m + 1 <= Len(f)
    <3>1. m + 1 \in 1..Len(f) /\ (m + 1) - 1 = m
      BY <2>1
    <3>2. UpTo(f)[m + 1] = UpTo(f)[(m + 1) - 1] \o f[m + 1]
      BY <3>1, UpToIs, Zenon
    <3>3. UpTo(f)[m] = <<>> /\ f[m + 1] = <<>>
      BY <2>1, <3>1
    <3>4. <<>> \o <<>> = <<>>
      OBVIOUS
    <3>5. UpTo(f)[m + 1] = <<>>
      BY <3>1, <3>2, <3>3, <3>4
    <3>6. QED
      BY <3>5
  <2>2. CASE ~(m + 1 <= Len(f))
    BY <2>2
  <2>3. QED
    BY <2>1, <2>2
<1> HIDE DEF T
<1>3. T = Nat
  BY <1>1, <1>2, Induction DEF T
<1>4. UpTo(f)[Len(f)] = <<>>
  BY <1>3 DEF T
<1>5. QED
  BY <1>4, UpToIs, Zenon

\* What is said of Latest is so: a set that has a greatest number.
LEMMA LatestIs ==
  ASSUME NEW S \in SUBSET Nat, NEW n \in S \cup {0}, \A m \in S : m <= n
  PROVE  Latest(S) = n
<1>1. Latest(S) \in S \cup {0} /\ \A m \in S : m <= Latest(S)
  BY Zenon DEF Latest
<1>2. Latest(S) \in Nat /\ n \in Nat
  <2>1. \A x \in S \cup {0} : x \in Nat
    OBVIOUS
  <2>2. QED
    BY <1>1, <2>1, Zenon
<1>3. Latest(S) <= n /\ n <= Latest(S)
  BY <1>1, <1>2
<1>4. QED
  BY <1>2, <1>3
\* What is made of byte sequences is one.
LEMMA FlatType ==
  ASSUME NEW S, NEW f, Len(f) \in Nat, \A k \in 1..Len(f) : f[k] \in Seq(S)
  PROVE  Flat(f) \in Seq(S)
<1> DEFINE T == {m \in Nat : m <= Len(f) => UpTo(f)[m] \in Seq(S)}
<1>1. 0 \in T
  BY UpToIs, EmptySeq
<1>2. ASSUME NEW m \in T
      PROVE  m + 1 \in T
  <2>1. CASE m + 1 <= Len(f)
    <3>1. m + 1 \in 1..Len(f) /\ (m + 1) - 1 = m
      BY <2>1
    <3>2. UpTo(f)[m + 1] = UpTo(f)[(m + 1) - 1] \o f[m + 1]
      BY <3>1, UpToIs, Zenon
    <3>3. UpTo(f)[m] \in Seq(S) /\ f[m + 1] \in Seq(S)
      BY <2>1, <3>1
    <3>4. UpTo(f)[m + 1] \in Seq(S)
      BY <3>1, <3>2, <3>3, ConcatProperties
    <3>5. QED
      BY <3>4
  <2>2. CASE ~(m + 1 <= Len(f))
    BY <2>2
  <2>3. QED
    BY <2>1, <2>2
<1> HIDE DEF T
<1>3. T = Nat
  BY <1>1, <1>2, Induction DEF T
<1>4. UpTo(f)[Len(f)] \in Seq(S)
  BY <1>3 DEF T
<1>5. QED
  BY <1>4, UpToIs, Zenon

\* A set of positions has a latest one, or is empty.
LEMMA LatestExists ==
  ASSUME NEW n \in Nat, NEW S \in SUBSET (1..n)
  PROVE  /\ Latest(S) \in S \cup {0} /\ Latest(S) \in 0..n
         /\ \A m \in S : m <= Latest(S)
<1> DEFINE T == {j \in Nat : \A R \in SUBSET (1..j) : \E x \in R \cup {0} : \A m \in R : m <= x}
<1>1. 0 \in T
  OBVIOUS
<1>2. ASSUME NEW j \in T
      PROVE  j + 1 \in T
  <2>1. ASSUME NEW R \in SUBSET (1..(j + 1))
        PROVE  \E x \in R \cup {0} : \A m \in R : m <= x
    <3>1. CASE j + 1 \in R
      <4>1. \A m \in R : m <= j + 1
        OBVIOUS
      <4>2. QED
        BY <3>1, <4>1
    <3>2. CASE j + 1 \notin R
      <4>1. R \in SUBSET (1..j)
        BY <3>2
      <4>2. QED
        BY <4>1
    <3>3. QED
      BY <3>1, <3>2
  <2>2. QED
    BY <2>1
<1> HIDE DEF T
<1>3. T = Nat
  BY <1>1, <1>2, Induction DEF T
<1>4. PICK x \in S \cup {0} : \A m \in S : m <= x
  BY <1>3 DEF T
<1>5. S \in SUBSET Nat /\ x \in 0..n
  OBVIOUS
<1>6. Latest(S) = x
  BY <1>4, <1>5, LatestIs
<1>7. QED
  BY <1>4, <1>5, <1>6

\* A position after all of a set's is the latest with them.
LEMMA LatestGrows ==
  ASSUME NEW n \in Nat, NEW S \in SUBSET (1..n)
  PROVE  Latest(S \cup {n + 1}) = n + 1
<1>1. /\ S \cup {n + 1} \in SUBSET Nat /\ n + 1 \in (S \cup {n + 1}) \cup {0}
      /\ \A m \in S \cup {n + 1} : m <= n + 1
  OBVIOUS
<1>2. QED
  BY <1>1, LatestIs

\* Without a number there is no latest one.
LEMMA LatestOfNone == Latest({}) = 0
<1>1. {} \in SUBSET Nat /\ 0 \in {} \cup {0} /\ \A m \in {} : m <= 0
  OBVIOUS
<1>2. QED
  BY <1>1, LatestIs

(***************************************************************************)
(* The reference takes one line after the other as the builder does.       *)
(***************************************************************************)
\* A line as the parser reads it: only a field has a value.
ReadLines == {l \in RawLine : l.kind # "Field" => l.value = None}

\* What the first p lines say is what the builder holds after them.
SaidBy(ls, p) ==
  [event |-> TypeOf(ls, p), id |-> IdOf(ls, p), data |-> DataOf(ls, p),
   retry |-> RetryOf(ls, p), isComplete |-> FALSE]

LastEmpty(ls, p) == Latest({i \in 1..p : ls[i].kind = "Empty"})

IsField(l, name) == Validates(l) /\ l.kind = "Field" /\ l.name = name

\* An empty line is the last empty line from where it stands on.
LEMMA LastEmptyStep ==
  ASSUME NEW ls, NEW p \in Nat
  PROVE  /\ LastEmpty(ls, p) \in 0..p
         /\ LastEmpty(ls, p + 1) = IF ls[p + 1].kind = "Empty" THEN p + 1 ELSE LastEmpty(ls, p)
<1> DEFINE S == {i \in 1..p : ls[i].kind = "Empty"}
           R == {i \in 1..(p + 1) : ls[i].kind = "Empty"}
<1>1. S \in SUBSET (1..p)
  OBVIOUS
<1>2. R = IF ls[p + 1].kind = "Empty" THEN S \cup {p + 1} ELSE S
  <2>1. \A i : i \in 1..(p + 1) <=> i \in 1..p \/ i = p + 1
    OBVIOUS
  <2>2. QED
    BY <2>1, Zenon
<1>3. LastEmpty(ls, p) = Latest(S) /\ LastEmpty(ls, p + 1) = Latest(R)
  BY DEF LastEmpty
<1> HIDE DEF S, R
<1>4. QED
  BY <1>1, <1>2, <1>3, LatestExists, LatestGrows

\* A field of that name that is UTF-8 joins those before it.
LEMMA FieldsStep ==
  ASSUME NEW ls, NEW p \in Nat, NEW name
  PROVE  /\ Fields(ls, p, name) \in SUBSET (1..p)
         /\ Fields(ls, p + 1, name)
              = IF IsField(ls[p + 1], name) THEN Fields(ls, p, name) \cup {p + 1}
                                            ELSE Fields(ls, p, name)
<1>1. \A i : i \in 1..(p + 1) <=> i \in 1..p \/ i = p + 1
  OBVIOUS
<1>2. QED
  BY <1>1, Zenon DEF Fields, IsField

\* It joins those of its block, and an empty line leaves none.
LEMMA InBlockStep ==
  ASSUME NEW ls, NEW p \in Nat, NEW name
  PROVE  /\ InBlock(ls, p, name) \in SUBSET (1..p)
         /\ ls[p + 1].kind = "Empty" => InBlock(ls, p + 1, name) = {}
         /\ ls[p + 1].kind # "Empty" =>
              InBlock(ls, p + 1, name)
                = IF IsField(ls[p + 1], name) THEN InBlock(ls, p, name) \cup {p + 1}
                                              ELSE InBlock(ls, p, name)
<1>1. \A q : InBlock(ls, q, name) = {j \in Fields(ls, q, name) : j > LastEmpty(ls, q)}
  BY DEF InBlock, LastEmpty
<1>2. /\ LastEmpty(ls, p) \in 0..p
      /\ LastEmpty(ls, p + 1) = IF ls[p + 1].kind = "Empty" THEN p + 1 ELSE LastEmpty(ls, p)
  BY LastEmptyStep
<1>3. /\ Fields(ls, p, name) \in SUBSET (1..p)
      /\ Fields(ls, p + 1, name)
           = IF IsField(ls[p + 1], name) THEN Fields(ls, p, name) \cup {p + 1}
                                         ELSE Fields(ls, p, name)
  BY FieldsStep
<1>4. InBlock(ls, p, name) \in SUBSET (1..p)
  BY <1>1, <1>3
<1>5. ASSUME ls[p + 1].kind = "Empty"
      PROVE  InBlock(ls, p + 1, name) = {}
  <2>1. \A j \in Fields(ls, p + 1, name) : ~(j > p + 1)
    BY <1>3
  <2>2. QED
    BY <1>1, <1>2, <1>5, <2>1
<1>6. ASSUME ls[p + 1].kind # "Empty"
      PROVE  InBlock(ls, p + 1, name)
               = IF IsField(ls[p + 1], name) THEN InBlock(ls, p, name) \cup {p + 1}
                                             ELSE InBlock(ls, p, name)
  <2>1. p + 1 > LastEmpty(ls, p) /\ LastEmpty(ls, p + 1) = LastEmpty(ls, p)
    BY <1>2, <1>6
  <2> DEFINE e == LastEmpty(ls, p)
             F == Fields(ls, p, name)
             G == Fields(ls, p + 1, name)
  <2>2. /\ InBlock(ls, p, name) = {j \in F : j > e}
        /\ InBlock(ls, p + 1, name) = {j \in G : j > e}
    BY <1>1, <2>1
  <2>3. /\ G = F \/ G = F \cup {p + 1}
        /\ G = IF IsField(ls[p + 1], name) THEN F \cup {p + 1} ELSE F
    BY <1>3
  <2>4. {j \in F \cup {p + 1} : j > e} = {j \in F : j > e} \cup {p + 1}
    BY <2>1
  <2> HIDE DEF e, F, G
  <2>5. QED
    BY <2>2, <2>3, <2>4
<1>7. QED
  BY <1>4, <1>5, <1>6

-----------------------------------------------------------------------------
(***************************************************************************)
(* What one more line says, property by property of an event.              *)
(***************************************************************************)
LEMMA TypeStep ==
  ASSUME NEW ls, NEW p \in Nat
  PROVE  /\ ls[p + 1].kind = "Empty" => TypeOf(ls, p + 1) = <<>>
         /\ ls[p + 1].kind # "Empty" =>
              TypeOf(ls, p + 1)
                = IF IsField(ls[p + 1], EventName) /\ ls[p + 1].value # None
                  THEN ls[p + 1].value ELSE TypeOf(ls, p)
<1> DEFINE S(q) == {i \in InBlock(ls, q, EventName) : ls[i].value # None}
<1>1. \A q : TypeOf(ls, q) = IF Latest(S(q)) = 0 THEN <<>> ELSE ls[Latest(S(q))].value
  BY DEF TypeOf
<1>2. S(p) \in SUBSET (1..p)
  BY InBlockStep
<1>3. ls[p + 1].kind = "Empty" => S(p + 1) = {}
  BY InBlockStep
<1>4. ASSUME ls[p + 1].kind # "Empty"
      PROVE  S(p + 1) = IF IsField(ls[p + 1], EventName) /\ ls[p + 1].value # None
                        THEN S(p) \cup {p + 1} ELSE S(p)
  <2>1. InBlock(ls, p + 1, EventName)
          = IF IsField(ls[p + 1], EventName) THEN InBlock(ls, p, EventName) \cup {p + 1}
                                             ELSE InBlock(ls, p, EventName)
    BY <1>4, InBlockStep
  <2>2. CASE IsField(ls[p + 1], EventName)
    BY <2>1, <2>2, Zenon
  <2>3. CASE ~IsField(ls[p + 1], EventName)
    BY <2>1, <2>3, Zenon
  <2>4. QED
    BY <2>2, <2>3
<1> HIDE DEF S
<1>5. Latest(S(p) \cup {p + 1}) = p + 1 /\ p + 1 # 0
  BY <1>2, LatestGrows
<1>6. QED
  BY <1>1, <1>3, <1>4, <1>5, LatestOfNone, Zenon

\* The retry, if it is a number, replaces the one before.
LEMMA RetryStep ==
  ASSUME NEW ls, NEW p \in Nat
  PROVE  /\ ls[p + 1].kind = "Empty" => RetryOf(ls, p + 1) = None
         /\ ls[p + 1].kind # "Empty" =>
              RetryOf(ls, p + 1)
                = IF IsField(ls[p + 1], RetryName) /\ ls[p + 1].value \in DOMAIN Millis
                  THEN Millis[ls[p + 1].value] ELSE RetryOf(ls, p)
<1> DEFINE S(q) == {i \in InBlock(ls, q, RetryName) : ls[i].value \in DOMAIN Millis}
<1>1. \A q : RetryOf(ls, q) = IF Latest(S(q)) = 0 THEN None ELSE Millis[ls[Latest(S(q))].value]
  BY DEF RetryOf
<1>2. S(p) \in SUBSET (1..p)
  BY InBlockStep
<1>3. ls[p + 1].kind = "Empty" => S(p + 1) = {}
  BY InBlockStep
<1>4. ASSUME ls[p + 1].kind # "Empty"
      PROVE  S(p + 1) = IF IsField(ls[p + 1], RetryName) /\ ls[p + 1].value \in DOMAIN Millis
                        THEN S(p) \cup {p + 1} ELSE S(p)
  <2>1. InBlock(ls, p + 1, RetryName)
          = IF IsField(ls[p + 1], RetryName) THEN InBlock(ls, p, RetryName) \cup {p + 1}
                                             ELSE InBlock(ls, p, RetryName)
    BY <1>4, InBlockStep
  <2>2. CASE IsField(ls[p + 1], RetryName)
    BY <2>1, <2>2, Zenon
  <2>3. CASE ~IsField(ls[p + 1], RetryName)
    BY <2>1, <2>3, Zenon
  <2>4. QED
    BY <2>2, <2>3
<1> HIDE DEF S
<1>5. Latest(S(p) \cup {p + 1}) = p + 1 /\ p + 1 # 0
  BY <1>2, LatestGrows
<1>6. QED
  BY <1>1, <1>3, <1>4, <1>5, LatestOfNone, Zenon

\* A value without a NUL, as the reference says it.
NoNulIn(value) == \A n \in 1..Len(UnwrapOrEmpty(value)) : value[n] # Nul

\* The id, if it has no NUL, replaces the one before; an empty line leaves it.
LEMMA IdStep ==
  ASSUME NEW ls, NEW p \in Nat
  PROVE  IdOf(ls, p + 1) = IF IsField(ls[p + 1], IdName) /\ NoNulIn(ls[p + 1].value)
                           THEN UnwrapOrEmpty(ls[p + 1].value) ELSE IdOf(ls, p)
<1> DEFINE S(q) == {i \in Fields(ls, q, IdName) : NoNulIn(ls[i].value)}
<1>1. \A q : IdOf(ls, q) = IF Latest(S(q)) = 0 THEN <<>> ELSE UnwrapOrEmpty(ls[Latest(S(q))].value)
  BY DEF IdOf, NoNulIn
<1>2. S(p) \in SUBSET (1..p)
  BY FieldsStep
<1>3. S(p + 1) = IF IsField(ls[p + 1], IdName) /\ NoNulIn(ls[p + 1].value)
                 THEN S(p) \cup {p + 1} ELSE S(p)
  <2>1. Fields(ls, p + 1, IdName)
          = IF IsField(ls[p + 1], IdName) THEN Fields(ls, p, IdName) \cup {p + 1}
                                          ELSE Fields(ls, p, IdName)
    BY FieldsStep
  <2>2. CASE IsField(ls[p + 1], IdName)
    BY <2>1, <2>2, Zenon
  <2>3. CASE ~IsField(ls[p + 1], IdName)
    BY <2>1, <2>3, Zenon
  <2>4. QED
    BY <2>2, <2>3
<1> HIDE DEF S
<1>4. Latest(S(p) \cup {p + 1}) = p + 1 /\ p + 1 # 0
  BY <1>2, LatestGrows
<1>5. QED
  BY <1>1, <1>3, <1>4, Zenon

\* The part of the data that line k is, when these are the lines of data.
DataPart(ls, data, k) ==
  IF k \notin data THEN <<>>
  ELSE IF \E j \in data : j < k THEN <<LF>> \o UnwrapOrEmpty(ls[k].value)
  ELSE UnwrapOrEmpty(ls[k].value)

\* The data are the parts of the lines of data, one after the other.
LEMMA DataIs ==
  ASSUME NEW ls, NEW p
  PROVE  DataOf(ls, p) = IF InBlock(ls, p, DataName) = {} THEN None
                         ELSE Flat([k \in 1..p |-> DataPart(ls, InBlock(ls, p, DataName), k)])
BY DEF DataOf, DataPart

\* Values and the parts made of them are byte texts.
LEMMA PartType ==
  ASSUME NEW ls \in Seq(ReadLines), NEW data, NEW k \in 1..Len(ls)
  PROVE  UnwrapOrEmpty(ls[k].value) \in Str /\ DataPart(ls, data, k) \in Str
<1>1. ls[k].value \in Option(Str)
  <2>1. ls[k] \in ReadLines
    OBVIOUS
  <2>2. QED
    BY <2>1 DEF ReadLines, RawLine
<1>2. UnwrapOrEmpty(ls[k].value) \in Str
  BY <1>1, UnwrapType
<1>3. <<LF>> \in Str /\ <<>> \in Str
  BY ByteAssumption, EmptySeq DEF Str
<1>4. <<LF>> \o UnwrapOrEmpty(ls[k].value) \in Str
  BY <1>2, <1>3, ConcatProperties DEF Str
<1>5. QED
  BY <1>2, <1>3, <1>4, Zenon DEF DataPart
\* What is pushed comes after what was there, however the joins are taken.
LEMMA JoinAssociates == \A a, b, c \in Str : a \o (b \o c) = (a \o b) \o c
<1> SUFFICES ASSUME NEW a \in Str, NEW b \in Str, NEW c \in Str
             PROVE  a \o (b \o c) = (a \o b) \o c
  OBVIOUS
<1>1. a \in Seq(Byte) /\ b \in Seq(Byte) /\ c \in Seq(Byte)
  BY Zenon DEF Str
<1>2. (a \o b) \o c = a \o (b \o c)
  BY <1>1, ConcatAssociative, SMTT(30)
<1>3. QED
  BY <1>2, Zenon

\* A line of data is pushed to those before it (event_stream.rs:48).
LEMMA DataStep ==
  ASSUME NEW ls \in Seq(ReadLines), NEW p \in Nat, p + 1 <= Len(ls)
  PROVE  /\ ls[p + 1].kind = "Empty" => DataOf(ls, p + 1) = None
         /\ ls[p + 1].kind # "Empty" =>
              DataOf(ls, p + 1)
                = IF IsField(ls[p + 1], DataName)
                  THEN PushStr(DataOf(ls, p), UnwrapOrEmpty(ls[p + 1].value))
                  ELSE DataOf(ls, p)
<1> DEFINE B == InBlock(ls, p, DataName)
           C == InBlock(ls, p + 1, DataName)
           f == [k \in 1..p |-> DataPart(ls, B, k)]
           g == [k \in 1..(p + 1) |-> DataPart(ls, C, k)]
           v == UnwrapOrEmpty(ls[p + 1].value)
<1>1. /\ DataOf(ls, p) = IF B = {} THEN None ELSE Flat(f)
      /\ DataOf(ls, p + 1) = IF C = {} THEN None ELSE Flat(g)
  BY DataIs
<1>2. /\ B \in SUBSET (1..p)
      /\ ls[p + 1].kind = "Empty" => C = {}
      /\ ls[p + 1].kind # "Empty" =>
           C = IF IsField(ls[p + 1], DataName) THEN B \cup {p + 1} ELSE B
  BY InBlockStep
<1>3. /\ Len(f) = p /\ Len(g) = p + 1 /\ Len(ls) \in Nat
      /\ \A k \in 1..p : f[k] = DataPart(ls, B, k)
      /\ \A k \in 1..(p + 1) : g[k] = DataPart(ls, C, k)
  OBVIOUS
<1>4. v \in Str /\ \A k \in 1..p : DataPart(ls, B, k) \in Str
  <2>1. p + 1 \in 1..Len(ls) /\ \A k \in 1..p : k \in 1..Len(ls)
    BY <1>3
  <2>2. QED
    BY <2>1, PartType
<1> HIDE DEF B, C, f, g, v
<1>5. Flat(f) \in Str
  <2>1. Len(f) \in Nat /\ \A k \in 1..Len(f) : f[k] \in Seq(Byte)
    BY <1>3, <1>4 DEF Str
  <2>2. QED
    BY <2>1, FlatType DEF Str
<1>6. CASE ls[p + 1].kind = "Empty"
  BY <1>1, <1>2, <1>6
<1>7. CASE ls[p + 1].kind # "Empty" /\ ~IsField(ls[p + 1], DataName)
  <2>1. C = B /\ p + 1 \notin C
    BY <1>2, <1>7
  <2>2. g[p + 1] = <<>>
    BY <1>3, <2>1 DEF DataPart
  <2>3. Flat(g) = Flat(f) \o g[p + 1]
    <3>1. \A k \in 1..p : f[k] = g[k]
      BY <1>3, <2>1
    <3>2. QED
      BY <1>3, <3>1, FlatGrows
  <2>4. Flat(g) = Flat(f)
    BY <1>5, <2>2, <2>3, ConcatEmptySeq DEF Str
  <2>5. QED
    BY <1>1, <1>7, <2>1, <2>4
<1>8. CASE ls[p + 1].kind # "Empty" /\ IsField(ls[p + 1], DataName)
  <2>1. C = B \cup {p + 1}
    BY <1>2, <1>8
  <2>2. \A k \in 1..p : DataPart(ls, C, k) = DataPart(ls, B, k)
    <3>1. ASSUME NEW k \in 1..p
          PROVE  /\ k \in C <=> k \in B
                 /\ (\E j \in C : j < k) <=> \E j \in B : j < k
      <4>1. k # p + 1 /\ ~(p + 1 < k)
        OBVIOUS
      <4>2. QED
        BY <2>1, <4>1, Zenon
    <3>2. QED
      BY <3>1 DEF DataPart
  <2>3. Flat(g) = Flat(f) \o g[p + 1]
    <3>1. \A k \in 1..p : f[k] = g[k]
      BY <1>3, <2>2
    <3>2. QED
      BY <1>3, <3>1, FlatGrows
  <2>4. g[p + 1] = IF B = {} THEN v ELSE <<LF>> \o v
    <3>1. p + 1 \in C
      BY <2>1
    <3>2. (\E j \in C : j < p + 1) <=> B # {}
      <4>1. \A j \in B : j < p + 1
        BY <1>2
      <4>2. ~(p + 1 < p + 1)
        OBVIOUS
      <4>3. QED
        BY <2>1, <4>1, <4>2, Zenon
    <3>3. g[p + 1] = DataPart(ls, C, p + 1)
      BY <1>3
    <3>4. QED
      BY <3>1, <3>2, <3>3, Zenon DEF DataPart, v
  <2>5. DataOf(ls, p + 1) = Flat(g)
    BY <1>1, <2>1
  <2>6. CASE B = {}
    <3>1. \A k \in 1..Len(f) : f[k] = <<>>
      BY <1>3, <2>6 DEF DataPart
    <3>2. Flat(f) = <<>>
      BY <1>3, <3>1, FlatOfEmpties
    <3>3. Flat(g) = v
      BY <1>4, <2>3, <2>4, <2>6, <3>2, ConcatEmptySeq DEF Str
    <3>4. DataOf(ls, p) = None
      BY <1>1, <2>6
    <3>5. QED
      BY <1>8, <2>5, <3>3, <3>4 DEF PushStr, v
  <2>7. CASE B # {}
    <3>1. DataOf(ls, p) = Flat(f) /\ Flat(f) # None
      BY <1>1, <1>5, <2>7, NoneAssumption DEF Str
    <3>2. <<LF>> \in Str
      BY ByteAssumption DEF Str
    <3>3. Flat(f) \o (<<LF>> \o v) = (Flat(f) \o <<LF>>) \o v
      BY <1>4, <1>5, <3>2, JoinAssociates, Zenon
    <3>4. PushStr(DataOf(ls, p), v) = (Flat(f) \o <<LF>>) \o v
      BY <3>1 DEF PushStr
    <3>5. DataOf(ls, p + 1) = PushStr(DataOf(ls, p), v)
      BY <2>3, <2>4, <2>5, <2>7, <3>3, <3>4
    <3>6. QED
      BY <1>8, <3>5 DEF v
  <2>8. QED
    BY <2>6, <2>7
<1>9. QED
  BY <1>6, <1>7, <1>8

-----------------------------------------------------------------------------
\* The step of the parse loop, for a line that was read.
StepOn(b, raw) ==
  IF ~Validates(raw)
  THEN [builder |-> b, item |-> Utf8Error]
  ELSE IF Add(b, Validate(raw)).isComplete
       THEN [builder |-> AfterDispatch(Add(b, Validate(raw))),
             item |-> Dispatched(Add(b, Validate(raw)))]
       ELSE [builder |-> Add(b, Validate(raw)), item |-> None]

\* The step of the parse loop is the one for the line as it is read.
LEMMA ParseStepIs ==
  \A b, line : ParseStep(b, line) = StepOn(b, ParseLineFromBuffer(line))
BY Zenon DEF ParseStep, StepOn

\* The name a field is taken by is the one it has.
LEMMA ValidateIs ==
  ASSUME NEW raw \in RawLine
  PROVE  /\ Validate(raw).kind = raw.kind /\ Validate(raw).value = raw.value
         /\ Validate(raw).name = "Event" <=> raw.kind = "Field" /\ raw.name = EventName
         /\ Validate(raw).name = "Data" <=> raw.kind = "Field" /\ raw.name = DataName
         /\ Validate(raw).name = "Id" <=> raw.kind = "Field" /\ raw.name = IdName
         /\ Validate(raw).name = "Retry" <=> raw.kind = "Field" /\ raw.name = RetryName
<1>1. /\ FieldName(raw.name) = "Event" <=> raw.name = EventName
      /\ FieldName(raw.name) = "Data" <=> raw.name = DataName
      /\ FieldName(raw.name) = "Id" <=> raw.name = IdName
      /\ FieldName(raw.name) = "Retry" <=> raw.name = RetryName
  BY NameAssumption DEF FieldName
<1>2. QED
  BY <1>1 DEF Validate

\* The builder after one more line, property by property.
LEMMA AddIs ==
  ASSUME NEW raw \in ReadLines, Validates(raw), NEW b \in Builder
  PROVE  Add(b, Validate(raw))
           = [event |-> IF IsField(raw, EventName) /\ raw.value # None THEN raw.value ELSE b.event,
              id |-> IF IsField(raw, IdName) /\ NoNulIn(raw.value)
                     THEN UnwrapOrEmpty(raw.value) ELSE b.id,
              data |-> IF IsField(raw, DataName)
                       THEN PushStr(b.data, UnwrapOrEmpty(raw.value)) ELSE b.data,
              retry |-> IF IsField(raw, RetryName) /\ raw.value \in DOMAIN Millis
                        THEN Millis[raw.value] ELSE b.retry,
              isComplete |-> b.isComplete \/ raw.kind = "Empty"]
<1> DEFINE l == Validate(raw)
<1>1. raw \in RawLine
  BY DEF ReadLines
<1>2. /\ l.kind = raw.kind /\ l.value = raw.value
      /\ l.name = "Event" <=> IsField(raw, EventName)
      /\ l.name = "Data" <=> IsField(raw, DataName)
      /\ l.name = "Id" <=> IsField(raw, IdName)
      /\ l.name = "Retry" <=> IsField(raw, RetryName)
  BY <1>1, ValidateIs DEF IsField
<1>3. ~HasNul(UnwrapOrEmpty(raw.value)) <=> NoNulIn(raw.value)
  <2>1. CASE raw.value = None
    BY <2>1 DEF HasNul, NoNulIn, UnwrapOrEmpty
  <2>2. CASE raw.value # None
    BY <2>2 DEF HasNul, NoNulIn, UnwrapOrEmpty
  <2>3. QED
    BY <2>1, <2>2
<1>4. Add(b, l) \in Builder
  BY <1>1, AddType, ValidateType DEF Validates
<1> HIDE DEF l
<1> DEFINE added == Add(b, l)
<1>5. /\ added.event = IF l.name = "Event" /\ l.value # None THEN l.value ELSE b.event
      /\ added.data = IF l.name = "Data" THEN PushStr(b.data, UnwrapOrEmpty(l.value)) ELSE b.data
      /\ added.id = IF l.name = "Id" /\ ~HasNul(UnwrapOrEmpty(l.value))
                    THEN UnwrapOrEmpty(l.value) ELSE b.id
      /\ added.retry = IF l.name = "Retry" /\ l.value \in DOMAIN Millis
                       THEN Millis[l.value] ELSE b.retry
      /\ added.isComplete = (b.isComplete \/ l.kind = "Empty")
  BY DEF Add, Builder
<1>6. added = [event |-> added.event, id |-> added.id, data |-> added.data,
               retry |-> added.retry, isComplete |-> added.isComplete]
  BY <1>4 DEF Builder
<1> HIDE DEF added
<1>7. QED
  BY <1>2, <1>3, <1>5, <1>6, Zenon DEF added, l

Single(item) == IF item = None THEN <<>> ELSE <<item>>

(***************************************************************************)
(* One more line makes of what was said what the parse loop makes of the   *)
(* builder, and it adds the same item.                                     *)
(***************************************************************************)
LEMMA SaidStep ==
  ASSUME NEW ls \in Seq(ReadLines), NEW p \in Nat, p + 1 <= Len(ls), SaidBy(ls, p) \in Builder
  PROVE  /\ StepOn(SaidBy(ls, p), ls[p + 1]).builder = SaidBy(ls, p + 1)
         /\ ItemOf(ls, p + 1) = Single(StepOn(SaidBy(ls, p), ls[p + 1]).item)
<1> DEFINE l == ls[p + 1]
           b == SaidBy(ls, p)
           c == SaidBy(ls, p + 1)
<1>1. /\ l \in ReadLines /\ l \in RawLine /\ (l.kind # "Field" => l.value = None)
      /\ (p + 1) - 1 = p
  BY DEF ReadLines
<1>2. /\ b.event = TypeOf(ls, p) /\ b.id = IdOf(ls, p) /\ b.data = DataOf(ls, p)
      /\ b.retry = RetryOf(ls, p) /\ b.isComplete = FALSE
  BY DEF SaidBy
<1>3. c = [event |-> TypeOf(ls, p + 1), id |-> IdOf(ls, p + 1), data |-> DataOf(ls, p + 1),
           retry |-> RetryOf(ls, p + 1), isComplete |-> FALSE]
  BY DEF SaidBy
<1>4. IdOf(ls, p + 1) = IF IsField(l, IdName) /\ NoNulIn(l.value)
                        THEN UnwrapOrEmpty(l.value) ELSE b.id
  BY <1>2, IdStep
<1>5. l.kind = "Empty" =>
        /\ TypeOf(ls, p + 1) = <<>> /\ DataOf(ls, p + 1) = None /\ RetryOf(ls, p + 1) = None
  BY TypeStep, DataStep, RetryStep
<1>6. l.kind # "Empty" =>
        /\ TypeOf(ls, p + 1) = IF IsField(l, EventName) /\ l.value # None
                               THEN l.value ELSE b.event
        /\ DataOf(ls, p + 1) = IF IsField(l, DataName)
                               THEN PushStr(b.data, UnwrapOrEmpty(l.value)) ELSE b.data
        /\ RetryOf(ls, p + 1) = IF IsField(l, RetryName) /\ l.value \in DOMAIN Millis
                                THEN Millis[l.value] ELSE b.retry
  BY <1>2, TypeStep, DataStep, RetryStep
<1>7. ItemOf(ls, p + 1)
        = IF ~Validates(l) THEN <<Utf8Error>>
          ELSE IF l.kind # "Empty" \/ b.data = None THEN <<>>
          ELSE << [event |-> IF b.event = <<>> THEN Message ELSE b.event,
                   data |-> b.data, id |-> b.id, retry |-> b.retry] >>
  BY <1>1, <1>2 DEF ItemOf
<1> HIDE DEF l, b, c
<1>8. CASE ~Validates(l)
  <2>1. l.kind # "Empty" /\ \A name : ~IsField(l, name)
    BY <1>1, <1>8 DEF Validates, IsField
  <2>2. c = [event |-> b.event, id |-> b.id, data |-> b.data, retry |-> b.retry,
             isComplete |-> FALSE]
    BY <1>3, <1>4, <1>6, <2>1
  <2>3. c = b
    BY <1>2, <2>2 DEF SaidBy, b
  <2>4. StepOn(b, l) = [builder |-> b, item |-> Utf8Error] /\ Utf8Error # None
    BY <1>8, BuilderAssumption DEF StepOn
  <2>5. QED
    BY <1>7, <1>8, <2>3, <2>4 DEF Single, l, b, c
<1>9. CASE Validates(l)
  <2> DEFINE added == Add(b, Validate(l))
  <2>1. b \in Builder
    BY DEF b
  <2>2. added = [event |-> IF IsField(l, EventName) /\ l.value # None THEN l.value ELSE b.event,
                 id |-> IF IsField(l, IdName) /\ NoNulIn(l.value)
                        THEN UnwrapOrEmpty(l.value) ELSE b.id,
                 data |-> IF IsField(l, DataName)
                          THEN PushStr(b.data, UnwrapOrEmpty(l.value)) ELSE b.data,
                 retry |-> IF IsField(l, RetryName) /\ l.value \in DOMAIN Millis
                           THEN Millis[l.value] ELSE b.retry,
                 isComplete |-> b.isComplete \/ l.kind = "Empty"]
    BY <1>1, <1>9, <2>1, AddIs
  <2> HIDE DEF added
  <2>3. CASE l.kind # "Empty"
    <3>1. added.isComplete = FALSE
      BY <1>2, <2>2, <2>3
    <3>2. added = c
      BY <1>2, <1>3, <1>4, <1>6, <2>2, <2>3
    <3>3. StepOn(b, l) = [builder |-> added, item |-> None]
      BY <1>9, <3>1 DEF StepOn, added
    <3>4. ItemOf(ls, p + 1) = <<>>
      BY <1>7, <1>9, <2>3
    <3>5. QED
      BY <3>2, <3>3, <3>4 DEF Single, l, b, c
  <2>4. CASE l.kind = "Empty"
    <3>1. \A name : ~IsField(l, name)
      BY <2>4 DEF IsField
    <3>2. /\ added.isComplete = TRUE /\ added.event = b.event /\ added.id = b.id
          /\ added.data = b.data /\ added.retry = b.retry
      BY <2>2, <2>4, <3>1
    <3>3. AfterDispatch(added) = c
      <4>1. AfterDispatch(added) = [event |-> <<>>, id |-> added.id, data |-> None,
                                    retry |-> None, isComplete |-> FALSE]
        <5>1. AfterDispatch(added) \in Builder
          BY <1>1, <1>9, <2>1, AddType, ValidateType, DispatchType DEF added
        <5>2. /\ AfterDispatch(added).event = <<>> /\ AfterDispatch(added).id = added.id
              /\ AfterDispatch(added).data = None /\ AfterDispatch(added).retry = None
              /\ AfterDispatch(added).isComplete = FALSE
          BY DEF AfterDispatch, EmptyBuilder
        <5>3. QED
          BY <5>1, <5>2 DEF Builder
      <4>2. c = [event |-> <<>>, id |-> b.id, data |-> None, retry |-> None,
                 isComplete |-> FALSE]
        BY <1>3, <1>4, <1>5, <2>4, <3>1, Zenon
      <4>3. QED
        BY <3>2, <4>1, <4>2
    <3>4. Dispatched(added)
            = IF b.data = None THEN None
              ELSE [event |-> IF b.event = <<>> THEN Message ELSE b.event,
                    data |-> b.data, id |-> b.id, retry |-> b.retry]
      BY <3>2 DEF Dispatched
    <3>5. b.data # None => Dispatched(added) # None
      <4>1. added \in Builder
        BY <1>1, <1>9, <2>1, AddType, ValidateType DEF added
      <4>2. added.data # None => Dispatched(added) \in Event
        BY <4>1, BuilderAssumption DEF Dispatched, Event, Builder, Option
      <4>3. QED
        BY <3>2, <4>2, ItemAssumption
    <3>6. StepOn(b, l) = [builder |-> AfterDispatch(added), item |-> Dispatched(added)]
      BY <1>9, <3>2 DEF StepOn, added
    <3>7. ItemOf(ls, p + 1) = Single(Dispatched(added))
      BY <1>7, <1>9, <2>4, <3>4, <3>5 DEF Single
    <3>8. QED
      BY <3>3, <3>6, <3>7 DEF l, b, c
  <2>5. QED
    BY <2>3, <2>4
<1>10. QED
  BY <1>8, <1>9

\* The items of the first p lines.
ItemsBy(ls, p) == Flat([k \in 1..p |-> ItemOf(ls, k)])

\* One more line adds its item.
LEMMA ItemsStep ==
  ASSUME NEW ls, NEW p \in Nat
  PROVE  ItemsBy(ls, p + 1) = ItemsBy(ls, p) \o ItemOf(ls, p + 1)
<1> DEFINE f == [k \in 1..p |-> ItemOf(ls, k)]
           g == [k \in 1..(p + 1) |-> ItemOf(ls, k)]
<1>1. /\ Len(f) = p /\ Len(g) = p + 1 /\ g[p + 1] = ItemOf(ls, p + 1)
      /\ \A k \in 1..p : f[k] = g[k]
  OBVIOUS
<1>2. ItemsBy(ls, p) = Flat(f) /\ ItemsBy(ls, p + 1) = Flat(g)
  BY DEF ItemsBy
<1> HIDE DEF f, g
<1>3. QED
  BY <1>1, <1>2, FlatGrows

\* Before the first line, nothing has been said.
LEMMA SaidAtFirst ==
  ASSUME NEW ls
  PROVE  SaidBy(ls, 0) = EmptyBuilder /\ ItemsBy(ls, 0) = <<>>
<1>1. \A name : Fields(ls, 0, name) = {} /\ InBlock(ls, 0, name) = {}
  <2>1. \A name : Fields(ls, 0, name) = {}
    BY DEF Fields
  <2>2. QED
    BY <2>1 DEF InBlock
<1>2. TypeOf(ls, 0) = <<>> /\ RetryOf(ls, 0) = None
  <2>1. /\ {i \in InBlock(ls, 0, EventName) : ls[i].value # None} = {}
        /\ {i \in InBlock(ls, 0, RetryName) : ls[i].value \in DOMAIN Millis} = {}
    BY <1>1
  <2>2. QED
    BY <2>1, LatestOfNone DEF TypeOf, RetryOf
<1>3. IdOf(ls, 0) = <<>>
  <2>1. {i \in Fields(ls, 0, IdName) : NoNulIn(ls[i].value)} = {}
    BY <1>1
  <2>2. QED
    BY <2>1, LatestOfNone DEF IdOf, NoNulIn
<1>4. DataOf(ls, 0) = None
  BY <1>1, DataIs
<1>5. ItemsBy(ls, 0) = <<>>
  <2>1. Len([k \in 1..0 |-> ItemOf(ls, k)]) = 0
    OBVIOUS
  <2>2. QED
    BY <2>1, FlatOfNone DEF ItemsBy
<1>6. QED
  BY <1>2, <1>3, <1>4, <1>5 DEF SaidBy, EmptyBuilder

(***************************************************************************)
(* Positions where no line ends add nothing.                               *)
(***************************************************************************)
LEMMA CommentsAddNothing ==
  ASSUME NEW ls \in Seq(ReadLines), NEW p \in Nat, NEW q \in Nat, p <= q, q <= Len(ls),
         \A k \in (p + 1)..q : ls[k] = CommentLine,
         SaidBy(ls, p) \in Builder, ItemsBy(ls, p) \in Seq(Item)
  PROVE  SaidBy(ls, q) = SaidBy(ls, p) /\ ItemsBy(ls, q) = ItemsBy(ls, p)
<1> DEFINE Same(r) == SaidBy(ls, r) = SaidBy(ls, p) /\ ItemsBy(ls, r) = ItemsBy(ls, p)
           T == {n \in Nat : p + n <= q => Same(p + n)}
<1>1. 0 \in T
  <2>1. p + 0 = p
    OBVIOUS
  <2>2. QED
    BY <2>1
<1>2. ASSUME NEW n \in T
      PROVE  n + 1 \in T
  <2>1. CASE p + (n + 1) <= q
    <3> DEFINE r == p + n
    <3>1. r \in Nat /\ r + 1 = p + (n + 1) /\ r + 1 <= Len(ls) /\ Same(r)
      BY <2>1
    <3>2. ls[r + 1] = CommentLine
      BY <2>1, <3>1
    <3> HIDE DEF r
    <3>3. SaidBy(ls, r) \in Builder /\ SaidBy(ls, r).isComplete = FALSE
      BY <3>1 DEF SaidBy
    <3>4. StepOn(SaidBy(ls, r), CommentLine) = [builder |-> SaidBy(ls, r), item |-> None]
      <4>1. /\ CommentLine \in ReadLines /\ Validates(CommentLine) /\ CommentLine.kind # "Empty"
            /\ \A name : ~IsField(CommentLine, name)
        BY EmptySeq DEF CommentLine, ReadLines, RawLine, Option, Str, Validates, IsField
      <4>2. Add(SaidBy(ls, r), Validate(CommentLine))
              = [event |-> SaidBy(ls, r).event, id |-> SaidBy(ls, r).id,
                 data |-> SaidBy(ls, r).data, retry |-> SaidBy(ls, r).retry,
                 isComplete |-> FALSE]
        BY <3>3, <4>1, AddIs
      <4>3. Add(SaidBy(ls, r), Validate(CommentLine)) = SaidBy(ls, r)
        BY <4>2 DEF SaidBy
      <4>4. QED
        BY <3>3, <4>1, <4>3 DEF StepOn
    <3>5. SaidBy(ls, r + 1) = SaidBy(ls, r) /\ ItemOf(ls, r + 1) = <<>>
      <4>1. /\ StepOn(SaidBy(ls, r), ls[r + 1]).builder = SaidBy(ls, r + 1)
            /\ ItemOf(ls, r + 1) = Single(StepOn(SaidBy(ls, r), ls[r + 1]).item)
        BY <3>1, <3>3, SaidStep
      <4>2. /\ StepOn(SaidBy(ls, r), ls[r + 1]).builder = SaidBy(ls, r)
            /\ StepOn(SaidBy(ls, r), ls[r + 1]).item = None
        BY <3>2, <3>4
      <4>3. QED
        BY <4>1, <4>2 DEF Single
    <3>6. ItemsBy(ls, r + 1) = ItemsBy(ls, r)
      <4>1. ItemsBy(ls, r) \in Seq(Item)
        BY <3>1
      <4>2. ItemsBy(ls, r + 1) = ItemsBy(ls, r) \o <<>>
        BY <3>1, <3>5, ItemsStep
      <4>3. QED
        BY <4>1, <4>2, ConcatEmptySeq
    <3>7. Same(r + 1)
      BY <3>1, <3>5, <3>6
    <3>8. QED
      BY <3>1, <3>7
  <2>2. CASE ~(p + (n + 1) <= q)
    BY <2>2
  <2>3. QED
    BY <2>1, <2>2
<1> HIDE DEF T
<1>3. T = Nat
  BY <1>1, <1>2, Induction DEF T
<1>4. q - p \in T /\ p + (q - p) = q
  BY <1>3
<1>5. QED
  BY <1>4 DEF T

-----------------------------------------------------------------------------
(***************************************************************************)
(* Positions in a text: where a line ends, and where the next one starts.  *)
(***************************************************************************)
LEMMA StartType ==
  ASSUME NEW t \in Str, NEW k \in 1..Len(t)
  PROVE  StartOf(t, k) \in Nat \ {0}
<1> DEFINE before == Latest({j \in 1..(k - 1) : EndsLine(t, j)})
<1>1. before \in 0..(k - 1)
  <2>1. k - 1 \in Nat /\ {j \in 1..(k - 1) : EndsLine(t, j)} \in SUBSET (1..(k - 1))
    BY DEF Str
  <2>2. QED
    BY <2>1, LatestExists
<1>2. StartOf(t, k) = IF before = 0 THEN 1 ELSE AfterEnd(t, before)
  BY DEF StartOf
<1> HIDE DEF before
<1>3. QED
  BY <1>1, <1>2 DEF AfterEnd

\* Every position of a text gives a line that the parser could have read.
LEMMA LinesType ==
  ASSUME NEW t \in Str
  PROVE  Lines(t) \in Seq(ReadLines) /\ Len(Lines(t)) = Len(t)
<1>1. ASSUME NEW line \in Str
      PROVE  ReadLine(line) \in ReadLines
  <2>1. ParseLineFromBuffer(line) \in RawLine
    BY RawLineType
  <2>2. ParseLineFromBuffer(line).kind # "Field" => ParseLineFromBuffer(line).value = None
    BY DEF ParseLineFromBuffer, EmptyLine, CommentLine, FieldLine
  <2>3. QED
    BY <2>1, <2>2, ReadersAlike DEF ReadLines
<1>2. CommentLine \in ReadLines
  BY EmptySeq DEF CommentLine, ReadLines, RawLine, Option, Str
<1>3. ASSUME NEW k \in 1..Len(t)
      PROVE  SubSeq(t, StartOf(t, k), k - 1) \in Str
  BY StartType DEF Str
<1>4. Lines(t) = [k \in 1..Len(t) |-> Lines(t)[k]]
  BY DEF Lines
<1>5. \A k \in 1..Len(t) : Lines(t)[k] \in ReadLines
  BY <1>1, <1>2, <1>3 DEF Lines
<1>6. Len(t) \in Nat
  BY DEF Str
<1>7. QED
  BY <1>4, <1>5, <1>6, IsASeq

\* Between two lines: nothing of the text is read, or a line with its end is.
BetweenLines(t, p) ==
  /\ p \in 0..Len(t)
  /\ p # 0 => \E e \in 1..p : EndsLine(t, e) /\ AfterEnd(t, e) = p + 1

\* The first line end after a position between lines.
FirstEndAfter(t, p, m) ==
  /\ m \in (p + 1)..Len(t)
  /\ t[m] \in Eol
  /\ \A k \in (p + 1)..(m - 1) : t[k] \notin Eol

\* It is where the next line ends, which starts at the position after p.
LEMMA NextLine ==
  ASSUME NEW t \in Str, NEW p, BetweenLines(t, p), NEW m, FirstEndAfter(t, p, m)
  PROVE  /\ EndsLine(t, m) /\ StartOf(t, m) = p + 1
         /\ \A k \in (p + 1)..(m - 1) : ~EndsLine(t, k)
         /\ BetweenLines(t, AfterEnd(t, m) - 1)
         /\ \A k \in (m + 1)..(AfterEnd(t, m) - 1) : ~EndsLine(t, k)
<1>1. /\ p \in 0..Len(t) /\ Len(t) \in Nat /\ m \in (p + 1)..Len(t) /\ t[m] \in {CR, LF}
      /\ CR # LF /\ \A k \in (p + 1)..(m - 1) : t[k] # CR /\ t[k] # LF
  BY ByteAssumption DEF BetweenLines, FirstEndAfter, Eol, Str
<1>2. \A k \in (p + 1)..(m - 1) : ~EndsLine(t, k)
  BY <1>1 DEF EndsLine
<1>3. ASSUME p = 0
      PROVE  EndsLine(t, m) /\ StartOf(t, m) = p + 1
  <2>1. EndsLine(t, m)
    BY <1>1, <1>3 DEF EndsLine
  <2>2. {j \in 1..(m - 1) : EndsLine(t, j)} = {}
    BY <1>1, <1>2, <1>3
  <2>3. StartOf(t, m) = p + 1
    BY <1>3, <2>2, LatestOfNone DEF StartOf
  <2>4. QED
    BY <2>1, <2>3
<1>4. ASSUME p # 0
      PROVE  EndsLine(t, m) /\ StartOf(t, m) = p + 1
  <2>1. PICK e \in 1..p : EndsLine(t, e) /\ AfterEnd(t, e) = p + 1
    BY <1>4 DEF BetweenLines
  <2>2. \/ p = e /\ ~(t[e] = CR /\ e < Len(t) /\ t[e + 1] = LF)
        \/ p = e + 1 /\ t[e] = CR /\ t[p] = LF
    BY <1>1, <2>1 DEF AfterEnd
  <2>3. EndsLine(t, m)
    <3>1. CASE m = p + 1
      BY <1>1, <2>1, <2>2, <3>1 DEF EndsLine
    <3>2. CASE m # p + 1
      BY <1>1, <3>2 DEF EndsLine
    <3>3. QED
      BY <3>1, <3>2
  <2>4. \A j \in 1..(m - 1) : EndsLine(t, j) => j <= e
    BY <1>1, <1>2, <2>1, <2>2 DEF EndsLine
  <2>5. Latest({j \in 1..(m - 1) : EndsLine(t, j)}) = e
    <3> DEFINE S == {j \in 1..(m - 1) : EndsLine(t, j)}
    <3>1. S \in SUBSET Nat /\ e \in S \cup {0} /\ \A j \in S : j <= e
      BY <1>1, <2>1, <2>4
    <3> HIDE DEF S
    <3>2. Latest(S) = e
      BY <3>1, LatestIs
    <3>3. QED
      BY <3>2 DEF S
  <2>6. StartOf(t, m) = p + 1
    BY <2>1, <2>5 DEF StartOf
  <2>7. QED
    BY <2>3, <2>6
<1>5. EndsLine(t, m) /\ StartOf(t, m) = p + 1
  BY <1>3, <1>4
<1>6. AfterEnd(t, m) \in {m + 1, m + 2} /\ AfterEnd(t, m) - 1 <= Len(t)
  BY <1>1 DEF AfterEnd
<1>7. \A k \in (m + 1)..(AfterEnd(t, m) - 1) : ~EndsLine(t, k)
  BY <1>1 DEF AfterEnd, EndsLine
<1>8. BetweenLines(t, AfterEnd(t, m) - 1)
  BY <1>1, <1>5, <1>6 DEF BetweenLines
<1>9. QED
  BY <1>2, <1>5, <1>7, <1>8

\* The slice of a text from one of its positions on.
LEMMA FromIs ==
  ASSUME NEW t \in Str, NEW p \in 0..Len(t)
  PROVE  /\ From(t, p + 1) \in Str /\ Len(t) \in Nat /\ Len(From(t, p + 1)) = Len(t) - p
         /\ \A i \in 1..(Len(t) - p) : From(t, p + 1)[i] = t[p + i]
<1>1. /\ Len(t) \in Nat /\ p + 1 \in 1..(Len(t) + 1) /\ t \in Seq(Byte)
      /\ \A i \in (p + 1)..Len(t) : i \in 1..Len(t)
  BY DEF Str
<1>2. \A i \in (p + 1)..Len(t) : t[i] \in Byte
  BY <1>1
<1>3. /\ SubSeq(t, p + 1, Len(t)) \in Seq(Byte)
      /\ Len(SubSeq(t, p + 1, Len(t))) = Len(t) - p
      /\ \A i \in 1..(Len(t) - p) : SubSeq(t, p + 1, Len(t))[i] = t[p + i]
  BY <1>1, <1>2
<1>4. QED
  BY <1>1, <1>3 DEF From, Str

\* Slices of that slice are slices of the text.
LEMMA FromFrom ==
  ASSUME NEW t \in Str, NEW p \in 0..Len(t)
  PROVE  /\ \A n \in 1..(Len(t) - p + 1) : From(From(t, p + 1), n) = From(t, p + n)
         /\ \A n \in 1..(Len(t) - p + 1) :
              SubSeq(From(t, p + 1), 1, n - 1) = SubSeq(t, p + 1, p + n - 1)
<1> DEFINE s == From(t, p + 1)
<1>1. /\ s \in Str /\ Len(t) \in Nat /\ Len(s) = Len(t) - p
      /\ \A i \in 1..(Len(t) - p) : s[i] = t[p + i]
  BY FromIs
<1> HIDE DEF s
<1>2. ASSUME NEW n \in 1..(Len(t) - p + 1)
      PROVE  From(s, n) = From(t, p + n)
  <2> DEFINE k == n - 1
             j == p + n - 1
  <2>1. k \in 0..Len(s) /\ j \in 0..Len(t) /\ k + 1 = n /\ j + 1 = p + n /\ Len(s) - k = Len(t) - j
    BY <1>1
  <2>2. /\ From(s, n) \in Str /\ Len(From(s, n)) = Len(s) - k
        /\ \A i \in 1..(Len(s) - k) : From(s, n)[i] = s[k + i]
    <3>1. /\ From(s, k + 1) \in Str /\ Len(From(s, k + 1)) = Len(s) - k
          /\ \A i \in 1..(Len(s) - k) : From(s, k + 1)[i] = s[k + i]
      <4> HIDE DEF k, j
      <4>1. QED
        BY <1>1, <2>1, FromIs
    <3>2. QED
      BY <2>1, <3>1, Zenon
  <2>3. /\ From(t, p + n) \in Str /\ Len(From(t, p + n)) = Len(t) - j
        /\ \A i \in 1..(Len(t) - j) : From(t, p + n)[i] = t[j + i]
    <3>1. /\ From(t, j + 1) \in Str /\ Len(From(t, j + 1)) = Len(t) - j
          /\ \A i \in 1..(Len(t) - j) : From(t, j + 1)[i] = t[j + i]
      <4> HIDE DEF k, j
      <4>1. QED
        BY <2>1, FromIs
    <3>2. QED
      BY <2>1, <3>1, Zenon
  <2>4. \A i \in 1..(Len(t) - j) : s[k + i] = t[j + i]
    BY <1>1
  <2> HIDE DEF k, j
  <2>5. \A i \in 1..Len(From(s, n)) : From(s, n)[i] = From(t, p + n)[i]
    <3>1. Len(From(s, n)) = Len(t) - j
      BY <2>1, <2>2, Zenon
    <3>2. \A i \in 1..(Len(t) - j) : From(s, n)[i] = s[k + i]
      BY <2>1, <2>2, Zenon
    <3>3. \A i \in 1..(Len(t) - j) : From(s, n)[i] = From(t, p + n)[i]
      BY <2>3, <2>4, <3>2, Zenon
    <3>4. QED
      BY <3>1, <3>3, Zenon
  <2>6. /\ From(s, n) \in Seq(Byte) /\ From(t, p + n) \in Seq(Byte)
        /\ Len(From(s, n)) = Len(From(t, p + n))
    BY <2>1, <2>2, <2>3, Zenon DEF Str
  <2>7. QED
    BY <2>5, <2>6, SeqEqual, Zenon
<1>3. ASSUME NEW n \in 1..(Len(t) - p + 1)
      PROVE  SubSeq(s, 1, n - 1) = SubSeq(t, p + 1, p + n - 1)
  <2>1. /\ s \in Seq(Byte) /\ t \in Seq(Byte)
        /\ \A i \in 1..(n - 1) : i \in 1..Len(s)
        /\ \A i \in (p + 1)..(p + n - 1) : i \in 1..Len(t)
    BY <1>1 DEF Str
  <2>2. /\ SubSeq(s, 1, n - 1) \in Seq(Byte) /\ Len(SubSeq(s, 1, n - 1)) = n - 1
        /\ \A i \in 1..(n - 1) : SubSeq(s, 1, n - 1)[i] = s[i]
    BY <1>1, <2>1
  <2>3. /\ SubSeq(t, p + 1, p + n - 1) \in Seq(Byte)
        /\ Len(SubSeq(t, p + 1, p + n - 1)) = n - 1
        /\ \A i \in 1..(n - 1) : SubSeq(t, p + 1, p + n - 1)[i] = t[p + i]
    BY <1>1, <2>1
  <2>4. \A i \in 1..(n - 1) : s[i] = t[p + i]
    BY <1>1
  <2>5. QED
    BY <2>2, <2>3, <2>4, SeqEqual
<1>4. QED
  BY <1>2, <1>3 DEF s

\* A buffer that holds a byte of S holds a first one.
LEMMA FirstExists ==
  ASSUME NEW S, NEW b, Len(b) \in Nat, NEW k \in 1..Len(b), b[k] \in S
  PROVE  \E i \in 1..Len(b) : IsFirst(i, S, b)
<1> SUFFICES ASSUME \A i \in 1..Len(b) : ~IsFirst(i, S, b)
             PROVE  FALSE
  OBVIOUS
<1> DEFINE T == {n \in Nat : \A j \in 1..n : j <= Len(b) => b[j] \notin S}
<1>1. 0 \in T
  OBVIOUS
<1>2. ASSUME NEW n \in T
      PROVE  n + 1 \in T
  <2>1. n + 1 <= Len(b) => b[n + 1] \notin S
    BY DEF IsFirst
  <2>2. \A j \in 1..(n + 1) : j \in 1..n \/ j = n + 1
    OBVIOUS
  <2>3. QED
    BY <2>1, <2>2
<1> HIDE DEF T
<1>3. T = Nat
  BY <1>1, <1>2, Induction DEF T
<1>4. k \in T
  BY <1>3
<1>5. QED
  BY <1>4 DEF T

(***************************************************************************)
(* The line that the buffer has is the next one of the text.               *)
(***************************************************************************)
\* m is the end in the text t of the line of b, when t was read up to p.
IsLineAt(b, t, p, m) == FirstEndAfter(t, p, m) /\ LineOf(b) = SubSeq(t, p + 1, m - 1)

\* While the text is being read, the buffer is what is left of it.
LEMMA LineOfText ==
  ASSUME NEW t \in Str, NEW p \in 0..Len(t), HasLine(From(t, p + 1))
  PROVE  \E m : /\ IsLineAt(From(t, p + 1), t, p, m)
                /\ RestOf(From(t, p + 1)) = From(t, AfterEnd(t, m))
<1> DEFINE s == From(t, p + 1)
           i == EolAt(s)
           m == p + i
<1>1. /\ s \in Str /\ Len(t) \in Nat /\ Len(s) = Len(t) - p
      /\ \A k \in 1..(Len(t) - p) : s[k] = t[p + k]
  BY FromIs
<1>2. i \in 1..Len(s) /\ IsFirst(i, Eol, s)
  BY <1>1, EolAtIsFirst
<1>3. NextLineAt(s) = AfterEnd(t, m) - p /\ NextLineAt(s) \in 1..(Len(t) - p + 1)
  <2>1. CrLfAt(s, i) <=> t[m] = CR /\ m < Len(t) /\ t[m + 1] = LF
    <3>1. i \in 1..(Len(t) - p) /\ m \in Nat
      BY <1>1, <1>2
    <3>2. i < Len(s) <=> m < Len(t)
      BY <1>1, <3>1
    <3>3. s[i] = t[m]
      BY <1>1, <3>1
    <3>4. i < Len(s) => s[i + 1] = t[m + 1]
      <4>1. i < Len(s) => i + 1 \in 1..(Len(t) - p)
        BY <1>1, <3>1
      <4>2. p + (i + 1) = m + 1
        BY <1>1, <3>1
      <4>3. i < Len(s) => s[i + 1] = t[p + (i + 1)]
        <5> HIDE DEF s, i, m
        <5>1. QED
          BY <1>1, <4>1, Zenon
      <4>4. t[p + (i + 1)] = t[m + 1]
        BY <4>2, Zenon
      <4> HIDE DEF m, s, i
      <4>5. QED
        BY <4>3, <4>4, Zenon
    <3> HIDE DEF m, i, s
    <3>5. QED
      BY <3>2, <3>3, <3>4 DEF CrLfAt
  <2>2. NextLineAt(s) = IF CrLfAt(s, i) THEN i + 2 ELSE i + 1
    BY DEF NextLineAt
  <2> HIDE DEF s, i
  <2>3. QED
    BY <1>1, <1>2, <2>1, <2>2 DEF AfterEnd
<1>4. RestOf(s) = From(s, NextLineAt(s)) /\ LineOf(s) = SubSeq(s, 1, i - 1)
  BY DEF RestOf, From, LineOf
<1> HIDE DEF i
<1>5. LineOf(s) = SubSeq(t, p + 1, m - 1)
  <2>1. i \in 1..(Len(t) - p + 1) /\ m - 1 = p + i - 1
    BY <1>1, <1>2
  <2>2. SubSeq(s, 1, i - 1) = SubSeq(t, p + 1, p + i - 1)
    BY <2>1, FromFrom, Zenon
  <2>3. QED
    BY <1>4, <2>1, <2>2, Zenon
<1>6. RestOf(s) = From(t, AfterEnd(t, m))
  <2>1. p + NextLineAt(s) = AfterEnd(t, m)
    <3>1. AfterEnd(t, m) \in Int
      BY <1>1, <1>2 DEF AfterEnd
    <3>2. QED
      BY <1>3, <3>1
  <2>2. From(s, NextLineAt(s)) = From(t, p + NextLineAt(s))
    BY <1>3, FromFrom
  <2>3. QED
    BY <1>4, <2>1, <2>2
<1>7. FirstEndAfter(t, p, m)
  <2>1. m \in (p + 1)..Len(t) /\ t[m] \in Eol
    BY <1>1, <1>2 DEF IsFirst
  <2>2. ASSUME NEW k \in (p + 1)..(m - 1)
        PROVE  t[k] \notin Eol
    <3>1. k - p \in 1..(i - 1) /\ k - p \in 1..(Len(t) - p) /\ p + (k - p) = k
      BY <1>1, <1>2
    <3>2. s[k - p] \notin Eol
      BY <1>2, <3>1 DEF IsFirst
    <3>3. QED
      BY <1>1, <3>1, <3>2
  <2>3. QED
    BY <2>1, <2>2 DEF FirstEndAfter
<1>8. QED
  BY <1>5, <1>6, <1>7 DEF IsLineAt

\* The same at the end of the stream, where a last CR has been closed.
LEMMA LineOfClosedText ==
  ASSUME NEW t \in Str, NEW p \in 0..Len(t), HasLine(CloseLine(From(t, p + 1)))
  PROVE  \E m : /\ IsLineAt(CloseLine(From(t, p + 1)), t, p, m)
                /\ RestOf(CloseLine(From(t, p + 1))) = CloseLine(From(t, AfterEnd(t, m)))
<1> DEFINE s == From(t, p + 1)
           b == CloseLine(s)
<1>1. /\ s \in Str /\ Len(t) \in Nat /\ Len(s) = Len(t) - p
      /\ \A k \in 1..(Len(t) - p) : s[k] = t[p + k]
  BY FromIs
<1>2. CASE HasLine(s)
  <2>1. PICK m : IsLineAt(s, t, p, m) /\ RestOf(s) = From(t, AfterEnd(t, m))
    BY <1>2, LineOfText
  <2> DEFINE r == RestOf(s)
             q == AfterEnd(t, m) - 1
  <2>2. /\ q \in 0..Len(t) /\ q + 1 = AfterEnd(t, m)
        /\ q = Len(t) => ~(t[Len(t)] = CR) \/ m = Len(t)
    <3>1. m \in (p + 1)..Len(t)
      BY <2>1 DEF IsLineAt, FirstEndAfter
    <3>2. q = m \/ (q = m + 1 /\ m < Len(t) /\ t[m + 1] = LF)
      BY <1>1, <3>1 DEF AfterEnd
    <3>3. AfterEnd(t, m) \in Nat
      BY <1>1, <3>1 DEF AfterEnd
    <3>4. q + 1 = AfterEnd(t, m)
      BY <3>3
    <3> HIDE DEF q
    <3>5. q = Len(t) => t[Len(t)] # CR \/ m = Len(t)
      BY <1>1, <3>1, <3>2, ByteAssumption
    <3>6. QED
      BY <1>1, <3>1, <3>2, <3>4, <3>5
  <2>3. m = Len(t) => t[m] # CR
    <3> SUFFICES ASSUME m = Len(t), t[m] = CR
                 PROVE  FALSE
      OBVIOUS
    <3>1. /\ EolAt(s) \in 1..Len(s) /\ IsFirst(EolAt(s), Eol, s)
          /\ s[EolAt(s)] = CR => EolAt(s) < Len(s)
      BY <1>1, <1>2, EolAtIsFirst
    <3>2. t[p + EolAt(s)] \in Eol /\ p + EolAt(s) \in (p + 1)..Len(t)
      BY <1>1, <3>1 DEF IsFirst
    <3>3. p + EolAt(s) = m
      BY <1>1, <2>1, <3>2 DEF IsLineAt, FirstEndAfter
    <3>4. QED
      BY <1>1, <3>1, <3>3
  <2>4. /\ r \in Str /\ Len(r) = Len(t) - q /\ (r # <<>> => r[Len(r)] = t[Len(t)])
        /\ s # <<>> /\ s[Len(s)] = t[Len(t)] /\ Len(t) # 0
    <3>1. /\ From(t, q + 1) \in Str /\ Len(From(t, q + 1)) = Len(t) - q
          /\ \A i \in 1..(Len(t) - q) : From(t, q + 1)[i] = t[q + i]
      BY <2>2, FromIs
    <3>2. r = From(t, q + 1)
      BY <2>1, <2>2
    <3>3. Len(s) # 0
      BY <1>1, <1>2, EolAtIsFirst
    <3> HIDE DEF q, r, s
    <3>4. r # <<>> => Len(t) - q \in 1..(Len(t) - q)
      BY <1>1, <2>2, <3>1, <3>2 DEF Str
    <3>5. s[Len(s)] = t[Len(t)] /\ Len(t) # 0
      BY <1>1, <3>3
    <3>6. r # <<>> => r[Len(r)] = t[Len(t)]
      <4>1. q + (Len(t) - q) = Len(t)
        BY <1>1, <2>2
      <4>2. r # <<>> => r[Len(t) - q] = t[q + (Len(t) - q)]
        BY <3>1, <3>2, <3>4
      <4>3. QED
        BY <3>1, <3>2, <4>1, <4>2
    <3>7. QED
      BY <3>1, <3>2, <3>3, <3>5, <3>6
  <2>5. r = <<>> => t[Len(t)] # CR
    BY <1>1, <2>2, <2>3, <2>4
  <2>6. CASE t[Len(t)] = CR
    <3>1. <<LF>> \in Str /\ Append(s, LF) = s \o <<LF>> /\ Append(r, LF) = r \o <<LF>>
      BY <1>1, <2>4, ByteAssumption, AppendIsConcat DEF Str
    <3>2. LineOf(s \o <<LF>>) = LineOf(s) /\ RestOf(s \o <<LF>>) = r \o <<LF>>
      BY <1>1, <1>2, <3>1, LineIsStable
    <3>3. CloseLine(s) = s \o <<LF>> /\ CloseLine(r) = r \o <<LF>>
      BY <2>4, <2>5, <2>6, <3>1 DEF CloseLine
    <3>4. QED
      BY <2>1, <3>2, <3>3 DEF IsLineAt
  <2>7. CASE t[Len(t)] # CR
    <3>1. CloseLine(s) = s /\ CloseLine(r) = r
      BY <2>4, <2>7 DEF CloseLine
    <3>2. QED
      BY <2>1, <3>1
  <2>8. QED
    BY <2>6, <2>7
<1>3. CASE ~HasLine(s)
  <2>1. b = s \o <<LF>> /\ s # <<>> /\ s[Len(s)] = CR
    BY <1>1, <1>3, ByteAssumption, AppendIsConcat DEF CloseLine, Str
  <2>2. /\ b \in Str /\ Len(b) = Len(s) + 1 /\ Len(s) \in Nat \ {0} /\ b[Len(s) + 1] = LF
        /\ \A k \in 1..Len(s) : b[k] = s[k]
    <3>1. Len(s) \in Nat /\ s \in Seq(Byte) /\ <<LF>> \in Seq(Byte) /\ Len(<<LF>>) = 1
      BY <1>1, ByteAssumption DEF Str
    <3>2. Len(s) # 0
      BY <2>1, <3>1
    <3>3. /\ s \o <<LF>> \in Seq(Byte) /\ Len(s \o <<LF>>) = Len(s) + 1
          /\ \A k \in 1..(Len(s) + 1) :
               (s \o <<LF>>)[k] = IF k <= Len(s) THEN s[k] ELSE <<LF>>[k - Len(s)]
      BY <3>1, ConcatProperties
    <3> HIDE DEF s, b
    <3>4. (s \o <<LF>>)[Len(s) + 1] = LF
      BY <3>1, <3>3
    <3>5. QED
      BY <2>1, <3>1, <3>2, <3>3, <3>4 DEF Str
  <2> DEFINE i == EolAt(b)
  <2>3. i \in 1..Len(b) /\ IsFirst(i, Eol, b)
    BY <2>2, EolAtIsFirst
  <2> HIDE DEF i, b
  <2>4. i \in 1..Len(s)
    BY <2>1, <2>2, <2>3, ByteAssumption DEF IsFirst, Eol
  <2>5. IsFirst(i, Eol, s)
    BY <2>2, <2>3, <2>4 DEF IsFirst
  <2>6. i = Len(s)
    BY <1>3, <2>4, <2>5 DEF HasLine
  <2>7. b[i] = CR /\ b[i + 1] = LF /\ NextLineAt(b) = Len(b) + 1
    <3>1. NextLineAt(b) = IF CrLfAt(b, i) THEN i + 2 ELSE i + 1
      BY DEF NextLineAt, i
    <3>2. b[i] = CR /\ b[i + 1] = LF /\ i < Len(b) /\ i + 2 = Len(b) + 1
      BY <2>1, <2>2, <2>6
    <3>3. QED
      BY <3>1, <3>2 DEF CrLfAt
  <2>8. RestOf(b) = <<>>
    BY <2>2, <2>7 DEF RestOf, Str
  <2>9. LineOf(b) = SubSeq(s, 1, i - 1)
    <3>1. LineOf(b) = SubSeq(b, 1, i - 1)
      BY DEF LineOf, i
    <3>2. \A k \in 1..(i - 1) : k \in 1..Len(s) /\ k \in 1..Len(b)
      BY <2>2, <2>6
    <3>3. /\ SubSeq(s, 1, i - 1) \in Seq(Byte) /\ Len(SubSeq(s, 1, i - 1)) = i - 1
          /\ \A k \in 1..(i - 1) : SubSeq(s, 1, i - 1)[k] = s[k]
      BY <1>1, <2>2, <2>6, <3>2 DEF Str
    <3>4. /\ SubSeq(b, 1, i - 1) \in Seq(Byte) /\ Len(SubSeq(b, 1, i - 1)) = i - 1
          /\ \A k \in 1..(i - 1) : SubSeq(b, 1, i - 1)[k] = b[k]
      BY <2>2, <2>6, <3>2 DEF Str
    <3>5. QED
      BY <2>2, <3>1, <3>2, <3>3, <3>4, SeqEqual
  <2> DEFINE m == Len(t)
  <2>10. m = p + i
    BY <1>1, <2>6
  <2>11. SubSeq(s, 1, i - 1) = SubSeq(t, p + 1, m - 1)
    BY <1>1, <2>4, <2>10, FromFrom
  <2>12. FirstEndAfter(t, p, m)
    <3>1. m \in (p + 1)..Len(t) /\ t[m] \in Eol
      <4>1. Len(s) \in 1..(Len(t) - p) /\ p + Len(s) = m
        BY <1>1, <2>2
      <4> HIDE DEF s, m
      <4>2. t[m] = CR
        BY <1>1, <2>1, <4>1
      <4>3. QED
        BY <4>1, <4>2 DEF Eol, m
    <3>2. ASSUME NEW k \in (p + 1)..(m - 1)
          PROVE  t[k] \notin Eol
      <4>1. k - p \in 1..(i - 1) /\ k - p \in 1..(Len(t) - p) /\ p + (k - p) = k
        BY <1>1, <2>6
      <4>2. s[k - p] \notin Eol
        BY <2>5, <4>1 DEF IsFirst
      <4>3. QED
        BY <1>1, <4>1, <4>2
    <3>3. QED
      BY <3>1, <3>2 DEF FirstEndAfter
  <2>13. From(t, AfterEnd(t, m)) = <<>> /\ CloseLine(<<>>) = <<>>
    <3>1. AfterEnd(t, m) = Len(t) + 1
      BY <1>1 DEF AfterEnd
    <3>2. Len(t) \in 0..Len(t)
      BY <1>1
    <3>3. /\ From(t, Len(t) + 1) \in Str
          /\ Len(From(t, Len(t) + 1)) = 0
      BY <1>1, <3>2, FromIs
    <3>4. QED
      BY <3>1, <3>3 DEF Str, CloseLine
  <2>14. QED
    BY <2>8, <2>9, <2>11, <2>12, <2>13 DEF IsLineAt, b
<1>4. QED
  BY <1>2, <1>3

\* A buffer without a line, at the end of the stream, has no line end.
LEMMA NoLineAtEnd ==
  ASSUME NEW t \in Str, NEW p \in 0..Len(t), ~HasLine(CloseLine(From(t, p + 1)))
  PROVE  \A k \in (p + 1)..Len(t) : ~EndsLine(t, k)
<1> DEFINE s == From(t, p + 1)
           b == CloseLine(s)
<1>1. /\ s \in Str /\ Len(t) \in Nat /\ Len(s) = Len(t) - p
      /\ \A k \in 1..(Len(t) - p) : s[k] = t[p + k]
  BY FromIs
<1>2. /\ Len(b) \in Nat /\ Len(s) <= Len(b)
      /\ \A k \in 1..Len(s) : b[k] = s[k]
      /\ Len(b) # 0 => b[Len(b)] # CR
  <2>1. CASE b = s
    <3>1. s # <<>> => s[Len(s)] # CR
      <4>1. Append(s, LF) # s
        BY <1>1, ByteAssumption DEF Str
      <4>2. QED
        BY <2>1, <4>1 DEF CloseLine
    <3> HIDE DEF b, s
    <3>2. QED
      BY <1>1, <2>1, <3>1 DEF Str
  <2>2. CASE b # s
    <3>1. b = Append(s, LF)
      BY <2>2 DEF CloseLine
    <3> HIDE DEF b, s
    <3>2. QED
      BY <1>1, <3>1, ByteAssumption DEF Str
  <2>3. QED
    BY <2>1, <2>2
<1> HIDE DEF b
<1>3. \A k \in 1..Len(b) : b[k] \notin Eol
  <2> SUFFICES ASSUME NEW k \in 1..Len(b), b[k] \in Eol
               PROVE  FALSE
    OBVIOUS
  <2>1. PICK i \in 1..Len(b) : IsFirst(i, Eol, b)
    BY <1>2, FirstExists
  <2>2. ~(b[i] = CR /\ i = Len(b))
    BY <1>2, <2>1
  <2>3. HasLine(b)
    BY <1>2, <2>1, <2>2 DEF HasLine
  <2>4. QED
    BY <2>3 DEF b
<1>4. ASSUME NEW k \in (p + 1)..Len(t)
      PROVE  ~EndsLine(t, k)
  <2>1. k - p \in 1..Len(b) /\ k - p \in 1..Len(s) /\ k - p \in 1..(Len(t) - p) /\ p + (k - p) = k
    BY <1>1, <1>2
  <2>2. t[k] \notin Eol
    BY <1>1, <1>2, <1>3, <2>1
  <2>3. QED
    BY <2>2 DEF EndsLine, Eol
<1>5. QED
  BY <1>4

-----------------------------------------------------------------------------
(***************************************************************************)
(* The parse loop takes the next line of the text as the reference does.   *)
(***************************************************************************)
LEMMA OneLine ==
  ASSUME NEW t \in Str, NEW p, BetweenLines(t, p), NEW m, FirstEndAfter(t, p, m),
         SaidBy(Lines(t), p) \in Builder, ItemsBy(Lines(t), p) \in Seq(Item)
  PROVE  LET q == AfterEnd(t, m) - 1
             step == ParseStep(SaidBy(Lines(t), p), SubSeq(t, p + 1, m - 1))
         IN  /\ BetweenLines(t, q)
             /\ SaidBy(Lines(t), q) = step.builder
             /\ ItemsBy(Lines(t), q) = IF step.item = None THEN ItemsBy(Lines(t), p)
                                        ELSE Append(ItemsBy(Lines(t), p), step.item)
<1> DEFINE ls == Lines(t)
           q == AfterEnd(t, m) - 1
           line == SubSeq(t, p + 1, m - 1)
           step == ParseStep(SaidBy(ls, p), line)
           e == m - 1
<1>1. /\ ls \in Seq(ReadLines) /\ Len(ls) = Len(t) /\ Len(t) \in Nat
      /\ p \in 0..Len(t) /\ m \in (p + 1)..Len(t)
  BY LinesType DEF Str, BetweenLines, FirstEndAfter
<1>2. /\ EndsLine(t, m) /\ StartOf(t, m) = p + 1
      /\ \A k \in (p + 1)..(m - 1) : ~EndsLine(t, k)
      /\ BetweenLines(t, q)
      /\ \A k \in (m + 1)..q : ~EndsLine(t, k)
  BY NextLine
<1>3. q \in Nat /\ q <= Len(t) /\ m <= q /\ e \in Nat /\ p <= e /\ e + 1 = m /\ m \in Nat
  BY <1>1, <1>2 DEF BetweenLines, AfterEnd
<1>4. \A k \in 1..Len(t) : ~EndsLine(t, k) => ls[k] = CommentLine
  BY DEF Lines
<1>5. ls[m] = ParseLineFromBuffer(line)
  <2>1. ls[m] = ReadLine(line)
    BY <1>1, <1>2 DEF Lines
  <2>2. line \in Str
    BY <1>1 DEF Str
  <2>3. QED
    BY <2>1, <2>2, ReadersAlike
<1> HIDE DEF ls, q, e
<1>6. SaidBy(ls, e) = SaidBy(ls, p) /\ ItemsBy(ls, e) = ItemsBy(ls, p)
  <2>1. \A k \in (p + 1)..e : ls[k] = CommentLine
    BY <1>1, <1>2, <1>3, <1>4 DEF e
  <2>2. p \in Nat /\ e <= Len(ls)
    BY <1>1, <1>3
  <2>3. QED
    BY <1>1, <1>3, <2>1, <2>2, CommentsAddNothing DEF ls
<1>7. /\ step.builder = SaidBy(ls, m)
      /\ ItemOf(ls, m) = Single(step.item)
  <2>1. step = StepOn(SaidBy(ls, e), ls[e + 1])
    BY <1>3, <1>5, <1>6, ParseStepIs
  <2>2. /\ StepOn(SaidBy(ls, e), ls[e + 1]).builder = SaidBy(ls, e + 1)
        /\ ItemOf(ls, e + 1) = Single(StepOn(SaidBy(ls, e), ls[e + 1]).item)
    BY <1>1, <1>3, <1>6, SaidStep DEF ls
  <2>3. QED
    BY <1>3, <2>1, <2>2
<1>8. step.builder \in Builder /\ step.item \in Item \cup {None}
  <2>1. line \in Str
    BY <1>1 DEF Str
  <2>2. QED
    BY <2>1, ParseStepType DEF ls
<1> DEFINE x == step.item
           said == ItemsBy(ls, p)
<1>9. ItemsBy(ls, m) = said \o Single(x)
  BY <1>3, <1>6, <1>7, ItemsStep
<1>10. said \in Seq(Item) /\ x \in Item \cup {None}
  BY <1>8 DEF ls
<1> HIDE DEF x, said
<1>11. /\ ItemsBy(ls, m) = IF x = None THEN said ELSE Append(said, x)
       /\ ItemsBy(ls, m) \in Seq(Item)
  <2>1. CASE x = None
    BY <1>9, <1>10, <2>1, ConcatEmptySeq DEF Single
  <2>2. CASE x # None
    <3>1. x \in Item /\ Append(said, x) = said \o <<x>>
      BY <1>10, <2>2, AppendIsConcat
    <3>2. Append(said, x) \in Seq(Item)
      BY <1>10, <3>1
    <3>3. QED
      BY <1>9, <2>2, <3>1, <3>2 DEF Single
  <2>3. QED
    BY <2>1, <2>2
<1>12. SaidBy(ls, q) = SaidBy(ls, m) /\ ItemsBy(ls, q) = ItemsBy(ls, m)
  <2>1. \A k \in (m + 1)..q : ls[k] = CommentLine
    BY <1>1, <1>2, <1>3, <1>4 DEF q
  <2>2. SaidBy(ls, m) \in Builder /\ q <= Len(ls)
    BY <1>1, <1>3, <1>7, <1>8
  <2>3. QED
    BY <1>1, <1>3, <1>11, <2>1, <2>2, CommentsAddNothing
<1>13. QED
  BY <1>2, <1>7, <1>11, <1>12 DEF ls, q, x, said

-----------------------------------------------------------------------------
(***************************************************************************)
(* The decoder has read a text t up to p, between two lines.               *)
(***************************************************************************)
ReadUpTo(t, p) ==
  /\ BetweenLines(t, p)
  /\ text = IF phase = "end" THEN CloseLine(From(t, p + 1)) ELSE From(t, p + 1)
  /\ builder = SaidBy(Lines(t), p)
  /\ items = ItemsBy(Lines(t), p)

Follows(t) ==
  IF phase = "bom" THEN text = t /\ builder = EmptyBuilder /\ items = <<>>
  ELSE \E p : ReadUpTo(Unmarked(t), p)

\* The reference drops the byte order mark that starts_with_bom finds.
LEMMA UnmarkedIs ==
  ASSUME NEW t \in Str
  PROVE  Unmarked(t) = StripBom(t) /\ Unmarked(t) \in Str
<1>1. Len(BOM) = 3
  BY DEF BOM
<1>2. Unmarked(t) = StripBom(t)
  BY <1>1 DEF Unmarked, StripBom, HasBom
<1>3. QED
  BY <1>2, StripType

\* A text of which nothing was read.
LEMMA ReadNothing ==
  ASSUME NEW t \in Str
  PROVE  /\ BetweenLines(t, 0) /\ From(t, 0 + 1) = t
         /\ SaidBy(Lines(t), 0) = EmptyBuilder /\ ItemsBy(Lines(t), 0) = <<>>
<1>1. Len(t) \in Nat /\ From(t, 0 + 1) = t
  BY DEF From, Str
<1>2. QED
  BY <1>1, SaidAtFirst DEF BetweenLines

\* Every step of the decoder goes on to the end of the next line, or changes nothing.
LEMMA FollowsStep ==
  ASSUME NEW t \in Str, TypeOK, Follows(t), [Next]_vars
  PROVE  Follows(t)'
<1> DEFINE u == Unmarked(t)
<1>1. u \in Str /\ u = StripBom(t)
  BY UnmarkedIs
<1> HIDE DEF u
<1>2. CASE Start
  <2>1. /\ phase' # "bom" /\ phase' # "end" /\ text' = u
        /\ builder' = EmptyBuilder /\ items' = <<>>
    BY <1>1, <1>2 DEF Start, Follows
  <2>2. ReadUpTo(u, 0)'
    BY <1>1, <2>1, ReadNothing DEF ReadUpTo
  <2>3. QED
    BY <2>1, <2>2 DEF Follows, u
<1>3. CASE Interpret
  <2>1. phase' = phase /\ phase # "bom" /\ HasLine(text) /\ text' = RestOf(text)
    BY <1>3 DEF Interpret
  <2>2. PICK p : ReadUpTo(u, p)
    BY <2>1 DEF Follows, u
  <2>3. p \in 0..Len(u) /\ BetweenLines(u, p)
    BY <2>2 DEF ReadUpTo, BetweenLines
  <2>4. PICK m : /\ IsLineAt(text, u, p, m)
                 /\ RestOf(text) = IF phase = "end" THEN CloseLine(From(u, AfterEnd(u, m)))
                                   ELSE From(u, AfterEnd(u, m))
    <3>1. CASE phase = "end"
      <4>1. text = CloseLine(From(u, p + 1))
        BY <2>2, <3>1 DEF ReadUpTo
      <4>2. QED
        BY <1>1, <2>1, <2>3, <3>1, <4>1, LineOfClosedText
    <3>2. CASE phase # "end"
      <4>1. text = From(u, p + 1)
        BY <2>2, <3>2 DEF ReadUpTo
      <4>2. QED
        BY <1>1, <2>1, <2>3, <3>2, <4>1, LineOfText
    <3>3. QED
      BY <3>1, <3>2
  <2>5. FirstEndAfter(u, p, m) /\ LineOf(text) = SubSeq(u, p + 1, m - 1)
    BY <2>4 DEF IsLineAt
  <2>6. /\ builder = SaidBy(Lines(u), p) /\ items = ItemsBy(Lines(u), p)
        /\ SaidBy(Lines(u), p) \in Builder /\ ItemsBy(Lines(u), p) \in Seq(Item)
    BY <2>2 DEF ReadUpTo, TypeOK
  <2> DEFINE q == AfterEnd(u, m) - 1
             step == ParseStep(builder, LineOf(text))
  <2>7. /\ BetweenLines(u, q) /\ SaidBy(Lines(u), q) = step.builder
        /\ ItemsBy(Lines(u), q) = IF step.item = None THEN items ELSE Append(items, step.item)
    BY <1>1, <2>3, <2>5, <2>6, OneLine
  <2>8. /\ builder' = step.builder
        /\ items' = IF step.item = None THEN items ELSE Append(items, step.item)
    BY <1>3 DEF Interpret
  <2>9. q + 1 = AfterEnd(u, m)
    BY <2>5 DEF FirstEndAfter, AfterEnd
  <2> HIDE DEF q, step
  <2>10. ReadUpTo(u, q)'
    BY <2>1, <2>4, <2>7, <2>8, <2>9 DEF ReadUpTo
  <2>11. QED
    BY <2>1, <2>10 DEF Follows, u
<1>4. CASE Finish
  <2>1. /\ phase' = "end" /\ phase # "end" /\ text' = CloseLine(text)
        /\ builder' = builder /\ items' = items
        /\ phase = "bom" => BomUndecided(text)
    BY <1>4 DEF Finish
  <2>2. \E p : BetweenLines(u, p) /\ text = From(u, p + 1)
               /\ builder = SaidBy(Lines(u), p) /\ items = ItemsBy(Lines(u), p)
    <3>1. CASE phase = "bom"
      <4>1. text = t /\ builder = EmptyBuilder /\ items = <<>> /\ ~HasBom(t)
        BY <2>1, <3>1, UndecidedHasNoLine DEF Follows
      <4>2. u = t
        BY <1>1, <4>1 DEF StripBom
      <4>3. QED
        BY <1>1, <4>1, <4>2, ReadNothing
    <3>2. CASE phase # "bom"
      BY <2>1, <3>2 DEF Follows, ReadUpTo, u
    <3>3. QED
      BY <3>1, <3>2
  <2>3. PICK p : BetweenLines(u, p) /\ text = From(u, p + 1)
                 /\ builder = SaidBy(Lines(u), p) /\ items = ItemsBy(Lines(u), p)
    BY <2>2
  <2>4. ReadUpTo(u, p)'
    BY <2>1, <2>3 DEF ReadUpTo
  <2>5. QED
    BY <2>1, <2>4 DEF Follows, u
<1>5. CASE UNCHANGED vars
  BY <1>5 DEF vars, Follows, ReadUpTo
<1>6. QED
  BY <1>2, <1>3, <1>4, <1>5 DEF Next

\* Nothing is left to read at the end, so the items are all of them.
LEMMA FollowsToTheEnd ==
  ASSUME NEW t \in Str, TypeOK, Follows(t), Done
  PROVE  items = Reference(t)
<1> DEFINE u == Unmarked(t)
           ls == Lines(u)
<1>1. /\ u \in Str /\ ls \in Seq(ReadLines) /\ Len(ls) = Len(u) /\ Len(u) \in Nat
  BY UnmarkedIs, LinesType DEF Str
<1>2. phase = "end" /\ ~HasLine(text)
  BY DEF Done
<1>3. PICK p : ReadUpTo(u, p)
  BY <1>2 DEF Follows
<1> DEFINE n == Len(ls)
<1>4. /\ p \in 0..Len(u) /\ p \in Nat /\ n \in Nat /\ p <= n
      /\ SaidBy(ls, p) \in Builder /\ ItemsBy(ls, p) \in Seq(Item) /\ items = ItemsBy(ls, p)
  BY <1>1, <1>3 DEF ReadUpTo, BetweenLines, TypeOK
<1>5. \A k \in (p + 1)..Len(u) : ~EndsLine(u, k)
  <2>1. text = CloseLine(From(u, p + 1))
    BY <1>2, <1>3 DEF ReadUpTo
  <2>2. QED
    BY <1>1, <1>2, <1>4, <2>1, NoLineAtEnd
<1>6. \A k \in (p + 1)..n : ls[k] = CommentLine
  BY <1>1, <1>4, <1>5 DEF Lines
<1>7. Reference(t) = ItemsBy(ls, n)
  BY DEF Reference, ItemsBy
<1> HIDE DEF ls, n, u
<1>8. ItemsBy(ls, n) = ItemsBy(ls, p)
  <2>1. n <= Len(ls)
    BY <1>4 DEF n
  <2>2. QED
    BY <1>1, <1>4, <1>6, <2>1, CommentsAddNothing
<1>9. QED
  BY <1>4, <1>7, <1>8

(***************************************************************************)
(* Whatever the text, what it decodes to is what the reference says of it. *)
(***************************************************************************)
THEOREM DecoderGivesTheReference ==
  ASSUME NEW t
  PROVE  Spec /\ text = t => [](Done => items = Reference(t))
<1>1. Init /\ text = t => t \in Str /\ Follows(t)
  BY WiresAssumption DEF Init, Follows
<1>2. (t \in Str /\ Follows(t)) /\ TypeOK /\ [Next]_vars => (t \in Str /\ Follows(t))'
  BY FollowsStep
<1>3. (t \in Str /\ Follows(t)) /\ TypeOK => (Done => items = Reference(t))
  BY FollowsToTheEnd
<1>4. QED
  BY <1>1, <1>2, <1>3, DecoderTypeCorrect, PTL DEF Spec

(***************************************************************************)
(* The property DecodesAsReference for every set of texts.                 *)
(***************************************************************************)
THEOREM DecoderAgreesWithReference == SourceSpec => []DecodesAsReference
<1> DEFINE Inv == source \in Str /\ Follows(source)
<1>1. SourceInit => Init /\ Inv
  BY WiresAssumption DEF SourceInit, Init, Follows
<1>2. Inv /\ TypeOK /\ [SourceNext]_<<vars, source>> => Inv'
  <2> SUFFICES ASSUME Inv, TypeOK, [SourceNext]_<<vars, source>>
               PROVE  Inv'
    OBVIOUS
  <2>1. source' = source /\ [Next]_vars
    BY DEF SourceNext
  <2>2. \A t : t = source => Follows(t)'
    BY <2>1, FollowsStep
  <2>3. QED
    BY <2>1, <2>2
<1>3. Inv /\ TypeOK => DecodesAsReference
  BY FollowsToTheEnd DEF DecodesAsReference
<1>4. [SourceNext]_<<vars, source>> => [Next]_vars
  BY DEF SourceNext
<1> HIDE DEF Inv
<1>5. SourceSpec => []TypeOK
  BY <1>1, <1>4, DecoderTypeCorrect, PTL DEF SourceSpec, Spec
<1>6. QED
  BY <1>1, <1>2, <1>3, <1>5, PTL DEF SourceSpec
=============================================================================
