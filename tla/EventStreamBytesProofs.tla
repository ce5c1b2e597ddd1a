----------------------- MODULE EventStreamBytesProofs -----------------------
(***************************************************************************)
(* The specialised event stream implements the generic one, step by step,  *)
(* because at most one of its two buffers holds bytes.  So it implements   *)
(* the decoder too, and hands out what the reference reads off the text.   *)
(***************************************************************************)
EXTENDS EventStreamBytes, EventBuilderProofs

\* The two parse loops do the same with a line.
LEMMA BothStepsAlike ==
  ASSUME NEW b, NEW line \in Str
  PROVE  ParseStepBytes(b, line) = ParseStep(b, line)
<1>1. ParseLineFromBytes(line) = ParseLineFromBuffer(line)
  BY OwningReadersAlike
<1>2. QED
  BY <1>1 DEF ParseStepBytes, ParseStep

LEMMA InterpretType ==
  ASSUME TypeOK, NEW line \in Str, Interpret(ParseStep(builder, line))
  PROVE  /\ builder' \in Builder /\ ~builder'.isComplete
         /\ items' \in Seq(Item) /\ lastEventId' \in Str
         /\ (ret' = ret /\ pc' = pc) \/ (ret' = "item" /\ pc' = "idle")
<1> DEFINE step == ParseStep(builder, line)
<1>1. step.builder \in Builder /\ ~step.builder.isComplete /\ step.item \in Item \cup {None}
  BY ParseStepType DEF TypeOK
<1> HIDE DEF step
<1>2. /\ builder' = step.builder
      /\ items' = items \/ (step.item # None /\ items' = Append(items, step.item))
      /\ lastEventId' = lastEventId \/ (step.item \in Event /\ lastEventId' = step.item.id)
      /\ (ret' = ret /\ pc' = pc) \/ (ret' = "item" /\ pc' = "idle")
  BY DEF Interpret, step
<1>3. items' \in Seq(Item)
  BY <1>1, <1>2 DEF TypeOK
<1>4. lastEventId' \in Str
  BY <1>2 DEF TypeOK, Event
<1>5. QED
  BY <1>1, <1>2, <1>3, <1>4

(***************************************************************************)
(* The stream is type-correct.                                             *)
(***************************************************************************)
THEOREM BytesTypeCorrect == Spec => []TypeOK
<1>1. Init => TypeOK
  BY TextAssumption, EmptySeq
  DEF Init, TypeOK, EmptyBuilder, Builder, Option, Str
<1>2. TypeOK /\ [Next]_vars => TypeOK'
  <2> SUFFICES ASSUME TypeOK, [Next]_vars
               PROVE  TypeOK'
    OBVIOUS
  <2>1. ASSUME NEW id \in Ids, SetLastEventId(id)
        PROVE  TypeOK'
    BY <2>1, TextAssumption DEF SetLastEventId, TypeOK
  <2>2. CASE Poll
    BY <2>2 DEF Poll, TypeOK
  <2>3. CASE TakeRemainderLine
    <3>1. LineOf(remainder) \in Str /\ RestOf(remainder) \in Str
      BY <2>3, SplitType DEF TakeRemainderLine, TypeOK
    <3>2. QED
      BY <2>3, <3>1, InterpretType, BothStepsAlike DEF TakeRemainderLine, TypeOK
  <2>4. CASE RemainderDone
    <3>1. buffer \o remainder \in Str /\ <<>> \in Str
      BY EmptySeq DEF TypeOK, Str
    <3>2. QED
      BY <2>4, <3>1 DEF RemainderDone, TypeOK
  <2>5. CASE TakeLine
    <3>1. LineOf(buffer) \in Str /\ RestOf(buffer) \in Str
      BY <2>5, SplitType DEF TakeLine, TypeOK
    <3>2. QED
      BY <2>5, <3>1, InterpretType DEF TakeLine, TypeOK
  <2>6. CASE NoLine
    BY <2>6 DEF NoLine, TypeOK
  <2>7. CASE InnerPending
    BY <2>7 DEF InnerPending, TypeOK
  <2>8. CASE InnerErr
    BY <2>8 DEF InnerErr, TypeOK
  <2>9. CASE InnerEnd
    <3>1. buffer \o remainder \in Str /\ <<>> \in Str
      BY EmptySeq DEF TypeOK, Str
    <3>2. QED
      BY <2>9, <3>1, StripType DEF InnerEnd, TypeOK
  <2>10. ASSUME NEW n \in 1..Len(wire), ChunkKept(n)
         PROVE  TypeOK'
    <3>1. n \in 0..Len(wire)
      OBVIOUS
    <3>2. SubSeq(wire, 1, n) \in Str /\ From(wire, n + 1) \in Str
      BY <3>1, CutAndJoin DEF TypeOK
    <3>3. StripBom(SubSeq(wire, 1, n)) \in Str
      BY <3>2, StripType
    <3>4. QED
      BY <2>10, <3>2, <3>3 DEF ChunkKept, TypeOK
  <2>11. ASSUME NEW n \in 1..Len(wire), ChunkCopied(n)
         PROVE  TypeOK'
    <3> DEFINE received == buffer \o remainder \o SubSeq(wire, 1, n)
    <3>1. n \in 0..Len(wire)
      OBVIOUS
    <3>2. SubSeq(wire, 1, n) \in Str /\ From(wire, n + 1) \in Str
      BY <3>1, CutAndJoin DEF TypeOK
    <3>3. received \in Str /\ <<>> \in Str
      BY <3>2, EmptySeq DEF TypeOK, Str
    <3>4. StripBom(received) \in Str
      BY <3>3, StripType
    <3>5. QED
      BY <2>11, <3>2, <3>3, <3>4 DEF ChunkCopied, TypeOK
  <2>12. CASE UNCHANGED vars
    BY <2>12 DEF vars, TypeOK
  <2>13. QED
    BY <2>1, <2>2, <2>3, <2>4, <2>5, <2>6, <2>7, <2>8, <2>9, <2>10, <2>11, <2>12
    DEF Next, ChunkEmpty
<1>3. QED
  BY <1>1, <1>2, PTL DEF Spec

-----------------------------------------------------------------------------
(***************************************************************************)
(* The inductive invariant: OneBuffer, and that a chunk is only parsed in  *)
(* place when nothing is held back before it.                              *)
(***************************************************************************)
NothingBefore == pc = "loop" => buffer = <<>> /\ state = "Started"

Inv == OneBuffer /\ NothingBefore

LEMMA LineIsNotEmpty ==
  ASSUME NEW b \in Str, HasLine(b)
  PROVE  b # <<>>
BY EolAtIsFirst DEF Str

LEMMA InvInductive ==
  /\ Init => Inv
  /\ TypeOK /\ Inv /\ [Next]_vars => Inv'
<1> USE DEF Inv, OneBuffer, NothingBefore
<1>1. Init => Inv
  BY DEF Init
<1>2. TypeOK /\ Inv /\ [Next]_vars => Inv'
  <2> SUFFICES ASSUME TypeOK, Inv, [Next]_vars
               PROVE  Inv'
    OBVIOUS
  <2>1. ASSUME NEW id \in Ids, SetLastEventId(id)
        PROVE  Inv'
    BY <2>1 DEF SetLastEventId
  <2>2. CASE Poll
    BY <2>2 DEF Poll
  <2>3. CASE TakeRemainderLine
    <3>1. buffer = <<>> /\ buffer' = <<>> /\ state' = state /\ pc' \in {pc, "idle"}
      BY <2>3, LineIsNotEmpty DEF TakeRemainderLine, Interpret, TypeOK
    <3>2. pc \in {"entry", "loop"}
      BY <2>3 DEF TakeRemainderLine
    <3>3. QED
      BY <3>1, <3>2
  <2>4. CASE RemainderDone
    BY <2>4 DEF RemainderDone
  <2>5. CASE TakeLine
    <3>1. pc = "parse" /\ remainder' = remainder /\ pc' \in {pc, "idle"}
      BY <2>5 DEF TakeLine, Interpret
    <3>2. QED
      BY <3>1
  <2>6. CASE NoLine
    BY <2>6 DEF NoLine
  <2>7. CASE InnerPending
    BY <2>7 DEF InnerPending
  <2>8. CASE InnerErr
    BY <2>8 DEF InnerErr
  <2>9. CASE InnerEnd
    BY <2>9 DEF InnerEnd
  <2>10. ASSUME NEW n \in 1..Len(wire), ChunkKept(n)
         PROVE  Inv'
    BY <2>10 DEF ChunkKept
  <2>11. ASSUME NEW n \in 1..Len(wire), ChunkCopied(n)
         PROVE  Inv'
    BY <2>11 DEF ChunkCopied
  <2>12. CASE UNCHANGED vars
    BY <2>12 DEF vars
  <2>13. QED
    BY <2>1, <2>2, <2>3, <2>4, <2>5, <2>6, <2>7, <2>8, <2>9, <2>10, <2>11, <2>12
    DEF Next, ChunkEmpty
<1>3. QED
  BY <1>1, <1>2

LEMMA InvHolds == Spec => []Inv
BY InvInductive, BytesTypeCorrect, PTL DEF Spec

(***************************************************************************)
(* The two buffers never both hold bytes.                                  *)
(***************************************************************************)
THEOREM OneBufferHolds == Spec => []OneBuffer
<1>1. Inv => OneBuffer
  BY DEF Inv
<1>2. QED
  BY <1>1, InvHolds, PTL

-----------------------------------------------------------------------------
\* The operators of the generic stream are those of this one.
LEMMA SameLines ==
  \A b : /\ Generic!HasLine(b) <=> HasLine(b)
         /\ Generic!LineOf(b) = LineOf(b)
         /\ Generic!RestOf(b) = RestOf(b)
BY DEF HasLine, LineOf, RestOf, EolAt, NextLineAt, CrLfAt, Memchr, IsFirst, Eol,
       Generic!HasLine, Generic!LineOf, Generic!RestOf, Generic!EolAt, Generic!NextLineAt,
       Generic!CrLfAt, Generic!Memchr, Generic!IsFirst, Generic!Eol

LEMMA SameBom ==
  \A b : /\ Generic!BomUndecided(b) <=> BomUndecided(b)
         /\ Generic!StripBom(b) = StripBom(b)
         /\ Generic!CloseLine(b) = CloseLine(b)
BY DEF BomUndecided, StripBom, CloseLine, HasBom, BOM, From,
       Generic!BomUndecided, Generic!StripBom, Generic!CloseLine, Generic!HasBom,
       Generic!BOM, Generic!From

LEMMA SameFrom ==
  \A b, n : Generic!From(b, n) = From(b, n)
BY DEF From, Generic!From

LEMMA SameRead ==
  \A line : Generic!ParseLineFromBuffer(line) = ParseLineFromBuffer(line)
BY DEF ParseLineFromBuffer, EmptyLine, CommentLine, FieldLine, HasColon, ColonAt, From,
       ValueStart, Memchr, IsFirst,
       Generic!ParseLineFromBuffer, Generic!EmptyLine, Generic!CommentLine,
       Generic!FieldLine, Generic!HasColon, Generic!ColonAt, Generic!From,
       Generic!ValueStart, Generic!Memchr, Generic!IsFirst

LEMMA SameStep ==
  \A b, line : Generic!ParseStep(b, line) = ParseStep(b, line)
<1>1. \A raw : Generic!Validates(raw) <=> Validates(raw)
  BY DEF Validates, ValidUtf8, BOM, Generic!Validates, Generic!ValidUtf8, Generic!BOM
<1>2. \A raw : Generic!Validate(raw) = Validate(raw)
  BY DEF Validate, FieldName, Generic!Validate, Generic!FieldName
<1>3. \A b, l : Generic!Add(b, l) = Add(b, l)
  BY DEF Add, PushStr, UnwrapOrEmpty, HasNul,
         Generic!Add, Generic!PushStr, Generic!UnwrapOrEmpty, Generic!HasNul
<1>4. \A b : Generic!Dispatched(b) = Dispatched(b)
  BY DEF Dispatched, Generic!Dispatched
<1>5. \A b : Generic!AfterDispatch(b) = AfterDispatch(b)
  BY DEF AfterDispatch, EmptyBuilder, Generic!AfterDispatch, Generic!EmptyBuilder
<1>6. QED
  BY SameRead, <1>1, <1>2, <1>3, <1>4, <1>5, Zenon DEF ParseStep, Generic!ParseStep

-----------------------------------------------------------------------------
\* The buffer and the program counter of the generic stream.
Held == buffer \o remainder
GenericPc == IF pc \in {"entry", "loop"} THEN "parse" ELSE pc

LEMMA HeldIsOne ==
  ASSUME TypeOK
  PROVE  /\ buffer = <<>> => Held = remainder
         /\ remainder = <<>> => Held = buffer
BY ConcatEmptySeq DEF Held, TypeOK, Str

\* Taking a line off either buffer is TakeLine of the generic stream.
LEMMA InterpretRefines ==
  ASSUME GenericPc = "parse", HasLine(Held), Interpret(ParseStep(builder, LineOf(Held))),
         Held' = RestOf(Held), UNCHANGED <<wire, state>>
  PROVE  Generic!TakeLine
<1> DEFINE step == ParseStep(builder, LineOf(Held))
<1>1. /\ builder' = step.builder
      /\ IF step.item = None
         THEN UNCHANGED <<items, ret, pc>>
         ELSE items' = Append(items, step.item) /\ ret' = "item" /\ pc' = "idle"
      /\ lastEventId' = IF step.item \in Event THEN step.item.id ELSE lastEventId
  BY DEF Interpret
<1> HIDE DEF step
<1>2. IF step.item = None
      THEN UNCHANGED <<items, ret, GenericPc>>
      ELSE items' = Append(items, step.item) /\ ret' = "item" /\ GenericPc' = "idle"
  BY <1>1 DEF GenericPc
<1>3. Generic!Event = Event
  BY DEF Event, Str, Option, Generic!Event, Generic!Str, Generic!Option
<1>4. QED
  BY <1>1, <1>2, <1>3, SameLines, SameStep DEF Generic!TakeLine, Held, GenericPc, step

LEMMA StepRefines ==
  ASSUME TypeOK, Inv, Inv', TypeOK', [Next]_vars
  PROVE  Generic!Next \/ UNCHANGED Generic!vars
<1> USE DEF Inv, OneBuffer, NothingBefore
<1>1. ASSUME NEW id \in Ids, SetLastEventId(id)
      PROVE  Generic!SetLastEventId(id)
  BY <1>1 DEF SetLastEventId, Generic!SetLastEventId
<1>2. CASE Poll
  BY <1>2 DEF Poll, Generic!Poll, Generic!Next
<1>3. CASE TakeRemainderLine
  <2>1. buffer = <<>> /\ Held = remainder
    BY <1>3, LineIsNotEmpty, HeldIsOne DEF TakeRemainderLine, TypeOK
  <2>2. remainder' \in Str
    BY DEF TypeOK
  <2>3. Held' = RestOf(Held)
    BY <1>3, <2>1, <2>2, ConcatEmptySeq DEF TakeRemainderLine, Held, Str
  <2>4. ParseStepBytes(builder, LineOf(remainder)) = ParseStep(builder, LineOf(remainder))
    BY <1>3, SplitType, BothStepsAlike DEF TakeRemainderLine, TypeOK
  <2>5. Generic!TakeLine
    BY <1>3, <2>1, <2>3, <2>4, InterpretRefines DEF TakeRemainderLine, GenericPc
  <2>6. QED
    BY <2>5 DEF Generic!Next
<1>4. CASE RemainderDone
  <2>1. Held' = Held
    BY <1>4, ConcatEmptySeq DEF RemainderDone, TypeOK, Held, Str
  <2>2. CASE pc = "entry"
    BY <1>4, <2>1, <2>2 DEF RemainderDone, Generic!vars, Held
  <2>3. CASE pc = "loop"
    <3>1. Held = remainder /\ state = "Started"
      BY <2>3, HeldIsOne
    <3>2. Generic!NoLine
      BY <1>4, <2>1, <2>3, <3>1, SameLines DEF RemainderDone, Generic!NoLine, Held
    <3>3. QED
      BY <3>2 DEF Generic!Next
  <2>4. QED
    BY <1>4, <2>2, <2>3 DEF RemainderDone
<1>5. CASE TakeLine
  <2>1. remainder = <<>> /\ remainder' = <<>> /\ Held = buffer
    BY <1>5, HeldIsOne DEF TakeLine
  <2>2. Held' = buffer'
    BY <2>1, ConcatEmptySeq DEF Held, TypeOK, Str
  <2>3. Generic!TakeLine
    BY <1>5, <2>1, <2>2, InterpretRefines DEF TakeLine, GenericPc
  <2>4. QED
    BY <2>3 DEF Generic!Next
<1>6. CASE NoLine
  <2>1. Held = buffer
    BY <1>6, HeldIsOne DEF NoLine
  <2>2. Generic!NoLine
    BY <1>6, <2>1, SameLines DEF NoLine, Generic!NoLine, Held
  <2>3. QED
    BY <2>2 DEF Generic!Next
<1>7. CASE InnerPending
  BY <1>7 DEF InnerPending, Generic!InnerPending, Generic!Next
<1>8. CASE InnerErr
  BY <1>8 DEF InnerErr, Generic!InnerErr, Generic!Next
<1>9. CASE InnerEnd
  <2>1. buffer' \o remainder' = CloseLine(buffer \o remainder)
    BY <1>9, ConcatEmptySeq DEF InnerEnd, TypeOK, Str
  <2>2. Generic!InnerEnd
    BY <1>9, <2>1, SameBom DEF InnerEnd, Generic!InnerEnd
  <2>3. QED
    BY <2>2 DEF Generic!Next
<1>10. ASSUME NEW n \in 1..Len(wire), ChunkKept(n) \/ ChunkCopied(n)
       PROVE  Generic!InnerChunk(n)
  <2> DEFINE received == buffer \o remainder \o SubSeq(wire, 1, n)
             undecided == state = "NotStarted" /\ BomUndecided(received)
  <2>1. n \in 0..Len(wire) /\ n # 0 /\ pc = "poll"
        /\ wire' = From(wire, n + 1) /\ SubSeq(wire, 1, n) \in Str
    <3>1. n \in 0..Len(wire) /\ n # 0
      OBVIOUS
    <3>2. SubSeq(wire, 1, n) \in Str
      BY <3>1, CutAndJoin DEF TypeOK
    <3>3. QED
      BY <1>10, <3>1, <3>2 DEF ChunkKept, ChunkCopied
  <2>2. received \in Str
    BY <2>1 DEF TypeOK, Str
  <2>3. undecided => StripBom(received) = received
    BY <2>2, UndecidedHasNoLine DEF StripBom
  <2> HIDE DEF received
  <2>4. /\ Held' = IF state = "NotStarted" THEN StripBom(received) ELSE received
        /\ state' = IF undecided THEN state ELSE "Started"
        /\ GenericPc' = IF undecided THEN "poll" ELSE "parse"
        /\ UNCHANGED <<builder, lastEventId, items, ret>>
    <3>1. CASE ChunkKept(n)
      <4>1. received = SubSeq(wire, 1, n)
        BY <2>1, <3>1, ConcatEmptySeq DEF ChunkKept, received, Str
      <4>2. Held' = IF undecided THEN buffer' ELSE remainder'
        BY <3>1, <4>1, ConcatEmptySeq DEF ChunkKept, Held, TypeOK, Str
      <4>3. QED
        BY <3>1, <2>3, <4>1, <4>2 DEF ChunkKept, GenericPc
    <3>2. CASE ChunkCopied(n)
      <4>1. Held' = buffer'
        BY <3>2, ConcatEmptySeq DEF ChunkCopied, Held, TypeOK, Str
      <4>2. QED
        BY <3>2, <4>1 DEF ChunkCopied, GenericPc, received
    <3>3. QED
      BY <1>10, <3>1, <3>2
  <2>5. QED
    BY <2>1, <2>4, SameBom, SameFrom
    DEF Generic!InnerChunk, Held, GenericPc, received
<1>11. CASE UNCHANGED vars
  BY <1>11 DEF vars, Generic!vars
<1>12. QED
  <2>1. ASSUME NEW n \in 1..Len(wire), ChunkKept(n) \/ ChunkCopied(n)
        PROVE  Generic!Next
    <3>1. n \in 0..Len(wire)
      OBVIOUS
    <3>2. QED
      BY <1>10, <2>1, <3>1 DEF Generic!Next
  <2>2. ASSUME NEW id \in Ids, SetLastEventId(id)
        PROVE  Generic!Next
    BY <1>1, <2>2 DEF Generic!Next
  <2>3. QED
    BY <2>1, <2>2, <1>2, <1>3, <1>4, <1>5, <1>6, <1>7, <1>8, <1>9, <1>11
    DEF Next, ChunkEmpty

(***************************************************************************)
(* The specialised stream hands out the same items at the same polls as    *)
(* the generic one, for every text and every cut of it.                    *)
(***************************************************************************)
THEOREM BytesImplementsGeneric == Spec => Implements
<1>1. Init => Generic!Init
  <2> SUFFICES ASSUME Init
               PROVE  Generic!Init
    OBVIOUS
  <2>1. buffer \o remainder = <<>>
    BY ConcatEmptySeq, EmptySeq DEF Init
  <2>2. QED
    BY <2>1 DEF Init, Generic!Init, EmptyBuilder, Generic!EmptyBuilder
<1>2. TypeOK /\ Inv /\ TypeOK' /\ Inv' /\ [Next]_vars => [Generic!Next]_(Generic!vars)
  BY StepRefines
<1>3. QED
  BY <1>1, <1>2, BytesTypeCorrect, InvHolds, PTL DEF Spec, Implements, Generic!Spec

--------------------------------------------------------------------
(***************************************************************************)
(* What is proved of the generic stream is proved of this instance of it,  *)
(* which is the one that the specialised stream implements.                *)
(***************************************************************************)
Proved == INSTANCE EventStreamProofs WITH
  buffer <- buffer \o remainder,
  pc <- IF pc \in {"entry", "loop"} THEN "parse" ELSE pc

\* Its operators are those of Generic.
LEMMA ProvedLines ==
  \A b : /\ Proved!HasLine(b) <=> Generic!HasLine(b)
         /\ Proved!LineOf(b) = Generic!LineOf(b)
         /\ Proved!RestOf(b) = Generic!RestOf(b)
BY DEF Proved!HasLine, Proved!LineOf, Proved!RestOf, Proved!EolAt, Proved!NextLineAt,
       Proved!CrLfAt, Proved!Memchr, Proved!IsFirst, Proved!Eol,
       Generic!HasLine, Generic!LineOf, Generic!RestOf, Generic!EolAt, Generic!NextLineAt,
       Generic!CrLfAt, Generic!Memchr, Generic!IsFirst, Generic!Eol

\* The byte order mark, the cuts and the end of the text are treated alike.
LEMMA ProvedBom ==
  /\ \A b : /\ Proved!BomUndecided(b) <=> Generic!BomUndecided(b)
            /\ Proved!StripBom(b) = Generic!StripBom(b)
            /\ Proved!CloseLine(b) = Generic!CloseLine(b)
  /\ \A b, n : Proved!From(b, n) = Generic!From(b, n)
BY DEF Proved!BomUndecided, Proved!StripBom, Proved!CloseLine, Proved!HasBom,
       Proved!BOM, Proved!From,
       Generic!BomUndecided, Generic!StripBom, Generic!CloseLine, Generic!HasBom,
       Generic!BOM, Generic!From

\* Lines are read alike.
LEMMA ProvedRead ==
  \A line : Proved!ParseLineFromBuffer(line) = ParseLineFromBuffer(line)
BY DEF ParseLineFromBuffer, EmptyLine, CommentLine, FieldLine, HasColon, ColonAt, From,
       ValueStart, Memchr, IsFirst,
       Proved!ParseLineFromBuffer, Proved!EmptyLine, Proved!CommentLine,
       Proved!FieldLine, Proved!HasColon, Proved!ColonAt, Proved!From,
       Proved!ValueStart, Proved!Memchr, Proved!IsFirst

\* And interpreted alike.
LEMMA ProvedStep ==
  \A b, line : Proved!ParseStep(b, line) = Generic!ParseStep(b, line)
<1>1. \A raw : Proved!Validates(raw) <=> Validates(raw)
  BY DEF Validates, ValidUtf8, BOM, Proved!Validates, Proved!ValidUtf8, Proved!BOM
<1>2. \A raw : Proved!Validate(raw) = Validate(raw)
  BY DEF Validate, FieldName, Proved!Validate, Proved!FieldName
<1>3. \A b, l : Proved!Add(b, l) = Add(b, l)
  BY DEF Add, PushStr, UnwrapOrEmpty, HasNul,
         Proved!Add, Proved!PushStr, Proved!UnwrapOrEmpty, Proved!HasNul
<1>4. \A b : Proved!Dispatched(b) = Dispatched(b)
  BY DEF Dispatched, Proved!Dispatched
<1>5. \A b : Proved!AfterDispatch(b) = AfterDispatch(b)
  BY DEF AfterDispatch, EmptyBuilder, Proved!AfterDispatch, Proved!EmptyBuilder
<1>6. \A b, line : Proved!ParseStep(b, line) = ParseStep(b, line)
  BY ProvedRead, <1>1, <1>2, <1>3, <1>4, <1>5, Zenon DEF ParseStep, Proved!ParseStep
<1>7. QED
  BY <1>6, SameStep

\* Its events are the same.
LEMMA ProvedEvent == Proved!Event = Generic!Event
BY DEF Proved!Event, Proved!Str, Proved!Option, Generic!Event, Generic!Str, Generic!Option

\* So the specialised stream is a behaviour of this instance.
LEMMA BytesIsProved == Spec => Proved!Spec
<1>1. Generic!Init => Proved!Init
  BY DEF Generic!Init, Proved!Init, Generic!EmptyBuilder, Proved!EmptyBuilder
<1>2. Generic!Next => Proved!Next
  <2>1. ASSUME NEW id \in Ids, Generic!SetLastEventId(id)
        PROVE  Proved!SetLastEventId(id)
    BY <2>1 DEF Generic!SetLastEventId, Proved!SetLastEventId
  <2>2. Generic!Poll => Proved!Poll
    BY DEF Generic!Poll, Proved!Poll
  <2>3. Generic!TakeLine => Proved!TakeLine
    BY ProvedLines, ProvedStep, ProvedEvent DEF Generic!TakeLine, Proved!TakeLine
  <2>4. Generic!NoLine => Proved!NoLine
    BY ProvedLines DEF Generic!NoLine, Proved!NoLine
  <2>5. Generic!InnerPending => Proved!InnerPending
    BY DEF Generic!InnerPending, Proved!InnerPending
  <2>6. Generic!InnerErr => Proved!InnerErr
    BY DEF Generic!InnerErr, Proved!InnerErr
  <2>7. Generic!InnerEnd => Proved!InnerEnd
    BY ProvedBom DEF Generic!InnerEnd, Proved!InnerEnd
  <2>8. ASSUME NEW n \in 0..Len(wire), Generic!InnerChunk(n)
        PROVE  Proved!InnerChunk(n)
    BY <2>8, ProvedBom DEF Generic!InnerChunk, Proved!InnerChunk
  <2>9. QED
    BY <2>1, <2>2, <2>3, <2>4, <2>5, <2>6, <2>7, <2>8 DEF Generic!Next, Proved!Next
<1>3. [Generic!Next]_(Generic!vars) => [Proved!Next]_(Proved!vars)
  BY <1>2 DEF Generic!vars, Proved!vars
<1>4. QED
  BY <1>1, <1>3, BytesImplementsGeneric, PTL DEF Implements, Generic!Spec, Proved!Spec

(***************************************************************************)
(* The specialised stream implements the decoder, as the generic one does. *)
(***************************************************************************)
THEOREM BytesImplementsDecoder == Spec => Proved!Implements
<1>1. Proved!Spec => Proved!Implements
  BY Proved!StreamImplementsDecoder, ByteAssumption, NoneAssumption, NameAssumption,
     BuilderAssumption, ItemAssumption, TextAssumption
  DEF Proved!Str, Str, Proved!Event, Event, Proved!Option, Option, Proved!ValidUtf8,
      ValidUtf8, BOM, Proved!BOM
<1>2. QED
  BY <1>1, BytesIsProved, PTL

(***************************************************************************)
(* A consumer that was given None has been given the items that the        *)
(* reference reads off the text, whichever buffer each line was taken from *)
(* (bytes.rs:114).                                                         *)
(***************************************************************************)
THEOREM BytesGivesTheReference ==
  ASSUME NEW t
  PROVE  Spec /\ wire = t => [](ret = "none" => items = Proved!Whole!Reference(t))
<1>1. Proved!Spec /\ wire = t => [](ret = "none" => items = Proved!Whole!Reference(t))
  BY Proved!StreamGivesTheReference, ByteAssumption, NoneAssumption, NameAssumption,
     BuilderAssumption, ItemAssumption, TextAssumption
  DEF Proved!Str, Str, Proved!Event, Event, Proved!Option, Option, Proved!ValidUtf8,
      ValidUtf8, BOM, Proved!BOM
<1>2. QED
  BY <1>1, BytesIsProved, PTL

(***************************************************************************)
(* Its strings are UTF-8 and its ids have no NUL, as the decoder's.        *)
(***************************************************************************)
THEOREM BytesTextIsValid == Spec => [](Proved!Whole!ValidText /\ Proved!Whole!NoNulId)
<1>1. Proved!Spec => [](Proved!Whole!ValidText /\ Proved!Whole!NoNulId)
  BY Proved!StreamTextIsValid, ByteAssumption, NoneAssumption, NameAssumption,
     BuilderAssumption, ItemAssumption, TextAssumption
  DEF Proved!Str, Str, Proved!Event, Event, Proved!Option, Option, Proved!ValidUtf8,
      ValidUtf8, BOM, Proved!BOM
<1>2. QED
  BY <1>1, BytesIsProved, PTL

\* None is the last thing it returns (bytes.rs:121).
THEOREM BytesIsFused == Spec => Proved!Fused
<1>1. Proved!Spec => Proved!Fused
  BY Proved!StreamIsFused, ByteAssumption, NoneAssumption, NameAssumption,
     BuilderAssumption, ItemAssumption, TextAssumption
  DEF Proved!Str, Str, Proved!Event, Event, Proved!Option, Option, Proved!ValidUtf8,
      ValidUtf8, BOM, Proved!BOM
<1>2. QED
  BY <1>1, BytesIsProved, PTL
=============================================================================
