------------------------- MODULE EventStreamProofs -------------------------
(***************************************************************************)
(* The event stream implements the decoder: for every text, every cut of   *)
(* it into chunks and every pattern of pauses and transport errors.        *)
(***************************************************************************)
EXTENDS EventStream, EventBuilderProofs

-----------------------------------------------------------------------------
(***************************************************************************)
(* The stream is type-correct.                                             *)
(***************************************************************************)
THEOREM TypeCorrect == Spec => []TypeOK
<1>1. Init => TypeOK
  BY TextAssumption, EmptySeq
  DEF Init, TypeOK, EmptyBuilder, Builder, Option, Str
<1>2. TypeOK /\ [Next]_vars => TypeOK'
  <2> SUFFICES ASSUME TypeOK, [Next]_vars
               PROVE  TypeOK'
    OBVIOUS
  <2>1. ASSUME NEW id \in Ids, SetLastEventId(id)
        PROVE  TypeOK'
    BY <2>1, TextAssumption DEF SetLastEventId, TypeOK
  <2>2. CASE Poll
    BY <2>2 DEF Poll, TypeOK
  <2>3. CASE TakeLine
    <3> DEFINE step == ParseStep(builder, LineOf(buffer))
    <3>1. LineOf(buffer) \in Str /\ RestOf(buffer) \in Str
      BY <2>3, SplitType DEF TakeLine, TypeOK
    <3>2. step.builder \in Builder /\ ~step.builder.isComplete /\ step.item \in Item \cup {None}
      BY <3>1, ParseStepType DEF TypeOK
    <3> HIDE DEF step
    <3>3. /\ buffer' = RestOf(buffer) /\ builder' = step.builder
          /\ items' = items \/ (step.item # None /\ items' = Append(items, step.item))
          /\ lastEventId' = lastEventId \/ (step.item \in Event /\ lastEventId' = step.item.id)
          /\ ret' \in {ret, "item"} /\ pc' \in {pc, "idle"}
          /\ wire' = wire /\ state' = state
      BY <2>3 DEF TakeLine, step
    <3>4. items' \in Seq(Item)
      BY <3>2, <3>3 DEF TypeOK
    <3>5. lastEventId' \in Str
      BY <3>3 DEF TypeOK, Event
    <3>6. QED
      BY <3>1, <3>2, <3>3, <3>4, <3>5 DEF TypeOK
  <2>4. CASE NoLine
    BY <2>4 DEF NoLine, TypeOK
  <2>5. CASE InnerPending
    BY <2>5 DEF InnerPending, TypeOK
  <2>6. CASE InnerErr
    BY <2>6 DEF InnerErr, TypeOK
  <2>7. CASE InnerEnd
    BY <2>7, StripType DEF InnerEnd, TypeOK
  <2>8. ASSUME NEW n \in 0..Len(wire), InnerChunk(n)
        PROVE  TypeOK'
    <3> DEFINE received == buffer \o SubSeq(wire, 1, n)
    <3>1. received \in Str /\ wire' \in Str
      BY <2>8, CutAndJoin DEF InnerChunk, TypeOK, Str
    <3>2. buffer' \in Str
      BY <2>8, <3>1, StripType DEF InnerChunk
    <3>3. QED
      BY <2>8, <3>1, <3>2 DEF InnerChunk, TypeOK
  <2>9. CASE UNCHANGED vars
    BY <2>9 DEF vars, TypeOK
  <2>10. QED
    BY <2>1, <2>2, <2>3, <2>4, <2>5, <2>6, <2>7, <2>8, <2>9 DEF Next
<1>3. QED
  BY <1>1, <1>2, PTL DEF Spec

-----------------------------------------------------------------------------
(***************************************************************************)
(* The inductive invariant: the four safety properties need each other,    *)
(* and Fused needs to know what is left when None was returned.            *)
(***************************************************************************)
NothingLeft == ret = "none" => state = "Terminated" /\ ~HasLine(buffer)

Inv ==
  /\ DrainedBeforePolling
  /\ UndecidedUntilStarted
  /\ EndedNotPolled
  /\ NothingLeft

LEMMA ChunkKeepsInv ==
  ASSUME TypeOK, Inv, NEW n \in 0..Len(wire), InnerChunk(n)
  PROVE  Inv'
<1> DEFINE received == buffer \o SubSeq(wire, 1, n)
<1>1. /\ received \in Str /\ buffer \in Str /\ pc = "poll" /\ items' = items
      /\ ret' = ret /\ state # "Terminated" /\ ret # "none"
  BY CutAndJoin DEF InnerChunk, TypeOK, Inv, EndedNotPolled, NothingLeft, Str
<1>2. CASE state = "NotStarted" /\ BomUndecided(received)
  <2>1. ~HasLine(received) /\ StripBom(received) = received
    BY <1>1, <1>2, UndecidedHasNoLine DEF StripBom
  <2>2. buffer' = received /\ state' = state /\ pc' = "poll"
    BY <1>2, <2>1 DEF InnerChunk
  <2>3. QED
    BY <1>1, <1>2, <2>1, <2>2
    DEF Inv, DrainedBeforePolling, UndecidedUntilStarted, EndedNotPolled, NothingLeft
<1>3. CASE ~(state = "NotStarted" /\ BomUndecided(received)) /\ n # 0
  <2>1. state' = "Started" /\ pc' = "parse"
    BY <1>3 DEF InnerChunk
  <2>2. QED
    BY <1>1, <2>1
    DEF Inv, DrainedBeforePolling, UndecidedUntilStarted, EndedNotPolled, NothingLeft
<1>4. CASE ~(state = "NotStarted" /\ BomUndecided(received)) /\ n = 0
  <2>1. received = buffer
    BY <1>1, <1>4, SubSeqEmpty, ConcatEmptySeq DEF TypeOK, Str
  <2>2. state = "Started"
    BY <1>1, <1>4, <2>1 DEF Inv, UndecidedUntilStarted, TypeOK
  <2>3. state' = "Started" /\ pc' = "poll" /\ buffer' = buffer
    BY <1>4, <2>1, <2>2 DEF InnerChunk
  <2>4. QED
    BY <1>1, <2>3
    DEF Inv, DrainedBeforePolling, UndecidedUntilStarted, EndedNotPolled, NothingLeft
<1>5. QED
  BY <1>2, <1>3, <1>4

LEMMA InvInductive ==
  /\ Init => Inv
  /\ TypeOK /\ Inv /\ [Next]_vars => Inv'
<1> USE DEF Inv, DrainedBeforePolling, UndecidedUntilStarted, EndedNotPolled, NothingLeft
<1>1. Init => Inv
  <2>1. BomUndecided(<<>>)
    BY SubSeqEmpty DEF BomUndecided, BOM
  <2>2. QED
    BY <2>1 DEF Init
<1>2. TypeOK /\ Inv /\ [Next]_vars => Inv'
  <2> SUFFICES ASSUME TypeOK, Inv, [Next]_vars
               PROVE  Inv'
    OBVIOUS
  <2>1. ASSUME NEW id \in Ids, SetLastEventId(id)
        PROVE  Inv'
    BY <2>1 DEF SetLastEventId
  <2>2. CASE Poll
    BY <2>2 DEF Poll
  <2>3. CASE TakeLine
    <3>1. state # "NotStarted"
      BY <2>3, UndecidedHasNoLine DEF TakeLine, TypeOK
    <3>2. /\ pc = "parse" /\ HasLine(buffer) /\ pc' \in {"parse", "idle"}
          /\ ret' \in {ret, "item"} /\ state' = state /\ wire' = wire
      BY <2>3 DEF TakeLine
    <3>3. QED
      BY <3>1, <3>2
  <2>4. CASE NoLine
    BY <2>4 DEF NoLine
  <2>5. CASE InnerPending
    BY <2>5 DEF InnerPending
  <2>6. CASE InnerErr
    BY <2>6 DEF InnerErr
  <2>7. CASE InnerEnd
    BY <2>7 DEF InnerEnd
  <2>8. ASSUME NEW n \in 0..Len(wire), InnerChunk(n)
        PROVE  Inv'
    BY <2>8, ChunkKeepsInv
  <2>9. CASE UNCHANGED vars
    BY <2>9 DEF vars
  <2>10. QED
    BY <2>1, <2>2, <2>3, <2>4, <2>5, <2>6, <2>7, <2>8, <2>9 DEF Next
<1>3. QED
  BY <1>1, <1>2

LEMMA InvHolds == Spec => []Inv
BY InvInductive, TypeCorrect, PTL DEF Spec

(***************************************************************************)
(* No complete line waits in the buffer while the inner stream is polled.  *)
(***************************************************************************)
THEOREM AlwaysDrained == Spec => []DrainedBeforePolling
<1>1. Inv => DrainedBeforePolling
  BY DEF Inv
<1>2. QED
  BY <1>1, InvHolds, PTL

(***************************************************************************)
(* Nothing is parsed before the byte order mark is decided on.             *)
(***************************************************************************)
THEOREM NothingBeforeBom == Spec => []UndecidedUntilStarted
<1>1. Inv => UndecidedUntilStarted
  BY DEF Inv
<1>2. QED
  BY <1>1, InvHolds, PTL

(***************************************************************************)
(* An inner stream that has ended is not polled again.                     *)
(***************************************************************************)
THEOREM EndIsRespected == Spec => []EndedNotPolled
<1>1. Inv => EndedNotPolled
  BY DEF Inv
<1>2. QED
  BY <1>1, InvHolds, PTL

(***************************************************************************)
(* After None there is nothing but None.                                   *)
(***************************************************************************)
THEOREM StreamIsFused == Spec => Fused
<1>1. Inv /\ [Next]_vars => (ret = "none" => ret' = "none" /\ items' = items)
  <2> SUFFICES ASSUME Inv, [Next]_vars, ret = "none"
               PROVE  ret' = "none" /\ items' = items
    OBVIOUS
  <2>1. state = "Terminated" /\ ~HasLine(buffer) /\ pc # "poll"
    BY DEF Inv, NothingLeft, EndedNotPolled
  <2>2. QED
    BY <2>1 DEF Next, vars, SetLastEventId, Poll, TakeLine, NoLine, InnerPending,
                InnerErr, InnerEnd, InnerChunk
<1>2. QED
  BY <1>1, InvHolds, PTL DEF Spec, Fused

-----------------------------------------------------------------------------
(***************************************************************************)
(* The refinement: what is buffered and what has not come yet is the text  *)
(* the decoder has left, so receiving bytes changes nothing, taking a line *)
(* is Interpret, deciding on the byte order mark is Start, and the end of  *)
(* the inner stream is Finish.                                             *)
(***************************************************************************)
\* The operators of the decoder are the ones the stream is built from.
LEMMA SameLines ==
  \A b : /\ Decoder!HasLine(b) <=> HasLine(b)
         /\ Decoder!LineOf(b) = LineOf(b)
         /\ Decoder!RestOf(b) = RestOf(b)
BY DEF HasLine, LineOf, RestOf, EolAt, NextLineAt, CrLfAt, Memchr, IsFirst, Eol,
       Decoder!HasLine, Decoder!LineOf, Decoder!RestOf, Decoder!EolAt, Decoder!NextLineAt,
       Decoder!CrLfAt, Decoder!Memchr, Decoder!IsFirst, Decoder!Eol

LEMMA SameBom ==
  \A b : /\ Decoder!BomUndecided(b) <=> BomUndecided(b)
         /\ Decoder!StripBom(b) = StripBom(b)
         /\ Decoder!CloseLine(b) = CloseLine(b)
BY DEF BomUndecided, StripBom, CloseLine, HasBom, BOM, From,
       Decoder!BomUndecided, Decoder!StripBom, Decoder!CloseLine, Decoder!HasBom,
       Decoder!BOM, Decoder!From

LEMMA SameRead ==
  \A line : Decoder!ParseLineFromBuffer(line) = ParseLineFromBuffer(line)
BY DEF ParseLineFromBuffer, EmptyLine, CommentLine, FieldLine, HasColon, ColonAt, From,
       ValueStart, Memchr, IsFirst,
       Decoder!ParseLineFromBuffer, Decoder!EmptyLine, Decoder!CommentLine,
       Decoder!FieldLine, Decoder!HasColon, Decoder!ColonAt, Decoder!From,
       Decoder!ValueStart, Decoder!Memchr, Decoder!IsFirst

LEMMA SameStep ==
  \A b, line : Decoder!ParseStep(b, line) = ParseStep(b, line)
<1>1. \A raw : Decoder!Validates(raw) <=> Validates(raw)
  BY DEF Validates, ValidUtf8, BOM, Decoder!Validates, Decoder!ValidUtf8, Decoder!BOM
<1>2. \A raw : Decoder!Validate(raw) = Validate(raw)
  BY DEF Validate, FieldName, Decoder!Validate, Decoder!FieldName
<1>3. \A b, l : Decoder!Add(b, l) = Add(b, l)
  BY DEF Add, PushStr, UnwrapOrEmpty, HasNul,
         Decoder!Add, Decoder!PushStr, Decoder!UnwrapOrEmpty, Decoder!HasNul
<1>4. \A b : Decoder!Dispatched(b) = Dispatched(b)
  BY DEF Dispatched, Decoder!Dispatched
<1>5. \A b : Decoder!AfterDispatch(b) = AfterDispatch(b)
  BY DEF AfterDispatch, EmptyBuilder, Decoder!AfterDispatch, Decoder!EmptyBuilder
<1>6. QED
  BY SameRead, <1>1, <1>2, <1>3, <1>4, <1>5, Zenon DEF ParseStep, Decoder!ParseStep

LEMMA InitRefines == Init => Decoder!Init
<1> SUFFICES ASSUME Init
             PROVE  Decoder!Init
  OBVIOUS
<1>1. buffer \o wire = wire /\ wire \in Wires
  BY TextAssumption, ConcatEmptySeq DEF Init, Str
<1>2. QED
  BY <1>1 DEF Init, Phase, Decoder!Init, EmptyBuilder, Decoder!EmptyBuilder

LEMMA LineRefines ==
  ASSUME TypeOK, Inv, TakeLine
  PROVE  Decoder!Interpret
<1>1. /\ HasLine(buffer \o wire)
      /\ LineOf(buffer \o wire) = LineOf(buffer)
      /\ RestOf(buffer \o wire) = RestOf(buffer) \o wire
  BY LineIsStable DEF TypeOK, TakeLine
<1>2. state # "NotStarted"
  BY UndecidedHasNoLine DEF TakeLine, TypeOK, Inv, UndecidedUntilStarted
<1>3. Phase # "bom" /\ Phase' = Phase
  BY <1>2 DEF Phase, TakeLine
<1>4. buffer' \o wire' = RestOf(buffer) \o wire
  BY DEF TakeLine
<1>5. /\ builder' = ParseStep(builder, LineOf(buffer)).builder
      /\ items' = IF ParseStep(builder, LineOf(buffer)).item = None
                  THEN items
                  ELSE Append(items, ParseStep(builder, LineOf(buffer)).item)
  BY DEF TakeLine
<1>6. QED
  BY <1>1, <1>3, <1>4, <1>5, SameLines, SameStep DEF Decoder!Interpret

LEMMA EndRefines ==
  ASSUME TypeOK, Inv, InnerEnd
  PROVE  Decoder!Finish
<1>1. /\ buffer \o wire = buffer /\ buffer' \o wire' = CloseLine(buffer)
      /\ UNCHANGED <<builder, items>>
  BY StripType, ConcatEmptySeq DEF TypeOK, InnerEnd, Str
<1>2. ~HasLine(buffer)
  BY DEF Inv, DrainedBeforePolling, InnerEnd
<1>3. state # "Terminated"
  BY DEF Inv, EndedNotPolled, InnerEnd
<1>4. Phase # "end" /\ (Phase = "bom" => BomUndecided(buffer)) /\ Phase' = "end"
  BY <1>3 DEF Phase, Inv, UndecidedUntilStarted, TypeOK, InnerEnd
<1>5. QED
  BY <1>1, <1>2, <1>4, SameLines, SameBom DEF Decoder!Finish

LEMMA ChunkRefines ==
  ASSUME TypeOK, Inv, NEW n \in 0..Len(wire), InnerChunk(n)
  PROVE  Decoder!Start \/ UNCHANGED Decoder!vars
<1> DEFINE received == buffer \o SubSeq(wire, 1, n)
<1>1. /\ received \in Str /\ wire' \in Str /\ wire' = From(wire, n + 1)
      /\ UNCHANGED <<builder, items>>
  BY CutAndJoin DEF InnerChunk, TypeOK, Str
<1>2. received \o wire' = buffer \o wire
  <2>1. SubSeq(wire, 1, n) \o wire' = wire /\ SubSeq(wire, 1, n) \in Str
    BY CutAndJoin, <1>1 DEF TypeOK
  <2>2. received \o wire' = buffer \o (SubSeq(wire, 1, n) \o wire')
    <3>1. \A a, b, c \in Str : (a \o b) \o c = a \o (b \o c)
      BY ConcatAssociative DEF Str
    <3>2. buffer \in Str
      BY DEF TypeOK
    <3>3. QED
      BY <1>1, <2>1, <3>1, <3>2, Zenon
  <2>3. QED
    BY <2>1, <2>2
<1>3. CASE state = "NotStarted" /\ ~BomUndecided(received)
  <2>1. buffer' = StripBom(received) /\ state' = "Started"
    BY <1>3 DEF InnerChunk
  <2> HIDE DEF received
  <2>2. /\ ~BomUndecided(received \o wire')
        /\ StripBom(received \o wire') = StripBom(received) \o wire'
    BY <1>1, <1>3, BomIsStable
  <2>3. Phase = "bom" /\ Phase' = "body"
    BY <1>3, <2>1 DEF Phase
  <2>4. Decoder!Start
    BY <1>1, <1>2, <2>1, <2>2, <2>3, SameBom DEF Decoder!Start
  <2>5. QED
    BY <2>4
<1>4. CASE ~(state = "NotStarted" /\ ~BomUndecided(received))
  <2>1. buffer' = received /\ state' = state
    <3>1. CASE state = "NotStarted"
      <4>1. BomUndecided(received) /\ ~HasBom(received)
        BY <1>1, <1>4, <3>1, UndecidedHasNoLine
      <4>2. QED
        BY <3>1, <4>1 DEF InnerChunk, StripBom
    <3>2. CASE state # "NotStarted"
      <4>1. state = "Started"
        BY <3>2 DEF TypeOK, Inv, EndedNotPolled, InnerChunk
      <4>2. QED
        BY <4>1 DEF InnerChunk
    <3>3. QED
      BY <3>1, <3>2
  <2>2. Phase' = Phase
    BY <2>1 DEF Phase
  <2>3. QED
    BY <1>1, <1>2, <2>1, <2>2 DEF Decoder!vars
<1>5. QED
  BY <1>3, <1>4

(***************************************************************************)
(* The items handed out are those of the decoder on the same text: cutting *)
(* it into chunks, pausing and failing in between changes nothing.         *)
(***************************************************************************)
THEOREM StreamImplementsDecoder == Spec => Implements
<1>1. Init => Decoder!Init
  BY InitRefines
<1>2. TypeOK /\ Inv /\ [Next]_vars => [Decoder!Next]_(Decoder!vars)
  <2> SUFFICES ASSUME TypeOK, Inv, [Next]_vars
               PROVE  Decoder!Next \/ UNCHANGED Decoder!vars
    OBVIOUS
  <2>1. CASE TakeLine
    BY <2>1, LineRefines DEF Decoder!Next
  <2>2. CASE InnerEnd
    BY <2>2, EndRefines DEF Decoder!Next
  <2>3. ASSUME NEW n \in 0..Len(wire), InnerChunk(n)
        PROVE  Decoder!Next \/ UNCHANGED Decoder!vars
    BY <2>3, ChunkRefines DEF Decoder!Next
  <2>4. CASE UNCHANGED <<wire, buffer, builder, state, items>>
    BY <2>4 DEF Decoder!vars, Phase
  <2>5. QED
    BY <2>1, <2>2, <2>3, <2>4
    DEF Next, vars, SetLastEventId, Poll, NoLine, InnerPending, InnerErr
<1>3. QED
  BY <1>1, <1>2, TypeCorrect, InvHolds, PTL DEF Spec, Implements, Decoder!Spec

---------------------------------------------------------------
(***************************************************************************)
(* What is proved of the decoder is proved of this instance of it, which   *)
(* is the one the stream implements.  Nothing here is said of source.      *)
(***************************************************************************)
Whole == INSTANCE SseDecoderProofs WITH text <- buffer \o wire, phase <- Phase, source <- <<>>

\* Its operators are those of Decoder.
LEMMA WholeLines ==
  \A b : /\ Whole!HasLine(b) <=> Decoder!HasLine(b)
         /\ Whole!LineOf(b) = Decoder!LineOf(b)
         /\ Whole!RestOf(b) = Decoder!RestOf(b)
BY DEF Whole!HasLine, Whole!LineOf, Whole!RestOf, Whole!EolAt, Whole!NextLineAt,
       Whole!CrLfAt, Whole!Memchr, Whole!IsFirst, Whole!Eol,
       Decoder!HasLine, Decoder!LineOf, Decoder!RestOf, Decoder!EolAt, Decoder!NextLineAt,
       Decoder!CrLfAt, Decoder!Memchr, Decoder!IsFirst, Decoder!Eol

\* The byte order mark and the end of the text are treated alike.
LEMMA WholeBom ==
  \A b : /\ Whole!BomUndecided(b) <=> Decoder!BomUndecided(b)
         /\ Whole!StripBom(b) = Decoder!StripBom(b)
         /\ Whole!CloseLine(b) = Decoder!CloseLine(b)
BY DEF Whole!BomUndecided, Whole!StripBom, Whole!CloseLine, Whole!HasBom,
       Whole!BOM, Whole!From,
       Decoder!BomUndecided, Decoder!StripBom, Decoder!CloseLine, Decoder!HasBom,
       Decoder!BOM, Decoder!From

\* Lines are read alike.
LEMMA WholeRead ==
  \A line : Whole!ParseLineFromBuffer(line) = ParseLineFromBuffer(line)
BY DEF ParseLineFromBuffer, EmptyLine, CommentLine, FieldLine, HasColon, ColonAt, From,
       ValueStart, Memchr, IsFirst,
       Whole!ParseLineFromBuffer, Whole!EmptyLine, Whole!CommentLine,
       Whole!FieldLine, Whole!HasColon, Whole!ColonAt, Whole!From,
       Whole!ValueStart, Whole!Memchr, Whole!IsFirst

\* And interpreted alike.
LEMMA WholeStep ==
  \A b, line : Whole!ParseStep(b, line) = Decoder!ParseStep(b, line)
<1>1. \A raw : Whole!Validates(raw) <=> Validates(raw)
  BY DEF Validates, ValidUtf8, BOM, Whole!Validates, Whole!ValidUtf8, Whole!BOM
<1>2. \A raw : Whole!Validate(raw) = Validate(raw)
  BY DEF Validate, FieldName, Whole!Validate, Whole!FieldName
<1>3. \A b, l : Whole!Add(b, l) = Add(b, l)
  BY DEF Add, PushStr, UnwrapOrEmpty, HasNul,
         Whole!Add, Whole!PushStr, Whole!UnwrapOrEmpty, Whole!HasNul
<1>4. \A b : Whole!Dispatched(b) = Dispatched(b)
  BY DEF Dispatched, Whole!Dispatched
<1>5. \A b : Whole!AfterDispatch(b) = AfterDispatch(b)
  BY DEF AfterDispatch, EmptyBuilder, Whole!AfterDispatch, Whole!EmptyBuilder
<1>6. \A b, line : Whole!ParseStep(b, line) = ParseStep(b, line)
  BY WholeRead, <1>1, <1>2, <1>3, <1>4, <1>5, Zenon DEF ParseStep, Whole!ParseStep
<1>7. QED
  BY <1>6, SameStep

\* So the stream is a behaviour of this instance.
LEMMA StreamIsWhole == Spec => Whole!Spec
<1>1. Decoder!Init => Whole!Init
  BY DEF Decoder!Init, Whole!Init, Decoder!EmptyBuilder, Whole!EmptyBuilder
<1>2. Decoder!Next => Whole!Next
  <2>1. Decoder!Start => Whole!Start
    BY WholeBom DEF Decoder!Start, Whole!Start
  <2>2. Decoder!Interpret => Whole!Interpret
    BY WholeLines, WholeStep DEF Decoder!Interpret, Whole!Interpret
  <2>3. Decoder!Finish => Whole!Finish
    BY WholeLines, WholeBom DEF Decoder!Finish, Whole!Finish
  <2>4. QED
    BY <2>1, <2>2, <2>3 DEF Decoder!Next, Whole!Next
<1>3. [Decoder!Next]_(Decoder!vars) => [Whole!Next]_(Whole!vars)
  BY <1>2 DEF Decoder!vars, Whole!vars
<1>4. QED
  BY <1>1, <1>3, StreamImplementsDecoder, PTL
  DEF Implements, Decoder!Spec, Whole!Spec

(***************************************************************************)
(* The end of the stream: a consumer that was given None has been given    *)
(* the items that the reference reads off the text the server sent, none   *)
(* lost, added or out of order, however the text was cut into chunks and   *)
(* whatever pauses and errors there were (generic.rs:66).                  *)
(***************************************************************************)
THEOREM StreamGivesTheReference ==
  ASSUME NEW t
  PROVE  Spec /\ wire = t => [](ret = "none" => items = Whole!Reference(t))
<1>1. Init /\ wire = t => buffer \o wire = t
  BY TextAssumption, ConcatEmptySeq DEF Init, Str
<1>2. Whole!Spec /\ buffer \o wire = t => [](Whole!Done => items = Whole!Reference(t))
  BY Whole!DecoderGivesTheReference, ByteAssumption, NoneAssumption, NameAssumption,
     BuilderAssumption, ItemAssumption, TextAssumption
  DEF Whole!Str, Str, Whole!Event, Event, Whole!Option, Option, Whole!ValidUtf8, ValidUtf8,
      BOM, Whole!BOM
<1>3. TypeOK /\ Inv => (ret = "none" => Whole!Done)
  <2> SUFFICES ASSUME TypeOK, Inv, ret = "none"
               PROVE  Whole!Done
    OBVIOUS
  <2>1. state = "Terminated" /\ ~HasLine(buffer) /\ wire = <<>>
    BY DEF Inv, NothingLeft, EndedNotPolled
  <2>2. buffer \o wire = buffer
    BY <2>1, ConcatEmptySeq DEF TypeOK, Str
  <2>3. Phase = "end"
    BY <2>1 DEF Phase
  <2>4. QED
    BY <2>1, <2>2, <2>3, WholeLines, SameLines DEF Whole!Done
<1>4. QED
  BY <1>1, <1>2, <1>3, StreamIsWhole, TypeCorrect, InvHolds, PTL DEF Spec

(***************************************************************************)
(* What is kept and what is handed out is UTF-8, and no id has a NUL: the  *)
(* same for the stream, whose strings are built unchecked                  *)
(* (event_stream.rs:55, parser.rs:55) and whose id becomes a header.       *)
(***************************************************************************)
THEOREM StreamTextIsValid == Spec => [](Whole!ValidText /\ Whole!NoNulId)
<1>1. Whole!Spec => []Whole!ValidText
  BY Whole!DecoderTextIsValid, ByteAssumption, NoneAssumption, NameAssumption,
     BuilderAssumption, ItemAssumption, TextAssumption
  DEF Whole!Str, Str, Whole!Event, Event, Whole!Option, Option, Whole!ValidUtf8, ValidUtf8,
      BOM, Whole!BOM
<1>2. Whole!Spec => []Whole!NoNulId
  BY Whole!DecoderIdsHaveNoNul, ByteAssumption, NoneAssumption, NameAssumption,
     BuilderAssumption, ItemAssumption, TextAssumption
  DEF Whole!Str, Str, Whole!Event, Event, Whole!Option, Option, Whole!ValidUtf8, ValidUtf8,
      BOM, Whole!BOM
<1>3. QED
  BY <1>1, <1>2, StreamIsWhole, PTL
=============================================================================
