-------------------------- MODULE JsonStreamProofs --------------------------
(***************************************************************************)
(* A JSON stream answers for every item of the event stream in it, however *)
(* the text is cut and whichever texts are values of the type asked for.   *)
(***************************************************************************)
EXTENDS JsonStream, EventStreamProofs

-----------------------------------------------------------------------------
\* Every step of a JSON stream is one of its event stream, or leaves that alone.
LEMMA JsonStepIsStreamStep ==
  ASSUME [JsonNext]_allVars
  PROVE  [Next]_vars
BY DEF JsonNext, JsonPoll, InnerPoll, PollInactive, Next, allVars

(***************************************************************************)
(* What a JSON stream polls behaves as an event stream, so all that is     *)
(* proved of one holds inside it.                                          *)
(***************************************************************************)
THEOREM JsonPollsAnEventStream == JsonSpec => Spec
<1>1. JsonInit => Init
  BY DEF JsonInit
<1>2. [JsonNext]_allVars => [Next]_vars
  BY JsonStepIsStreamStep
<1>3. QED
  BY <1>1, <1>2, PTL DEF JsonSpec, Spec

\* What a poll of the event stream adds to its items, and how it ends.
LEMMA InnerPollCases ==
  ASSUME TypeOK, InnerPoll
  PROVE  /\ pc # "idle" /\ items' \in Seq(Item)
         /\ \/ pc' = "idle" /\ ret' = "item" /\ \E item \in Item : items' = Append(items, item)
            \/ pc' = "idle" /\ ret' \in {"none", "pending", "transport"} /\ items' = items
            \/ pc' # "idle" /\ ret' = ret /\ items' = items
<1>1. CASE TakeLine
  <2> DEFINE step == ParseStep(builder, LineOf(buffer))
  <2>1. LineOf(buffer) \in Str
    BY <1>1, SplitType DEF TakeLine, TypeOK
  <2>2. step.item \in Item \cup {None}
    BY <2>1, ParseStepType DEF TypeOK
  <2> HIDE DEF step
  <2>3. /\ pc = "parse" /\ items \in Seq(Item)
        /\ IF step.item = None
           THEN UNCHANGED <<items, ret, pc>>
           ELSE items' = Append(items, step.item) /\ ret' = "item" /\ pc' = "idle"
    BY <1>1 DEF TakeLine, TypeOK, step
  <2>4. QED
    BY <2>2, <2>3
<1>2. CASE NoLine \/ InnerPending \/ InnerErr \/ InnerEnd
  BY <1>2 DEF NoLine, InnerPending, InnerErr, InnerEnd, TypeOK
<1>3. CASE \E n \in 0..Len(wire) : InnerChunk(n)
  BY <1>3 DEF InnerChunk, TypeOK
<1>4. QED
  BY <1>1, <1>2, <1>3 DEF InnerPoll

\* What becomes of what the inner poll returned.
LEMMA AnswerCases ==
  ASSUME Answer
  PROVE  /\ UNCHANGED withPath
         /\ ret' = "item" => /\ results' = Append(results, Deserialized(items'[Len(items')]))
                            /\ answer' = "item" /\ stream' = stream
         /\ ret' = "none" => results' = results /\ answer' = "none" /\ stream' = "Inactive"
         /\ ret' \notin {"item", "none"} =>
              results' = results /\ answer' = ret' /\ stream' = stream
<1>1. "item" # "none"
  OBVIOUS
<1>2. CASE ret' = "item"
  BY <1>1, <1>2, Zenon DEF Answer
<1>3. CASE ret' # "item" /\ ret' = "none"
  BY <1>1, <1>3, Zenon DEF Answer
<1>4. CASE ret' # "item" /\ ret' # "none"
  BY <1>4, Zenon DEF Answer
<1>5. QED
  BY <1>1, <1>2, <1>3, <1>4, Zenon

-----------------------------------------------------------------------------
\* The JSON stream gives its event stream up when that has returned None, at once.
GivenUp ==
  /\ stream = "Inactive" <=> ret = "none"
  /\ stream = "Inactive" => pc = "idle"

LEMMA GivenUpInductive ==
  /\ JsonInit => GivenUp
  /\ TypeOK /\ JsonTypeOK /\ GivenUp /\ [JsonNext]_allVars => GivenUp'
<1> USE DEF GivenUp
<1>1. JsonInit => GivenUp
  BY DEF JsonInit, Init
<1>2. TypeOK /\ JsonTypeOK /\ GivenUp /\ [JsonNext]_allVars => GivenUp'
  <2> SUFFICES ASSUME TypeOK, JsonTypeOK, GivenUp, [JsonNext]_allVars
               PROVE  GivenUp'
    OBVIOUS
  <2>1. CASE JsonPoll
    BY <2>1 DEF JsonPoll, Poll, jsonVars, JsonTypeOK
  <2>2. CASE InnerPoll
    <3>1. stream = "Active" /\ ret # "none"
      BY <2>2, InnerPollCases DEF JsonTypeOK
    <3>2. CASE pc' = "idle"
      <4>1. Answer
        BY <2>2, <3>2 DEF InnerPoll
      <4>2. QED
        BY <3>1, <3>2, <4>1, AnswerCases
    <3>3. CASE pc' # "idle"
      BY <2>2, <3>1, <3>3, InnerPollCases DEF InnerPoll, jsonVars
    <3>4. QED
      BY <3>2, <3>3
  <2>3. CASE PollInactive \/ UNCHANGED allVars
    BY <2>3 DEF PollInactive, vars, allVars, jsonVars
  <2>4. QED
    BY <2>1, <2>2, <2>3 DEF JsonNext
<1>3. QED
  BY <1>1, <1>2

\* A text that is taken for a value begins with one.
LEMMA DeserializedType ==
  ASSUME NEW item \in Item
  PROVE  /\ Deserialized(item) \in [kind : {"Value", "Deserialize", "Stream"}, data : Str]
         /\ Deserialized(item).kind = "Value" => Deserialized(item).data \in JsonStarts
<1>1. CASE item = Utf8Error
  BY <1>1, EmptySeq DEF Deserialized, Str
<1>2. CASE item # Utf8Error
  <2>1. item.data \in Str
    BY <1>2 DEF Item, Event
  <2>2. Accepted(item.data) => item.data \in JsonStarts
    BY JsonsAssumption DEF Accepted
  <2>3. QED
    BY <1>2, <2>1, <2>2 DEF Deserialized
<1>3. QED
  BY <1>1, <1>2

(***************************************************************************)
(* The results are those of the items, one for one.                        *)
(***************************************************************************)
AllAnswered == results = [k \in 1..Len(items) |-> Deserialized(items[k])]

\* What becomes of the results in a step.
LEMMA StepAnswers ==
  ASSUME TypeOK, [JsonNext]_allVars
  PROVE  /\ withPath' = withPath
         /\ \/ UNCHANGED <<items, results>>
            \/ \E item \in Item : /\ items' = Append(items, item)
                                  /\ results' = Append(results, Deserialized(item))
<1>1. CASE InnerPoll /\ pc' = "idle" /\ ret' = "item"
  <2>1. PICK item \in Item : items' = Append(items, item)
    BY <1>1, InnerPollCases
  <2>2. items'[Len(items')] = item
    BY <2>1 DEF TypeOK
  <2>3. Answer
    BY <1>1 DEF InnerPoll
  <2>4. results' = Append(results, Deserialized(item)) /\ withPath' = withPath
    BY <1>1, <2>2, <2>3, AnswerCases
  <2>5. QED
    BY <2>1, <2>4
<1>2. CASE InnerPoll /\ ~(pc' = "idle" /\ ret' = "item")
  <2>1. items' = items
    BY <1>2, InnerPollCases
  <2>2. UNCHANGED <<withPath, results>>
    <3>1. CASE pc' = "idle"
      BY <1>2, <3>1, AnswerCases DEF InnerPoll
    <3>2. CASE pc' # "idle"
      BY <1>2, <3>2 DEF InnerPoll, jsonVars
    <3>3. QED
      BY <3>1, <3>2
  <2>3. QED
    BY <2>1, <2>2
<1>3. CASE JsonPoll \/ PollInactive \/ UNCHANGED allVars
  BY <1>3 DEF JsonPoll, Poll, PollInactive, allVars, jsonVars, vars
<1>4. QED
  BY <1>1, <1>2, <1>3 DEF JsonNext

LEMMA AnsweredInductive ==
  /\ JsonInit => AllAnswered
  /\ TypeOK /\ AllAnswered /\ [JsonNext]_allVars => AllAnswered'
<1>1. JsonInit => AllAnswered
  BY DEF JsonInit, Init, AllAnswered
<1>2. TypeOK /\ AllAnswered /\ [JsonNext]_allVars => AllAnswered'
  <2> SUFFICES ASSUME TypeOK, AllAnswered, [JsonNext]_allVars
               PROVE  AllAnswered'
    OBVIOUS
  <2>1. \A item : Deserialized(item)' = Deserialized(item)
    BY StepAnswers DEF Deserialized, Accepted
  <2>2. CASE UNCHANGED <<items, results>>
    BY <2>1, <2>2 DEF AllAnswered
  <2>3. ASSUME NEW item \in Item, items' = Append(items, item),
               results' = Append(results, Deserialized(item))
        PROVE  AllAnswered'
    <3>1. /\ Len(results) = Len(items) /\ Len(items) \in Nat
          /\ \A k \in 1..Len(items) : results[k] = Deserialized(items[k])
      BY DEF AllAnswered, TypeOK
    <3>2. /\ Len(items') = Len(items) + 1
          /\ \A k \in 1..Len(items) : items'[k] = items[k]
          /\ items'[Len(items) + 1] = item
      BY <2>3 DEF TypeOK
    <3>3. /\ results' = [k \in 1..(Len(items) + 1) |->
                           IF k <= Len(items) THEN results[k] ELSE Deserialized(item)]
      BY <2>3, <3>1 DEF AllAnswered
    <3>4. \A k \in 1..(Len(items) + 1) :
            (IF k <= Len(items) THEN results[k] ELSE Deserialized(item)) = Deserialized(items'[k])
      BY <3>1, <3>2
    <3>5. results' = [k \in 1..(Len(items) + 1) |-> Deserialized(items'[k])]
      BY <3>3, <3>4, Zenon
    <3>6. QED
      BY <2>1, <3>2, <3>5 DEF AllAnswered
  <2>4. QED
    BY <2>2, <2>3, StepAnswers
<1>3. QED
  BY <1>1, <1>2

-----------------------------------------------------------------------------
(***************************************************************************)
(* The JSON stream is type-correct, and what it takes for a value begins   *)
(* with one.                                                               *)
(***************************************************************************)
THEOREM JsonTypeCorrect == JsonSpec => []JsonTypeOK
<1>1. JsonInit => JsonTypeOK
  BY EmptySeq DEF JsonInit, JsonTypeOK
<1>2. TypeOK /\ JsonTypeOK /\ [JsonNext]_allVars => JsonTypeOK'
  <2> SUFFICES ASSUME TypeOK, JsonTypeOK, [JsonNext]_allVars
               PROVE  JsonTypeOK'
    OBVIOUS
  <2> DEFINE Results == [kind : {"Value", "Deserialize", "Stream"}, data : Str]
         Typed(r) == /\ r \in Seq(Results)
                     /\ \A k \in 1..Len(r) : r[k].kind = "Value" => r[k].data \in JsonStarts
  <2>1. Typed(results')
    <3>1. CASE results' = results
      BY <3>1 DEF JsonTypeOK
    <3>2. ASSUME NEW item \in Item, results' = Append(results, Deserialized(item))
          PROVE  Typed(results')
      <4>1. /\ Deserialized(item) \in Results
            /\ Deserialized(item).kind = "Value" => Deserialized(item).data \in JsonStarts
        BY DeserializedType
      <4> HIDE DEF Results
      <4>2. results \in Seq(Results)
        BY DEF JsonTypeOK, Results
      <4>3. /\ Len(results') = Len(results) + 1 /\ results' \in Seq(Results)
            /\ \A k \in 1..Len(results) : results'[k] = results[k]
            /\ results'[Len(results) + 1] = Deserialized(item)
        BY <3>2, <4>1, <4>2
      <4>4. \A k \in 1..Len(results') : k \in 1..Len(results) \/ k = Len(results) + 1
        BY <4>2, <4>3
      <4>5. QED
        BY <4>1, <4>3, <4>4 DEF JsonTypeOK
    <3> HIDE DEF Typed
    <3>3. QED
      BY <3>1, <3>2, StepAnswers
  <2>2. stream' \in {"Active", "Inactive"} /\ answer' \in {"pending", "item", "transport", "none"}
    <3>1. CASE InnerPoll /\ pc' = "idle"
      <4>1. ret' \in {"pending", "item", "transport", "none"}
        BY <3>1, InnerPollCases
      <4>2. Answer
        BY <3>1 DEF InnerPoll
      <4>3. QED
        BY <4>1, <4>2, AnswerCases DEF JsonTypeOK
    <3>2. CASE ~(InnerPoll /\ pc' = "idle")
      BY <3>2 DEF JsonNext, JsonPoll, InnerPoll, PollInactive, jsonVars, allVars, JsonTypeOK
    <3>3. QED
      BY <3>1, <3>2
  <2>3. QED
    BY <2>1, <2>2, StepAnswers DEF JsonTypeOK
<1>3. QED
  BY <1>1, <1>2, JsonPollsAnEventStream, TypeCorrect, PTL DEF JsonSpec

LEMMA GivenUpHolds == JsonSpec => []GivenUp
BY GivenUpInductive, JsonPollsAnEventStream, TypeCorrect, JsonTypeCorrect, PTL DEF JsonSpec

(***************************************************************************)
(* Every item of the event stream is answered for, in order, and the JSON  *)
(* stream ends only where all of the text was decoded.                     *)
(***************************************************************************)
THEOREM NoItemIsDropped == JsonSpec => []NothingCutShort
<1>1. TypeOK /\ Inv /\ GivenUp /\ AllAnswered => NothingCutShort
  <2> SUFFICES ASSUME TypeOK, Inv, GivenUp, stream = "Inactive"
               PROVE  Decoder!Done
    BY DEF NothingCutShort, AllAnswered
  <2>1. state = "Terminated" /\ ~HasLine(buffer) /\ wire = <<>>
    BY DEF GivenUp, Inv, NothingLeft, EndedNotPolled
  <2>2. buffer \o wire = buffer
    BY <2>1, ConcatEmptySeq DEF TypeOK, Str
  <2>3. Phase = "end" /\ ~Decoder!HasLine(buffer \o wire)
    BY <2>1, <2>2, SameLines DEF Phase
  <2>4. QED
    BY <2>3 DEF Decoder!Done
<1>2. JsonSpec => []AllAnswered
  BY AnsweredInductive, JsonPollsAnEventStream, TypeCorrect, PTL DEF JsonSpec
<1>3. QED
  BY <1>1, <1>2, JsonPollsAnEventStream, TypeCorrect, InvHolds, GivenUpHolds, PTL

(***************************************************************************)
(* An event stream that has returned None is left alone.                   *)
(***************************************************************************)
THEOREM NoneIsTheLastPoll == JsonSpec => NotPolledAfterNone
<1>1. TypeOK /\ GivenUp /\ [JsonNext]_allVars => (ret = "none" => UNCHANGED vars)
  <2> SUFFICES ASSUME TypeOK, GivenUp, [JsonNext]_allVars, ret = "none"
               PROVE  UNCHANGED vars
    OBVIOUS
  <2>1. stream = "Inactive" /\ pc = "idle"
    BY DEF GivenUp
  <2>2. ~JsonPoll /\ ~InnerPoll
    BY <2>1, InnerPollCases DEF JsonPoll
  <2>3. QED
    BY <2>2 DEF JsonNext, PollInactive, allVars
<1>2. QED
  BY <1>1, GivenUpHolds, JsonPollsAnEventStream, TypeCorrect, PTL DEF JsonSpec, NotPolledAfterNone

(***************************************************************************)
(* A consumer that was given None has been given an answer for every item  *)
(* that the reference reads off the text, in order (json_stream.rs:98).    *)
(***************************************************************************)
THEOREM JsonAnswersTheReference ==
  ASSUME NEW t
  PROVE  JsonSpec /\ wire = t =>
           [](answer = "none" =>
                results = [k \in 1..Len(Whole!Reference(t)) |->
                             Deserialized(Whole!Reference(t)[k])])
<1> DEFINE NoneAtEnd == answer = "none" => stream = "Inactive"
<1>1. JsonInit => NoneAtEnd
  BY DEF JsonInit
<1>2. TypeOK /\ NoneAtEnd /\ [JsonNext]_allVars => NoneAtEnd'
  <2> SUFFICES ASSUME TypeOK, NoneAtEnd, [JsonNext]_allVars
               PROVE  NoneAtEnd'
    OBVIOUS
  <2>1. CASE InnerPoll
    BY <2>1, AnswerCases DEF InnerPoll, jsonVars
  <2>2. CASE JsonPoll \/ PollInactive \/ UNCHANGED allVars
    BY <2>2 DEF JsonPoll, PollInactive, allVars, jsonVars
  <2>3. QED
    BY <2>1, <2>2 DEF JsonNext
<1>3. NoneAtEnd /\ GivenUp /\ NothingCutShort /\ (ret = "none" => items = Whole!Reference(t))
        => (answer = "none" => results = [k \in 1..Len(Whole!Reference(t)) |->
                                            Deserialized(Whole!Reference(t)[k])])
  BY DEF GivenUp, NothingCutShort
<1> HIDE DEF NoneAtEnd
<1>4. QED
  BY <1>1, <1>2, <1>3, GivenUpHolds, NoItemIsDropped, JsonPollsAnEventStream, TypeCorrect,
     StreamGivesTheReference, PTL DEF JsonSpec
=============================================================================
