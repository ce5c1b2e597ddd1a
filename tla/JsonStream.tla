----------------------------- MODULE JsonStream -----------------------------
(***************************************************************************)
(* JsonStream of sseer (src/json_stream.rs) over an EventStream: the data  *)
(* of every event is deserialised.  A poll polls the event stream once,    *)
(* and what that returns is what it makes of; the steps of the inner poll  *)
(* are those of EventStream.                                               *)
(***************************************************************************)
EXTENDS EventStream

CONSTANTS
  Jsons,       \* the texts that are a value of the type asked for
  JsonStarts   \* the texts that begin with one, whatever follows it

ASSUME JsonsAssumption == Jsons \subseteq JsonStarts /\ JsonStarts \subseteq Str

VARIABLES
  withPath,   \* which of the two the client chose, new_path or new_default
  stream,     \* JsonStreamState: "Active" with the event stream, or "Inactive"
  results,    \* history: what was handed out, beside transport errors
  answer      \* what the last poll returned

jsonVars == <<withPath, stream, results, answer>>
allVars == <<vars, jsonVars>>

JsonInit ==
  /\ Init
  /\ withPath \in BOOLEAN
  /\ stream = "Active"
  /\ results = <<>>
  /\ answer = "pending"

-----------------------------------------------------------------------------
\* Wrong: the text is taken for a value without being read.
AcceptedUnread(data) == TRUE

(***************************************************************************)
(* from_str reads a value and the end of its text, serde_path_to_error     *)
(* reads the value from a deserialiser and leaves the rest.                *)
(***************************************************************************)
Accepted(data) == data \in IF withPath THEN JsonStarts ELSE Jsons

(***************************************************************************)
(* What becomes of an item: an error stays one, an event is a value or an  *)
(* error of its own.                                                       *)
(***************************************************************************)
Deserialized(item) ==
  IF item = Utf8Error
  THEN [kind |-> "Stream", data |-> <<>>]
  ELSE [kind |-> IF Accepted(item.data) THEN "Value" ELSE "Deserialize", data |-> item.data]

\* Wrong: an event that is no JSON ends the stream.
AnswerEndsOnError ==
  CASE ret' = "item" ->
         /\ results' = Append(results, Deserialized(items'[Len(items')]))
         /\ answer' = "item"
         /\ UNCHANGED withPath
         /\ stream' = IF results'[Len(results')].kind = "Deserialize"
                      THEN "Inactive" ELSE stream
    [] ret' = "none" -> stream' = "Inactive" /\ answer' = "none" /\ UNCHANGED <<withPath, results>>
    [] OTHER         -> answer' = ret' /\ UNCHANGED <<withPath, stream, results>>

\* Wrong: the event stream is kept after its end.
AnswerKeepsStream ==
  IF ret' = "item"
  THEN /\ results' = Append(results, Deserialized(items'[Len(items')]))
       /\ answer' = "item"
       /\ UNCHANGED <<withPath, stream>>
  ELSE answer' = ret' /\ UNCHANGED <<withPath, stream, results>>

\* The inner poll has returned.
Answer ==
  CASE ret' = "item" ->
         /\ results' = Append(results, Deserialized(items'[Len(items')]))
         /\ answer' = "item"
         /\ UNCHANGED <<withPath, stream>>
    [] ret' = "none" -> stream' = "Inactive" /\ answer' = "none" /\ UNCHANGED <<withPath, results>>
    [] OTHER         -> answer' = ret' /\ UNCHANGED <<withPath, stream, results>>

JsonPoll ==
  /\ stream = "Active"
  /\ Poll
  /\ UNCHANGED jsonVars

\* A step of the inner poll, up to its return.
InnerPoll ==
  /\ \/ TakeLine
     \/ NoLine
     \/ InnerPending
     \/ InnerErr
     \/ InnerEnd
     \/ \E n \in 0..Len(wire) : InnerChunk(n)
  /\ IF pc' = "idle" THEN Answer ELSE UNCHANGED jsonVars

\* Wrong: only the first poll after the end returns None.
PollInactiveAsleep ==
  /\ stream = "Inactive"
  /\ answer' = "pending"
  /\ UNCHANGED <<vars, withPath, stream, results>>

PollInactive ==
  /\ stream = "Inactive"
  /\ answer' = "none"
  /\ UNCHANGED <<vars, withPath, stream, results>>

JsonNext == JsonPoll \/ InnerPoll \/ PollInactive

JsonSpec == JsonInit /\ [][JsonNext]_allVars

\* As in EventStream, with this consumer in place of the other.
JsonFairSpec ==
  /\ JsonSpec
  /\ WF_allVars(JsonPoll) /\ WF_allVars(PollInactive)
  /\ WF_buffer(LineGone) /\ WF_pc(ParseOver)
  /\ SF_vars(InnerProgress)

-----------------------------------------------------------------------------
JsonTypeOK ==
  /\ withPath \in BOOLEAN
  /\ stream \in {"Active", "Inactive"}
  /\ results \in Seq([kind : {"Value", "Deserialize", "Stream"}, data : Str])
  /\ \A k \in 1..Len(results) : results[k].kind = "Value" => results[k].data \in JsonStarts
  /\ answer \in {"pending", "item", "transport", "none"}

(***************************************************************************)
(* Every event and every error of the event stream is answered for, in     *)
(* order, and the stream ends only where all of the text was decoded: one  *)
(* event that is no JSON (json_stream.rs:107), a line that is no UTF-8 or  *)
(* an inner stream that fails costs none of the events after it.           *)
(***************************************************************************)
NothingCutShort ==
  /\ results = [k \in 1..Len(items) |-> Deserialized(items[k])]
  /\ stream = "Inactive" => Decoder!Done

(***************************************************************************)
(* Once the event stream has returned None it is not touched again         *)
(* (json_stream.rs:102), as a stream may panic or start anew if it were.   *)
(***************************************************************************)
NotPolledAfterNone == [][ret = "none" => UNCHANGED vars]_allVars

(***************************************************************************)
(* A consumer that goes on polling comes to None, and None it stays        *)
(* (json_stream.rs:98, 103).                                               *)
(***************************************************************************)
JsonComesToEnd == <>[](answer = "none")
=============================================================================
