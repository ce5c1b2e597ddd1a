-------------------------- MODULE EventStreamBytes --------------------------
(***************************************************************************)
(* EventStreamBytes of sseer (src/event_stream/bytes.rs): the event stream *)
(* for chunks of type Bytes.  A chunk that arrives while nothing is held   *)
(* back is kept as it is, in remainder, and parsed there without a copy;   *)
(* only what is left without a line end is copied to buffer, where later   *)
(* chunks are appended.                                                    *)
(*                                                                         *)
(* pc is "entry" and "loop" for the two uses of try_parse_remainder, at    *)
(* the start of a poll and after a chunk; "parse" and "poll" are those of  *)
(* EventStream.                                                            *)
(***************************************************************************)
EXTENDS EventBuilder

CONSTANTS
  Wires,    \* the byte texts a server may send
  Ids       \* the ids a client may set

ASSUME TextAssumption == Wires \subseteq Str /\ Ids \subseteq Str

VARIABLES
  wire,         \* the bytes the inner stream has yet to yield
  buffer,       \* the bytes received and copied
  remainder,    \* what is left of the last chunk
  builder, state, lastEventId,
  pc,           \* where poll_next is
  items,        \* history: the events and UTF-8 errors handed out so far
  ret           \* what the last poll returned

vars == <<wire, buffer, remainder, builder, state, lastEventId, pc, items, ret>>

Init ==
  /\ wire \in Wires
  /\ buffer = <<>>
  /\ remainder = <<>>
  /\ builder = EmptyBuilder
  /\ state = "NotStarted"
  /\ lastEventId = <<>>
  /\ pc = "idle"
  /\ items = <<>>
  /\ ret = "pending"

SetLastEventId(id) ==
  /\ pc = "idle"
  /\ lastEventId' = id
  /\ UNCHANGED <<wire, buffer, remainder, builder, state, pc, items, ret>>

Poll ==
  /\ pc = "idle"
  /\ pc' = "entry"
  /\ UNCHANGED <<wire, buffer, remainder, builder, state, lastEventId, items, ret>>

-----------------------------------------------------------------------------
(***************************************************************************)
(* parse_event_bytes, the parse loop of the remainder, is written apart    *)
(* from parse_event, that of the buffer, with a line reader of its own.    *)
(***************************************************************************)
ParseStepBytes(b, line) ==
  LET raw == ParseLineFromBytes(line)
      added == Add(b, Validate(raw))
  IN  CASE ~Validates(raw) -> [builder |-> b, item |-> Utf8Error]
        [] Validates(raw) /\ ~added.isComplete -> [builder |-> added, item |-> None]
        [] Validates(raw) /\ added.isComplete ->
             [builder |-> AfterDispatch(added), item |-> Dispatched(added)]

\* What is done with the result, whichever buffer the line was taken from.
Interpret(step) ==
  /\ builder' = step.builder
  /\ IF step.item = None
     THEN UNCHANGED <<items, ret, pc>>
     ELSE items' = Append(items, step.item) /\ ret' = "item" /\ pc' = "idle"
  /\ lastEventId' = IF step.item \in Event THEN step.item.id ELSE lastEventId

TakeRemainderLine ==
  /\ pc \in {"entry", "loop"}
  /\ HasLine(remainder)
  /\ Interpret(ParseStepBytes(builder, LineOf(remainder)))
  /\ remainder' = RestOf(remainder)
  /\ UNCHANGED <<wire, buffer, state>>

\* Wrong: what is left of the chunk stays where the next chunk overwrites it.
RemainderLeft ==
  /\ pc \in {"entry", "loop"}
  /\ ~HasLine(remainder)
  /\ pc' = IF pc = "entry" THEN "parse" ELSE "poll"
  /\ UNCHANGED <<wire, buffer, remainder, builder, state, lastEventId, items, ret>>

RemainderDone ==
  /\ pc \in {"entry", "loop"}
  /\ ~HasLine(remainder)
  /\ buffer' = buffer \o remainder
  /\ remainder' = <<>>
  /\ pc' = IF pc = "entry" THEN "parse" ELSE "poll"
  /\ UNCHANGED <<wire, builder, state, lastEventId, items, ret>>

TakeLine ==
  /\ pc = "parse"
  /\ HasLine(buffer)
  /\ Interpret(ParseStep(builder, LineOf(buffer)))
  /\ buffer' = RestOf(buffer)
  /\ UNCHANGED <<wire, remainder, state>>

NoLine ==
  /\ pc = "parse"
  /\ ~HasLine(buffer)
  /\ IF state = "Terminated"
     THEN pc' = "idle" /\ ret' = "none"
     ELSE pc' = "poll" /\ UNCHANGED ret
  /\ UNCHANGED <<wire, buffer, remainder, builder, state, lastEventId, items>>

-----------------------------------------------------------------------------
InnerPending ==
  /\ pc = "poll"
  /\ pc' = "idle" /\ ret' = "pending"
  /\ UNCHANGED <<wire, buffer, remainder, builder, state, lastEventId, items>>

InnerErr ==
  /\ pc = "poll"
  /\ pc' = "idle" /\ ret' = "transport"
  /\ UNCHANGED <<wire, buffer, remainder, builder, state, lastEventId, items>>

\* Wrong: the end of the inner stream is not remembered.
InnerEndForgotten ==
  /\ pc = "poll"
  /\ wire = <<>>
  /\ buffer' = CloseLine(buffer \o remainder)
  /\ remainder' = <<>>
  /\ pc' = "parse"
  /\ UNCHANGED <<wire, builder, state, lastEventId, items, ret>>

InnerEnd ==
  /\ pc = "poll"
  /\ wire = <<>>
  /\ state' = "Terminated"
  /\ buffer' = CloseLine(buffer \o remainder)
  /\ remainder' = <<>>
  /\ pc' = "parse"
  /\ UNCHANGED <<wire, builder, lastEventId, items, ret>>

\* An empty chunk.
ChunkEmpty ==
  /\ pc = "poll"
  /\ UNCHANGED vars

\* Wrong: a chunk is parsed by itself even if bytes are waiting for it.
ChunkKeptAlways(n) ==
  LET chunk == SubSeq(wire, 1, n)
      undecided == state = "NotStarted" /\ BomUndecided(chunk)
  IN  /\ pc = "poll"
      /\ n \in 1..Len(wire)
      /\ wire' = From(wire, n + 1)
      /\ IF undecided
         THEN buffer' = buffer \o chunk /\ pc' = "poll" /\ UNCHANGED <<remainder, state>>
         ELSE /\ remainder' = IF state = "NotStarted" THEN StripBom(chunk) ELSE chunk
              /\ state' = "Started"
              /\ pc' = "loop"
              /\ UNCHANGED buffer
      /\ UNCHANGED <<builder, lastEventId, items, ret>>

\* n bytes that arrive while nothing is held back are kept as they are.
ChunkKept(n) ==
  LET chunk == SubSeq(wire, 1, n)
      undecided == state = "NotStarted" /\ BomUndecided(chunk)
  IN  /\ pc = "poll"
      /\ n \in 1..Len(wire)
      /\ buffer = <<>> /\ remainder = <<>>
      /\ wire' = From(wire, n + 1)
      /\ IF undecided
         THEN buffer' = chunk /\ pc' = "poll" /\ UNCHANGED <<remainder, state>>
         ELSE /\ remainder' = IF state = "NotStarted" THEN StripBom(chunk) ELSE chunk
              /\ state' = "Started"
              /\ pc' = "loop"
              /\ UNCHANGED buffer
      /\ UNCHANGED <<builder, lastEventId, items, ret>>

\* Otherwise they are appended to what is held back.
ChunkCopied(n) ==
  LET received == buffer \o remainder \o SubSeq(wire, 1, n)
      undecided == state = "NotStarted" /\ BomUndecided(received)
  IN  /\ pc = "poll"
      /\ n \in 1..Len(wire)
      /\ ~(buffer = <<>> /\ remainder = <<>>)
      /\ wire' = From(wire, n + 1)
      /\ buffer' = IF state = "NotStarted" THEN StripBom(received) ELSE received
      /\ remainder' = <<>>
      /\ state' = IF undecided THEN state ELSE "Started"
      /\ pc' = IF undecided THEN "poll" ELSE "parse"
      /\ UNCHANGED <<builder, lastEventId, items, ret>>

Next ==
  \/ \E id \in Ids : SetLastEventId(id)
  \/ Poll
  \/ TakeRemainderLine
  \/ RemainderDone
  \/ TakeLine
  \/ NoLine
  \/ InnerPending
  \/ InnerErr
  \/ InnerEnd
  \/ ChunkEmpty
  \/ \E n \in 1..Len(wire) : ChunkKept(n)
  \/ \E n \in 1..Len(wire) : ChunkCopied(n)

Spec == Init /\ [][Next]_vars

\* As in EventStream.
InRemainder == pc \in {"entry", "loop"}

RemainderLineGone == InRemainder /\ HasLine(remainder) /\ remainder' = RestOf(remainder)

RemainderOver == InRemainder /\ ~HasLine(remainder) /\ pc' \in {"parse", "poll"}

LineGone == pc = "parse" /\ HasLine(buffer) /\ buffer' = RestOf(buffer)

ParseOver == pc = "parse" /\ ~HasLine(buffer) /\ pc' \in {"idle", "poll"}

InnerProgress == InnerEnd \/ \E n \in 1..Len(wire) : ChunkKept(n) \/ ChunkCopied(n)

FairSpec ==
  /\ Spec
  /\ WF_vars(Poll)
  /\ WF_remainder(RemainderLineGone) /\ WF_pc(RemainderOver)
  /\ WF_buffer(LineGone) /\ WF_pc(ParseOver)
  /\ SF_vars(InnerProgress)

-----------------------------------------------------------------------------
TypeOK ==
  /\ wire \in Str
  /\ buffer \in Str
  /\ remainder \in Str
  /\ builder \in Builder /\ ~builder.isComplete
  /\ state \in {"NotStarted", "Started", "Terminated"}
  /\ lastEventId \in Str
  /\ pc \in {"idle", "entry", "loop", "parse", "poll"}
  /\ items \in Seq(Item)
  /\ ret \in {"pending", "item", "transport", "none"}

(***************************************************************************)
(* The two buffers never both hold bytes, so that none can overtake the    *)
(* other's: the remainder is only filled while the buffer is empty         *)
(* (bytes.rs:154) and is emptied before the inner stream is polled         *)
(* (bytes.rs:98), and the buffer is not written while the remainder holds  *)
(* events that were not handed out yet.                                    *)
(***************************************************************************)
OneBuffer ==
  /\ remainder = <<>> \/ buffer = <<>>
  /\ pc \in {"parse", "poll"} => remainder = <<>>

(***************************************************************************)
(* The specialised stream behaves as the generic one does, poll for poll:  *)
(* the same items at the same polls, the same pauses, errors and end.      *)
(***************************************************************************)
Generic == INSTANCE EventStream WITH
  buffer <- buffer \o remainder,
  pc <- IF pc \in {"entry", "loop"} THEN "parse" ELSE pc

Implements == Generic!Spec

(***************************************************************************)
(* And it comes to the same end under the same fairness: what is moved     *)
(* between the buffers (bytes.rs:98) is parsed before the stream ends.     *)
(***************************************************************************)
ComesToEnd == <>[](ret = "none" /\ Generic!Decoder!Done)
=============================================================================
