---------------------------- MODULE EventStream ----------------------------
(***************************************************************************)
(* EventStream of sseer (src/event_stream/generic.rs): a stream of byte    *)
(* chunks turned into a stream of events.  The chunks are cuts of one text *)
(* made anywhere, empty ones included; between them the inner stream may   *)
(* be pending or fail any number of times.                                 *)
(*                                                                         *)
(* poll_next runs in steps: pc is "idle" between two polls, "parse" when   *)
(* the macro try_parse_event_buffer takes lines off the buffer, "poll"     *)
(* when the inner stream is about to be polled.                            *)
(***************************************************************************)
EXTENDS EventBuilder

CONSTANTS
  Wires,    \* the byte texts a server may send
  Ids       \* the ids a client may set

ASSUME TextAssumption == Wires \subseteq Str /\ Ids \subseteq Str

VARIABLES
  wire,         \* the bytes the inner stream has yet to yield
  buffer,       \* the bytes received and not parsed
  builder,      \* the event being received
  state,        \* EventStreamState
  lastEventId,
  pc,           \* where poll_next is
  items,        \* history: the events and UTF-8 errors handed out so far
  ret           \* what the last poll returned

vars == <<wire, buffer, builder, state, lastEventId, pc, items, ret>>

Init ==
  /\ wire \in Wires
  /\ buffer = <<>>
  /\ builder = EmptyBuilder
  /\ state = "NotStarted"
  /\ lastEventId = <<>>
  /\ pc = "idle"
  /\ items = <<>>
  /\ ret = "pending"

-----------------------------------------------------------------------------
\* The consumer's side.

SetLastEventId(id) ==
  /\ pc = "idle"
  /\ lastEventId' = id
  /\ UNCHANGED <<wire, buffer, builder, state, pc, items, ret>>

Poll ==
  /\ pc = "idle"
  /\ pc' = "parse"
  /\ UNCHANGED <<wire, buffer, builder, state, lastEventId, items, ret>>

-----------------------------------------------------------------------------
\* try_parse_event_buffer: parse_event line by line.

TakeLine ==
  /\ pc = "parse"
  /\ HasLine(buffer)
  /\ buffer' = RestOf(buffer)
  /\ LET step == ParseStep(builder, LineOf(buffer))
     IN  /\ builder' = step.builder
         /\ IF step.item = None
            THEN UNCHANGED <<items, ret, pc>>
            ELSE items' = Append(items, step.item) /\ ret' = "item" /\ pc' = "idle"
         /\ lastEventId' = IF step.item \in Event THEN step.item.id ELSE lastEventId
  /\ UNCHANGED <<wire, state>>

\* Wrong: the inner stream is polled although it has ended.
NoLineUnterminated ==
  /\ pc = "parse"
  /\ ~HasLine(buffer)
  /\ pc' = "poll"
  /\ UNCHANGED <<wire, buffer, builder, state, lastEventId, items, ret>>

NoLine ==
  /\ pc = "parse"
  /\ ~HasLine(buffer)
  /\ IF state = "Terminated"
     THEN pc' = "idle" /\ ret' = "none"
     ELSE pc' = "poll" /\ UNCHANGED ret
  /\ UNCHANGED <<wire, buffer, builder, state, lastEventId, items>>

-----------------------------------------------------------------------------
\* The four answers of the inner stream.

InnerPending ==
  /\ pc = "poll"
  /\ pc' = "idle" /\ ret' = "pending"
  /\ UNCHANGED <<wire, buffer, builder, state, lastEventId, items>>

InnerErr ==
  /\ pc = "poll"
  /\ pc' = "idle" /\ ret' = "transport"
  /\ UNCHANGED <<wire, buffer, builder, state, lastEventId, items>>

\* Wrong: the end is returned at once, before the last line is parsed.
InnerEndAtOnce ==
  /\ pc = "poll"
  /\ wire = <<>>
  /\ state' = "Terminated"
  /\ buffer' = CloseLine(buffer)
  /\ pc' = "idle" /\ ret' = "none"
  /\ UNCHANGED <<wire, builder, lastEventId, items>>

InnerEnd ==
  /\ pc = "poll"
  /\ wire = <<>>
  /\ state' = "Terminated"
  /\ buffer' = CloseLine(buffer)
  /\ pc' = "parse"
  /\ UNCHANGED <<wire, builder, lastEventId, items, ret>>

\* Wrong: the byte order mark is looked for in the first chunk alone.
InnerChunkBomInChunk(n) ==
  LET chunk == SubSeq(wire, 1, n)
  IN  /\ pc = "poll"
      /\ n \in 0..Len(wire)
      /\ wire' = From(wire, n + 1)
      /\ buffer' = IF state = "NotStarted" THEN buffer \o StripBom(chunk) ELSE buffer \o chunk
      /\ state' = IF n = 0 THEN state ELSE "Started"
      /\ pc' = IF n = 0 THEN "poll" ELSE "parse"
      /\ UNCHANGED <<builder, lastEventId, items, ret>>

\* Wrong: after the byte order mark the stream waits for another chunk.
InnerChunkBomAlone(n) ==
  LET received == buffer \o SubSeq(wire, 1, n)
  IN  /\ pc = "poll"
      /\ n \in 0..Len(wire)
      /\ wire' = From(wire, n + 1)
      /\ buffer' = IF state = "NotStarted" THEN StripBom(received) ELSE received
      /\ state' = IF state = "NotStarted" /\ BomUndecided(received) THEN state ELSE "Started"
      /\ pc' = IF n = 0 \/ state = "NotStarted" THEN "poll" ELSE "parse"
      /\ UNCHANGED <<builder, lastEventId, items, ret>>

\* Wrong: bytes that are no byte order mark do not start the stream.
InnerChunkUnstarted(n) ==
  LET received == buffer \o SubSeq(wire, 1, n)
      undecided == state = "NotStarted" /\ BomUndecided(received)
  IN  /\ pc = "poll"
      /\ n \in 0..Len(wire)
      /\ wire' = From(wire, n + 1)
      /\ buffer' = IF state = "NotStarted" THEN StripBom(received) ELSE received
      /\ state' = IF HasBom(received) THEN "Started" ELSE state
      /\ pc' = IF n = 0 \/ undecided THEN "poll" ELSE "parse"
      /\ UNCHANGED <<builder, lastEventId, items, ret>>

(***************************************************************************)
(* n more bytes.  An empty chunk, and bytes that may be the beginning of a *)
(* byte order mark, make the loop poll again.                              *)
(***************************************************************************)
InnerChunk(n) ==
  LET received == buffer \o SubSeq(wire, 1, n)
      undecided == state = "NotStarted" /\ BomUndecided(received)
  IN  /\ pc = "poll"
      /\ n \in 0..Len(wire)
      /\ wire' = From(wire, n + 1)
      /\ buffer' = IF state = "NotStarted" THEN StripBom(received) ELSE received
      /\ state' = IF undecided THEN state ELSE "Started"
      /\ pc' = IF n = 0 \/ undecided THEN "poll" ELSE "parse"
      /\ UNCHANGED <<builder, lastEventId, items, ret>>

Next ==
  \/ \E id \in Ids : SetLastEventId(id)
  \/ Poll
  \/ TakeLine
  \/ NoLine
  \/ InnerPending
  \/ InnerErr
  \/ InnerEnd
  \/ \E n \in 0..Len(wire) : InnerChunk(n)

Spec == Init /\ [][Next]_vars

(***************************************************************************)
(* The consumer polls again whenever a poll has returned, a poll that was  *)
(* begun runs on, and an inner stream that is polled again and again       *)
(* yields bytes or its end in the end.  The two steps of the loop in a     *)
(* poll are named by what they do to the buffer and to pc: TakeLine and    *)
(* NoLine alone do that.                                                   *)
(***************************************************************************)
LineGone == pc = "parse" /\ HasLine(buffer) /\ buffer' = RestOf(buffer)

ParseOver == pc = "parse" /\ ~HasLine(buffer) /\ pc' \in {"idle", "poll"}

InnerProgress == InnerEnd \/ \E n \in 1..Len(wire) : InnerChunk(n)

FairSpec ==
  /\ Spec
  /\ WF_vars(Poll)
  /\ WF_buffer(LineGone) /\ WF_pc(ParseOver)
  /\ SF_vars(InnerProgress)

-----------------------------------------------------------------------------
TypeOK ==
  /\ wire \in Str
  /\ buffer \in Str
  /\ builder \in Builder /\ ~builder.isComplete
  /\ state \in {"NotStarted", "Started", "Terminated"}
  /\ lastEventId \in Str
  /\ pc \in {"idle", "parse", "poll"}
  /\ items \in Seq(Item)
  /\ ret \in {"pending", "item", "transport", "none"}

(***************************************************************************)
(* Whenever the inner stream is polled (generic.rs:79), no complete line   *)
(* waits in the buffer: an event that has fully arrived is handed out      *)
(* before the stream waits for more bytes, after errors, pauses, the byte  *)
(* order mark and earlier events in the same chunk too.                    *)
(***************************************************************************)
DrainedBeforePolling == pc = "poll" => ~HasLine(buffer)

(***************************************************************************)
(* Until the byte order mark is decided on, the buffer holds nothing but   *)
(* the beginning of one (generic.rs:105), so nothing was parsed too early. *)
(***************************************************************************)
UndecidedUntilStarted == state = "NotStarted" => BomUndecided(buffer) /\ items = <<>>

(***************************************************************************)
(* An inner stream that has ended is not polled again (generic.rs:74).     *)
(***************************************************************************)
EndedNotPolled == state = "Terminated" => pc # "poll" /\ wire = <<>>

(***************************************************************************)
(* Once a poll returned None (generic.rs:74, 92) every later one does, and *)
(* no event comes after it: nothing that could be parsed was left behind.  *)
(***************************************************************************)
Fused == [][ret = "none" => ret' = "none" /\ items' = items]_vars

(***************************************************************************)
(* The stream decodes its text, however it was cut.                        *)
(***************************************************************************)
Phase == CASE state = "NotStarted" -> "bom"
           [] state = "Started"    -> "body"
           [] OTHER                -> "end"

Decoder == INSTANCE SseDecoder WITH text <- buffer \o wire, phase <- Phase

Implements == Decoder!Spec

(***************************************************************************)
(* And it decodes all of it: a consumer that goes on polling comes to the  *)
(* end of the stream, and there every line of the text was interpreted     *)
(* (generic.rs:78, 92), however often the inner stream paused or failed.   *)
(***************************************************************************)
ComesToEnd == <>[](ret = "none" /\ Decoder!Done)
=============================================================================
