----------------------------- MODULE SseDecoder -----------------------------
(***************************************************************************)
(* What the two event streams of sseer promise: the decoding of a whole    *)
(* byte text into events, with no chunks, no polls and no buffers.  The    *)
(* streams see the text in pieces cut anywhere, and errors and pauses in   *)
(* between; EventStream shows that none of that changes the events.        *)
(***************************************************************************)
EXTENDS EventBuilder

CONSTANT Wires    \* the byte texts a server may send

ASSUME WiresAssumption == Wires \subseteq Str

VARIABLES
  text,      \* the bytes not decoded yet
  phase,     \* "bom": a byte order mark may still come, "body", "end"
  builder,   \* the event being received
  items      \* the events and errors decoded so far

vars == <<text, phase, builder, items>>

Init ==
  /\ text \in Wires
  /\ phase = "bom"
  /\ builder = EmptyBuilder
  /\ items = <<>>

(***************************************************************************)
(* The byte order mark is dropped once, at the start.                      *)
(***************************************************************************)
Start ==
  /\ phase = "bom"
  /\ ~BomUndecided(text)
  /\ phase' = "body"
  /\ text' = StripBom(text)
  /\ UNCHANGED <<builder, items>>

(***************************************************************************)
(* The next line is interpreted.                                           *)
(***************************************************************************)
Interpret ==
  /\ phase # "bom"
  /\ HasLine(text)
  /\ LET step == ParseStep(builder, LineOf(text))
     IN  /\ builder' = step.builder
         /\ items' = IF step.item = None THEN items ELSE Append(items, step.item)
  /\ text' = RestOf(text)
  /\ UNCHANGED phase

(***************************************************************************)
(* Nothing follows: a CR at the very end closes the last line.             *)
(***************************************************************************)
Finish ==
  /\ phase = "bom" => BomUndecided(text)
  /\ phase # "end"
  /\ ~HasLine(text)
  /\ phase' = "end"
  /\ text' = CloseLine(text)
  /\ UNCHANGED <<builder, items>>

Next == Start \/ Interpret \/ Finish

Spec == Init /\ [][Next]_vars

-----------------------------------------------------------------------------
Done == phase = "end" /\ ~HasLine(text)

TypeOK ==
  /\ text \in Str
  /\ phase \in {"bom", "body", "end"}
  /\ builder \in Builder /\ ~builder.isComplete
  /\ items \in Seq(Item)

(***************************************************************************)
(* Every text handed out or kept for an event is UTF-8.  The code builds   *)
(* its strings with from_inner_unchecked (parser.rs:55, and                *)
(* event_stream.rs:55 where the lines of the data are joined), so a string *)
(* that is not UTF-8 would be undefined behaviour, not an error.           *)
(***************************************************************************)
ValidEvent(e) == ValidUtf8(e.event) /\ ValidUtf8(e.data) /\ ValidUtf8(e.id)

ValidText ==
  /\ ValidUtf8(builder.event) /\ ValidUtf8(builder.id)
  /\ builder.data # None => ValidUtf8(builder.data)
  /\ \A k \in 1..Len(items) : items[k] # Utf8Error => ValidEvent(items[k])

(***************************************************************************)
(* No event carries an id with a NUL, whatever the ids of the lines that   *)
(* made it and of the events before it (event_stream.rs:101): the id goes  *)
(* back to the server as a header value.                                   *)
(***************************************************************************)
NoNulId ==
  /\ ~HasNul(builder.id)
  /\ \A k \in 1..Len(items) : items[k] # Utf8Error => ~HasNul(items[k].id)
=============================================================================
