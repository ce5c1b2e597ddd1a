---------------------------- MODULE EventBuilder ----------------------------
(***************************************************************************)
(* The event builder of src/event_stream.rs: the fields of the event being *)
(* received, how a line changes them (add), what an empty line makes of    *)
(* them (dispatch), and the step of the parse loop that joins the two.     *)
(***************************************************************************)
EXTENDS SseParser

CONSTANTS
  Message,    \* the default event type, MESSAGE_STR
  Millis,     \* str::parse::<u64>, a function on the values that do parse
  Utf8Error   \* the error that stands for an ill-formed value

ASSUME BuilderAssumption ==
  /\ Message \in Str /\ ValidUtf8(Message)
  /\ DOMAIN Millis \subseteq Str
  /\ \A v \in DOMAIN Millis : Millis[v] \in Nat
  /\ None # Utf8Error

Builder == [event : Str, id : Str, data : Option(Str), retry : Option(Nat),
            isComplete : BOOLEAN]

Event == [event : Str, data : Str, id : Str, retry : Option(Nat)]

\* What a poll hands out, beside transport errors.
Item == Event \cup {Utf8Error}

ASSUME ItemAssumption == None \notin Event /\ Utf8Error \notin Event

EmptyBuilder == [event |-> <<>>, id |-> <<>>, data |-> None, retry |-> None,
                 isComplete |-> FALSE]

-----------------------------------------------------------------------------
\* Wrong: an empty first line is taken for no line at all.
PushStrDropsEmpty(data, str) ==
  IF data \in {None, <<>>} THEN str ELSE data \o <<LF>> \o str

(***************************************************************************)
(* EventBuilderDataBuffer: None is Uninit, and the second and later lines  *)
(* are joined to the first by a line feed.                                 *)
(***************************************************************************)
PushStr(data, str) == IF data = None THEN str ELSE data \o <<LF>> \o str

UnwrapOrEmpty(value) == IF value = None THEN <<>> ELSE value

HasNul(value) == \E i \in 1..Len(value) : value[i] = Nul

\* Wrong: an id is taken over whatever bytes it has.
AddTakesAnyId(b, l) ==
  [b EXCEPT !.event = IF l.name = "Event" /\ l.value # None THEN l.value ELSE @,
            !.data  = IF l.name = "Data" THEN PushStr(@, UnwrapOrEmpty(l.value)) ELSE @,
            !.id    = IF l.name = "Id" THEN UnwrapOrEmpty(l.value) ELSE @,
            !.retry = IF l.name = "Retry" /\ l.value \in DOMAIN Millis
                      THEN Millis[l.value] ELSE @,
            !.isComplete = @ \/ l.kind = "Empty"]

(***************************************************************************)
(* add: what a valid line does to the builder.                             *)
(***************************************************************************)
Add(b, l) ==
  [b EXCEPT !.event = IF l.name = "Event" /\ l.value # None THEN l.value ELSE @,
            !.data  = IF l.name = "Data" THEN PushStr(@, UnwrapOrEmpty(l.value)) ELSE @,
            !.id    = IF l.name = "Id" /\ ~HasNul(UnwrapOrEmpty(l.value))
                      THEN UnwrapOrEmpty(l.value) ELSE @,
            !.retry = IF l.name = "Retry" /\ l.value \in DOMAIN Millis
                      THEN Millis[l.value] ELSE @,
            !.isComplete = @ \/ l.kind = "Empty"]

(***************************************************************************)
(* dispatch: without a data line there is no event.  Either way everything *)
(* but the id is reset.                                                    *)
(***************************************************************************)
Dispatched(b) ==
  IF b.data = None
  THEN None
  ELSE [event |-> IF b.event = <<>> THEN Message ELSE b.event,
        data |-> b.data, id |-> b.id, retry |-> b.retry]

\* Wrong: the early return resets the flag, and dispatching an event does not.
AfterDispatchStillComplete(b) ==
  [EmptyBuilder EXCEPT !.id = b.id, !.isComplete = b.data # None]

AfterDispatch(b) == [EmptyBuilder EXCEPT !.id = b.id]

(***************************************************************************)
(* One turn of the loop of parse_event, for a line taken off the buffer:   *)
(* the builder after it and the item it returns, None to go on.            *)
(***************************************************************************)
ParseStep(b, line) ==
  LET raw == ParseLineFromBuffer(line)
      added == Add(b, Validate(raw))
  IN  IF ~Validates(raw)
      THEN [builder |-> b, item |-> Utf8Error]
      ELSE IF added.isComplete
           THEN [builder |-> AfterDispatch(added), item |-> Dispatched(added)]
           ELSE [builder |-> added, item |-> None]
-----------------------------------------------------------------------------
(***************************************************************************)
(* starts_with_bom: None while the bytes are too few to tell, then whether *)
(* they start with U+FEFF, which is not part of the text.                  *)
(***************************************************************************)
BomUndecided(buf) == Len(buf) < Len(BOM) /\ buf = SubSeq(BOM, 1, Len(buf))

HasBom(buf) == Len(buf) >= Len(BOM) /\ SubSeq(buf, 1, Len(BOM)) = BOM

StripBom(buf) == IF HasBom(buf) THEN From(buf, Len(BOM) + 1) ELSE buf

(***************************************************************************)
(* At the end of the stream a CR is no longer waiting for its LF.          *)
(***************************************************************************)
CloseLine(buf) ==
  IF buf # <<>> /\ buf[Len(buf)] = CR THEN Append(buf, LF) ELSE buf
=============================================================================
