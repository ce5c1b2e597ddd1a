----------------------------- MODULE Utf8Stream -----------------------------
(***************************************************************************)
(* Utf8Stream of sseer (src/utf8_stream.rs): a stream of byte chunks       *)
(* turned into a stream of strings.  The chunks are cuts of one text made  *)
(* anywhere; what ends in the middle of a character is held back until the *)
(* rest of it arrives.  A poll is one step, which polls the inner stream   *)
(* once.                                                                   *)
(***************************************************************************)
EXTENDS Text

CONSTANT Wires    \* the byte texts the inner stream may yield

ASSUME WiresAssumption == Wires \subseteq Str

\* The three bytes of a character are told apart.
ASSUME CharacterAssumption == EF # BB /\ BB # BF /\ EF # BF

VARIABLES
  source,    \* history: the whole text of the inner stream
  wire,      \* the bytes the inner stream has yet to yield
  buffer,    \* the bytes held back
  state,     \* Utf8StreamState
  out,       \* history: the strings handed out, joined
  ret        \* what the last poll returned

vars == <<source, wire, buffer, state, out, ret>>

Init ==
  /\ source \in Wires
  /\ wire = source
  /\ buffer = <<>>
  /\ state = "Active"
  /\ out = <<>>
  /\ ret = "pending"

(***************************************************************************)
(* Utf8Error::valid_up_to: how much of b is UTF-8, all of it if it is.     *)
(***************************************************************************)
IsValidUpTo(n, b) == n \in 0..Len(b) /\ ValidUtf8(SubSeq(b, 1, n))

ValidUpTo(b) ==
  CHOOSE n \in 0..Len(b) : IsValidUpTo(n, b) /\ \A m \in (n+1)..Len(b) : ~IsValidUpTo(m, b)

Valid(b) == SubSeq(b, 1, ValidUpTo(b))
HeldBack(b) == From(b, ValidUpTo(b) + 1)

-----------------------------------------------------------------------------
\* Active: the four answers of the inner stream.

InnerPending ==
  /\ state = "Active"
  /\ ret' = "pending"
  /\ UNCHANGED <<source, wire, buffer, state, out>>

\* Wrong: what was held back is dropped with the error.
InnerErrClears ==
  /\ state = "Active"
  /\ ret' = "transport"
  /\ buffer' = <<>>
  /\ UNCHANGED <<source, wire, state, out>>

\* Wrong: an error of the inner stream ends this one.
InnerErrTerminates ==
  /\ state = "Active"
  /\ state' = "Terminated"
  /\ buffer' = <<>>
  /\ ret' = "transport"
  /\ UNCHANGED <<source, wire, out>>

InnerErr ==
  /\ state = "Active"
  /\ ret' = "transport"
  /\ UNCHANGED <<source, wire, buffer, state, out>>

\* Wrong: a chunk that is no text by itself waits for the end.
InnerChunkWhole(n) ==
  LET received == buffer \o SubSeq(wire, 1, n)
  IN  /\ state = "Active"
      /\ n \in 0..Len(wire)
      /\ wire' = From(wire, n + 1)
      /\ out' = IF ValidUtf8(received) THEN out \o received ELSE out
      /\ buffer' = IF ValidUtf8(received) THEN <<>> ELSE received
      /\ ret' = "string"
      /\ UNCHANGED <<source, state>>

\* n more bytes: the string returned may be empty.
InnerChunk(n) ==
  LET received == buffer \o SubSeq(wire, 1, n)
  IN  /\ state = "Active"
      /\ n \in 0..Len(wire)
      /\ wire' = From(wire, n + 1)
      /\ out' = out \o Valid(received)
      /\ buffer' = HeldBack(received)
      /\ ret' = "string"
      /\ UNCHANGED <<source, state>>

\* Wrong: the stream ends in silence.
InnerEndSilent ==
  /\ state = "Active"
  /\ wire = <<>>
  /\ state' = "Terminated"
  /\ buffer' = <<>>
  /\ ret' = "none"
  /\ UNCHANGED <<source, wire, out>>

\* Wrong: the stream stays as it is, and is polled after its end.
InnerEndActive ==
  /\ state = "Active"
  /\ wire = <<>>
  /\ ret' = IF buffer = <<>> THEN "none" ELSE "utf8error"
  /\ UNCHANGED <<source, wire, buffer, state, out>>

\* The end takes what was held back with it: a last string, or an error.
InnerEnd ==
  /\ state = "Active"
  /\ wire = <<>>
  /\ state' = "Terminated"
  /\ buffer' = <<>>
  /\ IF buffer # <<>> /\ ValidUtf8(buffer)
     THEN out' = out \o buffer /\ ret' = "string"
     ELSE ret' = (IF buffer = <<>> THEN "none" ELSE "utf8error") /\ UNCHANGED out
  /\ UNCHANGED <<source, wire>>

PollTerminated ==
  /\ state = "Terminated"
  /\ ret' = "none"
  /\ UNCHANGED <<source, wire, buffer, state, out>>

Next ==
  \/ InnerPending
  \/ InnerErr
  \/ \E n \in 0..Len(wire) : InnerChunk(n)
  \/ InnerEnd
  \/ PollTerminated

Spec == Init /\ [][Next]_vars

(***************************************************************************)
(* The consumer polls on, and an inner stream that is polled again and     *)
(* again yields bytes or its end in the end.                               *)
(***************************************************************************)
Progress == InnerEnd \/ PollTerminated \/ \E n \in 1..Len(wire) : InnerChunk(n)

FairSpec == Spec /\ WF_vars(Progress)

-----------------------------------------------------------------------------
Arrived == SubSeq(source, 1, Len(source) - Len(wire))

TypeOK ==
  /\ source \in Wires
  /\ wire \in Str
  /\ buffer \in Str
  /\ state \in {"Active", "Terminated"}
  /\ state = "Terminated" => buffer = <<>> /\ ret # "transport"
  /\ out \in Str
  /\ ret \in {"pending", "string", "transport", "utf8error", "none"}

(***************************************************************************)
(* The strings handed out are at any time the longest beginning of the     *)
(* bytes that have arrived that is UTF-8 (utf8_stream.rs:54-70): no        *)
(* character is held back that is complete, wherever it was cut and        *)
(* whatever failed in between, and what is no text never gets out (the     *)
(* strings are built unchecked).                                           *)
(***************************************************************************)
HandsOutAllText == out = Valid(Arrived)

(***************************************************************************)
(* The consumer is told of bytes that were no text (utf8_stream.rs:79-90): *)
(* the first poll after which the stream is terminated returns an error    *)
(* exactly if the strings are not all of the text.                         *)
(***************************************************************************)
EndTellsLoss ==
  [][state = "Active" /\ state' = "Terminated" => (ret' = "utf8error" <=> out' # source)]_vars

(***************************************************************************)
(* Where all of the inner stream is UTF-8, less than a character is held   *)
(* back (utf8_stream.rs:66), for however long a stream; a byte that no     *)
(* text has makes the buffer grow with all that follows it.                *)
(***************************************************************************)
HoldsLessThanACharacter == ValidUtf8(source) => Len(buffer) < Len(BOM)

(***************************************************************************)
(* What is held back has no text at its beginning (utf8_stream.rs:66), so  *)
(* the string that the end could return (utf8_stream.rs:83) is never       *)
(* there.                                                                  *)
(***************************************************************************)
NoStringAtEnd == [][state = "Active" /\ state' = "Terminated" => ret' # "string"]_vars

(***************************************************************************)
(* A consumer that goes on polling comes to None (utf8_stream.rs:77).      *)
(***************************************************************************)
ComesToEnd == <>[](ret = "none")
=============================================================================
