----------------------------- MODULE LineBuffer -----------------------------
(***************************************************************************)
(* A buffer that fills while the line parser looks at it, as the one of    *)
(* the event streams does between two lines that are taken off it.         *)
(***************************************************************************)
EXTENDS SseParser

CONSTANTS
  Chunks,    \* the chunks that may arrive
  MaxLen     \* the longest buffer, a bound on what is explored

ASSUME ChunksAssumption == Chunks \subseteq Str

VARIABLE buffer

Init == buffer = <<>>

Receive(chunk) == Len(buffer \o chunk) <= MaxLen /\ buffer' = buffer \o chunk

Next == \E chunk \in Chunks : Receive(chunk)

Spec == Init /\ [][Next]_buffer

-----------------------------------------------------------------------------
(***************************************************************************)
(* The borrowing parser (read_line, parser.rs:120) and the two owning ones *)
(* (parse_line_from_buffer, parse_line_from_bytes, parser.rs:161, 191) are *)
(* written apart, and all three read every line alike.                     *)
(***************************************************************************)
ReadersAgree ==
  /\ ReadLine(buffer) = ParseLineFromBuffer(buffer)
  /\ ParseLineFromBytes(buffer) = ParseLineFromBuffer(buffer)

(***************************************************************************)
(* A split at a line end (find_eol, parser.rs:93) loses nothing but the    *)
(* end, leaves no end inside the line and no half of a CRLF behind it.     *)
(***************************************************************************)
SplitsCleanly ==
  HasLine(buffer) =>
    /\ \A k \in 1..Len(LineOf(buffer)) : LineOf(buffer)[k] \notin Eol
    /\ \E end \in Ends :
         /\ buffer = LineOf(buffer) \o end \o RestOf(buffer)
         /\ end = <<CR>> => RestOf(buffer) # <<>> /\ Head(RestOf(buffer)) # LF

(***************************************************************************)
(* A line that was found stays the line that is found, whatever arrives    *)
(* after it: the parser never commits to a line end too early              *)
(* (parser.rs:99, a CR at the end of the buffer).                          *)
(***************************************************************************)
NeverTooEarly ==
  [][HasLine(buffer) =>
       /\ HasLine(buffer')
       /\ LineOf(buffer') = LineOf(buffer)
       /\ RestOf(buffer') = RestOf(buffer) \o From(buffer', Len(buffer) + 1)]_buffer
=============================================================================
