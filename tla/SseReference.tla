---------------------------- MODULE SseReference ----------------------------
(***************************************************************************)
(* The decoder beside a reference that has no builder and no buffer: the   *)
(* lines are read off the whole text at once, and the event of an empty    *)
(* line off the lines since the empty line before it.                      *)
(***************************************************************************)
EXTENDS SseDecoder

VARIABLE source    \* the text as the server sent it

SourceInit == Init /\ source = text

SourceNext == Next /\ UNCHANGED source

SourceSpec == SourceInit /\ [][SourceNext]_<<vars, source>>

-----------------------------------------------------------------------------
\* f[1] \o ... \o f[n] of a sequence of n sequences.
Flat(f) ==
  LET upTo[k \in 0..Len(f)] == IF k = 0 THEN <<>> ELSE upTo[k - 1] \o f[k]
  IN  upTo[Len(f)]

\* The greatest number of S, and 0 when there is none.
Latest(S) == CHOOSE n \in S \cup {0} : \A m \in S : m <= n

-----------------------------------------------------------------------------
(***************************************************************************)
(* A line ends at a CR, or at an LF that does not follow one.  The next    *)
(* line starts after both bytes of a CRLF.                                 *)
(***************************************************************************)
EndsLine(t, k) == t[k] = CR \/ (t[k] = LF /\ (k > 1 => t[k-1] # CR))

AfterEnd(t, k) == IF t[k] = CR /\ k < Len(t) /\ t[k+1] = LF THEN k + 2 ELSE k + 1

StartOf(t, k) ==
  LET before == Latest({j \in 1..(k-1) : EndsLine(t, j)})
  IN  IF before = 0 THEN 1 ELSE AfterEnd(t, before)

(***************************************************************************)
(* The lines of a text, each at the position where it ends.  A position    *)
(* where none ends counts as a comment, which adds nothing, and what comes *)
(* after the last end is no line.                                          *)
(***************************************************************************)
Lines(t) ==
  [k \in 1..Len(t) |->
    IF EndsLine(t, k) THEN ReadLine(SubSeq(t, StartOf(t, k), k - 1)) ELSE CommentLine]

-----------------------------------------------------------------------------
(***************************************************************************)
(* What lines 1 to p say of the event they are part of.  A field counts if *)
(* its value is UTF-8; all but the id count from the last empty line on.   *)
(***************************************************************************)
Fields(ls, p, name) ==
  {j \in 1..p : Validates(ls[j]) /\ ls[j].kind = "Field" /\ ls[j].name = name}

InBlock(ls, p, name) ==
  {j \in Fields(ls, p, name) : j > Latest({i \in 1..p : ls[i].kind = "Empty"})}

\* The last type that has a value.
TypeOf(ls, p) ==
  LET j == Latest({i \in InBlock(ls, p, EventName) : ls[i].value # None})
  IN  IF j = 0 THEN <<>> ELSE ls[j].value

\* The last id without a NUL, of this block or an earlier one.
IdOf(ls, p) ==
  LET j == Latest({i \in Fields(ls, p, IdName) :
                     \A n \in 1..Len(UnwrapOrEmpty(ls[i].value)) : ls[i].value[n] # Nul})
  IN  IF j = 0 THEN <<>> ELSE UnwrapOrEmpty(ls[j].value)

\* The last retry that is a number.
RetryOf(ls, p) ==
  LET j == Latest({i \in InBlock(ls, p, RetryName) : ls[i].value \in DOMAIN Millis})
  IN  IF j = 0 THEN None ELSE Millis[ls[j].value]

\* All lines of data, with an LF before each but the first.
DataOf(ls, p) ==
  LET data == InBlock(ls, p, DataName)
      Part(k) == IF k \notin data THEN <<>>
                 ELSE IF \E j \in data : j < k THEN <<LF>> \o UnwrapOrEmpty(ls[k].value)
                 ELSE UnwrapOrEmpty(ls[k].value)
  IN  IF data = {} THEN None ELSE Flat([k \in 1..p |-> Part(k)])

(***************************************************************************)
(* The item that line k adds: nothing, an error, or the event of the block *)
(* that an empty line ends.                                                *)
(***************************************************************************)
ItemOf(ls, k) ==
  IF ~Validates(ls[k]) THEN <<Utf8Error>>
  ELSE IF ls[k].kind # "Empty" \/ DataOf(ls, k - 1) = None THEN <<>>
  ELSE << [event |-> IF TypeOf(ls, k - 1) = <<>> THEN Message ELSE TypeOf(ls, k - 1),
           data |-> DataOf(ls, k - 1),
           id |-> IdOf(ls, k - 1),
           retry |-> RetryOf(ls, k - 1)] >>

Unmarked(t) == IF Len(t) >= 3 /\ SubSeq(t, 1, 3) = BOM THEN From(t, 4) ELSE t

Reference(t) ==
  LET ls == Lines(Unmarked(t))
  IN  Flat([k \in 1..Len(ls) |-> ItemOf(ls, k)])

(***************************************************************************)
(* At the end of every text the items are those of the reference: no line  *)
(* end, order of fields, repeated or bad field, error in a block, block    *)
(* without data or byte order mark makes add and dispatch                  *)
(* (event_stream.rs:83, 145) keep or lose what they should not.            *)
(***************************************************************************)
DecodesAsReference == Done => items = Reference(source)
=============================================================================
