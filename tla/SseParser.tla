----------------------------- MODULE SseParser -----------------------------
(***************************************************************************)
(* The line parser of sseer (src/parser.rs): finding the end of a line in  *)
(* a byte buffer, splitting the buffer there, reading the line as a        *)
(* comment, an empty line or a field, and validating its value as UTF-8.   *)
(***************************************************************************)
EXTENDS Text

CONSTANTS
  EventName, DataName, IdName, RetryName   \* the field names

ASSUME NameAssumption ==
  /\ {EventName, DataName, IdName, RetryName} \subseteq Seq(Byte)
  /\ EventName \notin {DataName, IdName, RetryName}
  /\ DataName \notin {IdName, RetryName}
  /\ IdName # RetryName

-----------------------------------------------------------------------------
(***************************************************************************)
(* memchr and memchr2: position i is the first one of b that holds a byte  *)
(* of S, and the position so found.                                        *)
(***************************************************************************)
IsFirst(i, S, b) ==
  /\ i \in 1..Len(b)
  /\ b[i] \in S
  /\ \A j \in 1..(i-1) : b[j] \notin S

Memchr(S, b) == CHOOSE i \in 1..Len(b) : IsFirst(i, S, b)

Eol == {CR, LF}

\* What ends a line: a CR with no LF after it, an LF, or the two together.
Ends == {<<CR>>, <<LF>>, <<CR, LF>>}

\* Wrong: a CR at the end of the buffer is taken for a line end of its own.
HasLineAtCr(b) == \E i \in 1..Len(b) : IsFirst(i, Eol, b)

(***************************************************************************)
(* find_eol returns Some iff HasLine: there is an end-of-line byte and, if *)
(* it is a CR, a byte after it that tells CR from CRLF.  The line then     *)
(* ends before EolAt and the rest of the buffer starts at NextLineAt.      *)
(***************************************************************************)
HasLine(b) == \E i \in 1..Len(b) : IsFirst(i, Eol, b) /\ (b[i] = CR => i < Len(b))

EolAt(b) == Memchr(Eol, b)

CrLfAt(b, i) == b[i] = CR /\ i < Len(b) /\ b[i + 1] = LF

\* Wrong: never looks past a CR, so the LF of a CRLF is left in the buffer.
NextLineAtLoneCR(b) == EolAt(b) + 1

NextLineAt(b) == IF CrLfAt(b, EolAt(b)) THEN EolAt(b) + 2 ELSE EolAt(b) + 1

LineOf(b) == SubSeq(b, 1, EolAt(b) - 1)
RestOf(b) == SubSeq(b, NextLineAt(b), Len(b))

-----------------------------------------------------------------------------
(***************************************************************************)
(* A raw line.  Comments and empty lines carry no name and no value.       *)
(***************************************************************************)
RawLine == [kind : {"Comment", "Empty", "Field"}, name : Str, value : Option(Str)]

CommentLine == [kind |-> "Comment", name |-> <<>>, value |-> None]
EmptyLine == [kind |-> "Empty", name |-> <<>>, value |-> None]
FieldLine(name, value) == [kind |-> "Field", name |-> name, value |-> value]

HasColon(line) == \E i \in 1..Len(line) : IsFirst(i, {Colon}, line)
ColonAt(line) == Memchr({Colon}, line)

\* read_line: the colon decides first, the leading space goes by pattern.
StripSpace(value) == IF value # <<>> /\ value[1] = Space THEN From(value, 2) ELSE value

ReadLine(line) ==
  IF HasColon(line)
  THEN IF ColonAt(line) = 1
       THEN CommentLine
       ELSE FieldLine(SubSeq(line, 1, ColonAt(line) - 1),
                      StripSpace(From(line, ColonAt(line) + 1)))
  ELSE IF line = <<>> THEN EmptyLine ELSE FieldLine(line, None)

\* parse_line_from_buffer: emptiness decides first, the value starts at an index.
ValueStart(line) ==
  LET c == ColonAt(line)
  IN  IF c + 1 <= Len(line) /\ line[c + 1] = Space THEN c + 2 ELSE c + 1

ParseLineFromBuffer(line) ==
  IF line = <<>> THEN EmptyLine
  ELSE IF ~HasColon(line) THEN FieldLine(line, None)
  ELSE IF ColonAt(line) = 1 THEN CommentLine
  ELSE FieldLine(SubSeq(line, 1, ColonAt(line) - 1), From(line, ValueStart(line)))

\* Wrong: of this reader alone, the value keeps the space before it.
ParseLineFromBytesKeepsSpace(line) ==
  IF HasColon(line) /\ ColonAt(line) > 1
  THEN FieldLine(SubSeq(line, 1, ColonAt(line) - 1), From(line, ColonAt(line) + 1))
  ELSE ReadLine(line)

\* parse_line_from_bytes, which is written out again.
ParseLineFromBytes(line) ==
  LET colon == ColonAt(line)
      start == IF colon < Len(line) /\ line[colon + 1] = Space THEN colon + 2 ELSE colon + 1
  IN  IF line = <<>> THEN EmptyLine
      ELSE IF ~HasColon(line) THEN FieldLine(line, None)
      ELSE IF colon = 1 THEN CommentLine
      ELSE FieldLine(SubSeq(line, 1, colon - 1), From(line, start))

-----------------------------------------------------------------------------
\* Wrong: only the data is checked.
ValidatesData(raw) == raw.name = DataName /\ raw.value # None => ValidUtf8(raw.value)

(***************************************************************************)
(* RawEventLineOwned::validate: a field whose value is not UTF-8 is an     *)
(* error, whatever its name; every other line is valid.                    *)
(***************************************************************************)
Validates(raw) == raw.value # None => ValidUtf8(raw.value)

FieldName(name) ==
  CASE name = EventName -> "Event"
    [] name = DataName  -> "Data"
    [] name = IdName    -> "Id"
    [] name = RetryName -> "Retry"
    [] OTHER            -> "Ignored"

Validate(raw) ==
  [kind |-> raw.kind,
   name |-> IF raw.kind = "Field" THEN FieldName(raw.name) ELSE "Ignored",
   value |-> raw.value]

ValidLine == [kind : {"Comment", "Empty", "Field"},
              name : {"Event", "Data", "Id", "Retry", "Ignored"},
              value : Option(Str)]
=============================================================================
