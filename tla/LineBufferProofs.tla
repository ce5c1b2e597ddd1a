-------------------------- MODULE LineBufferProofs --------------------------
(***************************************************************************)
(* What the line parser finds in a buffer that fills, for all chunks and   *)
(* for buffers of every length.                                            *)
(***************************************************************************)
EXTENDS LineBuffer, EventBuilderProofs

-----------------------------------------------------------------------------
\* The buffer holds bytes, and only ever more of them.
LEMMA BufferInductive ==
  /\ Init => buffer \in Str
  /\ buffer \in Str /\ [Next]_buffer => buffer' \in Str /\ \E c \in Str : buffer' = buffer \o c
<1>1. Init => buffer \in Str
  BY EmptySeq DEF Init, Str
<1>2. ASSUME buffer \in Str, NEW chunk \in Chunks, Receive(chunk)
      PROVE  buffer' \in Str /\ \E c \in Str : buffer' = buffer \o c
  <2>1. chunk \in Str /\ buffer' = buffer \o chunk
    BY <1>2, ChunksAssumption DEF Receive
  <2>2. buffer \o chunk \in Str
    BY <1>2, <2>1, ConcatProperties DEF Str
  <2>3. QED
    BY <2>1, <2>2
<1>3. ASSUME buffer \in Str, UNCHANGED buffer
      PROVE  buffer' \in Str /\ \E c \in Str : buffer' = buffer \o c
  <2>1. <<>> \in Str /\ buffer \o <<>> = buffer
    BY <1>3, EmptySeq, ConcatEmptySeq DEF Str
  <2>2. QED
    BY <1>3, <2>1
<1>4. QED
  <2>1. buffer \in Str /\ [Next]_buffer => buffer' \in Str /\ \E c \in Str : buffer' = buffer \o c
    <3> SUFFICES ASSUME buffer \in Str, [Next]_buffer
                 PROVE  buffer' \in Str /\ \E c \in Str : buffer' = buffer \o c
      OBVIOUS
    <3>1. CASE Next
      <4>1. PICK chunk \in Chunks : Receive(chunk)
        BY <3>1 DEF Next
      <4>2. QED
        BY <1>2, <4>1
    <3>2. CASE UNCHANGED buffer
      BY <1>3, <3>2
    <3>3. QED
      BY <3>1, <3>2
  <2>2. QED
    BY <1>1, <2>1

LEMMA BufferIsText == Spec => [](buffer \in Str)
<1>1. Init => buffer \in Str
  BY BufferInductive
<1>2. buffer \in Str /\ [Next]_buffer => (buffer \in Str)'
  BY BufferInductive
<1>3. QED
  BY <1>1, <1>2, PTL DEF Spec

(***************************************************************************)
(* The borrowing reader and the two owning ones agree on every buffer.     *)
(***************************************************************************)
THEOREM BothReadersAgree == Spec => []ReadersAgree
<1>1. buffer \in Str => ReadersAgree
  BY ReadersAlike DEF ReadersAgree
<1>2. QED
  BY <1>1, BufferIsText, PTL

(***************************************************************************)
(* A split loses nothing but the line end, of every buffer.                *)
(***************************************************************************)
THEOREM EverySplitIsClean == Spec => []SplitsCleanly
<1>1. buffer \in Str => SplitsCleanly
  <2> SUFFICES ASSUME buffer \in Str, HasLine(buffer)
               PROVE  /\ \A k \in 1..Len(LineOf(buffer)) : LineOf(buffer)[k] \notin Eol
                      /\ \E end \in Ends :
                           /\ buffer = LineOf(buffer) \o end \o RestOf(buffer)
                           /\ end = <<CR>> => RestOf(buffer) # <<>> /\ Head(RestOf(buffer)) # LF
    BY DEF SplitsCleanly
  <2>1. PICK end \in Ends :
          /\ buffer = LineOf(buffer) \o (end \o RestOf(buffer))
          /\ end = <<CR>> => RestOf(buffer) # <<>> /\ Head(RestOf(buffer)) # LF
    BY SplitLosesNothing
  <2>2. end \in Seq(Byte)
    <3>1. CR \in Byte /\ LF \in Byte
      BY ByteAssumption
    <3>2. <<CR>> \in Seq(Byte) /\ <<LF>> \in Seq(Byte) /\ <<CR, LF>> \in Seq(Byte)
      BY <3>1
    <3>3. QED
      BY <3>2, Zenon DEF Ends
  <2>3. LineOf(buffer) \in Seq(Byte) /\ RestOf(buffer) \in Seq(Byte)
    BY SplitType DEF Str
  <2>4. buffer = (LineOf(buffer) \o end) \o RestOf(buffer)
    <3>1. \A a, b, c \in Seq(Byte) : (a \o b) \o c = a \o (b \o c)
      BY ConcatAssociative
    <3>2. QED
      BY <2>1, <2>2, <2>3, <3>1, Zenon
  <2>5. QED
    BY <2>1, <2>4, SplitLosesNothing
<1>2. QED
  BY <1>1, BufferIsText, PTL

(***************************************************************************)
(* No line end is committed to too early, whatever arrives after it.       *)
(***************************************************************************)
THEOREM FoundLinesStay == Spec => NeverTooEarly
<1> DEFINE Stays == HasLine(buffer) =>
                      /\ HasLine(buffer')
                      /\ LineOf(buffer') = LineOf(buffer)
                      /\ RestOf(buffer') = RestOf(buffer) \o From(buffer', Len(buffer) + 1)
<1>1. buffer \in Str /\ [Next]_buffer => Stays
  <2> SUFFICES ASSUME buffer \in Str, [Next]_buffer, HasLine(buffer)
               PROVE  /\ HasLine(buffer')
                      /\ LineOf(buffer') = LineOf(buffer)
                      /\ RestOf(buffer') = RestOf(buffer) \o From(buffer', Len(buffer) + 1)
    OBVIOUS
  <2>1. PICK c \in Str : buffer' = buffer \o c
    BY BufferInductive
  <2>2. From(buffer \o c, Len(buffer) + 1) = c
    <3>1. Len(buffer) + 1 \in 1..(Len(buffer) + 1)
      BY DEF Str
    <3>2. SubSeq(buffer \o c, Len(buffer) + 1, Len(buffer \o c))
            = SubSeq(buffer, Len(buffer) + 1, Len(buffer)) \o c
      BY <3>1, SubSeqToEnd DEF Str
    <3>3. SubSeq(buffer, Len(buffer) + 1, Len(buffer)) = <<>>
      BY SubSeqEmpty DEF Str
    <3>4. <<>> \o c = c
      BY ConcatEmptySeq DEF Str
    <3>5. QED
      BY <3>2, <3>3, <3>4 DEF From
  <2>3. QED
    BY <2>1, <2>2, LineIsStable
<1>2. QED
  BY <1>1, BufferIsText, PTL DEF Spec, NeverTooEarly
=============================================================================
