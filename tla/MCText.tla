------------------------------- MODULE MCText -------------------------------
(***************************************************************************)
(* The bytes and the texts of the instances that TLC checks.  A field name *)
(* is two bytes or one, so that a cut can fall inside it.                  *)
(***************************************************************************)
EXTENDS EventBuilder, SequencesExt

CONSTANTS D, A, E, I, R,  \* the letters of the names: data is <<D, A>>, ...
          X, Five,        \* a letter and the digits of a number of millis
          Bad             \* a byte that is never UTF-8

MCByte == {CR, LF, Colon, Space, Nul, EF, BB, BF, D, A, E, I, R, X, Five, Bad}
MCIll == {Bad}

MCEventName == <<E>>
MCDataName == <<D, A>>
MCIdName == <<I>>
MCRetryName == <<R>>
MCMessage == <<A>>
MCMillis == (<<Five>> :> 5)

Field(name, value) == name \o <<Colon, Space>> \o value

EmptyLines == {<<>>}
DataLines == {DataName, Field(DataName, <<X>>), DataName \o <<Colon, X>>,
              Field(DataName, <<Space>>)}
BadLines == {Field(DataName, <<Bad>>), Field(IdName, <<BB>>)}
IdLines == {IdName, Field(IdName, <<X>>), Field(IdName, <<X, Nul>>)}
TypeLines == {EventName, Field(EventName, <<X>>)}
RetryLines == {Field(RetryName, <<Five>>), Field(RetryName, <<X>>)}
IdleLines == {<<Colon, X>>, <<X>>, <<X, Colon>>}

AllLines == EmptyLines \cup DataLines \cup BadLines \cup IdLines \cup TypeLines
              \cup RetryLines \cup IdleLines

FewLines == {<<>>, DataName, Field(DataName, <<X>>), Field(DataName, <<Bad>>),
             Field(IdName, <<X>>)}

Boms == {<<>>, BOM, <<EF>>, <<EF, BB>>, <<EF, BB, X>>, BOM \o BOM}

\* Up to n lines of the given ones, each with its end.
Bodies(lines, ends, n) ==
  {FlattenSeq(s) : s \in SeqOf({l \o e : l \in lines, e \in ends}, n)}

Cat(S, T) == {s \o t : s \in S, t \in T}

-----------------------------------------------------------------------------
\* The texts that are cut into chunks.

\* Every line end and an unfinished line, after every kind of first bytes.
CutWires ==
  Cat(Boms, Cat(Bodies({<<>>, DataName, Field(IdName, <<X>>)}, {<<CR>>, <<CR, LF>>}, 2),
                {<<>>, <<X>>}))
    \cup Cat(Bodies(FewLines, {<<LF>>}, 3), {<<LF>>, <<CR>>})

\* Few bytes of all kinds, in any order.
LooseWires == Cat(Boms, SeqOf({CR, LF}, 3)) \cup SeqOf({CR, LF, I, EF}, 4)

CutAndLooseWires == CutWires \cup LooseWires

ClientIds == {<<A>>}
NoIds == {}
=============================================================================
