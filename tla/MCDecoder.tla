----------------------------- MODULE MCDecoder -----------------------------
(***************************************************************************)
(* The decoder beside its reference, on texts of every kind.               *)
(***************************************************************************)
EXTENDS SseReference, MCText

\* Every kind of line, blocks that depend on one another, and all line ends.
LongWires ==
  Cat(Bodies(AllLines, {<<LF>>}, 3), {<<>>, <<LF>>})
    \cup Bodies({<<>>, DataName, Field(IdName, <<X>>), IdName, Field(DataName, <<Bad>>)},
                {<<LF>>}, 5)
    \cup Cat(Boms, Cat(Bodies({<<>>, DataName, Field(DataName, <<X>>)}, Ends, 3),
                       {<<>>, <<X>>}))
=============================================================================
