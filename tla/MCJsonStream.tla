---------------------------- MODULE MCJsonStream ----------------------------
(***************************************************************************)
(* Instances of JsonStream, and what the documentation says of its kinds.  *)
(***************************************************************************)
EXTENDS JsonStream, MCText

\* The letter X is a value, with or without a line feed beside it, which is white
\* space; X and what follows it begins with one.
MCJsons == {<<X>>, <<X, LF>>, <<LF, X>>}
MCJsonStarts == MCJsons \cup {<<X, A>>, <<X, LF, X>>, <<X, LF, X, A>>, <<X, A, LF, X>>,
                              <<X, A, LF>>, <<LF, X, A>>, <<X, A, LF, X, A>>}

\* Values, texts with more than a value, texts that are none, and lines in between.
JsonLines == {<<>>, Field(DataName, <<X>>), Field(DataName, <<X, A>>), DataName,
              Field(DataName, <<Bad>>)}

Begun == {DataName \o <<Colon, X, LF, LF>>, DataName \o <<LF, LF>>}

JsonWires == Cat(Begun, Bodies(JsonLines, {<<LF>>}, 2))
               \cup {Field(DataName, <<X>>) \o <<CR, CR>>, <<>>, <<EF>>}

-----------------------------------------------------------------------------
(***************************************************************************)
(* JsonStream "lets you choose between the default errors or               *)
(* serde_path_to_error for richer errors" (lib.rs:99): the choice is one   *)
(* of errors, and what the one hands out as a value the other does too.    *)
(***************************************************************************)
ChoiceOfErrorsOnly ==
  \A k \in 1..Len(results) : results[k].kind = "Value" => results[k].data \in Jsons
=============================================================================
