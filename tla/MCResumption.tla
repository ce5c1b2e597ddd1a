---------------------------- MODULE MCResumption ----------------------------
(***************************************************************************)
(* Logs for Resumption: events that all have ids, some that have none, and *)
(* ids that the parser, the builder or the header do not take.             *)
(***************************************************************************)
EXTENDS Resumption, MCText

MCHeaderIds == {<<>>, <<A>>, <<E>>, <<I>>}

MCPolicies == {[kind |-> "Constant", start |-> 1, factor |-> 0,
                maxDuration |-> None, maxRetries |-> None]}

MCDurationMax == 12

LogIds == {None, <<>>, <<A>>, <<E>>, <<I, Nul>>, <<X>>}

\* The k-th event has the k-th letter for its data.
LogData == <<<<A>>, <<E>>, <<X, Colon>>>>

MCLogs ==
  {[k \in 1..Len(ids) |-> [id |-> ids[k], data |-> LogData[k]]] :
     ids \in {s \in [1..3 -> LogIds] :
                \A j, k \in 1..3 : j = k \/ s[j] = None \/ s[j] # s[k]}
             \cup {<<<<A>>, <<E>>, <<I>>>>}}

LogLines == {<<>>} \cup {WrittenField(IdName, i) : i \in (LogIds \cup {<<I>>}) \ {None}}
              \cup {WrittenField(DataName, LogData[k]) : k \in 1..3}
=============================================================================
