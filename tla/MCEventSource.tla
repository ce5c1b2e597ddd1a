--------------------------- MODULE MCEventSource ---------------------------
(***************************************************************************)
(* Instances of EventSource, and what comments of the code say of it.      *)
(***************************************************************************)
EXTENDS EventSource, MCText

Exponential(start, maxDuration, maxRetries) ==
  [kind |-> "Exponential", start |-> start, factor |-> 2,
   maxDuration |-> maxDuration, maxRetries |-> maxRetries]

Constant(delay, maxRetries) ==
  [kind |-> "Constant", start |-> delay, factor |-> 0,
   maxDuration |-> None, maxRetries |-> maxRetries]

Never == [kind |-> "Never", start |-> 0, factor |-> 0,
          maxDuration |-> None, maxRetries |-> None]

\* Doubled once a time of the server, 5, is a duration; doubled twice it is none.
MCDurationMax == 12

\* The id X is no header value.
MCHeaderIds == {<<>>, <<A>>}

SourceLines == {<<>>, DataName, IdName, Field(IdName, <<A>>), Field(IdName, <<X>>),
                Field(RetryName, <<Five>>), Field(DataName, <<Bad>>)}

Limited == {Exponential(1, 4, 3), Constant(1, 4), Constant(1, 0), Never}
Unlimited == {Exponential(1, None, None), Exponential(1, 2, None),
              Exponential(3, 2, None), Constant(1, None)}
AllPolicies == Limited \cup Unlimited

-----------------------------------------------------------------------------
\* Lines that set an id, and none that empties it.
IdfulLines == {<<>>, DataName, Field(IdName, <<A>>)}

Patient == {Constant(1, None)}
NoRetries == {Constant(1, 0)}

(***************************************************************************)
(* The loop "while let Some(result) = event_source.next().await"           *)
(* (README.md:14) polls on after any item, an error too, and a future is   *)
(* not polled after it has completed.                                      *)
(***************************************************************************)
NeverPollsDoneFuture == conn # "Undefined"

(***************************************************************************)
(* The last event id "remains set to this value until the next time it is  *)
(* set by the server" (event_stream.rs:136): where no line empties the id, *)
(* it is never empty again, over whatever connections.                     *)
(***************************************************************************)
LastIdRemains == [][lastEventId # <<>> => lastEventId' # <<>>]_vars

(***************************************************************************)
(* max_retries is "The maximum number of retries before giving up"         *)
(* (retry.rs:26, 77).                                                      *)
(***************************************************************************)
AtMostMaxRetries == policy.maxRetries # None => retries <= policy.maxRetries
=============================================================================
