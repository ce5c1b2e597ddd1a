---------------------------- MODULE EventSource ----------------------------
(***************************************************************************)
(* EventSource of sseer (src/reqwest.rs): a stream of events over requests *)
(* that are repeated when a connection breaks.  Each open connection has   *)
(* an event stream of its own, which is seen here line by line; the        *)
(* network and the server may answer, fail or stop at any point.           *)
(***************************************************************************)
EXTENDS EventBuilder, RetryPolicy

CONSTANTS
  Lines,           \* the lines a server may send
  HeaderIds,       \* the ids that HeaderValue::from_str accepts
  Policies,        \* the policies a client may choose
  MaxLines,        \* bound: lines of one connection
  MaxRetries       \* bound: retries in all

ASSUME SourceAssumption ==
  /\ Lines \subseteq Str
  /\ HeaderIds \subseteq Str /\ <<>> \in HeaderIds
  /\ Policies \subseteq Policy
  /\ MaxLines \in Nat /\ MaxRetries \in Nat

VARIABLES
  conn,          \* ConnectionState
  done,          \* in Connecting: the future has returned its response
  retry,         \* retry_state, in Retrying attempt_number and delay_duration
  lastEventId,
  policy,
  builder,       \* in Open: the event being received
  ret,           \* what the last poll returned
  error,         \* the kind of the last EventSourceError
  sent,          \* the last-event-id of the last request, None in the first
  received,      \* history: the lines of this connection
  delivered,     \* history: the id of the last event handed out
  retries,       \* history: the number of retries begun
  chosen         \* history: the policy as the client made it

vars == <<conn, done, retry, lastEventId, policy, builder, ret, error, sent,
          received, delivered, retries, chosen>>

Init ==
  /\ conn = "Connecting" /\ done = FALSE
  /\ retry = None
  /\ lastEventId = <<>>
  /\ chosen \in Policies /\ policy = chosen
  /\ builder = EmptyBuilder
  /\ ret = "pending"
  /\ error = None
  /\ sent = None
  /\ received = <<>>
  /\ delivered = None
  /\ retries = 0

-----------------------------------------------------------------------------
(***************************************************************************)
(* EventSourceErrorKind, without what the errors carry.                    *)
(***************************************************************************)
ErrorKind == {"InvalidLastEventId", "Transport", "Stream", "InvalidStatusCode",
              "InvalidContentType", "StreamEnded"}

\* Wrong: a response of another type is not counted as a bad response.
IsResponseErrByStatus(kind) == kind = "InvalidStatusCode"

IsResponseErr(kind) == kind \in {"InvalidStatusCode", "InvalidContentType"}

\* The error that a poll returns, unless it panicked.
Returns(kind) == error' = IF conn' = "Panicked" THEN error ELSE kind

-----------------------------------------------------------------------------
\* Connecting: the response is good, bad, or there is none.

\* Wrong: the new connection goes on with the event of the broken one.
ConnectOkKeepsEvent ==
  /\ conn = "Connecting" /\ ~done
  /\ conn' = "Open"
  /\ received' = <<>>
  /\ ret' = "open"
  /\ UNCHANGED <<done, retry, lastEventId, policy, builder, error, sent, delivered,
                 retries, chosen>>

ConnectOk ==
  /\ conn = "Connecting" /\ ~done
  /\ conn' = "Open"
  /\ builder' = EmptyBuilder
  /\ received' = <<>>
  /\ ret' = "open"
  /\ UNCHANGED <<done, retry, lastEventId, policy, error, sent, delivered, retries, chosen>>

ConnectBadResponse ==
  /\ conn = "Connecting" /\ ~done
  /\ done' = TRUE
  /\ ret' = "error"
  /\ error' \in {"InvalidStatusCode", "InvalidContentType"}
  /\ UNCHANGED <<conn, retry, lastEventId, policy, builder, sent, received,
                 delivered, retries, chosen>>

ConnectFails ==
  /\ conn = "Connecting" /\ ~done
  /\ conn' = "Closed"
  /\ ret' = "error"
  /\ error' = "Transport"
  /\ UNCHANGED <<done, retry, lastEventId, policy, builder, sent, received,
                 delivered, retries, chosen>>

\* A poll after a bad response polls a future that has completed.
PollCompleted ==
  /\ conn = "Connecting" /\ done
  /\ conn' = "Undefined"
  /\ UNCHANGED <<done, retry, lastEventId, policy, builder, ret, error, sent, received,
                 delivered, retries, chosen>>

-----------------------------------------------------------------------------
\* handle_error, with the builder that the error leaves behind.

\* Wrong: the attempts are counted from the first one again.
HandleErrorUncounted ==
  LET delay == Retry(policy, retry)
  IN  /\ conn' = CASE delay = Overflow -> "Panicked"
                   [] delay = None     -> "Closed"
                   [] OTHER            -> "Retrying"
      /\ IF delay \in Nat
         THEN retry' = [num |-> 1, delay |-> delay] /\ retries' = retries + 1
         ELSE UNCHANGED <<retry, retries>>
      /\ ret' = IF delay = Overflow THEN ret ELSE "error"
      /\ UNCHANGED <<done, lastEventId, policy, builder, sent, received,
                     delivered, chosen>>

HandleError ==
  LET delay == Retry(policy, retry)
  IN  /\ conn' = CASE delay = Overflow -> "Panicked"
                   [] delay = None     -> "Closed"
                   [] OTHER            -> "Retrying"
      /\ IF delay \in Nat
         THEN /\ retry' = [num |-> IF retry = None THEN 1 ELSE retry.num, delay |-> delay]
              /\ retries' = retries + 1
         ELSE UNCHANGED <<retry, retries>>
      /\ ret' = IF delay = Overflow THEN ret ELSE "error"
      /\ UNCHANGED <<done, lastEventId, policy, builder, sent, received,
                     delivered, chosen>>

\* Wrong: an event without an id leaves the last one in place.
HandleEventSkipsEmpty(event) ==
  /\ lastEventId' = IF event.id = <<>> THEN lastEventId ELSE event.id
  /\ policy' = IF event.retry = None THEN policy
               ELSE SetReconnectionTime(policy, event.retry)

HandleEvent(event) ==
  /\ lastEventId' = event.id
  /\ policy' = IF event.retry = None THEN policy
               ELSE SetReconnectionTime(policy, event.retry)

\* Open: a line of the server, which may end an event or be no UTF-8.
StreamLine(line) ==
  /\ conn = "Open"
  /\ Len(received) < MaxLines
  /\ LET step == ParseStep(builder, line)
     IN  CASE step.item = Utf8Error -> HandleError /\ Returns("Stream")
           [] step.item = None ->
                /\ builder' = step.builder
                /\ received' = Append(received, line)
                /\ UNCHANGED <<conn, done, retry, lastEventId, policy, ret, error, sent,
                               delivered, retries, chosen>>
           [] OTHER ->
                /\ HandleEvent(step.item)
                /\ builder' = step.builder
                /\ received' = Append(received, line)
                /\ delivered' = step.item.id
                /\ ret' = "event"
                /\ UNCHANGED <<conn, done, retry, error, sent, retries, chosen>>

\* The stream of the connection ends, or fails.
StreamStops ==
  /\ conn = "Open"
  /\ HandleError
  /\ \E kind \in {"Stream", "StreamEnded"} : Returns(kind)

\* Wrong: the request names the event that was being received.
InitiateConnectionEager ==
  /\ conn' = "Connecting" /\ done' = FALSE /\ sent' = builder.id
  /\ UNCHANGED <<ret, error>>

\* initiate_connection: the header is made before the request.
InitiateConnection ==
  IF lastEventId \in HeaderIds
  THEN /\ conn' = "Connecting" /\ done' = FALSE /\ sent' = lastEventId
       /\ UNCHANGED <<ret, error>>
  ELSE /\ conn' = "Closed" /\ ret' = "error" /\ error' = "InvalidLastEventId"
       /\ UNCHANGED <<done, sent>>

\* Retrying: the delay is over.
DelayFires ==
  /\ conn = "Retrying"
  /\ retries <= MaxRetries
  /\ retry' = [retry EXCEPT !.num = @ + 1]
  /\ InitiateConnection
  /\ UNCHANGED <<lastEventId, policy, builder, received, delivered, retries, chosen>>

PollClosed ==
  /\ conn = "Closed"
  /\ ret' = "none"
  /\ UNCHANGED <<conn, done, retry, lastEventId, policy, builder, error, sent, received,
                 delivered, retries, chosen>>

Next ==
  \/ ConnectOk
  \/ ConnectBadResponse
  \/ ConnectFails
  \/ PollCompleted
  \/ \E line \in Lines : StreamLine(line)
  \/ StreamStops
  \/ DelayFires
  \/ PollClosed

Spec == Init /\ [][Next]_vars

(***************************************************************************)
(* A pending request is answered or fails, a stream ends or fails after    *)
(* its lines, delays end, and the consumer polls on.                       *)
(***************************************************************************)
FairSpec == Spec /\ WF_vars(Next)

-----------------------------------------------------------------------------
TypeOK ==
  /\ conn \in {"Connecting", "Retrying", "Open", "Closed", "Undefined", "Panicked"}
  /\ done \in BOOLEAN
  /\ retry \in Option(Attempt)
  /\ conn = "Retrying" => retry # None
  /\ lastEventId \in Str
  /\ policy \in Policy
  /\ builder \in Builder /\ ~builder.isComplete
  /\ ret \in {"pending", "open", "event", "error", "none"}
  /\ error \in Option(ErrorKind)
  /\ sent \in Option(Str)
  /\ received \in Seq(Lines)
  /\ delivered \in Option(Str)
  /\ retries \in Nat
  /\ chosen \in Policies

(***************************************************************************)
(* A request that is repeated names the last event that was handed out,    *)
(* over however many connections (reqwest.rs:116, 183), so the server can  *)
(* go on after it.                                                         *)
(***************************************************************************)
ResumesFromLastEvent ==
  sent # None /\ conn = "Connecting" => sent = UnwrapOrEmpty(delivered)

(***************************************************************************)
(* With a limit N the source retries N-1 times, but once if that is less:  *)
(* the number a policy is asked with (reqwest.rs:172, 423) is one ahead of *)
(* the retries made, and the first one is not counted.  Never retries      *)
(* never.                                                                  *)
(***************************************************************************)
RetryBudget ==
  /\ policy.kind = "Never" => retries = 0
  /\ policy.maxRetries # None => retries <= Larger(1, policy.maxRetries - 1)

(***************************************************************************)
(* An exponential backoff with a longest delay keeps to it in every retry  *)
(* but the first (retry.rs:53), whatever times the server asks for.        *)
(***************************************************************************)
DelayBounded ==
  conn = "Retrying" /\ policy.kind = "Exponential" /\ policy.maxDuration # None =>
    \/ retry.delay <= policy.maxDuration
    \/ retries = 1 /\ retry.delay = policy.start

(***************************************************************************)
(* An exponential backoff never shortens its delay from one retry to the   *)
(* next, if its first delay is within its longest and its factor is no     *)
(* zero: a time asked for by the server that is beyond the longest delay   *)
(* moves that along (retry.rs:66).                                         *)
(***************************************************************************)
Grows(p) == /\ p.kind = "Exponential" /\ p.factor >= 1
            /\ p.maxDuration # None => p.start <= p.maxDuration

NeverShrinks ==
  [][conn = "Open" /\ conn' = "Retrying" /\ retry # None /\ Grows(chosen)
       => retry'.delay >= retry.delay]_vars

(***************************************************************************)
(* What a connection received of an event dies with it (reqwest.rs:151):   *)
(* data in the builder came over this connection, in a line since its last *)
(* empty one.                                                              *)
(***************************************************************************)
NothingLeaksIn ==
  conn = "Open" /\ builder.data # None =>
    \E k \in 1..Len(received) :
      /\ ParseLineFromBuffer(received[k]).name = DataName
      /\ \A j \in k..Len(received) : received[j] # <<>>

(***************************************************************************)
(* A policy with a longest delay never overflows a duration, whatever the  *)
(* server asks for and however long it retries (retry.rs:51), where a      *)
(* longest and a first delay times the factor are durations.               *)
(***************************************************************************)
CappedNeverPanics == conn = "Panicked" => policy.maxDuration = None

(***************************************************************************)
(* A source closes for one of three reasons (reqwest.rs:175, 412, 425): a  *)
(* request failed, the id of the last event is no header value, or a       *)
(* stream stopped with all the retries of the policy made, over however    *)
(* many connections.                                                       *)
(***************************************************************************)
RetriesUsedUp ==
  \/ policy.kind = "Never"
  \/ policy.maxRetries # None /\ retries >= Larger(1, policy.maxRetries - 1)

ClosesForCause ==
  [][conn # "Closed" /\ conn' = "Closed" =>
       \/ conn = "Connecting" /\ error' = "Transport"
       \/ conn = "Retrying" /\ UnwrapOrEmpty(delivered) \notin HeaderIds
       \/ conn = "Open" /\ RetriesUsedUp]_vars

(***************************************************************************)
(* An error tells the consumer what the source does next.  After a bad     *)
(* response, and then alone, it must not be polled (reqwest.rs:404), so a  *)
(* loop that ends at is_response_err (lib.rs:35) is right to; after a      *)
(* failed request or an unusable id it is closed; after a stream it may    *)
(* go on.                                                                  *)
(***************************************************************************)
BadResponse == (done /\ conn = "Connecting") \/ conn = "Undefined"

ErrorTellsFate ==
  /\ BadResponse => ret = "error" /\ IsResponseErr(error)
  /\ ret = "error" =>
       \/ IsResponseErr(error) /\ BadResponse
       \/ error \in {"Transport", "InvalidLastEventId"} /\ conn = "Closed"
       \/ error \in {"Stream", "StreamEnded"} /\ conn \in {"Retrying", "Connecting", "Closed"}

(***************************************************************************)
(* A source whose policy has a limit, or never retries, comes to its end   *)
(* (reqwest.rs:394-457), which is None, unless a bad response was polled   *)
(* again.                                                                  *)
(***************************************************************************)
GivesUp ==
  chosen.kind = "Never" \/ chosen.maxRetries # None =>
    <>[](ret = "none" \/ conn \in {"Undefined", "Panicked"})
=============================================================================
