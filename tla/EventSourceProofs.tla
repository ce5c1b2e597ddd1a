------------------------- MODULE EventSourceProofs -------------------------
(***************************************************************************)
(* EventSource keeps its types, retries as often as its policy allows and  *)
(* resumes after the last event it handed out, for every set of lines,     *)
(* header values and policies.  With a server that resumes, it hands out   *)
(* no event before all that precede it, and each exactly once if all have  *)
(* ids, for every log, every policy and however often the connection       *)
(* breaks.                                                                 *)
(***************************************************************************)
EXTENDS Resumption, EventBuilderProofs

-----------------------------------------------------------------------------
\* What the three policies have in common.
LEMMA RetryOfKind ==
  ASSUME NEW p \in Policy, NEW last
  PROVE  /\ p.kind \in {"Exponential", "Constant", "Never"}
         /\ p.kind = "Never" => Retry(p, last) = None
         /\ p.kind # "Never" /\ last = None => Retry(p, last) = p.start
         /\ p.kind # "Never" /\ last # None =>
              Retry(p, last) = IF ~Allows(p, last) THEN None
                               ELSE IF p.kind = "Constant" THEN p.start
                               ELSE Cap(p, MulF64(last.delay, p.factor))
BY DEF Policy, Retry, BackoffRetry, ConstantRetry

\* A policy answers with a delay, with None, or with a panic.
LEMMA RetryType ==
  ASSUME NEW p \in Policy, NEW last \in Option(Attempt)
  PROVE  Retry(p, last) \in Nat \cup {None, Overflow}
<1>1. last # None => last.num \in Nat /\ last.delay \in Nat
  BY DEF Option, Attempt
<1>2. p.start \in Nat /\ p.factor \in Nat /\ p.maxDuration \in Option(Nat)
  BY DEF Policy
<1>3. ASSUME last # None
      PROVE  MulF64(last.delay, p.factor) \in Nat \cup {Overflow}
  <2>1. last.delay * p.factor \in Nat
    BY <1>1, <1>2, <1>3
  <2>2. QED
    BY <2>1 DEF MulF64
<1>4. ASSUME NEW d \in Nat \cup {Overflow}
      PROVE  Cap(p, d) \in Nat \cup {Overflow}
  BY <1>2 DEF Cap, Smaller, Option
<1>5. CASE p.kind = "Never"
  BY <1>5, RetryOfKind
<1>6. CASE p.kind # "Never" /\ last = None
  BY <1>2, <1>6, RetryOfKind
<1>7. CASE p.kind # "Never" /\ last # None
  BY <1>2, <1>3, <1>4, <1>7, RetryOfKind
<1>8. QED
  BY <1>5, <1>6, <1>7

\* A policy that allows a retry answers with a delay or a panic, not with None.
LEMMA RetryAllowed ==
  ASSUME NEW p \in Policy, NEW last \in Attempt, p.kind # "Never", last # None,
         Allows(p, last)
  PROVE  Retry(p, last) # None
<1>1. last.num \in Nat /\ last.delay \in Nat
  BY DEF Attempt
<1>2. p.start \in Nat /\ p.factor \in Nat /\ p.maxDuration \in Option(Nat)
  BY DEF Policy
<1>3. Retry(p, last) = IF p.kind = "Constant" THEN p.start
                       ELSE Cap(p, MulF64(last.delay, p.factor))
  BY RetryOfKind
<1>4. last.delay * p.factor \in Nat
  BY <1>1, <1>2
<1>5. MulF64(last.delay, p.factor) \in Nat \cup {Overflow}
  BY <1>4 DEF MulF64
<1>6. Cap(p, MulF64(last.delay, p.factor)) # None
  BY <1>2, <1>5, NoneAssumption, DurationAssumption DEF Cap, Smaller, Option
<1>7. QED
  BY <1>2, <1>3, <1>6, NoneAssumption

\* What a time of the server does to the three.
LEMMA ReconnectionType ==
  ASSUME NEW p \in Policy, NEW d \in Nat
  PROVE  /\ SetReconnectionTime(p, d) \in Policy
         /\ SetReconnectionTime(p, d).kind = p.kind
         /\ SetReconnectionTime(p, d).factor = p.factor
         /\ SetReconnectionTime(p, d).maxRetries = p.maxRetries
         /\ SetReconnectionTime(p, d).start = IF p.kind = "Never" THEN p.start ELSE d
         /\ SetReconnectionTime(p, d).maxDuration =
              IF p.kind = "Exponential" /\ p.maxDuration # None
              THEN Larger(p.maxDuration, d) ELSE p.maxDuration
         /\ (SetReconnectionTime(p, d).maxDuration = None) <=> (p.maxDuration = None)
<1>1. p.maxDuration # None => Larger(p.maxDuration, d) \in Nat
  BY DEF Policy, Option, Larger
<1>2. None \notin Nat
  BY NoneAssumption
<1>3. p.kind \in {"Exponential", "Constant", "Never"}
  BY DEF Policy
<1>4. CASE p.kind = "Exponential"
  <2>1. SetReconnectionTime(p, d) = BackoffReconnectionTime(p, d)
    BY <1>4 DEF SetReconnectionTime
  <2>2. QED
    BY <1>1, <1>2, <1>4, <2>1 DEF BackoffReconnectionTime, Policy, Option
<1>5. CASE p.kind = "Constant"
  <2>1. SetReconnectionTime(p, d) = ConstantReconnectionTime(p, d)
    BY <1>5 DEF SetReconnectionTime
  <2>2. QED
    BY <1>5, <2>1 DEF ConstantReconnectionTime, Policy
<1>6. CASE p.kind = "Never"
  <2>1. SetReconnectionTime(p, d) = p
    BY <1>6 DEF SetReconnectionTime
  <2>2. QED
    BY <1>6, <2>1
<1>7. QED
  BY <1>3, <1>4, <1>5, <1>6

\* What an event does to the policy.
LEMMA EventType ==
  ASSUME NEW event \in Event, policy \in Policy, HandleEvent(event)
  PROVE  /\ lastEventId' = event.id /\ lastEventId' \in Str
         /\ policy' \in Policy
         /\ policy'.kind = policy.kind
         /\ policy'.factor = policy.factor
         /\ policy'.maxRetries = policy.maxRetries
         /\ (policy'.maxDuration = None) <=> (policy.maxDuration = None)
<1>1. event.id \in Str /\ (event.retry # None => event.retry \in Nat)
  BY DEF Event, Option
<1>2. QED
  BY <1>1, ReconnectionType DEF HandleEvent

\* The ways a line can go.
LEMMA LineCases ==
  ASSUME TypeOK, NEW line \in Lines, StreamLine(line)
  PROVE  \/ HandleError
         \/ /\ builder' \in Builder /\ ~builder'.isComplete
            /\ received' = Append(received, line)
            /\ UNCHANGED <<conn, done, retry, lastEventId, policy, ret, sent,
                           delivered, retries, chosen>>
         \/ \E event \in Event :
              /\ HandleEvent(event)
              /\ builder' \in Builder /\ ~builder'.isComplete
              /\ received' = Append(received, line)
              /\ delivered' = event.id
              /\ ret' = "event"
              /\ UNCHANGED <<conn, done, retry, sent, retries, chosen>>
<1> DEFINE step == ParseStep(builder, line)
<1>1. step.builder \in Builder /\ ~step.builder.isComplete /\ step.item \in Item \cup {None}
  BY SourceAssumption, ParseStepType DEF TypeOK
<1>0. /\ step.item = Utf8Error => HandleError
      /\ step.item # Utf8Error =>
           /\ builder' = step.builder
           /\ received' = Append(received, line)
      /\ step.item # Utf8Error /\ step.item = None =>
           UNCHANGED <<conn, done, retry, lastEventId, policy, ret, sent,
                       delivered, retries, chosen>>
      /\ step.item # Utf8Error /\ step.item # None =>
           /\ HandleEvent(step.item)
           /\ delivered' = step.item.id
           /\ ret' = "event"
           /\ UNCHANGED <<conn, done, retry, sent, retries, chosen>>
  BY BuilderAssumption DEF StreamLine
<1> HIDE DEF step
<1>2. CASE step.item = Utf8Error
  BY <1>0, <1>2
<1>3. CASE step.item # Utf8Error /\ step.item = None
  BY <1>0, <1>1, <1>3
<1>4. CASE step.item # Utf8Error /\ step.item # None
  <2>1. step.item \in Event
    BY <1>1, <1>4 DEF Item
  <2>2. HandleEvent(step.item) /\ builder' = step.builder /\ received' = Append(received, line)
        /\ delivered' = step.item.id /\ ret' = "event"
        /\ UNCHANGED <<conn, done, retry, sent, retries, chosen>>
    BY <1>0, <1>4
  <2>3. QED
    BY <1>1, <2>1, <2>2
<1>5. QED
  BY <1>2, <1>3, <1>4

\* The ways an error can go.
LEMMA ErrorCases ==
  ASSUME TypeOK, HandleError
  PROVE  LET delay == Retry(policy, retry)
         IN  /\ UNCHANGED <<done, lastEventId, policy, builder, sent, received,
                            delivered, chosen>>
             /\ ret' \in {ret, "error"}
             /\ \/ /\ delay \in Nat /\ conn' = "Retrying"
                   /\ retry' = [num |-> IF retry = None THEN 1 ELSE retry.num,
                                delay |-> delay]
                   /\ retries' = retries + 1
                \/ delay = None /\ conn' = "Closed" /\ UNCHANGED <<retry, retries>>
                \/ delay = Overflow /\ conn' = "Panicked" /\ UNCHANGED <<retry, retries>>
<1> DEFINE delay == Retry(policy, retry)
<1>1. delay \in Nat \cup {None, Overflow}
  BY RetryType DEF TypeOK
<1>2. None \notin Nat /\ Overflow \notin Nat /\ Overflow # None
  BY NoneAssumption, DurationAssumption
<1> HIDE DEF delay
<1>3. /\ conn' = CASE delay = Overflow -> "Panicked"
                   [] delay = None     -> "Closed"
                   [] OTHER            -> "Retrying"
      /\ IF delay \in Nat
         THEN /\ retry' = [num |-> IF retry = None THEN 1 ELSE retry.num, delay |-> delay]
              /\ retries' = retries + 1
         ELSE UNCHANGED <<retry, retries>>
      /\ ret' = IF delay = Overflow THEN ret ELSE "error"
      /\ UNCHANGED <<done, lastEventId, policy, builder, sent, received, delivered, chosen>>
  BY DEF HandleError, delay
<1>4. CASE delay \in Nat
  BY <1>2, <1>3, <1>4 DEF delay
<1>5. CASE delay = None
  BY <1>2, <1>3, <1>5 DEF delay
<1>6. CASE delay = Overflow
  BY <1>2, <1>3, <1>6 DEF delay
<1>7. QED
  BY <1>1, <1>4, <1>5, <1>6

\* Whatever a step does, the error it leaves is one of the kinds, or none yet.
LEMMA ErrorType ==
  ASSUME TypeOK, [Next]_vars
  PROVE  error' \in Option(ErrorKind)
<1>1. \A kind \in ErrorKind : Returns(kind) => error' \in Option(ErrorKind)
  BY DEF Returns, TypeOK, Option
<1>2. {"Stream", "StreamEnded", "Transport", "InvalidStatusCode", "InvalidContentType",
       "InvalidLastEventId"} \subseteq ErrorKind
  BY DEF ErrorKind
<1>3. CASE ConnectOk \/ PollCompleted \/ PollClosed \/ UNCHANGED vars
  BY <1>3 DEF ConnectOk, PollCompleted, PollClosed, vars, TypeOK
<1>4. CASE ConnectBadResponse \/ ConnectFails
  BY <1>2, <1>4 DEF ConnectBadResponse, ConnectFails, Option
<1>5. ASSUME NEW line \in Lines, StreamLine(line)
      PROVE  error' = error \/ Returns("Stream")
  BY <1>5 DEF StreamLine
<1>6. CASE \E line \in Lines : StreamLine(line)
  BY <1>1, <1>2, <1>5, <1>6 DEF TypeOK
<1>7. CASE StreamStops
  BY <1>1, <1>2, <1>7 DEF StreamStops
<1>8. CASE DelayFires
  BY <1>2, <1>8 DEF DelayFires, InitiateConnection, TypeOK, Option
<1>9. QED
  BY <1>3, <1>4, <1>6, <1>7, <1>8 DEF Next

-----------------------------------------------------------------------------
LEMMA SourceTypeInductive ==
  /\ Init => TypeOK
  /\ TypeOK /\ [Next]_vars => TypeOK'
<1>1. Init => TypeOK
  <2>1. EmptyBuilder \in Builder /\ ~EmptyBuilder.isComplete /\ <<>> \in Str
    BY EmptySeq DEF EmptyBuilder, Builder, Option, Str
  <2>2. <<>> \in Seq(Lines) /\ Policies \subseteq Policy
    BY EmptySeq, SourceAssumption
  <2> SUFFICES ASSUME Init
               PROVE  TypeOK
    OBVIOUS
  <2>3. /\ conn = "Connecting" /\ done = FALSE /\ ret = "pending" /\ retries = 0
        /\ builder \in Builder /\ ~builder.isComplete
        /\ lastEventId \in Str /\ received \in Seq(Lines)
        /\ retry = None /\ sent = None /\ delivered = None /\ error = None
        /\ chosen \in Policies /\ policy \in Policy
    BY <2>1, <2>2 DEF Init
  <2>4. retry \in Option(Attempt) /\ sent \in Option(Str) /\ delivered \in Option(Str)
        /\ error \in Option(ErrorKind)
    BY <2>3 DEF Option
  <2>5. QED
    BY <2>3, <2>4 DEF TypeOK
<1>2. TypeOK /\ [Next]_vars => TypeOK'
  <2> SUFFICES ASSUME TypeOK, [Next]_vars
               PROVE  TypeOK'
    OBVIOUS
  <2>0. error' \in Option(ErrorKind)
    BY ErrorType
  <2>1. CASE ConnectOk
    <3>1. EmptyBuilder \in Builder /\ ~EmptyBuilder.isComplete /\ <<>> \in Seq(Lines)
      BY EmptySeq DEF EmptyBuilder, Builder, Option, Str
    <3>2. QED
      BY <2>0, <2>1, <3>1 DEF ConnectOk, TypeOK
  <2>2. CASE ConnectBadResponse
    BY <2>0, <2>2 DEF ConnectBadResponse, TypeOK
  <2>3. CASE ConnectFails
    BY <2>0, <2>3 DEF ConnectFails, TypeOK
  <2>4. CASE PollCompleted
    BY <2>0, <2>4 DEF PollCompleted, TypeOK
  <2>5. CASE HandleError
    <3>1. retry # None => retry.num \in Nat
      BY DEF TypeOK, Option, Attempt
    <3>2. \A d \in Nat : [num |-> IF retry = None THEN 1 ELSE retry.num, delay |-> d]
                           \in Attempt
      BY <3>1 DEF Attempt
    <3>0. None \notin Attempt
      BY AttemptAssumption
    <3>3. /\ retries' \in Nat /\ retry' \in Option(Attempt)
          /\ conn' \in {"Retrying", "Closed", "Panicked"}
          /\ conn' = "Retrying" => retry' # None
      <4> DEFINE d == Retry(policy, retry)
      <4>1. /\ d \in Nat => conn' = "Retrying" /\ retries' = retries + 1
                 /\ retry' = [num |-> IF retry = None THEN 1 ELSE retry.num, delay |-> d]
            /\ d \notin Nat => conn' \in {"Closed", "Panicked"}
                                 /\ UNCHANGED <<retry, retries>>
        BY <2>5, ErrorCases, NoneAssumption, DurationAssumption
      <4> HIDE DEF d
      <4>2. CASE d \in Nat
        BY <3>2, <3>0, <4>1, <4>2 DEF TypeOK, Option
      <4>3. CASE d \notin Nat
        BY <2>0, <4>1, <4>3 DEF TypeOK
      <4>4. QED
        BY <4>2, <4>3
    <3>4. /\ UNCHANGED <<done, lastEventId, policy, builder, sent, received,
                         delivered, chosen>>
          /\ ret' \in {ret, "error"}
      BY <2>5, ErrorCases
    <3>5. QED
      BY <2>0, <3>3, <3>4 DEF TypeOK
  <2>6. ASSUME NEW line \in Lines, StreamLine(line)
        PROVE  TypeOK'
    <3>1. Append(received, line) \in Seq(Lines)
      BY DEF TypeOK
    <3>2. CASE HandleError
      BY <2>5, <3>2
    <3>3. CASE /\ builder' \in Builder /\ ~builder'.isComplete
               /\ received' = Append(received, line)
               /\ UNCHANGED <<conn, done, retry, lastEventId, policy, ret, sent,
                              delivered, retries, chosen>>
      BY <2>0, <3>1, <3>3 DEF TypeOK
    <3>4. ASSUME NEW event \in Event,
                 HandleEvent(event),
                 builder' \in Builder /\ ~builder'.isComplete,
                 received' = Append(received, line),
                 delivered' = event.id,
                 ret' = "event",
                 UNCHANGED <<conn, done, retry, sent, retries, chosen>>
          PROVE  TypeOK'
      <4>1. lastEventId' \in Str /\ policy' \in Policy /\ delivered' \in Option(Str)
        BY <3>4, EventType DEF TypeOK, Option
      <4>2. QED
        BY <2>0, <3>1, <3>4, <4>1 DEF TypeOK
    <3>5. QED
      BY <2>6, <3>2, <3>3, <3>4, LineCases
  <2>7. CASE StreamStops
    BY <2>5, <2>7 DEF StreamStops
  <2>8. CASE DelayFires
    <3>1. retry \in Attempt
      BY <2>8 DEF DelayFires, InitiateConnection, TypeOK, Option
    <3>2. [retry EXCEPT !.num = @ + 1] \in Attempt
      BY <3>1 DEF Attempt
    <3>3. /\ retry' \in Option(Attempt) /\ conn' \in {"Connecting", "Closed"}
          /\ done' \in BOOLEAN /\ sent' \in Option(Str) /\ ret' \in {ret, "error"}
      BY <2>8, <3>2 DEF DelayFires, InitiateConnection, TypeOK, Option
    <3>4. UNCHANGED <<lastEventId, policy, builder, received, delivered, retries, chosen>>
      BY <2>8 DEF DelayFires, InitiateConnection
    <3>5. QED
      BY <2>0, <3>3, <3>4 DEF TypeOK
  <2>9. CASE PollClosed
    BY <2>0, <2>9 DEF PollClosed, TypeOK
  <2>10. CASE UNCHANGED vars
    BY <2>0, <2>10 DEF vars, TypeOK
  <2>11. QED
    BY <2>1, <2>2, <2>3, <2>4, <2>6, <2>7, <2>8, <2>9, <2>10 DEF Next
<1>3. QED
  BY <1>1, <1>2

(***************************************************************************)
(* EventSource is type-correct.                                            *)
(***************************************************************************)
THEOREM SourceTypeCorrect == Spec => []TypeOK
BY SourceTypeInductive, PTL DEF Spec

-----------------------------------------------------------------------------
\* A poll that neither handles an event nor an error, nor begins a request.
Quiet ==
  /\ UNCHANGED <<retry, lastEventId, policy, sent, delivered, retries, chosen>>
  /\ conn' = conn \/ conn' \in {"Open", "Closed", "Undefined"}
  /\ conn = "Retrying" <=> conn' = "Retrying"

StreamEvents(event) ==
  /\ conn = "Open"
  /\ HandleEvent(event)
  /\ delivered' = event.id
  /\ UNCHANGED <<conn, retry, sent, retries, chosen>>

\* What the policy and the ids see of a step.
LEMMA StepCases ==
  ASSUME TypeOK, [Next]_vars
  PROVE  \/ Quiet
         \/ conn = "Open" /\ HandleError
         \/ \E event \in Event : StreamEvents(event)
         \/ DelayFires
<1>1. CASE ConnectOk \/ ConnectBadResponse \/ ConnectFails \/ PollCompleted \/ PollClosed
  BY <1>1 DEF ConnectOk, ConnectBadResponse, ConnectFails, PollCompleted, PollClosed, Quiet
<1>2. ASSUME NEW line \in Lines, StreamLine(line)
      PROVE  \/ Quiet
             \/ conn = "Open" /\ HandleError
             \/ \E event \in Event : StreamEvents(event)
  <2>1. conn = "Open"
    BY <1>2 DEF StreamLine
  <2>2. QED
    BY <1>2, <2>1, LineCases DEF Quiet, StreamEvents
<1>3. CASE StreamStops
  BY <1>3 DEF StreamStops
<1>4. CASE UNCHANGED vars
  BY <1>4 DEF vars, Quiet
<1>5. QED
  BY <1>1, <1>2, <1>3, <1>4 DEF Next

-----------------------------------------------------------------------------
(***************************************************************************)
(* The retries made are the number in the state of the last retry: that    *)
(* number while a delay runs, and one less once the request is repeated.   *)
(***************************************************************************)
Counted ==
  /\ retry = None <=> retries = 0
  /\ conn = "Retrying" => retry.num = retries
  /\ conn # "Retrying" /\ retry # None => retry.num = retries + 1

LEMMA BudgetInductive ==
  /\ Init => Counted /\ RetryBudget
  /\ TypeOK /\ Counted /\ RetryBudget /\ [Next]_vars => Counted' /\ RetryBudget'
<1>1. Init => Counted /\ RetryBudget
  <2> SUFFICES ASSUME Init
               PROVE  Counted /\ RetryBudget
    OBVIOUS
  <2>1. retry = None /\ retries = 0 /\ conn = "Connecting" /\ policy \in Policy
    BY SourceAssumption DEF Init
  <2>2. policy.maxRetries # None => policy.maxRetries \in Nat
    BY <2>1 DEF Policy, Option
  <2>3. QED
    BY <2>1, <2>2 DEF Counted, RetryBudget, Larger
<1>2. TypeOK /\ Counted /\ RetryBudget /\ [Next]_vars => Counted' /\ RetryBudget'
  <2> SUFFICES ASSUME TypeOK, Counted, RetryBudget, [Next]_vars
               PROVE  Counted' /\ RetryBudget'
    OBVIOUS
  <2>1. retries \in Nat /\ (retry # None => retry \in Attempt /\ retry.num \in Nat)
    BY DEF TypeOK, Option, Attempt
  <2>2. CASE Quiet
    BY <2>2 DEF Quiet, Counted, RetryBudget
  <2>3. CASE conn = "Open" /\ HandleError
    <3> DEFINE d == Retry(policy, retry)
    <3>1. /\ d \in Nat => conn' = "Retrying" /\ retries' = retries + 1
                 /\ retry' = [num |-> IF retry = None THEN 1 ELSE retry.num, delay |-> d]
          /\ d \notin Nat => conn' # "Retrying" /\ UNCHANGED <<retry, retries>>
          /\ policy' = policy
      BY <2>3, ErrorCases, NoneAssumption, DurationAssumption
    <3>2. CASE d \notin Nat
      BY <2>3, <3>1, <3>2 DEF Counted, RetryBudget
    <3>3. CASE d \in Nat
      <4>1. retry' # None /\ retry'.num = (IF retry = None THEN 1 ELSE retry.num)
        <5>1. (IF retry = None THEN 1 ELSE retry.num) \in Nat
          BY <2>1
        <5>2. retry' \in Attempt
          BY <3>1, <3>3, <5>1 DEF Attempt
        <5>3. QED
          BY <3>1, <3>3, <5>2, AttemptAssumption
      <4>2. retry'.num = retries' /\ retries' # 0
        BY <2>1, <2>3, <3>1, <3>3, <4>1 DEF Counted
      <4>3. policy.kind # "Never" /\ (retry # None => Allows(policy, retry))
        BY <3>3, NoneAssumption, RetryOfKind DEF TypeOK
      <4>4. policy.maxRetries # None => retries' <= Larger(1, policy.maxRetries - 1)
        <5>1. policy.maxRetries # None => policy.maxRetries \in Nat
          BY DEF TypeOK, Policy, Option
        <5>2. CASE retry = None
          BY <3>1, <3>3, <5>1, <5>2 DEF Counted, Larger
        <5>3. CASE retry # None
          <6>1. policy.maxRetries # None => retries + 1 < policy.maxRetries
            BY <2>3, <4>3, <5>3 DEF Counted, Allows
          <6>2. QED
            BY <2>1, <3>1, <3>3, <5>1, <6>1 DEF Larger
        <5>4. QED
          BY <5>2, <5>3
      <4>5. QED
        BY <3>1, <3>3, <4>1, <4>2, <4>3, <4>4 DEF Counted, RetryBudget
    <3>4. QED
      BY <3>2, <3>3
  <2>4. ASSUME NEW event \in Event, StreamEvents(event)
        PROVE  Counted' /\ RetryBudget'
    <3>1. policy'.kind = policy.kind /\ policy'.maxRetries = policy.maxRetries
      BY <2>4, EventType DEF StreamEvents, TypeOK
    <3>2. QED
      BY <2>4, <3>1 DEF StreamEvents, Counted, RetryBudget
  <2>5. CASE DelayFires
    <3>1. retry \in Attempt /\ retry.num = retries
      BY <2>1, <2>5 DEF DelayFires, InitiateConnection, TypeOK, Counted
    <3>2. /\ retry' = [retry EXCEPT !.num = @ + 1] /\ conn' # "Retrying"
          /\ UNCHANGED <<policy, retries>>
      BY <2>5 DEF DelayFires, InitiateConnection
    <3>3. retry' \in Attempt /\ retry'.num = retry.num + 1
      BY <3>1, <3>2 DEF Attempt
    <3>4. QED
      BY <2>1, <3>1, <3>2, <3>3, AttemptAssumption DEF Counted, RetryBudget
  <2>6. QED
    BY <2>2, <2>3, <2>4, <2>5, StepCases
<1>3. QED
  BY <1>1, <1>2

(***************************************************************************)
(* A source retries no more often than its policy allows.                  *)
(***************************************************************************)
THEOREM RetriesWithinBudget == Spec => []RetryBudget
<1>1. TypeOK /\ Counted /\ RetryBudget => RetryBudget
  OBVIOUS
<1>2. QED
  BY BudgetInductive, SourceTypeCorrect, PTL DEF Spec

-----------------------------------------------------------------------------
(***************************************************************************)
(* The id that the source keeps is that of the last event it handed out,   *)
(* and while a request is under way it is the one the request named.       *)
(***************************************************************************)
IdInv ==
  /\ lastEventId = UnwrapOrEmpty(delivered)
  /\ sent # None /\ conn = "Connecting" => sent = lastEventId

LEMMA IdInvInductive ==
  /\ Init => IdInv
  /\ TypeOK /\ IdInv /\ [Next]_vars => IdInv'
<1>1. Init => IdInv
  BY DEF Init, IdInv, UnwrapOrEmpty
<1>2. TypeOK /\ IdInv /\ [Next]_vars => IdInv'
  <2> SUFFICES ASSUME TypeOK, IdInv, [Next]_vars
               PROVE  IdInv'
    OBVIOUS
  <2>1. CASE Quiet
    BY <2>1 DEF Quiet, IdInv, UnwrapOrEmpty
  <2>2. CASE conn = "Open" /\ HandleError
    <3>1. conn' # "Connecting" /\ UNCHANGED <<lastEventId, delivered>>
      BY <2>2, ErrorCases
    <3>2. QED
      BY <3>1 DEF IdInv, UnwrapOrEmpty
  <2>3. ASSUME NEW event \in Event, StreamEvents(event)
        PROVE  IdInv'
    <3>1. event.id \in Str /\ event.id # None
      BY NoneAssumption DEF Event, Str
    <3>2. QED
      BY <2>3, <3>1 DEF StreamEvents, HandleEvent, IdInv, UnwrapOrEmpty
  <2>4. CASE DelayFires
    BY <2>4 DEF DelayFires, InitiateConnection, IdInv, UnwrapOrEmpty
  <2>5. QED
    BY <2>1, <2>2, <2>3, <2>4, StepCases
<1>3. QED
  BY <1>1, <1>2

(***************************************************************************)
(* A repeated request names the last event that was handed out.            *)
(***************************************************************************)
THEOREM RequestsResume == Spec => []ResumesFromLastEvent
<1>1. IdInv => ResumesFromLastEvent
  BY DEF IdInv, ResumesFromLastEvent
<1>2. QED
  BY <1>1, IdInvInductive, SourceTypeCorrect, PTL DEF Spec

-----------------------------------------------------------------------------
\* What an error does to the delay.
LEMMA DelayAfterError ==
  ASSUME TypeOK, HandleError, conn' = "Retrying"
  PROVE  /\ retry' \in Attempt /\ retry'.delay = Retry(policy, retry)
         /\ Retry(policy, retry) \in Nat
         /\ policy.kind # "Never" /\ policy' = policy /\ retries' = retries + 1
         /\ retry = None => retry'.delay = policy.start
         /\ retry # None /\ policy.kind = "Exponential" =>
              /\ retry \in Attempt
              /\ retry'.delay = Cap(policy, MulF64(retry.delay, policy.factor))
<1> DEFINE d == Retry(policy, retry)
<1>1. /\ d \in Nat /\ policy' = policy /\ retries' = retries + 1
      /\ retry' = [num |-> IF retry = None THEN 1 ELSE retry.num, delay |-> d]
  BY ErrorCases
<1>2. retry # None => retry \in Attempt /\ retry.num \in Nat
  BY DEF TypeOK, Option, Attempt
<1>3. retry' \in Attempt /\ retry'.delay = d
  <2> HIDE DEF d
  <2>1. (IF retry = None THEN 1 ELSE retry.num) \in Nat
    BY <1>2
  <2>2. QED
    BY <1>1, <2>1 DEF Attempt
<1>4. /\ policy.kind # "Never"
      /\ retry = None => d = policy.start
      /\ retry # None /\ policy.kind = "Exponential" =>
           d = Cap(policy, MulF64(retry.delay, policy.factor))
  BY <1>1, NoneAssumption, RetryOfKind DEF TypeOK
<1>5. QED
  BY <1>1, <1>2, <1>3, <1>4

\* A delay that is limited is within its limit.
LEMMA CapBounds ==
  ASSUME NEW p \in Policy, p.maxDuration # None, NEW d, Cap(p, d) \in Nat,
         d \in Nat \cup {Overflow}
  PROVE  d \in Nat /\ Cap(p, d) = Smaller(d, p.maxDuration) /\ Cap(p, d) <= p.maxDuration
<1>1. p.maxDuration \in Nat
  BY DEF Policy, Option
<1>2. d # Overflow
  BY DurationAssumption DEF Cap
<1>3. QED
  BY <1>1, <1>2 DEF Cap, Smaller

LEMMA MulType ==
  ASSUME NEW d \in Nat, NEW f \in Nat
  PROVE  /\ MulF64(d, f) \in Nat \cup {Overflow}
         /\ MulF64(d, f) \in Nat => MulF64(d, f) = d * f
<1>1. d * f \in Nat
  OBVIOUS
<1>2. QED
  BY <1>1, DurationAssumption DEF MulF64

(***************************************************************************)
(* Every delay but the first is within the longest delay.                  *)
(***************************************************************************)
THEOREM DelaysAreBounded == Spec => []DelayBounded
<1>1. Init => DelayBounded
  BY DEF Init, DelayBounded
<1>2. TypeOK /\ Counted /\ DelayBounded /\ [Next]_vars => DelayBounded'
  <2> SUFFICES ASSUME TypeOK, Counted, DelayBounded, [Next]_vars,
                      conn' = "Retrying", policy'.kind = "Exponential",
                      policy'.maxDuration # None
               PROVE  \/ retry'.delay <= policy'.maxDuration
                      \/ retries' = 1 /\ retry'.delay = policy'.start
    BY DEF DelayBounded
  <2>1. CASE Quiet
    BY <2>1 DEF Quiet, DelayBounded
  <2>2. CASE conn = "Open" /\ HandleError
    <3>1. CASE retry = None
      BY <2>2, <3>1, DelayAfterError DEF Counted
    <3>2. CASE retry # None
      <4>1. /\ policy' = policy /\ retry \in Attempt /\ retry'.delay \in Nat
            /\ retry'.delay = Cap(policy, MulF64(retry.delay, policy.factor))
        BY <2>2, <3>2, DelayAfterError
      <4>2. MulF64(retry.delay, policy.factor) \in Nat \cup {Overflow}
        BY <4>1, MulType DEF Attempt, Policy, TypeOK
      <4>3. QED
        BY <4>1, <4>2, CapBounds DEF TypeOK
    <3>3. QED
      BY <3>1, <3>2
  <2>3. ASSUME NEW event \in Event, StreamEvents(event)
        PROVE  FALSE
    BY <2>3 DEF StreamEvents
  <2>4. CASE DelayFires
    BY <2>4 DEF DelayFires, InitiateConnection
  <2>5. QED
    BY <2>1, <2>2, <2>3, <2>4, StepCases
<1>3. QED
  BY <1>1, <1>2, BudgetInductive, SourceTypeCorrect, PTL DEF Spec

-----------------------------------------------------------------------------
(***************************************************************************)
(* For a policy that was well chosen, first and last delay stay within the *)
(* longest one, which follows every time the server asks for.              *)
(***************************************************************************)
Paced ==
  /\ policy.kind = chosen.kind /\ policy.factor = chosen.factor
  /\ Grows(chosen) /\ policy.maxDuration # None =>
       /\ policy.start <= policy.maxDuration
       /\ retry # None => retry.delay <= policy.maxDuration

LEMMA PacedInductive ==
  /\ Init => Paced
  /\ TypeOK /\ Paced /\ [Next]_vars => Paced'
<1>1. Init => Paced
  BY DEF Init, Paced, Grows
<1>2. TypeOK /\ Paced /\ [Next]_vars => Paced'
  <2> SUFFICES ASSUME TypeOK, Paced, [Next]_vars
               PROVE  Paced'
    OBVIOUS
  <2>1. CASE Quiet
    BY <2>1 DEF Quiet, Paced, Grows
  <2>2. CASE conn = "Open" /\ HandleError
    <3>1. policy' = policy /\ chosen' = chosen
      BY <2>2, ErrorCases
    <3>2. CASE conn' # "Retrying"
      <4>1. retry' = retry
        BY <2>2, <3>2, ErrorCases
      <4>2. QED
        BY <3>1, <4>1 DEF Paced, Grows
    <3>3. CASE conn' = "Retrying"
      <4>1. ASSUME Grows(chosen), policy.maxDuration # None
            PROVE  retry'.delay <= policy.maxDuration
        <5>1. CASE retry = None
          BY <2>2, <3>3, <4>1, <5>1, DelayAfterError DEF Paced
        <5>2. CASE retry # None
          <6>1. policy.kind = "Exponential"
            BY <4>1 DEF Paced, Grows
          <6>2. /\ retry \in Attempt /\ retry'.delay \in Nat
                /\ retry'.delay = Cap(policy, MulF64(retry.delay, policy.factor))
            BY <2>2, <3>3, <5>2, <6>1, DelayAfterError
          <6>3. MulF64(retry.delay, policy.factor) \in Nat \cup {Overflow}
            BY <6>2, MulType DEF Attempt, Policy, TypeOK
          <6>4. QED
            BY <4>1, <6>2, <6>3, CapBounds DEF TypeOK
        <5>3. QED
          BY <5>1, <5>2
      <4>2. QED
        BY <3>1, <4>1 DEF Paced, Grows
    <3>4. QED
      BY <3>2, <3>3
  <2>3. ASSUME NEW event \in Event, StreamEvents(event)
        PROVE  Paced'
    <3>1. /\ policy'.kind = policy.kind /\ policy'.factor = policy.factor
          /\ policy' \in Policy /\ (policy'.maxDuration = None <=> policy.maxDuration = None)
          /\ retry' = retry /\ chosen' = chosen
      BY <2>3, EventType DEF StreamEvents, TypeOK
    <3>2. ASSUME Grows(chosen), policy.maxDuration # None
          PROVE  /\ policy'.maxDuration \in Nat
                 /\ policy.maxDuration <= policy'.maxDuration
                 /\ policy'.start <= policy'.maxDuration
      <4>1. policy.maxDuration \in Nat /\ policy.start \in Nat
            /\ policy.kind = "Exponential" /\ policy.start <= policy.maxDuration
        BY <3>2 DEF TypeOK, Policy, Option, Paced, Grows
      <4>2. CASE event.retry = None
        BY <2>3, <4>1, <4>2 DEF StreamEvents, HandleEvent
      <4>3. CASE event.retry # None
        <5>1. event.retry \in Nat
          BY <4>3 DEF Event, Option
        <5>2. policy' = SetReconnectionTime(policy, event.retry)
          BY <2>3, <3>2, <4>3 DEF StreamEvents, HandleEvent
        <5>3. /\ policy'.start = event.retry
              /\ policy'.maxDuration = Larger(policy.maxDuration, event.retry)
          BY <3>2, <4>1, <5>1, <5>2, ReconnectionType, NoneAssumption DEF TypeOK
        <5>4. QED
          BY <4>1, <5>1, <5>3 DEF Larger
      <4>4. QED
        BY <4>2, <4>3
    <3>3. retry # None => retry.delay \in Nat
      BY DEF TypeOK, Option, Attempt
    <3>4. ASSUME Grows(chosen), policy.maxDuration # None, retry # None
          PROVE  retry.delay <= policy'.maxDuration
      <4>1. policy.maxDuration \in Nat
        BY <3>4 DEF TypeOK, Policy, Option
      <4>2. QED
        BY <3>2, <3>3, <3>4, <4>1 DEF Paced
    <3>5. QED
      BY <3>1, <3>2, <3>4 DEF Paced, Grows
  <2>4. CASE DelayFires
    <3>1. retry \in Attempt
      BY <2>4 DEF DelayFires, InitiateConnection, TypeOK, Option
    <3>2. retry'.delay = retry.delay /\ policy' = policy /\ chosen' = chosen
      BY <2>4, <3>1 DEF DelayFires, InitiateConnection, Attempt
    <3>3. retry # None
      BY <3>1, AttemptAssumption
    <3>4. QED
      BY <3>2, <3>3 DEF Paced, Grows
  <2>5. QED
    BY <2>1, <2>2, <2>3, <2>4, StepCases
<1>3. QED
  BY <1>1, <1>2

(***************************************************************************)
(* A backoff that was well chosen never shortens its delay.                *)
(***************************************************************************)
THEOREM DelaysNeverShrink == Spec => NeverShrinks
<1>1. ASSUME TypeOK, Paced, [Next]_vars,
             conn = "Open", conn' = "Retrying", retry # None, Grows(chosen)
      PROVE  retry'.delay >= retry.delay
  <2>1. HandleError
    BY <1>1, StepCases DEF Quiet, StreamEvents, DelayFires, InitiateConnection
  <2>2. policy.kind = "Exponential" /\ policy.factor >= 1 /\ policy.factor \in Nat
        /\ policy \in Policy
    BY <1>1 DEF Paced, Grows, TypeOK, Policy
  <2>3. /\ retry \in Attempt /\ retry'.delay \in Nat
        /\ retry'.delay = Cap(policy, MulF64(retry.delay, policy.factor))
    BY <1>1, <2>1, <2>2, DelayAfterError
  <2> DEFINE m == MulF64(retry.delay, policy.factor)
  <2>4. retry.delay \in Nat
    BY <2>3 DEF Attempt
  <2>5. m \in Nat \cup {Overflow} /\ (m \in Nat => m = retry.delay * policy.factor)
    BY <2>2, <2>4, MulType
  <2>6. retry.delay * policy.factor >= retry.delay
    <3>1. \A a, f \in Nat : f >= 1 => a * f >= a
      OBVIOUS
    <3>2. QED
      BY <2>2, <2>4, <3>1
  <2> HIDE DEF m
  <2>7. CASE policy.maxDuration = None
    BY <2>3, <2>4, <2>5, <2>6, <2>7, DurationAssumption DEF Cap, m
  <2>8. CASE policy.maxDuration # None
    <3>1. m \in Nat /\ retry'.delay = Smaller(m, policy.maxDuration)
      BY <2>2, <2>3, <2>5, <2>8, CapBounds DEF m
    <3>2. retry.delay <= policy.maxDuration
      BY <1>1, <2>8 DEF Paced
    <3>3. QED
      BY <2>5, <2>6, <3>1, <3>2 DEF Smaller
  <2>9. QED
    BY <2>7, <2>8
<1>2. TypeOK /\ Paced /\ [Next]_vars =>
        [conn = "Open" /\ conn' = "Retrying" /\ retry # None /\ Grows(chosen)
           => retry'.delay >= retry.delay]_vars
  BY <1>1
<1>3. QED
  BY <1>2, PacedInductive, SourceTypeCorrect, PTL DEF Spec, NeverShrinks

-----------------------------------------------------------------------------
\* Every time in a builder or an event was parsed from a value.
Times == {Millis[v] : v \in DOMAIN Millis}

LEMMA StepTimes ==
  ASSUME NEW b \in Builder, NEW line \in Str, b.retry \in Option(Times)
  PROVE  /\ ParseStep(b, line).builder.retry \in Option(Times)
         /\ ParseStep(b, line).item \in Event =>
              ParseStep(b, line).item.retry \in Option(Times)
<1> DEFINE l == Validate(ParseLineFromBuffer(line))
           added == Add(b, l)
<1>1. added.retry \in Option(Times)
  <2>1. added.retry = IF l.name = "Retry" /\ l.value \in DOMAIN Millis
                      THEN Millis[l.value] ELSE b.retry
    BY DEF Add, Builder
  <2>2. QED
    BY <2>1 DEF Times, Option
<1> HIDE DEF added
<1>2. AfterDispatch(added).retry = None
  BY DEF AfterDispatch, EmptyBuilder
<1>3. Dispatched(added) \in Event => Dispatched(added).retry = added.retry
  BY ItemAssumption DEF Dispatched
<1>4. /\ ParseStep(b, line).builder \in {b, added, AfterDispatch(added)}
      /\ ParseStep(b, line).item \in {Utf8Error, None, Dispatched(added)}
  BY DEF ParseStep, added
<1>5. QED
  BY <1>1, <1>2, <1>3, <1>4, ItemAssumption DEF Option

(***************************************************************************)
(* With a longest delay, every delay is at most the largest of the times   *)
(* that the client and the server name.                                    *)
(***************************************************************************)
Below(M) ==
  /\ builder.retry \in Option(Times)
  /\ policy.maxDuration # None =>
       /\ policy.start <= M /\ policy.maxDuration <= M /\ M * policy.factor <= DurationMax
       /\ retry # None => retry.delay <= M

(***************************************************************************)
(* A policy with a longest delay never overflows a duration, if no time    *)
(* that the client or the server names does when multiplied by the factor. *)
(***************************************************************************)
THEOREM CappedPoliciesDoNotPanic ==
  ASSUME NEW M \in Nat,
         \A v \in DOMAIN Millis : Millis[v] <= M,
         \A p \in Policies : p.maxDuration # None =>
           p.start <= M /\ p.maxDuration <= M /\ M * p.factor <= DurationMax
  PROVE  Spec => []CappedNeverPanics
<1>1. Init => Below(M) /\ CappedNeverPanics
  <2> SUFFICES ASSUME Init
               PROVE  Below(M) /\ CappedNeverPanics
    OBVIOUS
  <2>1. builder.retry = None /\ policy \in Policies /\ retry = None /\ conn # "Panicked"
    BY DEF Init, EmptyBuilder
  <2>2. QED
    BY <2>1 DEF Below, CappedNeverPanics, Option
<1>2. TypeOK /\ Below(M) /\ CappedNeverPanics /\ [Next]_vars
        => Below(M)' /\ CappedNeverPanics'
  <2> SUFFICES ASSUME TypeOK, Below(M), CappedNeverPanics, [Next]_vars
               PROVE  Below(M)' /\ CappedNeverPanics'
    OBVIOUS
  <2>1. policy \in Policy /\ (retry # None => retry \in Attempt /\ retry.delay \in Nat)
    BY DEF TypeOK, Option, Attempt
  <2>2. CASE HandleError
    <3>1. builder' = builder /\ policy' = policy
      BY <2>2, ErrorCases
    <3>2. CASE policy.maxDuration = None
      BY <3>1, <3>2 DEF Below, CappedNeverPanics
    <3>3. CASE policy.maxDuration # None
      <4>1. /\ policy.start \in Nat /\ policy.factor \in Nat /\ policy.maxDuration \in Nat
            /\ policy.start <= M /\ policy.maxDuration <= M
            /\ M * policy.factor <= DurationMax
        BY <2>1, <3>3 DEF Policy, Option, Below
      <4>2. Retry(policy, retry) # Overflow
        <5>1. ASSUME retry # None
              PROVE  /\ MulF64(retry.delay, policy.factor) \in Nat
                     /\ Cap(policy, MulF64(retry.delay, policy.factor)) \in Nat
          <6>1. retry.delay \in Nat /\ retry.delay <= M
            BY <2>1, <3>3, <5>1 DEF Below
          <6>2. \A d, f, n \in Nat : d <= n => d * f <= n * f
            OBVIOUS
          <6>3. /\ retry.delay * policy.factor <= M * policy.factor
                /\ retry.delay * policy.factor \in Nat /\ M * policy.factor \in Nat
            BY <4>1, <6>1, <6>2
          <6>4. MulF64(retry.delay, policy.factor) \in Nat
            BY <4>1, <6>3, DurationAssumption DEF MulF64
          <6>5. QED
            BY <4>1, <6>4 DEF Cap, Smaller
        <5>2. QED
          BY <2>1, <4>1, <5>1, DurationAssumption, RetryOfKind
      <4>3. CASE conn' = "Retrying"
        <5>1. CASE retry = None
          BY <2>2, <3>1, <4>1, <4>3, <5>1, DelayAfterError DEF Below, CappedNeverPanics
        <5>2. CASE retry # None /\ policy.kind = "Exponential"
          <6>1. /\ retry'.delay \in Nat
                /\ retry'.delay = Cap(policy, MulF64(retry.delay, policy.factor))
            BY <2>2, <4>3, <5>2, DelayAfterError
          <6>2. MulF64(retry.delay, policy.factor) \in Nat \cup {Overflow}
            BY <2>1, <4>1, <5>2, MulType
          <6>3. retry'.delay <= policy.maxDuration
            BY <2>1, <3>3, <6>1, <6>2, CapBounds
          <6>4. QED
            BY <3>1, <4>1, <4>3, <6>1, <6>3 DEF Below, CappedNeverPanics
        <5>3. CASE retry # None /\ policy.kind # "Exponential"
          <6>1. retry'.delay = policy.start
            <7>1. retry'.delay = Retry(policy, retry) /\ policy.kind = "Constant"
                  /\ Retry(policy, retry) \in Nat
              BY <2>1, <2>2, <4>3, <5>3, DelayAfterError DEF Policy
            <7>2. QED
              BY <2>1, <5>3, <7>1, NoneAssumption, RetryOfKind
          <6>2. QED
            BY <3>1, <4>1, <4>3, <6>1 DEF Below, CappedNeverPanics
        <5>4. QED
          BY <5>1, <5>2, <5>3
      <4>4. CASE conn' # "Retrying"
        <5>1. conn' # "Panicked" /\ retry' = retry
          BY <2>2, <4>2, <4>4, ErrorCases
        <5>2. QED
          BY <3>1, <5>1 DEF Below, CappedNeverPanics
      <4>5. QED
        BY <4>3, <4>4
    <3>4. QED
      BY <3>2, <3>3
  <2>3. ASSUME NEW line \in Lines, StreamLine(line)
        PROVE  Below(M)' /\ CappedNeverPanics'
    <3> DEFINE step == ParseStep(builder, line)
    <3>1. /\ step.item \in Item \cup {None}
          /\ step.builder.retry \in Option(Times)
          /\ step.item \in Event => step.item.retry \in Option(Times)
      BY SourceAssumption, ParseStepType, StepTimes DEF TypeOK, Below
    <3>2. /\ conn = "Open"
          /\ step.item = Utf8Error => HandleError
          /\ step.item # Utf8Error =>
               builder' = step.builder /\ UNCHANGED <<conn, retry>>
          /\ step.item # Utf8Error /\ step.item = None => policy' = policy
          /\ step.item # Utf8Error /\ step.item # None => HandleEvent(step.item)
      BY <2>3, BuilderAssumption DEF StreamLine
    <3> HIDE DEF step
    <3>3. CASE step.item = Utf8Error
      BY <2>2, <3>2, <3>3
    <3>4. CASE step.item # Utf8Error /\ step.item = None
      BY <3>1, <3>2, <3>4 DEF Below, CappedNeverPanics
    <3>5. CASE step.item # Utf8Error /\ step.item # None
      <4>1. step.item \in Event /\ step.item.retry \in Option(Times)
        BY <3>1, <3>5 DEF Item
      <4>2. /\ policy'.factor = policy.factor
            /\ policy'.maxDuration = None <=> policy.maxDuration = None
        BY <3>2, <3>5, <4>1, EventType, <2>1
      <4>3. policy'.maxDuration # None => policy'.start <= M /\ policy'.maxDuration <= M
        <5>1. CASE step.item.retry = None
          BY <3>2, <3>5, <5>1 DEF HandleEvent, Below
        <5>2. CASE step.item.retry # None
          <6>1. step.item.retry \in Nat /\ step.item.retry <= M
            BY <4>1, <5>2, BuilderAssumption DEF Option, Times
          <6>2. policy' = SetReconnectionTime(policy, step.item.retry)
            BY <3>2, <3>5, <5>2 DEF HandleEvent
          <6>3. policy'.start \in {policy.start, step.item.retry}
                /\ policy'.maxDuration \in
                     {policy.maxDuration, Larger(policy.maxDuration, step.item.retry)}
            BY <2>1, <6>1, <6>2, ReconnectionType
          <6>4. policy.maxDuration # None => policy.maxDuration \in Nat
            BY <2>1 DEF Policy, Option
          <6>5. QED
            BY <4>2, <6>1, <6>3, <6>4 DEF Below, Larger
        <5>3. QED
          BY <5>1, <5>2
      <4>4. QED
        BY <3>1, <3>2, <3>5, <4>2, <4>3 DEF Below, CappedNeverPanics
    <3>6. QED
      BY <3>3, <3>4, <3>5
  <2>4. CASE StreamStops
    BY <2>2, <2>4 DEF StreamStops
  <2>5. CASE ConnectOk
    BY <2>5 DEF ConnectOk, Below, CappedNeverPanics, EmptyBuilder, Option
  <2>6. CASE ConnectBadResponse \/ ConnectFails \/ PollCompleted \/ PollClosed \/ UNCHANGED vars
    BY <2>6 DEF ConnectBadResponse, ConnectFails, PollCompleted, PollClosed, vars,
                Below, CappedNeverPanics
  <2>7. CASE DelayFires
    <3>1. retry \in Attempt
      BY <2>7 DEF DelayFires, InitiateConnection, TypeOK, Option
    <3>2. /\ retry'.delay = retry.delay /\ policy' = policy /\ builder' = builder
          /\ conn' # "Panicked"
      BY <2>7, <3>1 DEF DelayFires, InitiateConnection, Attempt
    <3>3. retry # None
      BY <3>1, AttemptAssumption
    <3>4. QED
      BY <3>2, <3>3 DEF Below, CappedNeverPanics
  <2>8. QED
    BY <2>3, <2>4, <2>5, <2>6, <2>7 DEF Next
<1>3. QED
  BY <1>1, <1>2, SourceTypeCorrect, PTL DEF Spec

-----------------------------------------------------------------------------
\* A line that is not empty leaves the data alone, or is a data line.
LEMMA StepData ==
  ASSUME NEW b \in Builder, NEW line \in Str, ParseStep(b, line).item # Utf8Error
  PROVE  \/ ParseStep(b, line).builder.data = None
         \/ /\ line # <<>>
            /\ \/ ParseStep(b, line).builder.data = b.data
               \/ ParseLineFromBuffer(line).name = DataName
<1> DEFINE raw == ParseLineFromBuffer(line)
           added == Add(b, Validate(raw))
<1>1. AfterDispatch(added).data = None
  BY DEF AfterDispatch, EmptyBuilder
<1>2. ParseStep(b, line).builder = IF added.isComplete THEN AfterDispatch(added) ELSE added
  BY DEF ParseStep
<1>3. added.isComplete \/ raw.kind # "Empty"
  BY DEF Add, Validate, Builder
<1>4. added.data = b.data \/ raw.name = DataName
  <2>1. Validate(raw).name = "Data" => raw.name = DataName
    BY DEF Validate, FieldName
  <2>2. added.data = IF Validate(raw).name = "Data"
                     THEN PushStr(b.data, UnwrapOrEmpty(Validate(raw).value)) ELSE b.data
    BY DEF Add, Builder
  <2>3. QED
    BY <2>1, <2>2
<1>5. line = <<>> => raw.kind = "Empty"
  BY DEF ParseLineFromBuffer, EmptyLine
<1>6. QED
  BY <1>1, <1>2, <1>3, <1>4, <1>5

(***************************************************************************)
(* The data of an event came over the connection that is open.             *)
(***************************************************************************)
THEOREM ConnectionsDoNotMix == Spec => []NothingLeaksIn
<1>1. Init => NothingLeaksIn
  BY DEF Init, NothingLeaksIn
<1>2. TypeOK /\ NothingLeaksIn /\ [Next]_vars => NothingLeaksIn'
  <2> SUFFICES ASSUME TypeOK, NothingLeaksIn, [Next]_vars
               PROVE  NothingLeaksIn'
    OBVIOUS
  <2>1. CASE ConnectOk
    BY <2>1 DEF ConnectOk, NothingLeaksIn, EmptyBuilder
  <2>2. CASE HandleError
    BY <2>2, ErrorCases DEF NothingLeaksIn
  <2>3. ASSUME NEW line \in Lines, StreamLine(line)
        PROVE  NothingLeaksIn'
    <3> DEFINE step == ParseStep(builder, line)
    <3>1. /\ conn = "Open"
          /\ step.item = Utf8Error => HandleError
          /\ step.item # Utf8Error =>
               builder' = step.builder /\ received' = Append(received, line)
      BY <2>3, BuilderAssumption DEF StreamLine
    <3>2. CASE step.item = Utf8Error
      BY <2>2, <3>1, <3>2
    <3>3. CASE step.item # Utf8Error
      <4>1. \/ builder'.data = None
            \/ /\ line # <<>>
               /\ builder'.data = builder.data \/ ParseLineFromBuffer(line).name = DataName
        BY <3>1, <3>3, StepData, SourceAssumption DEF TypeOK
      <4> HIDE DEF step
      <4>2. /\ Len(received') = Len(received) + 1 /\ Len(received) \in Nat
            /\ \A j \in 1..Len(received) : received'[j] = received[j]
            /\ received'[Len(received) + 1] = line
        BY <3>1, <3>3 DEF TypeOK
      <4>3. SUFFICES ASSUME builder'.data # None
                     PROVE  \E k \in 1..Len(received') :
                              /\ ParseLineFromBuffer(received'[k]).name = DataName
                              /\ \A j \in k..Len(received') : received'[j] # <<>>
        BY DEF NothingLeaksIn
      <4>4. CASE ParseLineFromBuffer(line).name = DataName
        <5>1. \A j \in (Len(received) + 1)..Len(received') : j = Len(received) + 1
          BY <4>2
        <5>2. /\ Len(received) + 1 \in 1..Len(received')
              /\ ParseLineFromBuffer(received'[Len(received) + 1]).name = DataName
              /\ \A j \in (Len(received) + 1)..Len(received') : received'[j] # <<>>
          BY <4>1, <4>2, <4>3, <4>4, <5>1
        <5>3. QED
          BY <5>2
      <4>5. CASE builder'.data = builder.data
        <5>1. PICK k \in 1..Len(received) :
                /\ ParseLineFromBuffer(received[k]).name = DataName
                /\ \A j \in k..Len(received) : received[j] # <<>>
          BY <3>1, <4>3, <4>5 DEF NothingLeaksIn
        <5>2. ASSUME NEW j \in k..Len(received')
              PROVE  received'[j] # <<>>
          <6>1. j \in k..Len(received) \/ j = Len(received) + 1
            BY <4>2, <5>1
          <6>2. CASE j \in k..Len(received)
            <7>1. j \in 1..Len(received)
              BY <5>1, <6>2
            <7>2. QED
              BY <4>2, <5>1, <6>2, <7>1
          <6>3. CASE j = Len(received) + 1
            BY <4>1, <4>2, <4>3, <6>3
          <6>4. QED
            BY <6>1, <6>2, <6>3
        <5>3. k \in 1..Len(received') /\ received'[k] = received[k]
          BY <4>2, <5>1
        <5>4. QED
          BY <5>1, <5>2, <5>3
      <4>6. QED
        BY <4>1, <4>3, <4>4, <4>5
    <3>4. QED
      BY <3>2, <3>3
  <2>4. CASE StreamStops
    BY <2>2, <2>4 DEF StreamStops
  <2>5. CASE ConnectBadResponse \/ ConnectFails \/ PollCompleted \/ PollClosed \/ DelayFires
    BY <2>5 DEF ConnectBadResponse, ConnectFails, PollCompleted, PollClosed, DelayFires,
                InitiateConnection, NothingLeaksIn
  <2>6. CASE UNCHANGED vars
    BY <2>6 DEF vars, NothingLeaksIn
  <2>7. QED
    BY <2>1, <2>3, <2>4, <2>5, <2>6 DEF Next
<1>3. QED
  BY <1>1, <1>2, SourceTypeCorrect, PTL DEF Spec

-----------------------------------------------------------------------------
(***************************************************************************)
(* A source closes for one of its three reasons, from any state that keeps *)
(* its types, counts its retries and knows the id of its last event.       *)
(***************************************************************************)
Closes ==
  conn # "Closed" /\ conn' = "Closed" =>
    \/ conn = "Connecting" /\ error' = "Transport"
    \/ conn = "Retrying" /\ UnwrapOrEmpty(delivered) \notin HeaderIds
    \/ conn = "Open" /\ RetriesUsedUp

LEMMA ClosesInduction ==
  ASSUME TypeOK, Counted, RetryBudget, IdInv, [Next]_vars
  PROVE  Closes
<1>1. CASE ConnectOk \/ ConnectBadResponse \/ PollCompleted \/ PollClosed \/ UNCHANGED vars
  BY <1>1 DEF ConnectOk, ConnectBadResponse, PollCompleted, PollClosed, vars, Closes
<1>2. CASE ConnectFails
  BY <1>2 DEF ConnectFails, Closes
<1>3. ASSUME conn = "Open", HandleError
      PROVE  Closes
  <2>1. conn' = "Closed" => Retry(policy, retry) = None
    BY <1>3, ErrorCases
  <2>2. policy.start \in Nat /\ (policy.maxRetries # None => policy.maxRetries \in Nat)
    BY DEF TypeOK, Policy, Option
  <2>3. retry # None => retry \in Attempt /\ retry.num \in Nat /\ retry.delay \in Nat
    BY DEF TypeOK, Option, Attempt
  <2>4. retries \in Nat /\ policy \in Policy /\ retry \in Option(Attempt)
    BY DEF TypeOK
  <2>5. ASSUME Retry(policy, retry) = None, policy.kind # "Never"
        PROVE  retry # None /\ ~Allows(policy, retry)
    <3>1. retry # None
      BY <2>2, <2>4, <2>5, NoneAssumption, RetryOfKind
    <3>2. Allows(policy, retry) => Retry(policy, retry) # None
      BY <2>3, <2>4, <3>1, <2>5, RetryAllowed
    <3>3. QED
      BY <2>5, <3>1, <3>2
  <2>6. ASSUME Retry(policy, retry) = None, policy.kind # "Never"
        PROVE  RetriesUsedUp
    <3>1. retry.num = retries + 1 /\ retries # 0
      BY <1>3, <2>5, <2>6 DEF Counted
    <3>2. policy.maxRetries # None /\ ~(retries + 1 < policy.maxRetries)
      BY <2>5, <2>6, <3>1 DEF Allows
    <3>3. QED
      BY <2>2, <2>4, <3>1, <3>2 DEF RetriesUsedUp, Larger
  <2>7. QED
    BY <1>3, <2>1, <2>6 DEF Closes, RetriesUsedUp
<1>4. CASE \E line \in Lines : StreamLine(line)
  <2>1. PICK line \in Lines : StreamLine(line)
    BY <1>4
  <2>2. conn = "Open" /\ (HandleError \/ conn' = conn)
    BY <2>1, LineCases DEF StreamLine
  <2>3. QED
    BY <1>3, <2>2 DEF Closes
<1>5. CASE StreamStops
  BY <1>3, <1>5 DEF StreamStops
<1>6. CASE DelayFires
  BY <1>6 DEF DelayFires, InitiateConnection, IdInv, Closes
<1>7. QED
  BY <1>1, <1>2, <1>4, <1>5, <1>6 DEF Next

(***************************************************************************)
(* A source closes for a failed request, an id that is no header value, or *)
(* a stream that stopped when its policy had no retry left.                *)
(***************************************************************************)
THEOREM ClosesOnlyForCause == Spec => ClosesForCause
<1>1. TypeOK /\ Counted /\ RetryBudget /\ IdInv /\ [Next]_vars => [Closes]_vars
  BY ClosesInduction
<1>2. [][Closes]_vars => ClosesForCause
  BY PTL DEF ClosesForCause, Closes
<1>3. QED
  BY <1>1, <1>2, BudgetInductive, IdInvInductive, SourceTypeCorrect, PTL DEF Spec

-----------------------------------------------------------------------------
\* A source that is open, or has panicked, returned no error at its last poll.
FateInv ==
  /\ ErrorTellsFate
  /\ conn \in {"Open", "Panicked"} => ret # "error"

LEMMA FateInductive ==
  /\ Init => FateInv
  /\ TypeOK /\ FateInv /\ [Next]_vars => FateInv'
<1>1. Init => FateInv
  BY DEF Init, FateInv, ErrorTellsFate, BadResponse
<1>2. TypeOK /\ FateInv /\ [Next]_vars => FateInv'
  <2> SUFFICES ASSUME TypeOK, FateInv, [Next]_vars
               PROVE  FateInv'
    OBVIOUS
  <2>1. CASE ConnectOk
    BY <2>1 DEF ConnectOk, FateInv, ErrorTellsFate, BadResponse
  <2>2. CASE ConnectBadResponse \/ ConnectFails
    BY <2>2 DEF ConnectBadResponse, ConnectFails, FateInv, ErrorTellsFate, BadResponse,
                IsResponseErr
  <2>3. CASE PollCompleted
    BY <2>3 DEF PollCompleted, FateInv, ErrorTellsFate, BadResponse, IsResponseErr
  <2>4. ASSUME conn = "Open", HandleError, NEW kind \in {"Stream", "StreamEnded"}, Returns(kind)
        PROVE  FateInv'
    <3>1. /\ conn' \in {"Retrying", "Closed", "Panicked"}
          /\ conn' = "Panicked" => ret' = ret
          /\ ret' \in {ret, "error"}
      BY <2>4, ErrorCases DEF HandleError
    <3>2. ret # "error"
      BY <2>4 DEF FateInv
    <3>3. QED
      BY <2>4, <3>1, <3>2 DEF Returns, FateInv, ErrorTellsFate, BadResponse
  <2>5. ASSUME NEW line \in Lines, StreamLine(line)
        PROVE  FateInv'
    <3>1. \/ HandleError /\ Returns("Stream")
          \/ UNCHANGED <<conn, done, ret, error>>
          \/ ret' = "event" /\ UNCHANGED <<conn, done, error>>
      BY <2>5 DEF StreamLine
    <3>2. conn = "Open"
      BY <2>5 DEF StreamLine
    <3>3. QED
      BY <2>4, <3>1, <3>2 DEF FateInv, ErrorTellsFate, BadResponse
  <2>6. CASE StreamStops
    <3>1. conn = "Open" /\ HandleError
      BY <2>6 DEF StreamStops
    <3>2. PICK kind \in {"Stream", "StreamEnded"} : Returns(kind)
      BY <2>6 DEF StreamStops
    <3>3. QED
      BY <2>4, <3>1, <3>2
  <2>7. CASE DelayFires
    <3>1. conn = "Retrying" /\ InitiateConnection
      BY <2>7 DEF DelayFires
    <3>2. ret = "error" => error \in {"Stream", "StreamEnded"}
      BY <3>1, ErrorType DEF FateInv, ErrorTellsFate, BadResponse, TypeOK
    <3>3. CASE conn' = "Connecting" /\ done' = FALSE /\ UNCHANGED <<ret, error>>
      BY <3>2, <3>3 DEF FateInv, ErrorTellsFate, BadResponse
    <3>4. CASE conn' = "Closed" /\ ret' = "error" /\ error' = "InvalidLastEventId"
      BY <3>4 DEF FateInv, ErrorTellsFate, BadResponse
    <3>5. QED
      BY <3>1, <3>3, <3>4 DEF InitiateConnection
  <2>8. CASE PollClosed \/ UNCHANGED vars
    BY <2>8 DEF PollClosed, vars, FateInv, ErrorTellsFate, BadResponse
  <2>9. QED
    BY <2>1, <2>2, <2>3, <2>5, <2>6, <2>7, <2>8 DEF Next
<1>3. QED
  BY <1>1, <1>2

(***************************************************************************)
(* The error of a poll tells the consumer what the source does next, and a *)
(* future that has completed is only polled after an error that says so.   *)
(***************************************************************************)
THEOREM ErrorsTellFate == Spec => []ErrorTellsFate
<1>1. FateInv => ErrorTellsFate
  BY DEF FateInv
<1>2. QED
  BY <1>1, FateInductive, SourceTypeCorrect, PTL DEF Spec

\* A sequence made of two falls apart into these two.
LEMMA ConcatHalves ==
  ASSUME NEW S, NEW s \in Seq(S), NEW t \in Seq(S)
  PROVE  /\ SubSeq(s \o t, 1, Len(s)) = s
         /\ SubSeq(s \o t, Len(s) + 1, Len(s \o t)) = t
<1>1. Len(s) \in Nat
  OBVIOUS
<1>2. SubSeq(s \o t, 1, Len(s)) = s
  <2>1. CASE Len(s) = 0
    <3>1. s = <<>>
      BY <2>1, EmptySeq
    <3>2. s \o t \in Seq(S)
      BY ConcatProperties
    <3>3. SubSeq(s \o t, 1, 0) = <<>>
      BY <3>2, SubSeqEmpty
    <3>4. QED
      BY <2>1, <3>1, <3>3
  <2>2. CASE Len(s) # 0
    <3>1. 1 \in 1..Len(s) /\ Len(s) \in 1..Len(s)
      BY <1>1, <2>2
    <3>2. SubSeq(s \o t, 1, Len(s)) = SubSeq(s, 1, Len(s))
      BY <3>1, SubSeqOfConcat1
    <3>3. QED
      BY <3>2, SubSeqFull
  <2>3. QED
    BY <2>1, <2>2
<1>3. SubSeq(s \o t, Len(s) + 1, Len(s \o t)) = t
  <2>1. Len(s) + 1 \in 1..(Len(s) + 1)
    BY <1>1
  <2>2. SubSeq(s \o t, Len(s) + 1, Len(s \o t)) = SubSeq(s, Len(s) + 1, Len(s)) \o t
    BY <2>1, SubSeqToEnd
  <2>3. SubSeq(s, Len(s) + 1, Len(s)) = <<>>
    BY <1>1, SubSeqEmpty
  <2>4. <<>> \o t = t
    BY ConcatEmptySeq
  <2>5. QED
    BY <2>2, <2>3, <2>4
<1>4. QED
  BY <1>2, <1>3

-----------------------------------------------------------------------------
(***************************************************************************)
(* A source beside a server that resumes.                                  *)
(***************************************************************************)
\* The parser reads a written field back.
LEMMA FieldIsRead ==
  ASSUME NEW name \in {IdName, DataName}, NEW v \in Str
  PROVE  /\ WrittenField(name, v) \in Str
         /\ ParseLineFromBuffer(WrittenField(name, v)) = FieldLine(name, v)
<1> DEFINE sep == <<Colon, Space>>
           line == name \o sep \o v
           c == Len(name) + 1
<1>1. /\ name \in Seq(Byte) /\ sep \in Seq(Byte) /\ v \in Seq(Byte)
      /\ Len(sep) = 2 /\ sep[1] = Colon /\ sep[2] = Space
      /\ Len(name) \in Nat \ {0} /\ Len(v) \in Nat
      /\ \A i \in 1..Len(name) : name[i] # Colon
  <2>1. name \in Seq(Byte) /\ v \in Seq(Byte) /\ Colon \in Byte /\ Space \in Byte
    BY NameAssumption, ByteAssumption DEF Str
  <2>2. name # <<>> /\ \A i \in 1..Len(name) : name[i] # Colon
    BY FieldAssumption
  <2>3. Len(name) # 0
    BY <2>1, <2>2, EmptySeq
  <2>4. Len(name) \in Nat /\ Len(v) \in Nat
    BY <2>1
  <2>5. sep \in Seq(Byte) /\ Len(sep) = 2 /\ sep[1] = Colon /\ sep[2] = Space
    BY <2>1
  <2>6. QED
    BY <2>1, <2>2, <2>3, <2>4, <2>5
<1> HIDE DEF sep
<1>2. /\ name \o sep \in Seq(Byte) /\ Len(name \o sep) = Len(name) + 2
      /\ \A i \in 1..Len(name) : (name \o sep)[i] = name[i]
      /\ (name \o sep)[Len(name) + 1] = Colon
      /\ (name \o sep)[Len(name) + 2] = Space
  <2>0. /\ name \o sep \in Seq(Byte) /\ Len(name \o sep) = Len(name) + Len(sep)
        /\ \A i \in 1..(Len(name) + Len(sep)) :
             (name \o sep)[i] = IF i <= Len(name) THEN name[i] ELSE sep[i - Len(name)]
    BY <1>1, ConcatProperties, Zenon
  <2>1. /\ name \o sep \in Seq(Byte) /\ Len(name \o sep) = Len(name) + 2
        /\ \A i \in 1..(Len(name) + 2) :
             (name \o sep)[i] = IF i <= Len(name) THEN name[i] ELSE sep[i - Len(name)]
    BY <1>1, <2>0, Zenon
  <2> DEFINE both == name \o sep
             n == Len(name)
  <2>2. /\ n \in Nat /\ n + 1 \in 1..(n + 2) /\ n + 2 \in 1..(n + 2)
        /\ ~(n + 1 <= n) /\ ~(n + 2 <= n) /\ n + 1 - n = 1 /\ n + 2 - n = 2
    BY <1>1
  <2>3. \A i \in 1..(n + 2) : both[i] = IF i <= n THEN name[i] ELSE sep[i - n]
    BY <2>1
  <2>4. both \in Seq(Byte) /\ Len(both) = n + 2
    BY <2>1
  <2> HIDE DEF both, n
  <2>5. both[n + 1] = Colon /\ both[n + 2] = Space
    <3>1. both[n + 1] = sep[n + 1 - n]
      BY <2>2, <2>3
    <3>2. both[n + 2] = sep[n + 2 - n]
      BY <2>2, <2>3
    <3>3. sep[1] = Colon /\ sep[2] = Space
      BY <1>1
    <3>4. QED
      BY <2>2, <3>1, <3>2, <3>3, Zenon
  <2>6. \A i \in 1..n : both[i] = name[i]
    BY <2>2, <2>3
  <2>7. QED
    BY <2>4, <2>5, <2>6 DEF both, n
<1>3. /\ line \in Seq(Byte) /\ Len(line) = Len(name) + 2 + Len(v)
      /\ \A i \in 1..Len(name \o sep) : line[i] = (name \o sep)[i]
  BY <1>1, <1>2
<1>4. /\ c \in 1..Len(line) /\ line[c] = Colon /\ line[c + 1] = Space
      /\ c + 1 <= Len(line) /\ line # <<>>
      /\ \A i \in 1..(c - 1) : line[i] # Colon
  <2>1. c \in 1..Len(name \o sep) /\ c + 1 \in 1..Len(name \o sep)
        /\ \A i \in 1..(c - 1) : i \in 1..Len(name) /\ i \in 1..Len(name \o sep)
    BY <1>1, <1>2
  <2>2. line[c] = Colon /\ line[c + 1] = Space /\ \A i \in 1..(c - 1) : line[i] # Colon
    BY <1>1, <1>2, <1>3, <2>1
  <2>3. c \in 1..Len(line) /\ c + 1 <= Len(line)
    BY <1>1, <1>3
  <2>4. QED
    BY <2>2, <2>3, <1>3
<1>5. SubSeq(line, 1, Len(name)) = name /\ SubSeq(line, c + 2, Len(line)) = v
  <2>1. line = (name \o sep) \o v /\ name \o sep \in Seq(Byte)
    BY <1>2
  <2>2. SubSeq(line, 1, Len(name \o sep)) = name \o sep
        /\ SubSeq(line, Len(name \o sep) + 1, Len(line)) = v
    BY <1>1, <2>1, ConcatHalves
  <2>3. SubSeq(name \o sep, 1, Len(name)) = name
    BY <1>1, ConcatHalves
  <2>4. Len(name) \in 1..Len(name \o sep) /\ 1 \in 1..Len(name \o sep)
    BY <1>1, <1>2
  <2>5. SubSeq(line, 1, Len(name)) = SubSeq(name \o sep, 1, Len(name))
    BY <1>1, <2>1, <2>4, SubSeqOfConcat1
  <2>6. Len(name \o sep) + 1 = c + 2
    BY <1>1, <1>2
  <2>7. QED
    BY <2>2, <2>3, <2>5, <2>6, Zenon
<1> HIDE DEF line
<1>6. HasColon(line) /\ ColonAt(line) = c
  <2>1. IsFirst(c, {Colon}, line)
    BY <1>4 DEF IsFirst
  <2>2. Len(line) \in Nat
    BY <1>3
  <2>3. QED
    BY <1>4, <2>1, <2>2, MemchrIsFirst DEF HasColon, ColonAt
<1>7. c # 1 /\ c - 1 = Len(name) /\ ValueStart(line) = c + 2
  BY <1>1, <1>4, <1>6 DEF ValueStart
<1>8. ParseLineFromBuffer(line) = FieldLine(name, v)
  BY <1>4, <1>5, <1>6, <1>7 DEF ParseLineFromBuffer, From
<1>9. QED
  BY <1>3, <1>8 DEF line, sep, WrittenField, Str

\* What the three kinds of lines do to the builder.
LEMMA IdLineStep ==
  ASSUME NEW b \in Builder, b.isComplete = FALSE, NEW i \in Str, ValidUtf8(i)
  PROVE  /\ ParseStep(b, WrittenField(IdName, i)).item = None
         /\ ParseStep(b, WrittenField(IdName, i)).builder
              = [b EXCEPT !.id = IF HasNul(i) THEN b.id ELSE i]
<1> DEFINE raw == ParseLineFromBuffer(WrittenField(IdName, i))
           l == Validate(raw)
<1>1. raw = FieldLine(IdName, i)
  BY FieldIsRead
<1>2. i # None
  BY NoneAssumption DEF Str
<1>3. FieldName(IdName) = "Id"
  BY NameAssumption DEF FieldName
<1>4. l.name = "Id" /\ l.kind = "Field" /\ l.value = i /\ Validates(raw)
  BY <1>1, <1>3 DEF Validate, FieldLine, Validates
<1> HIDE DEF raw, l
<1>5. Add(b, l) = [b EXCEPT !.id = IF HasNul(i) THEN b.id ELSE i]
  BY <1>2, <1>4 DEF Add, UnwrapOrEmpty, Builder
<1>6. Add(b, l).isComplete = FALSE
  BY <1>5 DEF Builder
<1>7. QED
  BY <1>4, <1>5, <1>6 DEF ParseStep, raw, l

LEMMA DataLineStep ==
  ASSUME NEW b \in Builder, b.isComplete = FALSE, b.data = None,
         NEW d \in Str, ValidUtf8(d)
  PROVE  /\ ParseStep(b, WrittenField(DataName, d)).item = None
         /\ ParseStep(b, WrittenField(DataName, d)).builder = [b EXCEPT !.data = d]
<1> DEFINE raw == ParseLineFromBuffer(WrittenField(DataName, d))
           l == Validate(raw)
<1>1. raw = FieldLine(DataName, d)
  BY FieldIsRead
<1>2. d # None
  BY NoneAssumption DEF Str
<1>3. FieldName(DataName) = "Data"
  BY NameAssumption DEF FieldName
<1>4. l.name = "Data" /\ l.kind = "Field" /\ l.value = d /\ Validates(raw)
  BY <1>1, <1>3 DEF Validate, FieldLine, Validates
<1> HIDE DEF raw, l
<1>5. Add(b, l) = [b EXCEPT !.data = d]
  BY <1>2, <1>4 DEF Add, UnwrapOrEmpty, PushStr, Builder
<1>6. Add(b, l).isComplete = FALSE
  BY <1>5 DEF Builder
<1>7. QED
  BY <1>4, <1>5, <1>6 DEF ParseStep, raw, l

LEMMA EmptyLineStep ==
  ASSUME NEW b \in Builder, b.data # None
  PROVE  /\ ParseStep(b, <<>>).item \in Event
         /\ ParseStep(b, <<>>).item.data = b.data /\ ParseStep(b, <<>>).item.id = b.id
         /\ ParseStep(b, <<>>).builder = AfterDispatch(b)
<1> DEFINE raw == ParseLineFromBuffer(<<>>)
           l == Validate(raw)
<1>1. l.name = "Ignored" /\ l.kind = "Empty" /\ l.value = None /\ Validates(raw)
  BY DEF ParseLineFromBuffer, Validate, EmptyLine, Validates
<1> HIDE DEF raw, l
<1>2. Add(b, l) = [b EXCEPT !.isComplete = TRUE]
  <2>1. None \notin DOMAIN Millis
    BY BuilderAssumption, NoneAssumption DEF Str
  <2>2. QED
    BY <1>1, <2>1 DEF Add, Builder
<1>3. /\ Add(b, l) \in Builder /\ Add(b, l).isComplete
      /\ Add(b, l).data = b.data /\ Add(b, l).id = b.id
  BY <1>2 DEF Builder
<1>4. ParseStep(b, <<>>).item = Dispatched(Add(b, l))
      /\ ParseStep(b, <<>>).builder = AfterDispatch(Add(b, l))
  BY <1>1, <1>3 DEF ParseStep, raw, l
<1>5. Dispatched(Add(b, l)) \in Event
  <2> DEFINE a == Add(b, l)
  <2>1. a \in Builder /\ a.data # None
    BY <1>3
  <2> HIDE DEF a
  <2> DEFINE type == IF a.event = <<>> THEN Message ELSE a.event
  <2>2. type \in Str /\ a.data \in Str /\ a.id \in Str /\ a.retry \in Option(Nat)
    BY <2>1, BuilderAssumption DEF Builder, Option
  <2> HIDE DEF type
  <2>3. [event |-> type, data |-> a.data, id |-> a.id, retry |-> a.retry] \in Event
    BY <2>2 DEF Event
  <2>4. QED
    BY <2>1, <2>3 DEF Dispatched, type, a
<1>6. Dispatched(Add(b, l)).data = b.data /\ Dispatched(Add(b, l)).id = b.id
  BY <1>3 DEF Dispatched
<1>7. AfterDispatch(Add(b, l)) = AfterDispatch(b)
  BY <1>3 DEF AfterDispatch
<1>8. QED
  BY <1>4, <1>5, <1>6, <1>7

-----------------------------------------------------------------------------
\* The lines of an event, and that they are lines of the source.
LEMMA EntryLinesAre ==
  ASSUME NEW e \in Entry
  PROVE  /\ e.id = None =>
              /\ Len(EntryLines(e)) = 2
              /\ EntryLines(e)[1] = WrittenField(DataName, e.data)
              /\ EntryLines(e)[2] = <<>>
         /\ e.id # None =>
              /\ Len(EntryLines(e)) = 3
              /\ EntryLines(e)[1] = WrittenField(IdName, e.id)
              /\ EntryLines(e)[2] = WrittenField(DataName, e.data)
              /\ EntryLines(e)[3] = <<>>
<1> DEFINE idLine == WrittenField(IdName, e.id)
           dataLine == WrittenField(DataName, e.data)
           end == <<>>
           T == {idLine, dataLine, end}
<1>1. <<idLine>> \in Seq(T) /\ <<dataLine, end>> \in Seq(T) /\ <<>> \in Seq(T)
  BY EmptySeq
<1>2. e.id = None => EntryLines(e) = <<>> \o <<dataLine, end>>
  BY DEF EntryLines
<1>3. e.id # None => EntryLines(e) = <<idLine>> \o <<dataLine, end>>
  BY DEF EntryLines
<1> HIDE DEF idLine, dataLine, end
<1>4. <<>> \o <<dataLine, end>> = <<dataLine, end>>
  BY <1>1, ConcatEmptySeq
<1>5. LET lines == <<idLine>> \o <<dataLine, end>>
      IN  Len(lines) = 3 /\ lines[1] = idLine /\ lines[2] = dataLine /\ lines[3] = end
  <2> DEFINE first == <<idLine>>
             rest == <<dataLine, end>>
  <2>1. /\ Len(first) = 1 /\ first[1] = idLine
        /\ Len(rest) = 2 /\ rest[1] = dataLine /\ rest[2] = end
        /\ first \in Seq(T) /\ rest \in Seq(T)
    BY <1>1
  <2> HIDE DEF first, rest
  <2>2. /\ Len(first \o rest) = Len(first) + Len(rest)
        /\ \A i \in 1..(Len(first) + Len(rest)) :
             (first \o rest)[i] = IF i <= Len(first) THEN first[i] ELSE rest[i - Len(first)]
    BY <2>1, ConcatProperties
  <2>3. Len(first \o rest) = 3 /\ (first \o rest)[1] = idLine
        /\ (first \o rest)[2] = dataLine /\ (first \o rest)[3] = end
    BY <2>1, <2>2
  <2>4. QED
    BY <2>3 DEF first, rest
<1>6. QED
  <2>1. CASE e.id = None
    BY <1>2, <1>4, <2>1 DEF idLine, dataLine, end
  <2>2. CASE e.id # None
    BY <1>3, <1>5, <2>2 DEF idLine, dataLine, end
  <2>3. QED
    BY <2>1, <2>2

LEMMA EntriesAreSent ==
  ASSUME NEW l \in Logs, NEW k \in 1..Len(l)
  PROVE  /\ l[k] \in Entry
         /\ l[k].data \in Str /\ ValidUtf8(l[k].data)
         /\ l[k].id # None => l[k].id \in Str /\ ValidUtf8(l[k].id)
         /\ \A j \in 1..Len(EntryLines(l[k])) : EntryLines(l[k])[j] \in Lines
<1>1. l \in Seq(Entry)
  BY LogAssumption
<1>2. l[k] \in Entry
  BY <1>1
<1>3. QED
  BY <1>2, LogAssumption DEF Entry, Option

\* No two events of a log have the same data, nor the same id.
LEMMA EntriesDiffer ==
  ASSUME NEW l \in Logs, NEW k \in 1..Len(l), NEW j \in 1..Len(l)
  PROVE  /\ l[j].data = l[k].data => j = k
         /\ l[k].id # None /\ l[j].id = l[k].id => j = k
BY LogAssumption

-----------------------------------------------------------------------------
(***************************************************************************)
(* What the builder has of the event that the server is sending.           *)
(***************************************************************************)
Parsing ==
  conn = "Open" =>
    /\ builder.isComplete = FALSE
    /\ cursor <= Len(log) =>
         builder.data = IF part = Len(EntryLines(log[cursor])) THEN log[cursor].data
                        ELSE None

\* The steps, by what they do to the log, the event and the ids.
Answered ==
  /\ conn = "Connecting" /\ conn' = "Open"
  /\ builder' = EmptyBuilder
  /\ cursor' = After(log, sent) /\ part' = 1
  /\ UNCHANGED <<log, seen, lastEventId, sent>>

Sending ==
  /\ conn = "Open" /\ conn' = "Open"
  /\ cursor <= Len(log)
  /\ UNCHANGED <<log, sent>>

TakesId ==
  /\ Sending
  /\ part = 1 /\ log[cursor].id # None
  /\ builder' = [builder EXCEPT !.id = IF HasNul(log[cursor].id) THEN builder.id
                                       ELSE log[cursor].id]
  /\ part' = 2 /\ UNCHANGED <<cursor, seen, lastEventId>>

TakesData ==
  /\ Sending
  /\ part = Len(EntryLines(log[cursor])) - 1
  /\ builder' = [builder EXCEPT !.data = log[cursor].data]
  /\ part' = part + 1 /\ UNCHANGED <<cursor, seen, lastEventId>>

TakesEnd ==
  /\ Sending
  /\ part = Len(EntryLines(log[cursor]))
  /\ builder' = AfterDispatch(builder)
  /\ lastEventId' = builder.id
  /\ seen' = Append(seen, log[cursor].data)
  /\ part' = 1 /\ cursor' = cursor + 1

Away ==
  /\ UNCHANGED <<log, cursor, part, seen, lastEventId>>
  /\ \/ UNCHANGED <<conn, builder, sent>>
     \/ /\ conn' # "Open"
        /\ conn' = "Connecting" =>
             sent' = lastEventId \/ (conn = "Connecting" /\ sent' = sent)

LEMMA SendCases ==
  ASSUME ResumeTypeOK, Parsing, ServerSends
  PROVE  TakesId \/ TakesData \/ TakesEnd
<1> DEFINE e == log[cursor]
           lines == EntryLines(log[cursor])
           line == lines[part]
           step == ParseStep(builder, line)
<1>1. /\ cursor <= Len(log) /\ StreamLine(line) /\ log' = log
      /\ part < Len(lines) => part' = part + 1 /\ cursor' = cursor
      /\ ~(part < Len(lines)) => part' = 1 /\ cursor' = cursor + 1
      /\ seen' = IF step.item \in {None, Utf8Error} THEN seen ELSE Append(seen, step.item.data)
  BY DEF ServerSends
<1>2. log \in Logs /\ cursor \in 1..Len(log) /\ part \in 1..3 /\ conn = "Open"
      /\ part <= Len(lines) /\ builder \in Builder
  <2>1. conn = "Open"
    BY <1>1 DEF StreamLine
  <2>2. log \in Seq(Entry) /\ log \in Logs
    BY LogAssumption DEF ResumeTypeOK
  <2>3. cursor \in 1..Len(log)
    BY <1>1, <2>2 DEF ResumeTypeOK
  <2>4. QED
    BY <1>1, <2>1, <2>2, <2>3 DEF ResumeTypeOK, TypeOK
<1>3. e \in Entry /\ e.data \in Str /\ ValidUtf8(e.data)
      /\ (e.id # None => e.id \in Str /\ ValidUtf8(e.id))
  BY <1>2, EntriesAreSent
<1>4. builder.isComplete = FALSE /\ builder.data = IF part = Len(lines) THEN e.data ELSE None
  BY <1>1, <1>2 DEF Parsing
<1>5. None \notin Str /\ None # Utf8Error /\ None \notin Event /\ Utf8Error \notin Event
  BY NoneAssumption, BuilderAssumption, ItemAssumption DEF Str
<1>6. /\ step.item = None =>
           builder' = step.builder /\ UNCHANGED <<conn, lastEventId, sent>>
      /\ step.item \in Event =>
           builder' = step.builder /\ lastEventId' = step.item.id /\ UNCHANGED <<conn, sent>>
  <2>1. step.item # Utf8Error => builder' = step.builder
    BY <1>1 DEF StreamLine
  <2>2. step.item # Utf8Error /\ step.item = None => UNCHANGED <<conn, lastEventId, sent>>
    BY <1>1 DEF StreamLine
  <2>3. step.item # Utf8Error /\ step.item # None =>
          lastEventId' = step.item.id /\ UNCHANGED <<conn, sent>>
    BY <1>1 DEF StreamLine, HandleEvent
  <2>4. QED
    BY <1>5, <2>1, <2>2, <2>3
<1>7. CASE e.id # None /\ part = 1
  <2>1. line = WrittenField(IdName, e.id) /\ Len(lines) = 3
    BY <1>3, <1>7, EntryLinesAre
  <2> HIDE DEF e
  <2>0. /\ ParseStep(builder, WrittenField(IdName, e.id)).item = None
        /\ ParseStep(builder, WrittenField(IdName, e.id)).builder
             = [builder EXCEPT !.id = IF HasNul(e.id) THEN builder.id ELSE e.id]
    BY <1>2, <1>3, <1>4, <1>7, IdLineStep
  <2>2. step.item = None
        /\ step.builder = [builder EXCEPT !.id = IF HasNul(e.id) THEN builder.id ELSE e.id]
    BY <2>0, <2>1
  <2>3. part' = 2 /\ cursor' = cursor /\ seen' = seen
    BY <1>1, <1>7, <2>1, <2>2
  <2> HIDE DEF step, line, lines
  <2>4. QED
    BY <1>1, <1>2, <1>6, <1>7, <2>2, <2>3 DEF TakesId, Sending, e
<1>8. CASE part = Len(lines) - 1
  <2>1. line = WrittenField(DataName, e.data) /\ Len(lines) \in {2, 3}
    <3>1. Len(lines) = 2 \/ Len(lines) = 3
      BY <1>3, EntryLinesAre
    <3>2. CASE e.id = None
      <4>1. Len(lines) = 2 /\ lines[1] = WrittenField(DataName, e.data)
        BY <1>3, <3>2, EntryLinesAre
      <4>2. part = 1
        BY <1>8, <4>1
      <4>3. QED
        BY <4>1, <4>2
    <3>4. CASE e.id # None
      <4>1. Len(lines) = 3 /\ lines[2] = WrittenField(DataName, e.data)
        BY <1>3, <3>4, EntryLinesAre
      <4>2. part = 2
        BY <1>8, <4>1
      <4>3. QED
        BY <4>1, <4>2
    <3>3. QED
      BY <3>1, <3>2, <3>4
  <2>2. builder.data = None
    BY <1>4, <1>8, <2>1
  <2> HIDE DEF e
  <2>0. /\ ParseStep(builder, WrittenField(DataName, e.data)).item = None
        /\ ParseStep(builder, WrittenField(DataName, e.data)).builder
             = [builder EXCEPT !.data = e.data]
    BY <1>2, <1>3, <1>4, <2>2, DataLineStep
  <2>3. step.item = None /\ step.builder = [builder EXCEPT !.data = e.data]
    BY <2>0, <2>1
  <2>4. part' = part + 1 /\ cursor' = cursor /\ seen' = seen
    BY <1>1, <1>8, <2>1, <2>3
  <2> HIDE DEF step, line
  <2>5. QED
    BY <1>1, <1>2, <1>6, <1>8, <2>3, <2>4 DEF TakesData, Sending, e
<1>9. CASE part = Len(lines)
  <2>1. line = <<>> /\ Len(lines) \in {2, 3}
    BY <1>3, <1>9, EntryLinesAre
  <2>2. builder.data = e.data /\ builder.data # None
    BY <1>3, <1>4, <1>5, <1>9
  <2>3. /\ step.item \in Event
        /\ step.item.data = e.data /\ step.item.id = builder.id
        /\ step.builder = AfterDispatch(builder)
    BY <1>2, <2>1, <2>2, EmptyLineStep
  <2>4. part' = 1 /\ cursor' = cursor + 1
    BY <1>1, <1>9, <2>1
  <2>5. seen' = Append(seen, e.data)
    BY <1>1, <1>5, <2>3
  <2> HIDE DEF step, line
  <2>6. QED
    BY <1>1, <1>2, <1>6, <1>9, <2>3, <2>4, <2>5 DEF TakesEnd, Sending
<1>10. (e.id # None /\ part = 1) \/ part = Len(lines) - 1 \/ part = Len(lines)
  <2>1. (e.id = None /\ Len(lines) = 2) \/ (e.id # None /\ Len(lines) = 3)
    BY <1>3, EntryLinesAre
  <2>2. (part = 1 \/ part = 2 \/ part = 3) /\ part <= Len(lines)
    BY <1>2
  <2>3. CASE e.id = None
    <3>1. Len(lines) = 2
      BY <2>1, <2>3
    <3>2. part = 1 \/ part = 2
      BY <2>2, <3>1
    <3>3. QED
      BY <3>1, <3>2
  <2>4. CASE e.id # None
    <3>1. Len(lines) = 3
      BY <2>1, <2>4
    <3>2. part = 1 \/ part = Len(lines) - 1 \/ part = Len(lines)
      BY <2>2, <3>1
    <3>3. QED
      BY <2>4, <3>2
  <2>5. QED
    BY <2>3, <2>4
<1>11. QED
  BY <1>7, <1>8, <1>9, <1>10

LEMMA ResumeCases ==
  ASSUME ResumeTypeOK, Parsing, [ResumeNext]_allVars
  PROVE  Answered \/ TakesId \/ TakesData \/ TakesEnd \/ Away
<1>1. CASE ServerAnswers
  BY <1>1 DEF ServerAnswers, ConnectOk, Answered
<1>2. CASE ServerSends
  BY <1>2, SendCases
<1>3. CASE Elsewhere
  <2>1. CASE ConnectBadResponse \/ ConnectFails \/ PollCompleted \/ PollClosed
    BY <1>3, <2>1 DEF Elsewhere, serverVars, ConnectBadResponse, ConnectFails, PollCompleted,
                      PollClosed, Away
  <2>2. CASE StreamStops
    <3>1. conn' \in {"Retrying", "Closed", "Panicked"} /\ lastEventId' = lastEventId
      BY <2>2, ErrorCases DEF StreamStops, ResumeTypeOK
    <3>2. QED
      BY <1>3, <3>1 DEF Elsewhere, serverVars, Away
  <2>3. CASE DelayFires
    BY <1>3, <2>3 DEF Elsewhere, serverVars, DelayFires, InitiateConnection, Away
  <2>4. QED
    BY <1>3, <2>1, <2>2, <2>3 DEF Elsewhere
<1>4. CASE UNCHANGED allVars
  BY <1>4 DEF allVars, vars, serverVars, Away
<1>5. QED
  BY <1>1, <1>2, <1>3, <1>4 DEF ResumeNext

-----------------------------------------------------------------------------
\* A resumed source is a source: what is proved of the one holds of the other.
LEMMA ResumeIsSourceStep ==
  ASSUME log \in Logs, cursor \in 1..(Len(log) + 1), part \in 1..3,
         conn = "Open" /\ cursor <= Len(log) => part <= Len(EntryLines(log[cursor])),
         [ResumeNext]_allVars
  PROVE  [Next]_vars
<1>1. CASE ServerAnswers
  BY <1>1 DEF ServerAnswers, Next
<1>2. CASE ServerSends
  <2>1. /\ StreamLine(EntryLines(log[cursor])[part]) /\ cursor <= Len(log)
        /\ conn = "Open"
    BY <1>2 DEF ServerSends, StreamLine
  <2>2. cursor \in 1..Len(log)
    <3>1. Len(log) \in Nat
      BY LogAssumption
    <3>2. QED
      BY <2>1, <3>1
  <2>3. Len(EntryLines(log[cursor])) \in {2, 3}
    BY <2>2, EntriesAreSent, EntryLinesAre
  <2>4. part \in 1..Len(EntryLines(log[cursor]))
    BY <2>1, <2>3
  <2>5. EntryLines(log[cursor])[part] \in Lines
    BY <2>2, <2>4, EntriesAreSent
  <2>6. QED
    BY <2>1, <2>5 DEF Next
<1>3. CASE Elsewhere
  BY <1>3 DEF Elsewhere, Next
<1>4. CASE UNCHANGED allVars
  BY <1>4 DEF allVars
<1>5. QED
  BY <1>1, <1>2, <1>3, <1>4 DEF ResumeNext

LEMMA AfterType ==
  ASSUME NEW l \in Logs, NEW id
  PROVE  After(l, id) \in 1..(Len(l) + 1)
<1>1. Len(l) \in Nat
  BY LogAssumption
<1>2. CASE \E k \in 1..Len(l) : l[k].id = id
  <2>1. (CHOOSE k \in 1..Len(l) : l[k].id = id) \in 1..Len(l)
    BY <1>2
  <2>2. QED
    BY <1>1, <2>1 DEF After
<1>3. CASE ~\E k \in 1..Len(l) : l[k].id = id
  BY <1>1, <1>3 DEF After
<1>4. QED
  BY <1>2, <1>3

LEMMA AfterEvent ==
  ASSUME NEW l \in Logs, NEW k \in 1..Len(l), l[k].id \notin {None, <<>>}
  PROVE  After(l, l[k].id) = k + 1
<1> DEFINE c == CHOOSE j \in 1..Len(l) : l[j].id = l[k].id
<1>1. c \in 1..Len(l) /\ l[c].id = l[k].id
  OBVIOUS
<1>2. c = k
  BY <1>1, EntriesDiffer
<1>3. QED
  BY <1>2 DEF After

LEMMA AfterNothing ==
  ASSUME NEW l
  PROVE  After(l, <<>>) = 1 /\ After(l, None) = 1
BY DEF After

-----------------------------------------------------------------------------
LEMMA ParsingInductive ==
  /\ ResumeInit => ResumeTypeOK /\ Parsing
  /\ ResumeTypeOK /\ Parsing /\ [ResumeNext]_allVars => ResumeTypeOK' /\ Parsing'
<1>1. ResumeInit => ResumeTypeOK /\ Parsing
  <2> SUFFICES ASSUME ResumeInit
               PROVE  ResumeTypeOK /\ Parsing
    OBVIOUS
  <2>1. TypeOK
    BY SourceTypeInductive DEF ResumeInit
  <2>2. /\ log \in Logs /\ Len(log) \in Nat /\ cursor = 1 /\ part = 1
        /\ seen = <<>> /\ conn = "Connecting"
    BY LogAssumption DEF ResumeInit, Init
  <2>3. QED
    BY <2>1, <2>2, EmptySeq DEF ResumeTypeOK, Parsing
<1>2. ASSUME ResumeTypeOK, Parsing, [ResumeNext]_allVars
      PROVE  ResumeTypeOK' /\ Parsing'
  <2>0. TypeOK'
    BY <1>2, ResumeIsSourceStep, SourceTypeInductive DEF ResumeTypeOK
  <2>1. /\ log \in Logs /\ Len(log) \in Nat /\ log' = log
        /\ cursor \in 1..(Len(log) + 1) /\ part \in 1..3 /\ seen \in Seq(Str)
        /\ \A k \in 1..Len(log) : Len(EntryLines(log[k])) \in {2, 3}
    <3>1. log \in Logs /\ Len(log) \in Nat /\ cursor \in 1..(Len(log) + 1)
          /\ part \in 1..3 /\ seen \in Seq(Str)
      BY <1>2, LogAssumption DEF ResumeTypeOK
    <3>2. log' = log
      BY <1>2, ResumeCases DEF Answered, TakesId, TakesData, TakesEnd, Sending, Away
    <3>3. \A k \in 1..Len(log) : Len(EntryLines(log[k])) \in {2, 3}
      BY <3>1, EntriesAreSent, EntryLinesAre
    <3>4. QED
      BY <3>1, <3>2, <3>3
  <2>9. \A n \in {2, 3} : 1 <= n /\ 1 # n
    OBVIOUS
  <2>2. CASE Answered
    <3>1. /\ cursor' \in 1..(Len(log) + 1) /\ part' = 1 /\ seen' = seen
          /\ builder'.isComplete = FALSE /\ builder'.data = None
      BY <2>1, <2>2, AfterType DEF Answered, EmptyBuilder
    <3>2. cursor' <= Len(log) => cursor' \in 1..Len(log)
      BY <2>1, <3>1
    <3>3. ASSUME cursor' <= Len(log)
          PROVE  part' <= Len(EntryLines(log[cursor'])) /\ part' # Len(EntryLines(log[cursor']))
      <4>1. Len(EntryLines(log[cursor'])) \in {2, 3}
        BY <2>1, <3>2, <3>3
      <4>2. QED
        BY <2>9, <3>1, <4>1
    <3>4. QED
      BY <2>0, <1>2, <2>1, <3>1, <3>3 DEF ResumeTypeOK, Parsing
  <2>3. ASSUME Sending
        PROVE  cursor \in 1..Len(log) /\ Len(EntryLines(log[cursor])) \in {2, 3}
               /\ builder.isComplete = FALSE /\ builder \in Builder
               /\ builder.data = IF part = Len(EntryLines(log[cursor])) THEN log[cursor].data
                                 ELSE None
    BY <1>2, <2>1, <2>3 DEF Sending, Parsing, ResumeTypeOK, TypeOK
  <2>4. CASE TakesId
    <3>1. Sending /\ Len(EntryLines(log[cursor])) = 3
      <4>1. Sending /\ log[cursor].id # None
        BY <2>4 DEF TakesId
      <4>2. log[cursor] \in Entry
        BY <2>1, <2>3, <4>1, EntriesAreSent
      <4>3. QED
        BY <4>1, <4>2, EntryLinesAre
    <3>2. builder.data = None
      BY <2>3, <2>4, <3>1 DEF TakesId
    <3>3. builder'.data = None /\ builder'.isComplete = FALSE
      BY <2>3, <2>4, <3>1, <3>2 DEF TakesId, Builder
    <3>4. cursor' = cursor /\ part' = 2 /\ seen' = seen
      BY <2>4 DEF TakesId
    <3>5. part' <= Len(EntryLines(log[cursor'])) /\ part' # Len(EntryLines(log[cursor']))
      BY <3>1, <3>4
    <3>6. QED
      BY <2>0, <2>1, <2>3, <3>1, <3>3, <3>4, <3>5 DEF ResumeTypeOK, Parsing
  <2>5. CASE TakesData
    <3>1. /\ Sending /\ part = Len(EntryLines(log[cursor])) - 1
          /\ cursor' = cursor /\ part' = part + 1 /\ seen' = seen
      BY <2>5 DEF TakesData
    <3>2. part' = Len(EntryLines(log[cursor])) /\ part' \in 1..3
      BY <2>3, <3>1
    <3>3. builder'.data = log[cursor].data /\ builder'.isComplete = FALSE
      BY <2>3, <2>5, <3>1 DEF TakesData, Builder
    <3>4. QED
      BY <2>0, <1>2, <2>1, <2>3, <3>1, <3>2, <3>3 DEF ResumeTypeOK, Parsing
  <2>6. CASE TakesEnd
    <3>1. /\ Sending /\ cursor' = cursor + 1 /\ part' = 1
          /\ seen' = Append(seen, log[cursor].data)
          /\ builder'.data = None /\ builder'.isComplete = FALSE
      BY <2>6 DEF TakesEnd, AfterDispatch, EmptyBuilder
    <3>2. seen' \in Seq(Str)
      <4>1. log[cursor].data \in Str
        BY <2>1, <2>3, <3>1, EntriesAreSent
      <4>2. QED
        BY <2>1, <3>1, <4>1
    <3>3. cursor' \in 1..(Len(log) + 1)
          /\ (cursor' <= Len(log) => cursor' \in 1..Len(log))
      BY <2>1, <2>3, <3>1
    <3>4. ASSUME cursor' <= Len(log)
          PROVE  part' <= Len(EntryLines(log[cursor'])) /\ part' # Len(EntryLines(log[cursor']))
      <4>1. Len(EntryLines(log[cursor'])) \in {2, 3}
        BY <2>1, <3>3, <3>4
      <4>2. QED
        BY <2>9, <3>1, <4>1
    <3>5. QED
      BY <2>0, <1>2, <2>1, <3>1, <3>2, <3>3, <3>4 DEF ResumeTypeOK, Parsing
  <2>7. CASE Away
    BY <2>0, <1>2, <2>7 DEF Away, ResumeTypeOK, Parsing
  <2>8. QED
    BY <1>2, <2>2, <2>4, <2>5, <2>6, <2>7, ResumeCases
<1>3. QED
  BY <1>1, <1>2

(***************************************************************************)
(* A resumed source is an EventSource, so its theorems hold of it.         *)
(***************************************************************************)
THEOREM ResumptionIsSource == ResumeSpec => Spec
<1>1. ResumeInit => Init
  BY DEF ResumeInit
<1>2. ResumeTypeOK /\ [ResumeNext]_allVars => [Next]_vars
  BY ResumeIsSourceStep DEF ResumeTypeOK
<1>3. QED
  BY <1>1, <1>2, ParsingInductive, PTL DEF ResumeSpec, Spec

(***************************************************************************)
(* The source with its server is type-correct.                             *)
(***************************************************************************)
THEOREM ResumptionTypeCorrect == ResumeSpec => []ResumeTypeOK
BY ParsingInductive, PTL DEF ResumeSpec

-----------------------------------------------------------------------------
\* What an event adds to the events handed out.
LEMMA SeenGrows ==
  ASSUME log \in Logs, log' = log, seen \in Seq(Str), cursor \in 1..Len(log),
         seen' = Append(seen, log[cursor].data)
  PROVE  \A k \in 1..Len(log) : Seen(k)' <=> Seen(k) \/ k = cursor
<1> DEFINE d == log[cursor].data
           n == Len(seen)
<1>1. d \in Str
  BY EntriesAreSent
<1>2. /\ n \in Nat /\ Len(seen') = n + 1 /\ seen'[n + 1] = d
      /\ \A i \in 1..n : seen'[i] = seen[i]
  BY <1>1
<1>3. \A k \in 1..Len(log) : d = log[k].data => k = cursor
  BY EntriesDiffer
<1> HIDE DEF d, n
<1>4. \A i \in 1..(n + 1) : i \in 1..n \/ i = n + 1
  BY <1>2
<1>5. 1..n \subseteq 1..(n + 1) /\ n + 1 \in 1..(n + 1)
  BY <1>2
<1>6. \A k \in 1..Len(log) : Seen(k) => Seen(k)'
  BY <1>2, <1>5 DEF Seen, n
<1>7. \A k \in 1..Len(log) : k = cursor => Seen(k)'
  BY <1>2, <1>5 DEF Seen, d
<1>8. \A k \in 1..Len(log) : Seen(k)' => Seen(k) \/ k = cursor
  BY <1>2, <1>3, <1>4 DEF Seen, n
<1>9. QED
  BY <1>6, <1>7, <1>8

(***************************************************************************)
(* The server goes on after an event only when all up to it are seen: that *)
(* holds of the id that was sent, of the one to be sent, and, but for the  *)
(* event on its way, of the one in the builder.                            *)
(***************************************************************************)
Known(k) == \A j \in 1..(k - 1) : Seen(j)

GapInv ==
  /\ NoGap
  /\ Known(After(log, lastEventId))
  /\ conn = "Connecting" => Known(After(log, sent))
  /\ conn = "Open" =>
       /\ Known(cursor)
       /\ \A j \in 1..(After(log, builder.id) - 1) : Seen(j) \/ j = cursor

LEMMA GapInductive ==
  /\ ResumeInit => GapInv
  /\ ResumeTypeOK /\ Parsing /\ GapInv /\ [ResumeNext]_allVars => GapInv'
<1>1. ResumeInit => GapInv
  <2> SUFFICES ASSUME ResumeInit
               PROVE  GapInv
    OBVIOUS
  <2>1. conn = "Connecting" /\ lastEventId = <<>> /\ sent = None /\ seen = <<>>
    BY DEF ResumeInit, Init
  <2>2. Known(1)
    BY DEF Known
  <2>3. NoGap
    BY <2>1 DEF NoGap, Seen
  <2>4. QED
    BY <2>1, <2>2, <2>3, AfterNothing DEF GapInv
<1>2. ASSUME ResumeTypeOK, Parsing, GapInv, [ResumeNext]_allVars
      PROVE  GapInv'
  <2>1. log \in Logs /\ Len(log) \in Nat /\ seen \in Seq(Str)
        /\ cursor \in 1..(Len(log) + 1) /\ builder \in Builder
    BY <1>2, LogAssumption DEF ResumeTypeOK, TypeOK
  <2>2. ASSUME log' = log, seen' = seen
        PROVE  /\ \A k : Seen(k)' <=> Seen(k)
               /\ \A k : Known(k)' <=> Known(k)
               /\ NoGap'
    BY <1>2, <2>2 DEF Seen, Known, GapInv, NoGap
  <2>3. CASE Answered
    <3>1. /\ conn = "Connecting" /\ conn' = "Open" /\ builder'.id = <<>>
          /\ cursor' = After(log, sent)
          /\ log' = log /\ seen' = seen /\ lastEventId' = lastEventId
      BY <2>3 DEF Answered, EmptyBuilder
    <3>2. After(log', builder'.id) = 1 /\ 1..(1 - 1) = {}
      BY <3>1, AfterNothing
    <3>3. Seen(0)' <=> Seen(0)
      BY <2>2, <3>1
    <3>4. /\ \A k : Known(k)' <=> Known(k)
          /\ NoGap'
      BY <2>2, <3>1
    <3>5. Known(After(log, lastEventId)) /\ Known(After(log, sent))
      BY <1>2, <3>1 DEF GapInv
    <3>6. Known(After(log, lastEventId))' /\ Known(cursor)'
      BY <3>1, <3>4, <3>5 DEF Known
    <3>7. QED
      BY <3>1, <3>2, <3>4, <3>6 DEF GapInv
  <2>4. CASE TakesId \/ TakesData
    <3>1. /\ conn = "Open" /\ conn' = "Open" /\ cursor \in 1..Len(log) /\ cursor' = cursor
          /\ log' = log /\ seen' = seen /\ lastEventId' = lastEventId
      BY <2>1, <2>4 DEF TakesId, TakesData, Sending
    <3>2. builder'.id = builder.id \/ (log[cursor].id # None /\ builder'.id = log[cursor].id)
      BY <2>1, <2>4 DEF TakesId, TakesData, Builder
    <3>3. /\ \A k : Seen(k)' <=> Seen(k)
          /\ NoGap'
      BY <2>2, <3>1
    <3>4. Known(After(log, lastEventId))' /\ Known(cursor)'
      BY <1>2, <3>1, <3>3 DEF GapInv, Known
    <3>5. \A j \in 1..(After(log, builder'.id) - 1) : Seen(j) \/ j = cursor
      <4>1. CASE builder'.id = builder.id
        BY <1>2, <3>1, <4>1 DEF GapInv
      <4>2. CASE log[cursor].id # None /\ builder'.id = log[cursor].id /\ builder'.id # <<>>
        <5>1. After(log, builder'.id) = cursor + 1
          BY <2>1, <3>1, <4>2, AfterEvent
        <5>2. /\ After(log, builder'.id) - 1 = cursor
              /\ \A j \in 1..cursor : j \in 1..(cursor - 1) \/ j = cursor
          BY <3>1, <5>1
        <5>3. \A j \in 1..(cursor - 1) : Seen(j)
          BY <1>2, <3>1 DEF GapInv, Known
        <5>4. QED
          BY <5>2, <5>3
      <4>3. CASE builder'.id = <<>>
        BY <4>3, AfterNothing
      <4>4. QED
        BY <3>2, <4>1, <4>2, <4>3
    <3>6. \A j \in 1..(After(log', builder'.id) - 1) : Seen(j)' \/ j = cursor'
      BY <3>1, <3>3, <3>5
    <3>7. QED
      BY <3>1, <3>3, <3>4, <3>6 DEF GapInv
  <2>5. CASE TakesEnd
    <3>1. /\ conn = "Open" /\ conn' = "Open" /\ cursor \in 1..Len(log)
          /\ cursor' = cursor + 1 /\ lastEventId' = builder.id /\ builder'.id = builder.id
          /\ log' = log /\ seen' = Append(seen, log[cursor].data)
      BY <2>1, <2>5 DEF TakesEnd, Sending, AfterDispatch, EmptyBuilder
    <3>2. \A k \in 1..Len(log) : Seen(k)' <=> Seen(k) \/ k = cursor
      BY <2>1, <3>1, SeenGrows
    <3>3. /\ NoGap /\ \A j \in 1..(cursor - 1) : Seen(j)
          /\ \A j \in 1..(After(log, builder.id) - 1) : Seen(j) \/ j = cursor
      BY <1>2, <3>1 DEF GapInv, Known
    <3>4. After(log, builder.id) \in 1..(Len(log) + 1)
      BY <2>1, AfterType
    <3>5. \A j \in 1..(After(log, builder.id) - 1) : Seen(j)'
      <4>1. \A j \in 1..(After(log, builder.id) - 1) : j \in 1..Len(log)
        BY <2>1, <3>4
      <4>2. QED
        BY <3>2, <3>3, <4>1
    <3>6. ASSUME NEW j \in 1..(cursor + 1 - 1)
          PROVE  Seen(j)'
      <4>1. j \in 1..Len(log) /\ (j = cursor \/ j \in 1..(cursor - 1))
        BY <2>1, <3>1
      <4>2. Seen(j) \/ j = cursor
        BY <3>3, <4>1
      <4>3. QED
        BY <3>2, <4>1, <4>2
    <3>7. NoGap'
      <4>1. ASSUME NEW k \in 1..Len(log), Seen(k)', NEW j \in 1..(k - 1)
            PROVE  Seen(j)'
        <5>1. j \in 1..Len(log)
          BY <2>1, <4>1
        <5>2. CASE Seen(k)
          BY <3>2, <3>3, <4>1, <5>1, <5>2 DEF NoGap
        <5>3. CASE k = cursor
          BY <3>2, <3>3, <4>1, <5>1, <5>3
        <5>4. QED
          BY <3>2, <4>1, <5>2, <5>3
      <4>2. QED
        BY <3>1, <4>1 DEF NoGap
    <3>8. QED
      BY <3>1, <3>5, <3>6, <3>7 DEF GapInv, Known
  <2>6. CASE Away
    <3>1. log' = log /\ seen' = seen /\ lastEventId' = lastEventId /\ cursor' = cursor
      BY <2>6 DEF Away
    <3>2. /\ \A k : Seen(k)' <=> Seen(k)
          /\ NoGap'
      BY <2>2, <3>1
    <3>3. CASE UNCHANGED <<conn, builder, sent>>
      BY <1>2, <3>1, <3>2, <3>3 DEF GapInv, Known
    <3>4. CASE conn' # "Open"
               /\ (conn' = "Connecting" =>
                     sent' = lastEventId \/ (conn = "Connecting" /\ sent' = sent))
      BY <1>2, <3>1, <3>2, <3>4 DEF GapInv, Known
    <3>5. QED
      BY <2>6, <3>3, <3>4 DEF Away
  <2>7. QED
    BY <1>2, <2>3, <2>4, <2>5, <2>6, ResumeCases
<1>3. QED
  BY <1>1, <1>2

(***************************************************************************)
(* No event of the log is skipped, over however many connections.          *)
(***************************************************************************)
THEOREM NoEventSkipped == ResumeSpec => []NoGap
<1>1. GapInv => NoGap
  BY DEF GapInv
<1>2. QED
  BY <1>1, GapInductive, ParsingInductive, PTL DEF ResumeSpec

-----------------------------------------------------------------------------
(***************************************************************************)
(* Where all events have ids, the event to come is the one after those     *)
(* handed out, in every place where an id or the server says so.           *)
(***************************************************************************)
OnceInv ==
  Identified =>
    /\ Len(seen) <= Len(log) /\ \A i \in 1..Len(seen) : seen[i] = log[i].data
    /\ After(log, lastEventId) = Len(seen) + 1
    /\ conn = "Connecting" => After(log, sent) = Len(seen) + 1
    /\ conn = "Open" =>
         /\ cursor = Len(seen) + 1
         /\ part # 1 /\ cursor <= Len(log) => builder.id = log[cursor].id

LEMMA OnceInductive ==
  /\ ResumeInit => OnceInv
  /\ ResumeTypeOK /\ Parsing /\ OnceInv /\ [ResumeNext]_allVars => OnceInv'
<1>1. ResumeInit => OnceInv
  <2> SUFFICES ASSUME ResumeInit
               PROVE  OnceInv
    OBVIOUS
  <2>1. conn = "Connecting" /\ lastEventId = <<>> /\ sent = None /\ seen = <<>>
        /\ Len(log) \in Nat
    BY LogAssumption DEF ResumeInit, Init
  <2>2. Len(seen) = 0 /\ 0 <= Len(log)
    BY <2>1
  <2>3. After(log, <<>>) = 0 + 1 /\ After(log, None) = 0 + 1
    BY AfterNothing
  <2>4. QED
    BY <2>1, <2>2, <2>3 DEF OnceInv
<1>2. ASSUME ResumeTypeOK, Parsing, OnceInv, [ResumeNext]_allVars
      PROVE  OnceInv'
  <2>1. log \in Logs /\ Len(log) \in Nat /\ seen \in Seq(Str) /\ Len(seen) \in Nat
        /\ cursor \in 1..(Len(log) + 1) /\ builder \in Builder
    BY <1>2, LogAssumption DEF ResumeTypeOK, TypeOK
  <2>2. log' = log
    BY <1>2, ResumeCases DEF Answered, TakesId, TakesData, TakesEnd, Sending, Away
  <2> SUFFICES ASSUME Identified
               PROVE  OnceInv'
    BY <2>2 DEF OnceInv, Identified
  <2>3. /\ Len(seen) <= Len(log) /\ \A i \in 1..Len(seen) : seen[i] = log[i].data
        /\ After(log, lastEventId) = Len(seen) + 1
        /\ conn = "Connecting" => After(log, sent) = Len(seen) + 1
        /\ conn = "Open" => cursor = Len(seen) + 1
        /\ conn = "Open" /\ part # 1 /\ cursor <= Len(log) => builder.id = log[cursor].id
    BY <1>2 DEF OnceInv
  <2>4. CASE Answered
    BY <2>3, <2>4 DEF Answered, OnceInv
  <2>5. CASE TakesId
    <3>1. /\ cursor \in 1..Len(log) /\ conn = "Open" /\ cursor' = cursor /\ conn' = "Open"
          /\ UNCHANGED <<log, seen, lastEventId>>
          /\ builder'.id = IF HasNul(log[cursor].id) THEN builder.id ELSE log[cursor].id
      BY <2>1, <2>5 DEF TakesId, Sending, Builder
    <3>2. ~HasNul(log[cursor].id)
      BY <3>1 DEF Identified
    <3>3. QED
      BY <2>3, <3>1, <3>2 DEF OnceInv
  <2>6. CASE TakesData
    <3>1. /\ cursor \in 1..Len(log) /\ conn = "Open" /\ cursor' = cursor /\ conn' = "Open"
          /\ part = Len(EntryLines(log[cursor])) - 1
          /\ UNCHANGED <<log, seen, lastEventId>>
          /\ builder'.id = builder.id
      BY <2>1, <2>6 DEF TakesData, Sending, Builder
    <3>2. log[cursor].id # None /\ log[cursor] \in Entry
      BY <2>1, <3>1, EntriesAreSent DEF Identified
    <3>3. part = 2
      BY <3>1, <3>2, EntryLinesAre
    <3>4. builder'.id = log[cursor].id
      <4>0. cursor \in 1..Len(log)
        BY <3>1
      <4>1. part # 1 /\ cursor <= Len(log)
        BY <4>0, <3>3
      <4>2. QED
        BY <2>3, <3>1, <4>1
    <3>5. UNCHANGED <<log, seen, lastEventId, cursor, conn>> /\ conn' = "Open"
      BY <3>1
    <3>6. QED
      BY <2>3, <3>4, <3>5 DEF OnceInv
  <2>7. CASE TakesEnd
    <3>1. /\ cursor \in 1..Len(log) /\ conn = "Open" /\ conn' = "Open"
          /\ part = Len(EntryLines(log[cursor]))
          /\ cursor' = cursor + 1 /\ part' = 1 /\ lastEventId' = builder.id
          /\ log' = log /\ seen' = Append(seen, log[cursor].data)
      BY <2>1, <2>7 DEF TakesEnd, Sending
    <3>2. log[cursor].id \notin {None, <<>>} /\ log[cursor] \in Entry /\ log[cursor].data \in Str
      BY <2>1, <3>1, EntriesAreSent DEF Identified
    <3>3. part = 3
      BY <3>1, <3>2, EntryLinesAre
    <3>4. builder.id = log[cursor].id /\ cursor = Len(seen) + 1
      BY <2>3, <3>1, <3>3
    <3>5. After(log, builder.id) = cursor + 1
      BY <2>1, <3>1, <3>2, <3>4, AfterEvent
    <3>6. Len(seen') = Len(seen) + 1 /\ seen'[Len(seen) + 1] = log[cursor].data
          /\ \A i \in 1..Len(seen) : seen'[i] = seen[i]
      BY <2>1, <3>1, <3>2
    <3>7. \A i \in 1..Len(seen') : seen'[i] = log[i].data
      BY <2>1, <2>3, <3>4, <3>6
    <3>8. Len(seen') <= Len(log) /\ cursor' = Len(seen') + 1
          /\ After(log, builder.id) = Len(seen') + 1
      BY <2>1, <3>1, <3>4, <3>5, <3>6
    <3>9. QED
      BY <3>1, <3>7, <3>8 DEF OnceInv
  <2>8. CASE Away
    BY <2>3, <2>8 DEF Away, OnceInv
  <2>9. QED
    BY <1>2, <2>4, <2>5, <2>6, <2>7, <2>8, ResumeCases
<1>3. QED
  BY <1>1, <1>2

(***************************************************************************)
(* Where all events have ids, what was handed out is a beginning of the    *)
(* log, however often the connection broke.                                *)
(***************************************************************************)
THEOREM EventsExactlyOnce == ResumeSpec => []ExactlyOnce
<1>1. OnceInv => ExactlyOnce
  BY DEF OnceInv, ExactlyOnce
<1>2. QED
  BY <1>1, OnceInductive, ParsingInductive, PTL DEF ResumeSpec
=============================================================================
