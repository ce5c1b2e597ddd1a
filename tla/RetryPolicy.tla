---------------------------- MODULE RetryPolicy ----------------------------
(***************************************************************************)
(* The retry policies of sseer (src/retry.rs).  A duration is a natural    *)
(* number; a policy is told the number and the delay of the last retry,    *)
(* None before the first, and answers with a delay or None.                *)
(***************************************************************************)
EXTENDS Options, Integers

CONSTANTS
  DurationMax,    \* Duration::MAX, beyond which mul_f64 panics
  Overflow        \* that panic

ASSUME DurationAssumption ==
  /\ DurationMax \in Nat
  /\ Overflow \notin Nat /\ Overflow # None

(***************************************************************************)
(* The three policies in one record.  start is the delay of Constant; the  *)
(* factor and the longest delay are used by ExponentialBackoff alone, and  *)
(* the factor is a whole number.                                           *)
(***************************************************************************)
Policy == [kind : {"Exponential", "Constant", "Never"},
           start : Nat, factor : Nat, maxDuration : Option(Nat), maxRetries : Option(Nat)]

\* A retry: its number and its delay.
Attempt == [num : Nat, delay : Nat]

ASSUME AttemptAssumption == None \notin Attempt

MulF64(d, factor) == IF d * factor > DurationMax THEN Overflow ELSE d * factor

Smaller(d, e) == IF d <= e THEN d ELSE e
Larger(d, e) == IF d <= e THEN e ELSE d

\* Wrong: the delay grows without its limit.
CapForgotten(p, d) == d

Cap(p, d) == IF d = Overflow \/ p.maxDuration = None THEN d ELSE Smaller(d, p.maxDuration)

\* Wrong: one retry too many.
AllowsOneMore(p, last) == p.maxRetries = None \/ last.num <= p.maxRetries

\* Wrong: one retry too few.
AllowsOneLess(p, last) == p.maxRetries = None \/ last.num + 1 < p.maxRetries

Allows(p, last) == p.maxRetries = None \/ last.num < p.maxRetries

\* Wrong: the last delay is limited and then grown.
BackoffRetryGrowsCapped(p, last) ==
  CASE last = None -> p.start
    [] last # None -> IF Allows(p, last) THEN MulF64(Cap(p, last.delay), p.factor) ELSE None

BackoffRetry(p, last) ==
  CASE last = None -> p.start
    [] last # None -> IF Allows(p, last) THEN Cap(p, MulF64(last.delay, p.factor)) ELSE None

ConstantRetry(p, last) == IF last = None \/ Allows(p, last) THEN p.start ELSE None

\* retry, and set_reconnection_time below: the method of the policy's type.
Retry(p, last) ==
  CASE p.kind = "Exponential" -> BackoffRetry(p, last)
    [] p.kind = "Constant"    -> ConstantRetry(p, last)
    [] p.kind = "Never"       -> None

\* Wrong: the longest delay does not follow the time the server asks for.
BackoffReconnectionTimeOnly(p, d) == [p EXCEPT !.start = d]

BackoffReconnectionTime(p, d) ==
  [p EXCEPT !.start = d, !.maxDuration = IF @ = None THEN None ELSE Larger(@, d)]

ConstantReconnectionTime(p, d) == [p EXCEPT !.start = d]

SetReconnectionTime(p, d) ==
  CASE p.kind = "Exponential" -> BackoffReconnectionTime(p, d)
    [] p.kind = "Constant"    -> ConstantReconnectionTime(p, d)
    [] p.kind = "Never"       -> p
=============================================================================
