--------------------------- MODULE BreakerContract ---------------------------
(***************************************************************************)
(* What a circuit breaker promises to the callers that share it            *)
(* (interception/circuit_breaker.py, docstring of CircuitBreaker.call): it *)
(* counts the consecutive failures of the wrapped function, is open        *)
(* exactly from the FailureThreshold-th of them on, and one success makes  *)
(* it forget them all.  When a caller is rejected is a matter of time and  *)
(* is not part of this view; rejected calls change nothing here.           *)
(***************************************************************************)
EXTENDS Naturals

CONSTANT FailureThreshold   \* failure_threshold

VARIABLES open,       \* the breaker is tripped
          failures    \* failures since the last success

contractVars == <<open, failures>>

ContractInit == open = FALSE /\ failures = 0

RecordFailure ==
  /\ failures' = failures + 1
  /\ open' = (failures' >= FailureThreshold)

RecordSuccess ==
  /\ failures' = 0
  /\ open' = FALSE

ContractNext == RecordFailure \/ RecordSuccess

ContractSpec == ContractInit /\ [][ContractNext]_contractVars
==============================================================================
