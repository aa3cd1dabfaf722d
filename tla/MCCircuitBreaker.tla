-------------------------- MODULE MCCircuitBreaker --------------------------
\* Small instance of CircuitBreaker: enough threads for one to finish late
\* while others trip the breaker and probe it.
EXTENDS CircuitBreaker, TLC
==============================================================================
