----------------------- MODULE MCRedisCircuitBreaker -----------------------
\* Small instance of RedisCircuitBreaker: one caller can stall in the middle
\* of its two commands while two others trip the breaker.
EXTENDS RedisCircuitBreaker, TLC
=============================================================================
