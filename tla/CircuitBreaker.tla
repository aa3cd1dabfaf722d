--------------------------- MODULE CircuitBreaker ---------------------------
(***************************************************************************)
(* interception/circuit_breaker.py: the in-memory breaker that one process *)
(* wraps around detector scoring.  FastAPI runs the synchronous handlers   *)
(* of api/app.py in a thread pool, so several threads are inside `call` on *)
(* the same object and nothing locks it.                                   *)
(*                                                                         *)
(* Grain of atomicity.  The build is CPython 3.12 (Dockerfile), where a    *)
(* thread can lose the interpreter lock only at a function call, at a      *)
(* backward jump or while it waits.  Straight-line attribute reads and     *)
(* writes are therefore one step, and every call to self.clock() or fn()   *)
(* ends one:                                                               *)
(*   - the `state` property reads the clock and only then reads _opened_at *)
(*     again (lines 49-50);                                                *)
(*   - a tripping failure sets _state, reads the clock, and only then      *)
(*     stores _opened_at (lines 75-76).                                    *)
(* `_failure_count += 1` holds no call and is one step.                    *)
(***************************************************************************)
EXTENDS Naturals

CONSTANTS
  Threads,            \* pool threads that use the breaker
  FailureThreshold,   \* failure_threshold, 3 in the code
  RecoveryTimeout,    \* recovery_timeout_seconds, in ticks
  NoTime,             \* None, for _opened_at
  MaxClock,           \* bound: the clock stops there
  MaxFailures         \* bound: failures counted since the last success

ASSUME BreakerAssumption ==
  /\ FailureThreshold \in Nat \ {0}
  /\ RecoveryTimeout \in Nat \ {0}
  /\ MaxClock \in Nat
  /\ MaxFailures \in Nat
  /\ NoTime \notin Nat

VARIABLES
  state,          \* _state
  failureCount,   \* _failure_count
  openedAt,       \* _opened_at
  clock,          \* self.clock()
  pc,             \* where each thread stands in `call`
  clockRead,      \* the clock value a thread holds (line 50 or line 76)
  raised          \* what the thread's last finished call raised

vars == <<state, failureCount, openedAt, clock, pc, clockRead, raised>>

shared == <<state, failureCount, openedAt>>

\* idle: outside `call`; comparing: in the state property, clock read;
\* running: inside fn(); stamping: _state is OPEN, _opened_at not stored yet.
PcValues == {"idle", "comparing", "running", "stamping"}

Exceptions == {"none", "circuit_open", "fn_error", "type_error"}

Init ==
  /\ state = "closed"
  /\ failureCount = 0
  /\ openedAt = NoTime
  /\ clock = 0
  /\ pc = [t \in Threads |-> "idle"]
  /\ clockRead = [t \in Threads |-> 0]
  /\ raised = [t \in Threads |-> "none"]

-----------------------------------------------------------------------------
\* Leaving `call`: the thread returns or raises, and holds no clock value.
Leave(t, exception) ==
  /\ pc' = [pc EXCEPT ![t] = "idle"]
  /\ clockRead' = [clockRead EXCEPT ![t] = 0]
  /\ raised' = [raised EXCEPT ![t] = exception]

\* Line 66: the value the state property returned decides whether fn runs.
Proceed(t, observed) ==
  \/ /\ observed = "open"
     /\ Leave(t, "circuit_open")
  \/ /\ observed = "closed"
     /\ pc' = [pc EXCEPT ![t] = "running"]
     /\ clockRead' = [clockRead EXCEPT ![t] = 0]
     /\ raised' = [raised EXCEPT ![t] = "none"]

MustCompareTimes == state = "open" /\ openedAt # NoTime

\* Lines 49, 52: closed, or open without a time: _state is returned as it is.
EnterDirectly(t) ==
  /\ pc[t] = "idle"
  /\ ~MustCompareTimes
  /\ Proceed(t, state)
  /\ UNCHANGED <<shared, clock>>

\* Lines 49-50 up to the return of self.clock().
ReadClock(t) ==
  /\ pc[t] = "idle"
  /\ MustCompareTimes
  /\ pc' = [pc EXCEPT ![t] = "comparing"]
  /\ clockRead' = [clockRead EXCEPT ![t] = clock]
  /\ raised' = [raised EXCEPT ![t] = "none"]
  /\ UNCHANGED <<shared, clock>>

\* The half-open test of line 50, on the _opened_at of this moment.
RecoveryElapsedOffByOne(t) == clockRead[t] + 1 >= openedAt + RecoveryTimeout

NeverRecovered(t) == FALSE

RecoveryElapsed(t) == clockRead[t] >= openedAt + RecoveryTimeout

\* Lines 50-52 after the clock call; _state is read again on line 52.
CompareTimes(t) ==
  /\ pc[t] = "comparing"
  /\ openedAt # NoTime
  /\ Proceed(t, IF RecoveryElapsed(t) THEN "closed" ELSE state)
  /\ UNCHANGED <<shared, clock>>

\* Another thread's success stored None in between: float - None.
SubtractNone(t) ==
  /\ pc[t] = "comparing"
  /\ openedAt = NoTime
  /\ Leave(t, "type_error")
  /\ UNCHANGED <<shared, clock>>

\* Lines 78-82: fn returned.
SucceedKeepingCount(t) ==
  /\ pc[t] = "running"
  /\ state' = "closed"
  /\ openedAt' = NoTime
  /\ Leave(t, "none")
  /\ UNCHANGED <<failureCount, clock>>

Succeed(t) ==
  /\ pc[t] = "running"
  /\ failureCount' = 0
  /\ state' = "closed"
  /\ openedAt' = NoTime
  /\ Leave(t, "none")
  /\ UNCHANGED clock

\* Lines 72-74, 77: fn raised and the threshold is not reached.
FailBelowThreshold(t) ==
  /\ pc[t] = "running"
  /\ failureCount < MaxFailures
  /\ failureCount + 1 < FailureThreshold
  /\ failureCount' = failureCount + 1
  /\ Leave(t, "fn_error")
  /\ UNCHANGED <<state, openedAt, clock>>

\* Lines 72-76 up to the return of self.clock(): the breaker trips.
TripStampingNothing(t) ==
  /\ pc[t] = "running"
  /\ failureCount < MaxFailures
  /\ failureCount + 1 >= FailureThreshold
  /\ failureCount' = failureCount + 1
  /\ state' = "open"
  /\ Leave(t, "fn_error")
  /\ UNCHANGED <<openedAt, clock>>

Trip(t) ==
  /\ pc[t] = "running"
  /\ failureCount < MaxFailures
  /\ failureCount + 1 >= FailureThreshold
  /\ failureCount' = failureCount + 1
  /\ state' = "open"
  /\ pc' = [pc EXCEPT ![t] = "stamping"]
  /\ clockRead' = [clockRead EXCEPT ![t] = clock]
  /\ UNCHANGED <<openedAt, clock, raised>>

\* Lines 76-77: the time read when the breaker tripped is stored.
StoreOpenedAtAhead(t) ==
  /\ pc[t] = "stamping"
  /\ openedAt' = clockRead[t] + RecoveryTimeout
  /\ Leave(t, "fn_error")
  /\ UNCHANGED <<state, failureCount, clock>>

StoreOpenedAt(t) ==
  /\ pc[t] = "stamping"
  /\ openedAt' = clockRead[t]
  /\ Leave(t, "fn_error")
  /\ UNCHANGED <<state, failureCount, clock>>

Tick ==
  /\ clock < MaxClock
  /\ clock' = clock + 1
  /\ UNCHANGED <<shared, pc, clockRead, raised>>

Finish(t) == Succeed(t) \/ FailBelowThreshold(t) \/ Trip(t)

Enter(t) == EnterDirectly(t) \/ ReadClock(t)

Observe(t) == CompareTimes(t) \/ SubtractNone(t)

Next ==
  \/ \E t \in Threads : Enter(t) \/ Observe(t) \/ Finish(t) \/ StoreOpenedAt(t)
  \/ Tick

Spec == Init /\ [][Next]_vars

\* Time passes, every started call runs to its end (fn returns or raises),
\* and threads keep calling.
Fairness ==
  /\ WF_vars(Tick)
  /\ \A t \in Threads :
       /\ WF_vars(Enter(t))
       /\ WF_vars(Observe(t))
       /\ WF_vars(Finish(t))
       /\ WF_vars(StoreOpenedAt(t))

FairSpec == Spec /\ Fairness

-----------------------------------------------------------------------------
\* The types of the fields, and no stored or held time lies in the future:
\* a future _opened_at would keep the breaker shut beyond its timeout.
TypeOK ==
  /\ state \in {"closed", "open"}
  /\ failureCount \in Nat
  /\ clock \in Nat
  /\ openedAt = NoTime \/ (openedAt \in Nat /\ openedAt <= clock)
  /\ pc \in [Threads -> PcValues]
  /\ clockRead \in [Threads -> Nat]
  /\ \A t \in Threads : clockRead[t] <= clock
  /\ raised \in [Threads -> Exceptions]

\* The state and the counter never disagree, whatever calls overlap: no
\* failure is forgotten, and none left over trips the breaker early.  The
\* contract below says the same of its own two variables; its proof needs this.
OpenIffTripped == (state = "open") <=> (failureCount >= FailureThreshold)

\* An open breaker without a time rejects every call for ever (line 49); it
\* only exists while the thread that tripped it is about to store the time.
OpenIsStamped ==
  state = "open" /\ openedAt = NoTime => \E t \in Threads : pc[t] = "stamping"

\* While the breaker is open nothing reaches scoring before the recovery
\* timeout, counted from the recorded trip, has passed (docstring of `call`).
TrialOnlyAfterRecovery ==
  [][\A t \in Threads :
       pc[t] # "running" /\ pc'[t] = "running" /\ state = "open" =>
         openedAt # NoTime /\ clock >= openedAt + RecoveryTimeout]_vars

\* Every interleaving of `call` counts failures and opens and closes the way
\* the sequential contract says.
Contract == INSTANCE BreakerContract
              WITH open <- (state = "open"), failures <- failureCount

MeetsContract == Contract!ContractSpec

\* A breaker that opened recovers: once its timeout can elapse before the clock
\* stops, a call is let through again, a success closes it, or a trip recorded
\* later starts a new period.
RecoveryInReach == openedAt # NoTime /\ openedAt + RecoveryTimeout <= MaxClock

OpenBreakerRecovers ==
  (state = "open" /\ RecoveryInReach)
     ~> \/ state = "closed"
        \/ \E t \in Threads : pc[t] = "running"
        \/ ~RecoveryInReach

\* Docstring of `call`: a caller sees CircuitOpenError or fn's own exception.
OnlyDocumentedExceptions == \A t \in Threads : raised[t] # "type_error"
==============================================================================
