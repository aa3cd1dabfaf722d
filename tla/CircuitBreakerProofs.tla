------------------------ MODULE CircuitBreakerProofs ------------------------
(***************************************************************************)
(* What holds of CircuitBreaker for every number of threads, threshold,    *)
(* timeout and bound.  BreakerInv is inductive as it stands: it is the     *)
(* type invariant, the agreement of state and counter, and the reason an   *)
(* open breaker without a time never lasts.                                *)
(***************************************************************************)
EXTENDS CircuitBreaker, TLAPS

BreakerInv == TypeOK /\ OpenIffTripped /\ OpenIsStamped

\* The initial breaker is closed, with no failure counted.
LEMMA InitBreakerInv == Init => BreakerInv
BY BreakerAssumption
DEF Init, BreakerInv, TypeOK, OpenIffTripped, OpenIsStamped, PcValues, Exceptions

-----------------------------------------------------------------------------
\* One lemma per step of `call`; t is the thread that takes the step.

LEMMA EnterDirectlyInv ==
  ASSUME BreakerInv, NEW t \in Threads, EnterDirectly(t)
  PROVE  BreakerInv'
BY BreakerAssumption
DEF BreakerInv, TypeOK, OpenIffTripped, OpenIsStamped, PcValues, Exceptions,
    EnterDirectly, Proceed, Leave, shared, MustCompareTimes

LEMMA ReadClockInv ==
  ASSUME BreakerInv, NEW t \in Threads, ReadClock(t)
  PROVE  BreakerInv'
BY BreakerAssumption
DEF BreakerInv, TypeOK, OpenIffTripped, OpenIsStamped, PcValues, Exceptions,
    ReadClock, shared, MustCompareTimes

LEMMA CompareTimesInv ==
  ASSUME BreakerInv, NEW t \in Threads, CompareTimes(t)
  PROVE  BreakerInv'
BY BreakerAssumption
DEF BreakerInv, TypeOK, OpenIffTripped, OpenIsStamped, PcValues, Exceptions,
    CompareTimes, Proceed, Leave, shared

LEMMA SubtractNoneInv ==
  ASSUME BreakerInv, NEW t \in Threads, SubtractNone(t)
  PROVE  BreakerInv'
BY BreakerAssumption
DEF BreakerInv, TypeOK, OpenIffTripped, OpenIsStamped, PcValues, Exceptions,
    SubtractNone, Leave, shared

LEMMA SucceedInv ==
  ASSUME BreakerInv, NEW t \in Threads, Succeed(t)
  PROVE  BreakerInv'
BY BreakerAssumption
DEF BreakerInv, TypeOK, OpenIffTripped, OpenIsStamped, PcValues, Exceptions,
    Succeed, Leave

LEMMA FailBelowThresholdInv ==
  ASSUME BreakerInv, NEW t \in Threads, FailBelowThreshold(t)
  PROVE  BreakerInv'
BY BreakerAssumption
DEF BreakerInv, TypeOK, OpenIffTripped, OpenIsStamped, PcValues, Exceptions,
    FailBelowThreshold, Leave

LEMMA TripInv ==
  ASSUME BreakerInv, NEW t \in Threads, Trip(t)
  PROVE  BreakerInv'
BY BreakerAssumption
DEF BreakerInv, TypeOK, OpenIffTripped, OpenIsStamped, PcValues, Exceptions, Trip

LEMMA StoreOpenedAtInv ==
  ASSUME BreakerInv, NEW t \in Threads, StoreOpenedAt(t)
  PROVE  BreakerInv'
BY BreakerAssumption
DEF BreakerInv, TypeOK, OpenIffTripped, OpenIsStamped, PcValues, Exceptions,
    StoreOpenedAt, Leave

LEMMA TickInv ==
  ASSUME BreakerInv, Tick
  PROVE  BreakerInv'
BY BreakerAssumption
DEF BreakerInv, TypeOK, OpenIffTripped, OpenIsStamped, PcValues, Exceptions,
    Tick, shared

LEMMA NextBreakerInv == BreakerInv /\ [Next]_vars => BreakerInv'
<1> SUFFICES ASSUME BreakerInv, [Next]_vars
             PROVE  BreakerInv'
  OBVIOUS
<1>1. ASSUME NEW t \in Threads, Enter(t)
      PROVE  BreakerInv'
  BY <1>1, EnterDirectlyInv, ReadClockInv DEF Enter
<1>2. ASSUME NEW t \in Threads, Observe(t)
      PROVE  BreakerInv'
  BY <1>2, CompareTimesInv, SubtractNoneInv DEF Observe
<1>3. ASSUME NEW t \in Threads, Finish(t)
      PROVE  BreakerInv'
  BY <1>3, SucceedInv, FailBelowThresholdInv, TripInv DEF Finish
<1>4. ASSUME NEW t \in Threads, StoreOpenedAt(t)
      PROVE  BreakerInv'
  BY <1>4, StoreOpenedAtInv
<1>5. CASE Tick
  BY <1>5, TickInv
<1>6. CASE UNCHANGED vars
  BY <1>6 DEF BreakerInv, TypeOK, OpenIffTripped, OpenIsStamped, vars
<1>7. QED
  BY <1>1, <1>2, <1>3, <1>4, <1>5, <1>6 DEF Next

LEMMA BreakerInvariant == Spec => []BreakerInv
<1>1. QED
  BY InitBreakerInv, NextBreakerInv, PTL DEF Spec

\* The fields keep their types and no recorded time lies in the future.
THEOREM TypeCorrect == Spec => []TypeOK
BY BreakerInvariant, PTL DEF BreakerInv

\* However many calls overlap, the breaker is open exactly when the failures
\* since the last success have reached the threshold.
THEOREM StateAgreesWithCount == Spec => []OpenIffTripped
BY BreakerInvariant, PTL DEF BreakerInv

\* No interleaving leaves the breaker open without a recovery time for good.
THEOREM NeverWedgedOpen == Spec => []OpenIsStamped
BY BreakerInvariant, PTL DEF BreakerInv

-----------------------------------------------------------------------------
\* The step form of TrialOnlyAfterRecovery.
LateTrial ==
  \A t \in Threads :
    pc[t] # "running" /\ pc'[t] = "running" /\ state = "open" =>
      openedAt # NoTime /\ clock >= openedAt + RecoveryTimeout

LEMMA EnterLateTrial ==
  ASSUME BreakerInv, NEW t \in Threads, Enter(t)
  PROVE  LateTrial
BY BreakerAssumption
DEF BreakerInv, TypeOK, PcValues, Enter, EnterDirectly, ReadClock, Proceed, Leave,
    LateTrial

LEMMA ObserveLateTrial ==
  ASSUME BreakerInv, NEW t \in Threads, Observe(t)
  PROVE  LateTrial
BY BreakerAssumption
DEF BreakerInv, TypeOK, PcValues, Observe, CompareTimes, SubtractNone, Proceed, Leave,
    RecoveryElapsed, LateTrial

LEMMA FinishLateTrial ==
  ASSUME BreakerInv, NEW t \in Threads, Finish(t) \/ StoreOpenedAt(t)
  PROVE  LateTrial
BY BreakerAssumption
DEF BreakerInv, TypeOK, PcValues, Finish, Succeed, FailBelowThreshold, Trip,
    StoreOpenedAt, Leave, LateTrial

\* While the breaker is open, a call reaches scoring only when the recovery
\* timeout since the recorded trip has passed.
THEOREM ScoringShieldedUntilRecovery == Spec => TrialOnlyAfterRecovery
<1>1. BreakerInv /\ [Next]_vars => [LateTrial]_vars
  <2> SUFFICES ASSUME BreakerInv, Next
               PROVE  LateTrial
    OBVIOUS
  <2>1. CASE Tick
    BY <2>1 DEF Tick, LateTrial
  <2>2. QED
    BY <2>1, EnterLateTrial, ObserveLateTrial, FinishLateTrial DEF Next
<1>2. QED
  BY <1>1, BreakerInvariant, PTL DEF Spec, TrialOnlyAfterRecovery, LateTrial

-----------------------------------------------------------------------------
\* The refinement: a success is the contract's RecordSuccess, a failure its
\* RecordFailure, and every other step leaves the contract's view alone.

LEMMA InitMeetsContract == Init => Contract!ContractInit
BY DEF Init, Contract!ContractInit

LEMMA StepMeetsContract ==
  BreakerInv /\ [Next]_vars => [Contract!ContractNext]_(Contract!contractVars)
<1> SUFFICES ASSUME BreakerInv, [Next]_vars
             PROVE  Contract!ContractNext \/ UNCHANGED Contract!contractVars
  OBVIOUS
<1> USE DEF Contract!contractVars
<1>1. ASSUME NEW t \in Threads, Enter(t) \/ Observe(t) \/ StoreOpenedAt(t)
      PROVE  UNCHANGED Contract!contractVars
  BY <1>1 DEF Enter, EnterDirectly, ReadClock, Observe, CompareTimes, SubtractNone,
              StoreOpenedAt, shared
<1>2. ASSUME NEW t \in Threads, Succeed(t)
      PROVE  Contract!RecordSuccess
  BY <1>2 DEF Succeed, Contract!RecordSuccess
<1>3. ASSUME NEW t \in Threads, FailBelowThreshold(t)
      PROVE  Contract!RecordFailure
  BY <1>3, BreakerAssumption
  DEF FailBelowThreshold, Contract!RecordFailure, BreakerInv, TypeOK, OpenIffTripped
<1>4. ASSUME NEW t \in Threads, Trip(t)
      PROVE  Contract!RecordFailure
  BY <1>4, BreakerAssumption DEF Trip, Contract!RecordFailure, BreakerInv, TypeOK
<1>5. CASE Tick
  BY <1>5 DEF Tick, shared
<1>6. CASE UNCHANGED vars
  BY <1>6 DEF vars
<1>7. QED
  BY <1>1, <1>2, <1>3, <1>4, <1>5, <1>6 DEF Next, Finish, Contract!ContractNext

\* Concurrent calls on the unlocked object count, open and close as the
\* sequential docstring of `call` promises.
THEOREM BreakerMeetsContract == Spec => MeetsContract
<1>1. QED
  BY InitMeetsContract, StepMeetsContract, BreakerInvariant, PTL
  DEF Spec, MeetsContract, Contract!ContractSpec
==============================================================================
