------------------------- MODULE ApprovalQueueProofs -------------------------
(***************************************************************************)
(* What holds of ApprovalQueue for every number of threads and requests,   *)
(* every timeout and every length of run.  The inductive invariant adds to *)
(* the checked ones what a thread in the middle of a call knows: its       *)
(* request exists, its clock value is not in the future, and a decision    *)
(* being written is one of an approver, on a request no longer PENDING.    *)
(***************************************************************************)
EXTENDS ApprovalQueue, FiniteSetTheorems, TLAPS

InCall == {"checking", "stamping_expiry", "stamping_decision"}

\* A thread between the lookup and the metrics works on a queued request.
KnowsRequest ==
  \A t \in Threads :
    pc[t] \in InCall => job[t].req \in Requests /\ outcome[job[t].req] # "absent"

\* The verb and the role of a call are those an endpoint passes.
KnowsRole ==
  \A t \in Threads :
    /\ pc[t] = "checking" /\ job[t].verb # "get" =>
         job[t].verb \in {"approve", "deny"} /\ job[t].by \in Roles
    /\ pc[t] = "stamping_decision" => job[t].by \in Roles

\* A decision being stamped has been stored; its request is not PENDING.
DecisionStored ==
  \A t \in Threads :
    pc[t] = "stamping_decision" => outcome[job[t].req] \in Resolved

ClockReadInPast == \A t \in Threads : clockRead[t] <= clock

Knows == KnowsRequest /\ KnowsRole /\ DecisionStored

QueueInv ==
  /\ TypeOK
  /\ ClockReadInPast
  /\ Knows
  /\ OneDecider
  /\ ExpiredOnlyAfterTimeout
  /\ DecisionAttributed

------------------------------------------------------------------------------
\* The queue's two counts are natural numbers, whatever is in it.
LEMMA CountsAreNat ==
  /\ Cardinality(Present) \in Nat
  /\ Cardinality(Pending) \in Nat
<1>1. IsFiniteSet(Present) /\ IsFiniteSet(Pending)
  BY QueueAssumption, FS_Subset DEF Present, Pending
<1>2. QED
  BY <1>1, FS_CardinalityType

\* The empty queue.
LEMMA InitQueueInv == Init => QueueInv
BY QueueAssumption
DEF Init, QueueInv, TypeOK, Knows, KnowsRequest, KnowsRole, DecisionStored, ClockReadInPast,
    OneDecider, ExpiredOnlyAfterTimeout, DecisionAttributed, InCall, Outcomes, Resolved,
    Roles, Verbs, PcValues, Jobs, NoJob, NoTally

------------------------------------------------------------------------------
\* Type correctness, one lemma per step.

LEMMA SubmitType ==
  ASSUME QueueInv, NEW t \in Threads, Submit(t)
  PROVE  TypeOK'
BY QueueAssumption
DEF QueueInv, TypeOK, Submit, GoTo, metricVars, Outcomes, Resolved, Verbs, PcValues,
    Jobs, Present

LEMMA LookupType ==
  ASSUME QueueInv, NEW t \in Threads, NEW r \in Requests, Lookup(t, r)
  PROVE  TypeOK'
BY QueueAssumption
DEF QueueInv, TypeOK, Lookup, GoTo, metricVars, requestVars, Verbs, PcValues, Jobs,
    Calls

LEMMA ExpireType ==
  ASSUME QueueInv, NEW t \in Threads, Expire(t)
  PROVE  TypeOK'
BY QueueAssumption
DEF QueueInv, TypeOK, Expire, GoTo, metricVars, Outcomes, Resolved, PcValues

LEMMA ReturnType ==
  ASSUME QueueInv, NEW t \in Threads,
         ReturnFresh(t) \/ RaiseAlreadyDecided(t) \/ SumInterrupted(t)
  PROVE  TypeOK'
<1>1. Leave(t) /\ UNCHANGED <<requestVars, metricVars, clock>>
  BY DEF ReturnFresh, RaiseAlreadyDecided, SumInterrupted
<1>2. job' \in [Threads -> Jobs] /\ tally' \in [Threads -> [size : Nat, pending : Nat]]
  BY <1>1 DEF QueueInv, TypeOK, Leave, Jobs, NoJob, NoTally, Verbs
<1>3. QED
  BY <1>1, <1>2 DEF QueueInv, TypeOK, Leave, requestVars, metricVars, PcValues, Resolved

LEMMA RecordDecisionType ==
  ASSUME QueueInv, NEW t \in Threads, RecordDecision(t)
  PROVE  TypeOK'
BY QueueAssumption
DEF QueueInv, TypeOK, RecordDecision, Decision, GoTo, metricVars, Outcomes, Resolved,
    PcValues

LEMMA StampExpiryType ==
  ASSUME QueueInv, NEW t \in Threads, StampExpiry(t)
  PROVE  TypeOK'
BY DEF QueueInv, TypeOK, StampExpiry, GoTo, metricVars, Resolved, PcValues

LEMMA StampDecisionType ==
  ASSUME QueueInv, NEW t \in Threads, StampDecision(t)
  PROVE  TypeOK'
<1>1. job[t].by \in Roles /\ outcome[job[t].req] \in Resolved
  BY DEF QueueInv, StampDecision, Knows, KnowsRole, DecisionStored
<1>2. QED
  BY <1>1 DEF QueueInv, TypeOK, StampDecision, GoTo, metricVars, PcValues

LEMMA CountOutcomeType ==
  ASSUME QueueInv, NEW t \in Threads, CountOutcome(t)
  PROVE  TypeOK'
<1>1. counted' \in [Resolved -> Nat]
  BY DEF QueueInv, TypeOK, CountOutcome
<1>2. QED
  BY <1>1 DEF QueueInv, TypeOK, CountOutcome, GoTo, requestVars, PcValues

LEMMA SetDepthType ==
  ASSUME QueueInv, NEW t \in Threads, SetDepth(t)
  PROVE  TypeOK'
BY DEF QueueInv, TypeOK, SetDepth, Leave, requestVars, PcValues, Jobs, NoJob, NoTally,
       Verbs, Resolved

LEMMA StartSumType ==
  ASSUME QueueInv, NEW t \in Threads, StartSum(t)
  PROVE  TypeOK'
BY CountsAreNat
DEF QueueInv, TypeOK, StartSum, GoTo, requestVars, metricVars, PcValues

LEMMA EndSumType ==
  ASSUME QueueInv, NEW t \in Threads, EndSum(t)
  PROVE  TypeOK'
<1>1. PICK n \in Cardinality(Pending) .. tally[t].pending :
        tally' = [tally EXCEPT ![t].pending = n]
  BY DEF EndSum
<1>2. n \in Nat
  BY <1>1, CountsAreNat DEF QueueInv, TypeOK
<1>3. tally' \in [Threads -> [size : Nat, pending : Nat]]
  BY <1>1, <1>2 DEF QueueInv, TypeOK
<1>4. QED
  BY <1>3 DEF QueueInv, TypeOK, EndSum, GoTo, requestVars, metricVars, PcValues

LEMMA TickType ==
  ASSUME QueueInv, Tick
  PROVE  TypeOK'
BY DEF QueueInv, TypeOK, Tick, requestVars, metricVars, threadVars

LEMMA ContinueType ==
  ASSUME QueueInv, NEW t \in Threads, Continue(t)
  PROVE  TypeOK'
BY ExpireType, ReturnType, RecordDecisionType, StampExpiryType, StampDecisionType,
   CountOutcomeType, SetDepthType, StartSumType, EndSumType
DEF Continue

LEMMA NextType == QueueInv /\ [Next]_vars => TypeOK'
<1> SUFFICES ASSUME QueueInv, [Next]_vars
             PROVE  TypeOK'
  OBVIOUS
<1>1. CASE Next
  BY <1>1, SubmitType, LookupType, ContinueType, TickType DEF Next
<1>2. CASE UNCHANGED vars
  BY <1>2 DEF QueueInv, TypeOK, vars, requestVars, metricVars, threadVars
<1>3. QED
  BY <1>1, <1>2

------------------------------------------------------------------------------
\* What a thread knows in the middle of a call.

LEMMA NextClockRead == QueueInv /\ [Next]_vars => ClockReadInPast'
<1> SUFFICES ASSUME QueueInv, [Next]_vars
             PROVE  ClockReadInPast'
  OBVIOUS
<1> USE DEF QueueInv, TypeOK, ClockReadInPast
<1>1. ASSUME NEW t \in Threads, Continue(t)
      PROVE  ClockReadInPast'
  <2>1. CASE Expire(t) \/ RecordDecision(t)
    BY <2>1 DEF Expire, RecordDecision
  <2>2. CASE StampExpiry(t) \/ StampDecision(t) \/ CountOutcome(t) \/ StartSum(t)
             \/ EndSum(t)
    BY <2>2 DEF StampExpiry, StampDecision, CountOutcome, StartSum, EndSum
  <2>3. CASE ReturnFresh(t) \/ RaiseAlreadyDecided(t) \/ SumInterrupted(t) \/ SetDepth(t)
    BY <2>3 DEF ReturnFresh, RaiseAlreadyDecided, SumInterrupted, SetDepth, Leave
  <2>4. QED
    BY <1>1, <2>1, <2>2, <2>3 DEF Continue
<1>2. ASSUME NEW t \in Threads, NEW r \in Requests, Lookup(t, r)
      PROVE  ClockReadInPast'
  BY <1>2 DEF Lookup
<1>3. CASE Tick
  BY <1>3 DEF Tick, threadVars
<1>4. CASE UNCHANGED vars
  BY <1>4 DEF vars, threadVars
<1>5. ASSUME NEW t \in Threads, Submit(t)
      PROVE  ClockReadInPast'
  BY <1>5 DEF Submit
<1>6. QED
  BY <1>1, <1>2, <1>3, <1>4, <1>5 DEF Next

\* Requests, roles and stored decisions of the threads inside a call.
LEMMA NextKnows == QueueInv /\ [Next]_vars => Knows'
<1> SUFFICES ASSUME QueueInv, [Next]_vars
             PROVE  Knows'
  OBVIOUS
<1> USE QueueAssumption DEF QueueInv, TypeOK, Knows, KnowsRequest, KnowsRole, DecisionStored, InCall
<1>1. ASSUME NEW t \in Threads, Submit(t)
      PROVE  Knows'
  BY <1>1 DEF Submit, GoTo, Present, Resolved
<1>2. ASSUME NEW t \in Threads, NEW r \in Requests, Lookup(t, r)
      PROVE  Knows'
  BY <1>2 DEF Lookup, GoTo, Pending, Calls, requestVars
<1>3. ASSUME NEW t \in Threads, Continue(t)
      PROVE  Knows'
  <2>1. CASE Expire(t)
    BY <2>1 DEF Expire, GoTo, TimedOut, Resolved
  <2>2. CASE RecordDecision(t)
    BY <2>2 DEF RecordDecision, GoTo, Decision, Resolved
  <2>3. CASE StampExpiry(t)
    BY <2>3 DEF StampExpiry, GoTo
  <2>4. CASE StampDecision(t)
    BY <2>4 DEF StampDecision, GoTo
  <2>5. CASE CountOutcome(t) \/ StartSum(t) \/ EndSum(t)
    BY <2>5 DEF CountOutcome, StartSum, EndSum, GoTo, requestVars
  <2>6. CASE ReturnFresh(t) \/ RaiseAlreadyDecided(t) \/ SumInterrupted(t) \/ SetDepth(t)
    BY <2>6 DEF ReturnFresh, RaiseAlreadyDecided, SumInterrupted, SetDepth, Leave,
                requestVars
  <2>7. QED
    BY <1>3, <2>1, <2>2, <2>3, <2>4, <2>5, <2>6 DEF Continue
<1>4. CASE Tick
  BY <1>4 DEF Tick, requestVars, threadVars
<1>5. CASE UNCHANGED vars
  BY <1>5 DEF vars, requestVars, threadVars
<1>6. QED
  BY <1>1, <1>2, <1>3, <1>4, <1>5 DEF Next

\* A decision is being written only by the thread that passed line 121, and its
\* request does not change until it is written.
LEMMA OnlyRecordDecisionStarts ==
  ASSUME QueueInv, [Next]_vars, NEW u \in Threads, pc'[u] = "stamping_decision"
  PROVE  RecordDecision(u) \/ (pc[u] = "stamping_decision" /\ job'[u] = job[u])
<1> USE DEF QueueInv, TypeOK
<1>1. ASSUME NEW t \in Threads, Submit(t)
      PROVE  pc[u] = "stamping_decision" /\ job'[u] = job[u]
  BY <1>1 DEF Submit, GoTo
<1>2. ASSUME NEW t \in Threads, NEW r \in Requests, Lookup(t, r)
      PROVE  pc[u] = "stamping_decision" /\ job'[u] = job[u]
  BY <1>2 DEF Lookup, GoTo
<1>3. ASSUME NEW t \in Threads, Continue(t)
      PROVE  RecordDecision(u) \/ (pc[u] = "stamping_decision" /\ job'[u] = job[u])
  <2>1. CASE RecordDecision(t)
    BY <2>1 DEF RecordDecision, GoTo
  <2>2. CASE Expire(t) \/ StampExpiry(t) \/ StampDecision(t)
    BY <2>2 DEF Expire, StampExpiry, StampDecision, GoTo
  <2>3. CASE CountOutcome(t) \/ StartSum(t) \/ EndSum(t)
    BY <2>3 DEF CountOutcome, StartSum, EndSum, GoTo
  <2>4. CASE ReturnFresh(t) \/ RaiseAlreadyDecided(t) \/ SumInterrupted(t) \/ SetDepth(t)
    BY <2>4 DEF ReturnFresh, RaiseAlreadyDecided, SumInterrupted, SetDepth, Leave
  <2>5. QED
    BY <1>3, <2>1, <2>2, <2>3, <2>4 DEF Continue
<1>4. CASE Tick \/ UNCHANGED vars
  BY <1>4 DEF Tick, vars, threadVars
<1>5. QED
  BY <1>1, <1>2, <1>3, <1>4 DEF Next

\* While one thread writes a decision its request is resolved, so nobody else
\* passes line 121 for it.
LEMMA DeciderExcludes ==
  ASSUME QueueInv, NEW t \in Threads, NEW u \in Threads, RecordDecision(t),
         pc[u] = "stamping_decision"
  PROVE  job[u].req # job[t].req
BY DEF QueueInv, Knows, DecisionStored, RecordDecision, Resolved

\* Line 121 and line 126 are one step, so a second decider finds the first.
LEMMA NextOneDecider == QueueInv /\ [Next]_vars => OneDecider'
<1> SUFFICES ASSUME QueueInv, [Next]_vars, NEW t \in Threads, NEW u \in Threads,
                    pc'[t] = "stamping_decision", pc'[u] = "stamping_decision",
                    job'[t].req = job'[u].req
             PROVE  t = u
  BY DEF OneDecider
<1>1. RecordDecision(t) \/ (pc[t] = "stamping_decision" /\ job'[t] = job[t])
  BY OnlyRecordDecisionStarts
<1>2. RecordDecision(u) \/ (pc[u] = "stamping_decision" /\ job'[u] = job[u])
  BY OnlyRecordDecisionStarts
<1>3. CASE RecordDecision(t) /\ RecordDecision(u)
  BY <1>3 DEF RecordDecision, GoTo, QueueInv, TypeOK
<1>4. CASE RecordDecision(t) /\ pc[u] = "stamping_decision" /\ job'[u] = job[u]
  <2>1. job'[t] = job[t]
    BY <1>4 DEF RecordDecision
  <2>2. QED
    BY <1>4, <2>1, DeciderExcludes
<1>5. CASE RecordDecision(u) /\ pc[t] = "stamping_decision" /\ job'[t] = job[t]
  <2>1. job'[u] = job[u]
    BY <1>5 DEF RecordDecision
  <2>2. QED
    BY <1>5, <2>1, DeciderExcludes
<1>6. CASE /\ pc[t] = "stamping_decision" /\ job'[t] = job[t]
           /\ pc[u] = "stamping_decision" /\ job'[u] = job[u]
  BY <1>6 DEF QueueInv, OneDecider
<1>7. QED
  BY <1>1, <1>2, <1>3, <1>4, <1>5, <1>6

\* Expiry compares a clock value read earlier with a time that never changes.
LEMMA NextExpiry == QueueInv /\ [Next]_vars => ExpiredOnlyAfterTimeout'
<1> SUFFICES ASSUME QueueInv, [Next]_vars
             PROVE  ExpiredOnlyAfterTimeout'
  OBVIOUS
<1> USE QueueAssumption DEF QueueInv, TypeOK, Knows, KnowsRequest, KnowsRole, DecisionStored, InCall, ClockReadInPast, ExpiredOnlyAfterTimeout
<1>1. ASSUME NEW t \in Threads, Submit(t)
      PROVE  ExpiredOnlyAfterTimeout'
  BY <1>1 DEF Submit, GoTo, Present, Resolved
<1>2. ASSUME NEW t \in Threads, NEW r \in Requests, Lookup(t, r)
      PROVE  ExpiredOnlyAfterTimeout'
  BY <1>2 DEF Lookup, GoTo, Pending, Calls, requestVars
<1>3. ASSUME NEW t \in Threads, Continue(t)
      PROVE  ExpiredOnlyAfterTimeout'
  <2>1. CASE Expire(t)
    BY <2>1 DEF Expire, GoTo, TimedOut, Resolved
  <2>2. CASE RecordDecision(t)
    BY <2>2 DEF RecordDecision, GoTo, Decision, Resolved
  <2>3. CASE StampExpiry(t)
    BY <2>3 DEF StampExpiry, GoTo
  <2>4. CASE StampDecision(t)
    BY <2>4 DEF StampDecision, GoTo
  <2>5. CASE CountOutcome(t) \/ StartSum(t) \/ EndSum(t)
    BY <2>5 DEF CountOutcome, StartSum, EndSum, GoTo, requestVars
  <2>6. CASE ReturnFresh(t) \/ RaiseAlreadyDecided(t) \/ SumInterrupted(t) \/ SetDepth(t)
    BY <2>6 DEF ReturnFresh, RaiseAlreadyDecided, SumInterrupted, SetDepth, Leave,
                requestVars
  <2>7. QED
    BY <1>3, <2>1, <2>2, <2>3, <2>4, <2>5, <2>6 DEF Continue
<1>4. CASE Tick
  BY <1>4 DEF Tick, requestVars, threadVars
<1>5. CASE UNCHANGED vars
  BY <1>5 DEF vars, requestVars, threadVars
<1>6. QED
  BY <1>1, <1>2, <1>3, <1>4, <1>5 DEF Next

\* The role and the time follow the outcome, by the same thread.
LEMMA NextAttributed == QueueInv /\ [Next]_vars => DecisionAttributed'
<1> SUFFICES ASSUME QueueInv, [Next]_vars
             PROVE  DecisionAttributed'
  OBVIOUS
<1> USE QueueAssumption DEF QueueInv, TypeOK, Knows, KnowsRequest, KnowsRole, DecisionStored, InCall, DecisionAttributed
<1>1. ASSUME NEW t \in Threads, Submit(t)
      PROVE  DecisionAttributed'
  BY <1>1 DEF Submit, GoTo, Present, Resolved
<1>2. ASSUME NEW t \in Threads, NEW r \in Requests, Lookup(t, r)
      PROVE  DecisionAttributed'
  BY <1>2 DEF Lookup, GoTo, Pending, Calls, requestVars
<1>3. ASSUME NEW t \in Threads, Continue(t)
      PROVE  DecisionAttributed'
  <2>1. CASE Expire(t)
    BY <2>1 DEF Expire, GoTo, TimedOut, Resolved
  <2>2. CASE RecordDecision(t)
    BY <2>2 DEF RecordDecision, GoTo, Decision, Resolved
  <2>3. CASE StampExpiry(t)
    BY <2>3 DEF StampExpiry, GoTo
  <2>4. CASE StampDecision(t)
    BY <2>4 DEF StampDecision, GoTo
  <2>5. CASE CountOutcome(t) \/ StartSum(t) \/ EndSum(t)
    BY <2>5 DEF CountOutcome, StartSum, EndSum, GoTo, requestVars
  <2>6. CASE ReturnFresh(t) \/ RaiseAlreadyDecided(t) \/ SumInterrupted(t) \/ SetDepth(t)
    BY <2>6 DEF ReturnFresh, RaiseAlreadyDecided, SumInterrupted, SetDepth, Leave,
                requestVars
  <2>7. QED
    BY <1>3, <2>1, <2>2, <2>3, <2>4, <2>5, <2>6 DEF Continue
<1>4. CASE Tick
  BY <1>4 DEF Tick, requestVars, threadVars
<1>5. CASE UNCHANGED vars
  BY <1>5 DEF vars, requestVars, threadVars
<1>6. QED
  BY <1>1, <1>2, <1>3, <1>4, <1>5 DEF Next

LEMMA QueueInvariant == Spec => []QueueInv
<1>1. QueueInv /\ [Next]_vars => QueueInv'
  BY NextType, NextClockRead, NextKnows, NextOneDecider, NextExpiry, NextAttributed
  DEF QueueInv
<1>2. QED
  BY <1>1, InitQueueInv, PTL DEF Spec

\* The fields, the metrics and the threads' locals keep their types.
THEOREM TypeCorrect == Spec => []TypeOK
BY QueueInvariant, PTL DEF QueueInv

\* Two approvers never write a decision on one request at the same time.
THEOREM AtMostOneDecider == Spec => []OneDecider
BY QueueInvariant, PTL DEF QueueInv

\* No request is marked EXPIRED before its timeout has passed.
THEOREM NoEarlyExpiry == Spec => []ExpiredOnlyAfterTimeout
BY QueueInvariant, PTL DEF QueueInv

\* Every approved or denied request names its approver's role and the time,
\* but for the instant in which its decider is writing them.
THEOREM DecisionsAreAttributed == Spec => []DecisionAttributed
BY QueueInvariant, PTL DEF QueueInv

------------------------------------------------------------------------------
\* Which steps change outcomes, and how.

\* The step form of NoResurrection.
KeepsResolutions ==
  \A r \in Requests :
    /\ outcome[r] \in Resolved => outcome'[r] \in {outcome[r], "expired"}
    /\ outcome[r] = "pending" => outcome'[r] # "absent"

\* Only these three of a thread's steps write an outcome.
LEMMA OutcomeSteps ==
  ASSUME NEW t \in Threads, Continue(t), ~Expire(t), ~RecordDecision(t)
  PROVE  outcome' = outcome
BY DEF Continue, ReturnFresh, RaiseAlreadyDecided, StampExpiry, StampDecision,
       CountOutcome, StartSum, EndSum, SumInterrupted, SetDepth, requestVars

LEMMA StepKeepsResolutions == QueueInv /\ [Next]_vars => KeepsResolutions
<1> SUFFICES ASSUME QueueInv, [Next]_vars
             PROVE  KeepsResolutions
  OBVIOUS
<1> USE DEF QueueInv, TypeOK, KeepsResolutions, Resolved
<1>1. ASSUME NEW t \in Threads, Submit(t)
      PROVE  KeepsResolutions
  BY <1>1 DEF Submit, Present
<1>2. ASSUME NEW t \in Threads, NEW r \in Requests, Lookup(t, r)
      PROVE  KeepsResolutions
  BY <1>2 DEF Lookup, requestVars
<1>3. ASSUME NEW t \in Threads, Continue(t)
      PROVE  KeepsResolutions
  <2>1. CASE Expire(t)
    BY <2>1 DEF Expire
  <2>2. CASE RecordDecision(t)
    BY <2>2 DEF RecordDecision, Decision
  <2>3. CASE ~Expire(t) /\ ~RecordDecision(t)
    BY <1>3, <2>3, OutcomeSteps
  <2>4. QED
    BY <2>1, <2>2, <2>3
<1>4. CASE Tick \/ UNCHANGED vars
  BY <1>4 DEF Tick, vars, requestVars
<1>5. QED
  BY <1>1, <1>2, <1>3, <1>4 DEF Next

\* A decision is never reversed and a resolved request never reopened; the
\* only overwriting the race allows is by EXPIRED.
THEOREM DecisionsNeverFlip == Spec => NoResurrection
<1>1. QueueInv /\ [Next]_vars => [KeepsResolutions]_vars
  BY StepKeepsResolutions
<1>2. QED
  BY <1>1, QueueInvariant, PTL DEF Spec, NoResurrection, KeepsResolutions

------------------------------------------------------------------------------
\* With a single thread nothing happens between the PENDING test of `get`
\* and the store that relies on it, and the queue keeps its full promise.

OneThread == \A t, u \in Threads : t = u

CheckedIsPending ==
  \A t \in Threads : pc[t] = "checking" => outcome[job[t].req] = "pending"

LEMMA SequentialCheck ==
  ASSUME OneThread
  PROVE  Spec => []CheckedIsPending
<1>1. Init => CheckedIsPending
  BY DEF Init, CheckedIsPending
<1>2. QueueInv /\ CheckedIsPending /\ [Next]_vars => CheckedIsPending'
  <2> SUFFICES ASSUME QueueInv, CheckedIsPending, [Next]_vars
               PROVE  CheckedIsPending'
    OBVIOUS
  <2> USE QueueAssumption DEF QueueInv, TypeOK, CheckedIsPending, OneThread
  <2>1. ASSUME NEW t \in Threads, Submit(t)
        PROVE  CheckedIsPending'
    BY <2>1, OneThread DEF Submit, GoTo
  <2>2. ASSUME NEW t \in Threads, NEW r \in Requests, Lookup(t, r)
        PROVE  CheckedIsPending'
    BY <2>2, OneThread DEF Lookup, GoTo, Pending, requestVars
  <2>3. ASSUME NEW t \in Threads, Continue(t)
        PROVE  CheckedIsPending'
    <3>1. pc'[t] # "checking"
      BY <2>3 DEF Continue, Expire, RecordDecision, StampExpiry, StampDecision,
         CountOutcome, StartSum, EndSum, ReturnFresh, RaiseAlreadyDecided,
         SumInterrupted, SetDepth, Leave, GoTo
    <3>2. QED
      BY <3>1, OneThread
  <2>4. CASE Tick \/ UNCHANGED vars
    BY <2>4 DEF Tick, vars, requestVars, threadVars
  <2>5. QED
    BY <2>1, <2>2, <2>3, <2>4 DEF Next
<1>3. QED
  BY <1>1, <1>2, QueueInvariant, PTL DEF Spec

LEMMA SequentialStep ==
  ASSUME OneThread
  PROVE  QueueInv /\ CheckedIsPending /\ [Next]_vars
           => [Contract!ContractNext]_outcome
<1> SUFFICES ASSUME QueueInv, CheckedIsPending, [Next]_vars
             PROVE  Contract!ContractNext \/ outcome' = outcome
  OBVIOUS
<1> USE DEF QueueInv, TypeOK
<1>1. ASSUME NEW t \in Threads, Submit(t)
      PROVE  Contract!ContractNext
  BY <1>1 DEF Submit, Present, Contract!ContractNext, Contract!Queue
<1>2. ASSUME NEW t \in Threads, NEW r \in Requests, Lookup(t, r)
      PROVE  outcome' = outcome
  BY <1>2 DEF Lookup, requestVars
<1>3. ASSUME NEW t \in Threads, Expire(t) \/ RecordDecision(t)
      PROVE  Contract!ContractNext
  <2>1. job[t].req \in Requests /\ outcome[job[t].req] = "pending"
    BY <1>3 DEF Knows, KnowsRequest, InCall, CheckedIsPending, Expire, RecordDecision
  <2>2. Contract!Resolve(job[t].req)
    BY <1>3, <2>1 DEF Expire, RecordDecision, Decision, Contract!Resolve
  <2>3. QED
    BY <2>1, <2>2 DEF Contract!ContractNext
<1>4. CASE Tick \/ UNCHANGED vars
  BY <1>4 DEF Tick, vars, requestVars
<1>5. QED
  BY <1>1, <1>2, <1>3, <1>4, OutcomeSteps DEF Next

\* Used by one thread at a time, the queue resolves every request at most once.
THEOREM SequentialQueueMeetsContract ==
  ASSUME OneThread
  PROVE  Spec => MeetsContract
<1>1. Init => Contract!ContractInit
  BY DEF Init, Contract!ContractInit
<1>2. QED
  BY <1>1, SequentialStep, SequentialCheck, QueueInvariant, PTL
  DEF Spec, MeetsContract, Contract!ContractSpec

------------------------------------------------------------------------------
(***************************************************************************)
(* The counters.                                                           *)
(***************************************************************************)

\* The threads that have recorded a human decision and will count it as one.
Deciding ==
  {t \in Threads : pc[t] = "stamping_decision"
                     \/ (pc[t] = "counting_outcome" /\ label[t] # "expired")}

ResolvedRequests == {r \in Requests : outcome[r] \in Resolved}

\* Each decision, counted or about to be, has taken a request out of PENDING.
DecisionsInv ==
  counted["approved"] + counted["denied"] + Cardinality(Deciding)
    <= Cardinality(ResolvedRequests)

\* The threads that will count outcome o: the label of a decision is read from
\* the request, so until then it follows what becomes of the request.
Counting(o) ==
  {t \in Threads :
     \/ pc[t] = "stamping_expiry" /\ o = "expired"
     \/ pc[t] = "stamping_decision" /\ outcome[job[t].req] = o
     \/ pc[t] = "counting_outcome" /\ label[t] = o}

With(o) == {r \in Requests : outcome[r] = o}

\* Every request with an outcome has been counted under it, or is about to be.
ResolutionsInv ==
  \A o \in Resolved : Cardinality(With(o)) <= counted[o] + Cardinality(Counting(o))

\* What a lone thread knows of the gauge.
GaugeInv ==
  /\ (\A t \in Threads : pc[t] \in {"idle", "checking"}) => depth = Cardinality(Pending)
  /\ \A t \in Threads :
       /\ pc[t] = "summing" => tally[t] = [size |-> Cardinality(Present),
                                           pending |-> Cardinality(Pending)]
       /\ pc[t] = "setting_depth" => tally[t].pending = Cardinality(Pending)

\* Counting subsets of a finite set.
LEMMA SubsetCounts ==
  ASSUME NEW T, IsFiniteSet(T), NEW A \in SUBSET T, NEW B \in SUBSET T
  PROVE  /\ Cardinality(A) \in Nat /\ Cardinality(B) \in Nat
         /\ A \subseteq B => Cardinality(A) <= Cardinality(B)
         /\ \A x : A \subseteq B \cup {x} => Cardinality(A) <= Cardinality(B) + 1
         /\ \A x : A \subseteq B /\ x \in B /\ x \notin A
                     => Cardinality(A) + 1 <= Cardinality(B)
<1>1. IsFiniteSet(A) /\ IsFiniteSet(B)
  BY FS_Subset
<1>2. Cardinality(A) \in Nat /\ Cardinality(B) \in Nat
  BY <1>1, FS_CardinalityType
<1>3. ASSUME A \subseteq B PROVE Cardinality(A) <= Cardinality(B)
  BY <1>1, <1>3, FS_Subset
<1>4. ASSUME NEW x, A \subseteq B \cup {x} PROVE Cardinality(A) <= Cardinality(B) + 1
  <2>1. IsFiniteSet(B \cup {x}) /\ Cardinality(B \cup {x}) <= Cardinality(B) + 1
    BY <1>1, <1>2, FS_AddElement
  <2>2. Cardinality(A) <= Cardinality(B \cup {x}) /\ Cardinality(B \cup {x}) \in Nat
    BY <1>4, <2>1, FS_Subset, FS_CardinalityType
  <2>3. QED
    BY <1>2, <2>1, <2>2
<1>5. ASSUME NEW x, A \subseteq B, x \in B, x \notin A
      PROVE  Cardinality(A) + 1 <= Cardinality(B)
  <2>1. A \subseteq B \ {x}
    BY <1>5
  <2>2. IsFiniteSet(B \ {x}) /\ Cardinality(B \ {x}) = Cardinality(B) - 1
    BY <1>1, <1>5, FS_RemoveElement
  <2>3. Cardinality(A) <= Cardinality(B \ {x})
    BY <2>1, <2>2, FS_Subset
  <2>4. QED
    BY <1>2, <2>2, <2>3
<1>6. QED
  BY <1>2, <1>3, <1>4, <1>5

ThreadStep(t) == Submit(t) \/ (\E r \in Requests : Lookup(t, r)) \/ Continue(t)

\* A step of one thread leaves the places, jobs and labels of the others alone.
LEMMA OthersStay ==
  ASSUME TypeOK, NEW t \in Threads, ThreadStep(t), NEW u \in Threads, u # t
  PROVE  pc'[u] = pc[u] /\ job'[u] = job[u] /\ label'[u] = label[u]
<1> USE DEF TypeOK
<1>1. CASE Submit(t)
  BY <1>1 DEF Submit, GoTo
<1>2. CASE \E r \in Requests : Lookup(t, r)
  BY <1>2 DEF Lookup, GoTo
<1>3. CASE Expire(t) \/ RecordDecision(t) \/ StampExpiry(t) \/ StampDecision(t)
  BY <1>3 DEF Expire, RecordDecision, StampExpiry, StampDecision, GoTo
<1>4. CASE CountOutcome(t) \/ StartSum(t) \/ EndSum(t)
  BY <1>4 DEF CountOutcome, StartSum, EndSum, GoTo
<1>5. CASE ReturnFresh(t) \/ RaiseAlreadyDecided(t) \/ SumInterrupted(t) \/ SetDepth(t)
  BY <1>5 DEF ReturnFresh, RaiseAlreadyDecided, SumInterrupted, SetDepth, Leave
<1>6. QED
  BY <1>1, <1>2, <1>3, <1>4, <1>5 DEF ThreadStep, Continue

\* The steps that record and count nothing: their thread is in none of the
\* places the counters look at, before or after, and no outcome is resolved.
Plain(t) ==
  /\ pc[t] \notin {"stamping_expiry", "stamping_decision", "counting_outcome"}
  /\ pc'[t] \notin {"stamping_expiry", "stamping_decision", "counting_outcome"}
  /\ counted' = counted
  /\ \A r \in Requests : outcome[r] # "absent" => outcome'[r] = outcome[r]
  /\ \A r \in Requests : outcome'[r] \in Resolved => outcome'[r] = outcome[r]

LEMMA StepKinds ==
  ASSUME TypeOK, NEW t \in Threads, ThreadStep(t)
  PROVE  \/ Expire(t) \/ RecordDecision(t)
         \/ StampExpiry(t) \/ StampDecision(t) \/ CountOutcome(t)
         \/ Plain(t)
<1> USE DEF TypeOK, Plain, Resolved
<1>1. CASE Submit(t)
  BY <1>1 DEF Submit, GoTo, Present, metricVars
<1>2. CASE \E r \in Requests : Lookup(t, r)
  BY <1>2 DEF Lookup, GoTo, requestVars, metricVars
<1>3. CASE StartSum(t) \/ EndSum(t)
  BY <1>3 DEF StartSum, EndSum, GoTo, requestVars, metricVars
<1>4. CASE ReturnFresh(t) \/ RaiseAlreadyDecided(t) \/ SumInterrupted(t) \/ SetDepth(t)
  BY <1>4 DEF ReturnFresh, RaiseAlreadyDecided, SumInterrupted, SetDepth, Leave,
              requestVars, metricVars
<1>5. QED
  BY <1>1, <1>2, <1>3, <1>4 DEF ThreadStep, Continue

\* A decision is counted at most once, and a lost race never.
LEMMA DecisionsStep ==
  ASSUME QueueInv, QueueInv', DecisionsInv, NEW t \in Threads, ThreadStep(t)
  PROVE  DecisionsInv'
<1> DEFINE D == Deciding
           E == Deciding'
           R == ResolvedRequests
           S == ResolvedRequests'
<1>1. TypeOK
  BY DEF QueueInv
<1>2. \A u \in Threads \ {t} : u \in E => u \in D
  BY <1>1, OthersStay DEF Deciding
<1>3. D \in SUBSET Threads /\ E \in SUBSET Threads
      /\ R \in SUBSET Requests /\ S \in SUBSET Requests
  BY DEF Deciding, ResolvedRequests
<1>4. R \subseteq S
  <2>1. KeepsResolutions
    BY StepKeepsResolutions DEF ThreadStep, Next
  <2>2. QED
    BY <2>1 DEF KeepsResolutions, ResolvedRequests, Resolved
<1>5. /\ Cardinality(D) \in Nat /\ Cardinality(E) \in Nat
      /\ Cardinality(R) \in Nat /\ Cardinality(S) \in Nat
      /\ (E \subseteq D => Cardinality(E) <= Cardinality(D))
      /\ (E \subseteq D \cup {t} => Cardinality(E) <= Cardinality(D) + 1)
      /\ (E \subseteq D /\ t \in D /\ t \notin E => Cardinality(E) + 1 <= Cardinality(D))
  <2> HIDE DEF D, E, R, S
  <2>1. QED
    BY <1>3, QueueAssumption, SubsetCounts
<1>6. Cardinality(R) <= Cardinality(S)
      /\ \A r : r \in S /\ r \notin R => Cardinality(R) + 1 <= Cardinality(S)
  <2> HIDE DEF R, S
  <2>1. QED
    BY <1>3, <1>4, QueueAssumption, SubsetCounts
<1> DEFINE c == counted["approved"] + counted["denied"]
           d == counted'["approved"] + counted'["denied"]
<1>7. c \in Nat /\ d \in Nat
  BY DEF QueueInv, TypeOK, Resolved
<1>8. c + Cardinality(D) <= Cardinality(R)
  BY DEF DecisionsInv
<1>9. d + Cardinality(E) <= Cardinality(S)
  <2>1. CASE RecordDecision(t)
    <3>1. E \subseteq D \cup {t} /\ counted' = counted
      BY <1>2, <1>3, <2>1 DEF RecordDecision, metricVars
    <3>2. job[t].req \in S /\ job[t].req \notin R
      BY <2>1 DEF RecordDecision, Decision, QueueInv, TypeOK, Knows, KnowsRequest, InCall,
                  ResolvedRequests, Resolved
    <3> HIDE DEF D, E, R, S
    <3>3. QED
      BY <1>5, <1>6, <1>7, <1>8, <3>1, <3>2
  <2>2. CASE Expire(t) \/ StampExpiry(t) \/ StampDecision(t) \/ Plain(t)
    <3>1. counted' = counted
      BY <2>2 DEF Expire, StampExpiry, StampDecision, Plain, metricVars
    <3>2. t \in E => t \in D
      BY <1>1, <2>2 DEF Expire, StampExpiry, StampDecision, Plain, GoTo, TypeOK, Deciding
    <3>3. E \subseteq D
      BY <1>2, <1>3, <3>2
    <3> HIDE DEF D, E, R, S
    <3>4. QED
      BY <1>5, <1>6, <1>7, <1>8, <3>1, <3>3
  <2>3. CASE CountOutcome(t)
    <3>1. t \notin E
      BY <1>1, <2>3 DEF CountOutcome, GoTo, TypeOK, Deciding
    <3>2. E \subseteq D
      BY <1>2, <1>3, <3>1
    <3>3. counted' = [counted EXCEPT ![label[t]] = @ + 1] /\ label[t] \in Resolved
      BY <1>1, <2>3 DEF CountOutcome, TypeOK
    <3>4. CASE label[t] = "expired"
      <4>1. d = c
        BY <1>1, <3>3, <3>4 DEF TypeOK, Resolved
      <4> HIDE DEF D, E, R, S, c, d
      <4>2. QED
        BY <1>5, <1>6, <1>7, <1>8, <3>2, <4>1
    <3>5. CASE label[t] # "expired"
      <4>1. t \in D
        BY <2>3, <3>5 DEF CountOutcome, Deciding
      <4>2. d = c + 1
        BY <1>1, <3>3, <3>5 DEF TypeOK, Resolved
      <4> HIDE DEF D, E, R, S, c, d
      <4>3. QED
        BY <1>5, <1>6, <1>7, <1>8, <3>1, <3>2, <4>1, <4>2
    <3>6. QED
      BY <3>4, <3>5
  <2>4. QED
    BY <1>1, <2>1, <2>2, <2>3, StepKinds
<1>10. QED
  BY <1>9 DEF DecisionsInv

\* A thread that is not moving still counts what it was going to, unless the
\* request of its decision changes under it.
LEMMA CountingStays ==
  ASSUME TypeOK, NEW t \in Threads, ThreadStep(t), NEW o, NEW u \in Counting(o), u # t,
         pc[u] = "stamping_decision" => outcome'[job[u].req] = outcome[job[u].req]
  PROVE  u \in Counting(o)'
<1>1. u \in Threads /\ pc'[u] = pc[u] /\ job'[u] = job[u] /\ label'[u] = label[u]
  BY OthersStay DEF Counting
<1>2. QED
  BY <1>1 DEF Counting

\* Of the threads that would count a decision, expiry takes at most one with it:
\* the one that has just recorded it and not read it back.
LEMMA OneDecisionLost ==
  ASSUME QueueInv, NEW t \in Threads, Expire(t), NEW o \in Resolved, o # "expired"
  PROVE  /\ outcome[job[t].req] # o => Counting(o) \subseteq Counting(o)'
         /\ \E v : Counting(o) \subseteq Counting(o)' \cup {v}
<1> DEFINE q == job[t].req
           Losing(u) == pc[u] = "stamping_decision" /\ job[u].req = q
<1>1. /\ TypeOK /\ ThreadStep(t) /\ q \in Requests
      /\ outcome' = [outcome EXCEPT ![q] = "expired"] /\ pc[t] = "checking"
  BY DEF QueueInv, Expire, ThreadStep, Continue, Knows, KnowsRequest, InCall
<1>2. t \notin Counting(o)
  BY <1>1 DEF Counting
<1>3. ASSUME NEW u \in Counting(o), ~Losing(u) PROVE u \in Counting(o)'
  <2>1. pc[u] = "stamping_decision" => outcome'[job[u].req] = outcome[job[u].req]
    BY <1>1, <1>3 DEF QueueInv, TypeOK, Knows, KnowsRequest, InCall, Counting
  <2>2. QED
    BY <1>1, <1>2, <1>3, <2>1, CountingStays
<1>4. ASSUME outcome[q] # o PROVE Counting(o) \subseteq Counting(o)'
  <2>1. \A u \in Counting(o) : ~Losing(u)
    BY <1>4 DEF Counting
  <2>2. QED
    BY <1>3, <2>1
<1>5. \E v : Counting(o) \subseteq Counting(o)' \cup {v}
  <2>1. CASE \E v \in Threads : Losing(v)
    <3>1. PICK v \in Threads : Losing(v)
      BY <2>1
    <3>2. \A u \in Counting(o) : Losing(u) => u = v
      BY <3>1 DEF QueueInv, OneDecider, Counting
    <3>3. QED
      BY <1>3, <3>2
  <2>2. CASE ~(\E v \in Threads : Losing(v))
    <3>1. \A u \in Counting(o) : ~Losing(u)
      BY <2>2 DEF Counting
    <3>2. QED
      BY <1>3, <3>1
  <2>3. QED
    BY <2>1, <2>2
<1>6. QED
  BY <1>4, <1>5

\* What expiry overwrites it counts itself, as expired.
LEMMA ExpireResolutions ==
  ASSUME QueueInv, ResolutionsInv, NEW t \in Threads, Expire(t), NEW o \in Resolved
  PROVE  /\ counted' = counted
         /\ \/ With(o)' \subseteq With(o) /\ Counting(o) \subseteq Counting(o)'
            \/ /\ \E r : With(o)' \subseteq With(o) \cup {r}
               /\ \E u : /\ Counting(o) \subseteq Counting(o)'
                         /\ u \in Counting(o)' /\ u \notin Counting(o)
            \/ /\ \E r : With(o)' \subseteq With(o) /\ r \in With(o) /\ r \notin With(o)'
               /\ \E v : Counting(o) \subseteq Counting(o)' \cup {v}
<1> DEFINE q == job[t].req
<1>1. /\ TypeOK /\ ThreadStep(t) /\ q \in Requests
      /\ outcome' = [outcome EXCEPT ![q] = "expired"]
      /\ pc[t] = "checking" /\ pc'[t] = "stamping_expiry" /\ counted' = counted
  BY DEF QueueInv, Expire, ThreadStep, Continue, Knows, KnowsRequest, InCall, GoTo, TypeOK,
         metricVars
<1>2. CASE o = "expired"
  <2>1. With(o)' \subseteq With(o) \cup {q}
    BY <1>1, <1>2 DEF With, TypeOK
  <2>2. t \in Counting(o)' /\ t \notin Counting(o)
    BY <1>1, <1>2 DEF Counting
  <2>3. ASSUME NEW u \in Counting(o) PROVE u \in Counting(o)'
    <3>1. pc[u] = "stamping_decision" => outcome'[job[u].req] = outcome[job[u].req]
      BY <1>1, <1>2, <2>3 DEF Counting, QueueInv, TypeOK, Knows, KnowsRequest, InCall
    <3>2. QED
      BY <1>1, <2>2, <2>3, <3>1, CountingStays
  <2>4. QED
    BY <1>1, <2>1, <2>2, <2>3
<1>3. CASE o # "expired" /\ outcome[q] = o
  <2>1. With(o)' \subseteq With(o) /\ q \in With(o) /\ q \notin With(o)'
    BY <1>1, <1>3 DEF With, TypeOK
  <2>2. QED
    BY <1>1, <1>3, <2>1, OneDecisionLost
<1>4. CASE o # "expired" /\ outcome[q] # o
  <2>1. With(o)' \subseteq With(o)
    BY <1>1, <1>4 DEF With, TypeOK
  <2>2. QED
    BY <1>1, <1>4, <2>1, OneDecisionLost
<1>5. QED
  BY <1>2, <1>3, <1>4

\* A recorded decision is counted by its decider, whatever becomes of it.
LEMMA RecordResolutions ==
  ASSUME QueueInv, NEW t \in Threads, RecordDecision(t), NEW o \in Resolved
  PROVE  /\ counted' = counted
         /\ Counting(o) \subseteq Counting(o)'
         /\ \/ With(o)' \subseteq With(o)
            \/ /\ \E r : With(o)' \subseteq With(o) \cup {r}
               /\ t \in Counting(o)' /\ t \notin Counting(o)
<1> DEFINE q == job[t].req
           p == Decision(job[t].verb)
<1>1. /\ TypeOK /\ ThreadStep(t) /\ q \in Requests /\ outcome[q] = "pending"
      /\ outcome' = [outcome EXCEPT ![q] = p] /\ job' = job
      /\ pc[t] = "checking" /\ pc'[t] = "stamping_decision" /\ counted' = counted
  BY DEF QueueInv, RecordDecision, ThreadStep, Continue, Knows, KnowsRequest, InCall, GoTo,
         TypeOK, metricVars
<1>2. t \notin Counting(o)
  BY <1>1 DEF Counting
<1>3. ASSUME NEW u \in Counting(o) PROVE u \in Counting(o)'
  <2>1. pc[u] = "stamping_decision" => outcome'[job[u].req] = outcome[job[u].req]
    BY <1>1, <1>3 DEF Counting, QueueInv, TypeOK, Knows, KnowsRequest, InCall, Resolved
  <2>2. QED
    BY <1>1, <1>2, <1>3, <2>1, CountingStays
<1>4. CASE p = o
  <2>1. With(o)' \subseteq With(o) \cup {q}
    BY <1>1 DEF With, TypeOK
  <2>2. outcome'[job'[t].req] = o
    BY <1>1, <1>4 DEF TypeOK
  <2>3. t \in Counting(o)'
    BY <1>1, <2>2 DEF Counting
  <2>4. QED
    BY <1>1, <1>2, <1>3, <2>1, <2>3
<1>5. CASE p # o
  <2>1. With(o)' \subseteq With(o)
    BY <1>1, <1>5 DEF With, TypeOK
  <2>2. QED
    BY <1>1, <1>3, <2>1
<1>6. QED
  BY <1>4, <1>5

\* The other steps change no outcome; counting moves a thread to the counter.
LEMMA CountResolutions ==
  ASSUME QueueInv, NEW t \in Threads, NEW o \in Resolved,
         StampExpiry(t) \/ StampDecision(t) \/ CountOutcome(t)
           \/ (ThreadStep(t) /\ Plain(t))
  PROVE  /\ With(o)' \subseteq With(o)
         /\ \/ counted'[o] = counted[o] /\ Counting(o) \subseteq Counting(o)'
            \/ counted'[o] = counted[o] + 1 /\ Counting(o) \subseteq Counting(o)' \cup {t}
<1>1. TypeOK /\ ThreadStep(t)
  BY DEF QueueInv, ThreadStep, Continue
<1>2. With(o)' \subseteq With(o)
  BY DEF StampExpiry, StampDecision, CountOutcome, requestVars, Plain, With
<1>3. ASSUME NEW u \in Counting(o), u # t PROVE u \in Counting(o)'
  <2>1. u \in Threads
    BY DEF Counting
  <2>2. pc[u] = "stamping_decision" =>
          job[u].req \in Requests /\ outcome[job[u].req] # "absent"
    BY <2>1 DEF QueueInv, Knows, KnowsRequest, InCall
  <2>3. pc[u] = "stamping_decision" => outcome'[job[u].req] = outcome[job[u].req]
    BY <2>2 DEF StampExpiry, StampDecision, CountOutcome, requestVars, Plain
  <2>4. QED
    BY <1>1, <1>3, <2>3, CountingStays
<1>4. CASE StampExpiry(t)
  <2>1. /\ pc[t] = "stamping_expiry" /\ pc'[t] = "counting_outcome"
        /\ label'[t] = "expired" /\ counted' = counted
    BY <1>1, <1>4 DEF StampExpiry, GoTo, TypeOK, metricVars
  <2>2. t \in Counting(o) => t \in Counting(o)'
    BY <2>1 DEF Counting
  <2>3. QED
    BY <1>2, <1>3, <2>1, <2>2
<1>5. CASE StampDecision(t)
  <2>1. /\ pc[t] = "stamping_decision" /\ pc'[t] = "counting_outcome"
        /\ label'[t] = outcome[job[t].req] /\ counted' = counted
    BY <1>1, <1>5 DEF StampDecision, GoTo, TypeOK, metricVars
  <2>2. t \in Counting(o) => t \in Counting(o)'
    BY <2>1 DEF Counting
  <2>3. QED
    BY <1>2, <1>3, <2>1, <2>2
<1>6. CASE CountOutcome(t)
  <2>1. pc[t] = "counting_outcome" /\ counted' = [counted EXCEPT ![label[t]] = @ + 1]
        /\ label[t] \in Resolved
    BY <1>1, <1>6 DEF CountOutcome, TypeOK
  <2>2. CASE label[t] = o
    <3>1. counted'[o] = counted[o] + 1
      BY <1>1, <2>1, <2>2 DEF TypeOK
    <3>2. QED
      BY <1>2, <1>3, <3>1
  <2>3. CASE label[t] # o
    <3>1. counted'[o] = counted[o]
      BY <1>1, <2>1, <2>3 DEF TypeOK
    <3>2. t \notin Counting(o)
      BY <2>1, <2>3 DEF Counting
    <3>3. QED
      BY <1>2, <1>3, <3>1, <3>2
  <2>4. QED
    BY <2>2, <2>3
<1>7. CASE Plain(t)
  <2>1. t \notin Counting(o) /\ counted' = counted
    BY <1>7 DEF Plain, Counting
  <2>2. QED
    BY <1>2, <1>3, <2>1
<1>8. QED
  BY <1>4, <1>5, <1>6, <1>7

LEMMA ResolutionsStep ==
  ASSUME QueueInv, ResolutionsInv, NEW t \in Threads, ThreadStep(t)
  PROVE  ResolutionsInv'
<1> SUFFICES ASSUME NEW o \in Resolved
             PROVE  Cardinality(With(o)') <= counted'[o] + Cardinality(Counting(o)')
  BY DEF ResolutionsInv, Resolved
<1> DEFINE A == With(o)
           B == With(o)'
           C == Counting(o)
           D == Counting(o)'
           k == counted[o]
           l == counted'[o]
<1>1. /\ A \in SUBSET Requests /\ B \in SUBSET Requests
      /\ C \in SUBSET Threads /\ D \in SUBSET Threads
  BY DEF With, Counting
<1>2. k \in Nat /\ Cardinality(A) <= k + Cardinality(C)
  BY DEF QueueInv, TypeOK, ResolutionsInv
<1>3. \/ B \subseteq A /\ C \subseteq D /\ l = k
      \/ /\ \E r : B \subseteq A \cup {r}
         /\ \E u : C \subseteq D /\ u \in D /\ u \notin C
         /\ l = k
      \/ /\ \E r : B \subseteq A /\ r \in A /\ r \notin B
         /\ \E v : C \subseteq D \cup {v}
         /\ l = k
      \/ B \subseteq A /\ (\E v : C \subseteq D \cup {v}) /\ l = k + 1
  <2>1. TypeOK
    BY DEF QueueInv
  <2>2. CASE Expire(t)
    BY <2>2, ExpireResolutions
  <2>3. CASE RecordDecision(t)
    BY <2>3, RecordResolutions
  <2>4. CASE StampExpiry(t) \/ StampDecision(t) \/ CountOutcome(t) \/ Plain(t)
    BY <2>4, CountResolutions
  <2>5. QED
    BY <2>1, <2>2, <2>3, <2>4, StepKinds
<1> HIDE DEF A, B, C, D, k, l
<1>4. /\ Cardinality(A) \in Nat /\ Cardinality(B) \in Nat
      /\ B \subseteq A => Cardinality(B) <= Cardinality(A)
      /\ \A r : B \subseteq A \cup {r} => Cardinality(B) <= Cardinality(A) + 1
      /\ \A r : B \subseteq A /\ r \in A /\ r \notin B
                  => Cardinality(B) + 1 <= Cardinality(A)
  BY <1>1, QueueAssumption, SubsetCounts
<1>5. /\ Cardinality(C) \in Nat /\ Cardinality(D) \in Nat
      /\ C \subseteq D => Cardinality(C) <= Cardinality(D)
      /\ \A v : C \subseteq D \cup {v} => Cardinality(C) <= Cardinality(D) + 1
      /\ \A u : C \subseteq D /\ u \in D /\ u \notin C
                  => Cardinality(C) + 1 <= Cardinality(D)
  BY <1>1, QueueAssumption, SubsetCounts
<1>6. Cardinality(B) <= l + Cardinality(D)
  <2>1. \/ Cardinality(B) <= Cardinality(A) /\ Cardinality(C) <= Cardinality(D) /\ l = k
        \/ /\ Cardinality(B) <= Cardinality(A) + 1 /\ Cardinality(C) + 1 <= Cardinality(D)
           /\ l = k
        \/ /\ Cardinality(B) + 1 <= Cardinality(A) /\ Cardinality(C) <= Cardinality(D) + 1
           /\ l = k
        \/ /\ Cardinality(B) <= Cardinality(A) /\ Cardinality(C) <= Cardinality(D) + 1
           /\ l = k + 1
    BY <1>3, <1>4, <1>5, Zenon
  <2>2. QED
    BY <1>2, <1>4, <1>5, <2>1
<1>7. QED
  BY <1>6 DEF B, D, l

\* No decision is counted twice and none that lost its race, for any number of
\* approvers, polls and requests.
THEOREM DecisionsAreCountedOnce == Spec => []DecisionsCountedOnce
<1>1. Init => DecisionsInv
  <2>1. SUFFICES ASSUME Init PROVE DecisionsInv
    OBVIOUS
  <2>2. Deciding = {} /\ ResolvedRequests = {}
    BY <2>1 DEF Init, Deciding, ResolvedRequests, Resolved
  <2>3. counted["approved"] = 0 /\ counted["denied"] = 0
    BY <2>1 DEF Init, Resolved
  <2>4. QED
    BY <2>2, <2>3, FS_EmptySet DEF DecisionsInv
<1>2. QueueInv /\ QueueInv' /\ DecisionsInv /\ [Next]_vars => DecisionsInv'
  <2>1. SUFFICES ASSUME QueueInv, QueueInv', DecisionsInv, [Next]_vars PROVE DecisionsInv'
    OBVIOUS
  <2>2. ASSUME NEW t \in Threads, ThreadStep(t) PROVE DecisionsInv'
    BY <2>1, <2>2, DecisionsStep
  <2>3. CASE Tick \/ UNCHANGED vars
    BY <2>1, <2>3 DEF Tick, vars, requestVars, metricVars, threadVars, DecisionsInv,
                      Deciding, ResolvedRequests
  <2>4. QED
    BY <2>1, <2>2, <2>3 DEF Next, ThreadStep
<1>3. QueueInv /\ DecisionsInv => DecisionsCountedOnce
  <2>1. SUFFICES ASSUME QueueInv, DecisionsInv PROVE DecisionsCountedOnce
    OBVIOUS
  <2>2. Deciding \in SUBSET Threads /\ ResolvedRequests \in SUBSET Requests
    BY DEF Deciding, ResolvedRequests
  <2>3. Cardinality(Deciding) \in Nat /\ Cardinality(ResolvedRequests) \in Nat
    BY <2>2, QueueAssumption, SubsetCounts
  <2>4. counted["approved"] \in Nat /\ counted["denied"] \in Nat
    BY <2>1 DEF QueueInv, TypeOK, Resolved
  <2>5. counted["approved"] + counted["denied"] <= Cardinality(ResolvedRequests)
    BY <2>1, <2>3, <2>4 DEF DecisionsInv
  <2>6. QED
    BY <2>5 DEF DecisionsCountedOnce, ResolvedRequests
<1>4. QED
  BY <1>1, <1>2, <1>3, QueueInvariant, PTL DEF Spec

\* No resolution is missing from the counters once every call has ended, though
\* recounts of the queue are interrupted and resolutions overwritten.
THEOREM ResolutionsAreCounted == Spec => []EveryResolutionCounted
<1>1. Init => ResolutionsInv
  <2>1. SUFFICES ASSUME Init, NEW o \in Resolved
                 PROVE  Cardinality(With(o)) <= counted[o] + Cardinality(Counting(o))
    BY DEF ResolutionsInv
  <2>2. With(o) = {} /\ Counting(o) = {} /\ counted[o] = 0
    BY <2>1 DEF Init, With, Counting, Resolved
  <2>3. QED
    BY <2>2, FS_EmptySet
<1>2. QueueInv /\ ResolutionsInv /\ [Next]_vars => ResolutionsInv'
  <2>1. SUFFICES ASSUME QueueInv, ResolutionsInv, [Next]_vars PROVE ResolutionsInv'
    OBVIOUS
  <2>2. ASSUME NEW t \in Threads, ThreadStep(t) PROVE ResolutionsInv'
    BY <2>1, <2>2, ResolutionsStep
  <2>3. CASE Tick \/ UNCHANGED vars
    BY <2>1, <2>3 DEF Tick, vars, requestVars, metricVars, threadVars, ResolutionsInv,
                      With, Counting
  <2>4. QED
    BY <2>1, <2>2, <2>3 DEF Next, ThreadStep
<1>3. QueueInv /\ ResolutionsInv => EveryResolutionCounted
  <2>1. SUFFICES ASSUME QueueInv, ResolutionsInv, \A t \in Threads : pc[t] = "idle",
                        NEW o \in Resolved
                 PROVE  Cardinality(With(o)) <= counted[o]
    BY DEF EveryResolutionCounted, With
  <2>2. Counting(o) = {}
    BY <2>1 DEF Counting
  <2>3. Cardinality(With(o)) <= counted[o] + 0
    BY <2>1, <2>2, FS_EmptySet DEF ResolutionsInv
  <2>4. counted[o] \in Nat
    BY <2>1 DEF QueueInv, TypeOK
  <2>5. QED
    BY <2>3, <2>4
<1>4. QED
  BY <1>1, <1>2, <1>3, QueueInvariant, PTL DEF Spec

\* The step of a lone thread keeps what it knows of the gauge: what it counted
\* is what there is, and nobody interrupts the recount.
LEMMA GaugeStep ==
  ASSUME OneThread, QueueInv, GaugeInv, NEW t \in Threads, ThreadStep(t)
  PROVE  GaugeInv'
<1> USE DEF QueueInv, TypeOK
<1>1. \A u \in Threads : u = t
  BY DEF OneThread
<1>2. SUFFICES /\ pc'[t] \in {"idle", "checking"} => depth' = Cardinality(Pending')
               /\ pc'[t] = "summing" => tally'[t] = [size |-> Cardinality(Present'),
                                                     pending |-> Cardinality(Pending')]
               /\ pc'[t] = "setting_depth" => tally'[t].pending = Cardinality(Pending')
  BY <1>1 DEF GaugeInv
<1>3. CASE Submit(t) \/ Expire(t) \/ RecordDecision(t) \/ StampExpiry(t)
             \/ StampDecision(t) \/ CountOutcome(t)
  BY <1>3 DEF Submit, Expire, RecordDecision, StampExpiry, StampDecision, CountOutcome, GoTo
<1>4. CASE ~Submit(t) /\ ~Expire(t) /\ ~RecordDecision(t)
  <2>1. outcome' = outcome
    BY <1>4, OutcomeSteps DEF ThreadStep, Lookup, requestVars
  <2>2. Pending' = Pending /\ Present' = Present
    BY <2>1 DEF Pending, Present
  <2>3. pc[t] \in {"idle", "checking"} => depth = Cardinality(Pending)
    BY <1>1 DEF GaugeInv
  <2>4. pc[t] = "summing" => tally[t] = [size |-> Cardinality(Present),
                                         pending |-> Cardinality(Pending)]
    BY DEF GaugeInv
  <2>5. CASE (\E r \in Requests : Lookup(t, r)) \/ ReturnFresh(t) \/ RaiseAlreadyDecided(t)
    <3>1. depth' = depth /\ pc[t] \in {"idle", "checking"}
          /\ pc'[t] \in {"idle", "checking"}
      BY <2>5 DEF Lookup, ReturnFresh, RaiseAlreadyDecided, Leave, GoTo, metricVars
    <3>2. QED
      BY <2>2, <2>3, <3>1
  <2>6. CASE StartSum(t)
    <3>1. pc'[t] = "summing" /\ tally'[t] = [size |-> Cardinality(Present),
                                             pending |-> Cardinality(Pending)]
      BY <2>6 DEF StartSum, GoTo
    <3>2. QED
      BY <2>2, <3>1
  <2>7. CASE EndSum(t)
    <3>1. PICK n \in Cardinality(Pending) .. tally[t].pending :
            tally' = [tally EXCEPT ![t].pending = n]
      BY <2>7 DEF EndSum
    <3>2. tally[t].pending = Cardinality(Pending)
      BY <2>4, <2>7 DEF EndSum
    <3>3. n = Cardinality(Pending)
      BY <3>1, <3>2, CountsAreNat
    <3>4. tally'[t].pending = n /\ pc'[t] = "setting_depth"
      BY <2>7, <3>1 DEF EndSum, GoTo
    <3>5. QED
      BY <2>2, <3>3, <3>4
  <2>8. CASE SumInterrupted(t)
    BY <2>4, <2>8 DEF SumInterrupted
  <2>9. CASE SetDepth(t)
    <3>1. pc'[t] = "idle" /\ depth' = tally[t].pending /\ pc[t] = "setting_depth"
      BY <2>9 DEF SetDepth, Leave
    <3>2. tally[t].pending = Cardinality(Pending)
      BY <3>1 DEF GaugeInv
    <3>3. QED
      BY <2>2, <3>1, <3>2
  <2>10. CASE StampExpiry(t) \/ StampDecision(t) \/ CountOutcome(t)
    BY <1>3, <2>10
  <2>11. QED
    BY <1>4, <2>5, <2>6, <2>7, <2>8, <2>9, <2>10 DEF ThreadStep, Continue
<1>5. QED
  BY <1>3, <1>4

\* Used by one thread at a time, the queue-depth gauge is exact between calls,
\* for any number of requests.
THEOREM SequentialDepthIsExact ==
  ASSUME OneThread
  PROVE  Spec => []DepthExact
<1>1. Init => GaugeInv
  <2>1. SUFFICES ASSUME Init PROVE GaugeInv
    OBVIOUS
  <2>2. Pending = {} /\ depth = 0
    BY <2>1 DEF Init, Pending
  <2>3. \A t \in Threads : pc[t] = "idle"
    BY <2>1 DEF Init
  <2>4. QED
    BY <2>2, <2>3, FS_EmptySet DEF GaugeInv
<1>2. QueueInv /\ GaugeInv /\ [Next]_vars => GaugeInv'
  <2>1. SUFFICES ASSUME QueueInv, GaugeInv, [Next]_vars PROVE GaugeInv'
    OBVIOUS
  <2>2. ASSUME NEW t \in Threads, ThreadStep(t) PROVE GaugeInv'
    BY <2>1, <2>2, OneThread, GaugeStep
  <2>3. CASE Tick \/ UNCHANGED vars
    BY <2>1, <2>3 DEF Tick, vars, requestVars, metricVars, threadVars, GaugeInv,
                      Pending, Present
  <2>4. QED
    BY <2>1, <2>2, <2>3 DEF Next, ThreadStep
<1>3. GaugeInv => DepthExact
  BY DEF GaugeInv, DepthExact
<1>4. QED
  BY <1>1, <1>2, <1>3, QueueInvariant, PTL DEF Spec
==============================================================================
