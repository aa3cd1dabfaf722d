---------------------------- MODULE ApprovalQueue ----------------------------
(***************************************************************************)
(* tier_engine/approval_queue.py: the in-memory queue of calls held for a  *)
(* human decision, shared by the pool threads that serve the interceptor   *)
(* (submit), the status and report endpoints (get) and the two decision    *)
(* endpoints (decide).  Nothing locks it.                                  *)
(*                                                                         *)
(* Grain of atomicity: as in CircuitBreaker, a step ends at every call     *)
(* (CPython 3.12).  So `get` reads the clock and only then compares and    *)
(* overwrites the outcome (lines 98-100); `decide` tests PENDING and       *)
(* stores its outcome with no call in between (lines 121-126); the outcome *)
(* is stored before the time and the role, and those before the metrics.   *)
(* A new request enters the dictionary in the step that reads its          *)
(* submission time: nobody knows its id before.  An unknown id only raises *)
(* (lines 93-96) and is left out, as are session, tool and parameters.     *)
(***************************************************************************)
EXTENDS Integers, FiniteSets

CONSTANTS
  Threads,      \* pool threads
  Requests,     \* request ids uuid4 may draw
  Timeout,      \* timeout_seconds, in ticks
  NoTime,       \* None, for decided_at
  NoRole,       \* None, for decided_by_role
  NoRequest,    \* the request of a thread outside the queue
  MaxClock      \* bound: the clock stops there

Roles == {"task_initiating_user", "ops_security_approver"}

ASSUME QueueAssumption ==
  /\ Timeout \in Nat
  /\ MaxClock \in Nat
  /\ NoTime \notin Nat
  /\ NoRole \notin Roles
  /\ NoRequest \notin Requests
  /\ IsFiniteSet(Requests) /\ IsFiniteSet(Threads)

VARIABLES
  outcome,       \* ApprovalRequest.outcome; absent: not in _requests
  submittedAt,   \* .submitted_at
  decidedAt,     \* .decided_at
  role,          \* .decided_by_role
  clock,         \* self.clock()
  depth,         \* the queue-depth gauge
  counted,       \* the outcome counter of observability/metrics.py
  pc,            \* where each thread stands
  job,           \* the thread's request, verb and approver role
  clockRead,     \* the clock value the thread holds
  label,         \* the outcome it is about to count
  tally          \* _pending_count: size of the dictionary, and pending seen

requestVars == <<outcome, submittedAt, decidedAt, role>>
metricVars == <<depth, counted>>
threadVars == <<pc, job, clockRead, label, tally>>
vars == <<requestVars, metricVars, clock, threadVars>>

Resolved == {"approved", "denied", "expired"}
Outcomes == {"absent", "pending"} \cup Resolved
Verbs == {"none", "submit", "get", "approve", "deny"}
PcValues == {"idle", "checking", "stamping_expiry", "stamping_decision",
             "counting_outcome", "starting_sum", "summing", "setting_depth"}

NoJob == [req |-> NoRequest, verb |-> "none", by |-> NoRole]
NoTally == [size |-> 0, pending |-> 0]

Jobs == [req : Requests \cup {NoRequest}, verb : Verbs, by : Roles \cup {NoRole}]

Present == {r \in Requests : outcome[r] # "absent"}
Pending == {r \in Requests : outcome[r] = "pending"}

Init ==
  /\ outcome = [r \in Requests |-> "absent"]
  /\ submittedAt = [r \in Requests |-> 0]
  /\ decidedAt = [r \in Requests |-> NoTime]
  /\ role = [r \in Requests |-> NoRole]
  /\ clock = 0
  /\ depth = 0
  /\ counted = [o \in Resolved |-> 0]
  /\ pc = [t \in Threads |-> "idle"]
  /\ job = [t \in Threads |-> NoJob]
  /\ clockRead = [t \in Threads |-> 0]
  /\ label = [t \in Threads |-> "expired"]
  /\ tally = [t \in Threads |-> NoTally]

------------------------------------------------------------------------------
\* The call returns or raises.
Leave(t) ==
  /\ pc' = [pc EXCEPT ![t] = "idle"]
  /\ job' = [job EXCEPT ![t] = NoJob]
  /\ clockRead' = [clockRead EXCEPT ![t] = 0]
  /\ label' = [label EXCEPT ![t] = "expired"]
  /\ tally' = [tally EXCEPT ![t] = NoTally]

GoTo(t, place) == pc' = [pc EXCEPT ![t] = place]

\* submit, lines 81-88.
Submit(t) ==
  /\ pc[t] = "idle"
  /\ \E r \in Requests \ Present :
       /\ outcome' = [outcome EXCEPT ![r] = "pending"]
       /\ submittedAt' = [submittedAt EXCEPT ![r] = clock]
       /\ job' = [job EXCEPT ![t] = [req |-> r, verb |-> "submit", by |-> NoRole]]
  /\ GoTo(t, "starting_sum")
  /\ UNCHANGED <<decidedAt, role, metricVars, clock, clockRead, label, tally>>

\* The calls the endpoints make: get, or decide with an answer and a role.
Calls ==
  [verb : {"get"}, by : {NoRole}] \cup [verb : {"approve", "deny"}, by : Roles]

\* get, lines 92-99, and the call of it on line 120, up to the return of self.clock(), for a PENDING request.
\* For a resolved one get returns, and decide raises ApprovalAlreadyDecided:
\* neither changes anything.
LookupResolved(t, r) ==
  /\ pc[t] = "idle"
  /\ r \in Present
  /\ \E c \in Calls :
       job' = [job EXCEPT ![t] = [req |-> r, verb |-> c.verb, by |-> c.by]]
  /\ clockRead' = [clockRead EXCEPT ![t] = clock]
  /\ GoTo(t, "checking")
  /\ UNCHANGED <<requestVars, metricVars, clock, label, tally>>

Lookup(t, r) ==
  /\ pc[t] = "idle"
  /\ r \in Pending
  /\ \E c \in Calls :
       job' = [job EXCEPT ![t] = [req |-> r, verb |-> c.verb, by |-> c.by]]
  /\ clockRead' = [clockRead EXCEPT ![t] = clock]
  /\ GoTo(t, "checking")
  /\ UNCHANGED <<requestVars, metricVars, clock, label, tally>>

TimedOutEarly(t) == clockRead[t] + 1 >= submittedAt[job[t].req] + Timeout
NeverTimedOut(t) == FALSE
TimedOut(t) == clockRead[t] >= submittedAt[job[t].req] + Timeout

\* get, lines 99-101, up to the return of the second self.clock(): the
\* outcome is overwritten whatever it has become since line 98.
Expire(t) ==
  /\ pc[t] = "checking"
  /\ TimedOut(t)
  /\ outcome' = [outcome EXCEPT ![job[t].req] = "expired"]
  /\ clockRead' = [clockRead EXCEPT ![t] = clock]
  /\ GoTo(t, "stamping_expiry")
  /\ UNCHANGED <<submittedAt, decidedAt, role, metricVars, clock, job, label, tally>>

\* get returns a request that has not timed out.
ReturnFresh(t) ==
  /\ pc[t] = "checking"
  /\ ~TimedOut(t)
  /\ job[t].verb = "get"
  /\ Leave(t)
  /\ UNCHANGED <<requestVars, metricVars, clock>>

\* decide, lines 121-125: somebody else resolved it since line 98.
RaiseAlreadyDecided(t) ==
  /\ pc[t] = "checking"
  /\ ~TimedOut(t)
  /\ job[t].verb # "get"
  /\ outcome[job[t].req] # "pending"
  /\ Leave(t)
  /\ UNCHANGED <<requestVars, metricVars, clock>>

DecisionAsVerb(verb) == verb
Decision(verb) == IF verb = "approve" THEN "approved" ELSE "denied"

\* decide, lines 121, 126-127, up to the return of self.clock().
RecordDecisionUnchecked(t) ==
  /\ pc[t] = "checking"
  /\ ~TimedOut(t)
  /\ job[t].verb # "get"
  /\ outcome' = [outcome EXCEPT ![job[t].req] = Decision(job[t].verb)]
  /\ clockRead' = [clockRead EXCEPT ![t] = clock]
  /\ GoTo(t, "stamping_decision")
  /\ UNCHANGED <<submittedAt, decidedAt, role, metricVars, clock, job, label, tally>>

RecordDecision(t) ==
  /\ pc[t] = "checking"
  /\ ~TimedOut(t)
  /\ job[t].verb # "get"
  /\ outcome[job[t].req] = "pending"
  /\ outcome' = [outcome EXCEPT ![job[t].req] = Decision(job[t].verb)]
  /\ clockRead' = [clockRead EXCEPT ![t] = clock]
  /\ GoTo(t, "stamping_decision")
  /\ UNCHANGED <<submittedAt, decidedAt, role, metricVars, clock, job, label, tally>>

\* get, line 101; line 102 counts EXPIRED.
StampExpiryUncounted(t) ==
  /\ pc[t] = "stamping_expiry"
  /\ decidedAt' = [decidedAt EXCEPT ![job[t].req] = clockRead[t]]
  /\ GoTo(t, "starting_sum")
  /\ UNCHANGED <<outcome, submittedAt, role, metricVars, clock, job, clockRead,
                 label, tally>>

StampExpiry(t) ==
  /\ pc[t] = "stamping_expiry"
  /\ decidedAt' = [decidedAt EXCEPT ![job[t].req] = clockRead[t]]
  /\ label' = [label EXCEPT ![t] = "expired"]
  /\ GoTo(t, "counting_outcome")
  /\ UNCHANGED <<outcome, submittedAt, role, metricVars, clock, job, clockRead, tally>>

\* decide, lines 127-129: the outcome to count is read from the request.
StampDecisionWithoutRole(t) ==
  /\ pc[t] = "stamping_decision"
  /\ decidedAt' = [decidedAt EXCEPT ![job[t].req] = clockRead[t]]
  /\ label' = [label EXCEPT ![t] = outcome[job[t].req]]
  /\ GoTo(t, "counting_outcome")
  /\ UNCHANGED <<outcome, submittedAt, role, metricVars, clock, job, clockRead, tally>>

StampDecision(t) ==
  /\ pc[t] = "stamping_decision"
  /\ decidedAt' = [decidedAt EXCEPT ![job[t].req] = clockRead[t]]
  /\ role' = [role EXCEPT ![job[t].req] = job[t].by]
  /\ label' = [label EXCEPT ![t] = outcome[job[t].req]]
  /\ GoTo(t, "counting_outcome")
  /\ UNCHANGED <<outcome, submittedAt, metricVars, clock, job, clockRead, tally>>

\* record_approval_outcome, lines 102 and 129.
CountOutcomeOnly(t) ==
  /\ pc[t] = "counting_outcome"
  /\ counted' = [counted EXCEPT ![label[t]] = @ + 1]
  /\ Leave(t)
  /\ UNCHANGED <<requestVars, depth, clock>>

CountOutcome(t) ==
  /\ pc[t] = "counting_outcome"
  /\ counted' = [counted EXCEPT ![label[t]] = @ + 1]
  /\ GoTo(t, "starting_sum")
  /\ UNCHANGED <<requestVars, depth, clock, job, clockRead, label, tally>>

\* _pending_count, line 76: the dictionary iterator notes the size.
StartSum(t) ==
  /\ pc[t] = "starting_sum"
  /\ tally' = [tally EXCEPT ![t] = [size |-> Cardinality(Present),
                                    pending |-> Cardinality(Pending)]]
  /\ GoTo(t, "summing")
  /\ UNCHANGED <<requestVars, metricVars, clock, job, clockRead, label>>

\* Each entry was read at some moment since, while requests only resolved.
EndSum(t) ==
  /\ pc[t] = "summing"
  /\ Cardinality(Present) = tally[t].size
  /\ \E n \in Cardinality(Pending) .. tally[t].pending :
       tally' = [tally EXCEPT ![t].pending = n]
  /\ GoTo(t, "setting_depth")
  /\ UNCHANGED <<requestVars, metricVars, clock, job, clockRead, label>>

\* A submit changed the size during the iteration: RuntimeError, with the
\* outcome stored and counted, and the gauge not set.
SumInterrupted(t) ==
  /\ pc[t] = "summing"
  /\ Cardinality(Present) # tally[t].size
  /\ Leave(t)
  /\ UNCHANGED <<requestVars, metricVars, clock>>

\* set_approval_queue_depth, lines 89, 103 and 130.
SetDepth(t) ==
  /\ pc[t] = "setting_depth"
  /\ depth' = tally[t].pending
  /\ Leave(t)
  /\ UNCHANGED <<requestVars, counted, clock>>

Tick ==
  /\ clock < MaxClock
  /\ clock' = clock + 1
  /\ UNCHANGED <<requestVars, metricVars, threadVars>>

Continue(t) ==
  \/ Expire(t) \/ ReturnFresh(t) \/ RaiseAlreadyDecided(t) \/ RecordDecision(t)
  \/ StampExpiry(t) \/ StampDecision(t) \/ CountOutcome(t)
  \/ StartSum(t) \/ EndSum(t) \/ SumInterrupted(t) \/ SetDepth(t)

Next ==
  \/ \E t \in Threads :
       \/ Submit(t)
       \/ \E r \in Requests : Lookup(t, r)
       \/ Continue(t)
  \/ Tick

Spec == Init /\ [][Next]_vars

\* Time passes, a started call runs to its end, and the client of a pending
\* request keeps polling it (GET /approvals/{request_id}): its poll gets a pool
\* thread again and again, though other calls may keep every thread busy between.
Fairness ==
  /\ WF_vars(Tick)
  /\ \A t \in Threads : WF_vars(Continue(t))
  /\ \A r \in Requests : SF_vars(\E t \in Threads : Lookup(t, r))

FairSpec == Spec /\ Fairness

------------------------------------------------------------------------------
\* Types of the fields, of the metrics and of the threads' locals.
TypeOK ==
  /\ outcome \in [Requests -> Outcomes]
  /\ submittedAt \in [Requests -> Nat]
  /\ decidedAt \in [Requests -> Nat \cup {NoTime}]
  /\ role \in [Requests -> Roles \cup {NoRole}]
  /\ clock \in Nat
  /\ depth \in Nat
  /\ counted \in [Resolved -> Nat]
  /\ pc \in [Threads -> PcValues]
  /\ job \in [Threads -> Jobs]
  /\ clockRead \in [Threads -> Nat]
  /\ label \in [Threads -> Resolved]
  /\ tally \in [Threads -> [size : Nat, pending : Nat]]

\* A human decision is never turned into the opposite one, an expired request
\* never comes back, and nothing returns to PENDING, even when the user and an
\* ops approver decide while a status poll expires the same request.
NoResurrection ==
  [][\A r \in Requests :
       /\ outcome[r] \in Resolved => outcome'[r] \in {outcome[r], "expired"}
       /\ outcome[r] = "pending" => outcome'[r] # "absent"]_vars

\* Of the user and the ops approver deciding at the same time at most one
\* gets through line 121: two decisions are never being written at once.
OneDecider ==
  \A t, u \in Threads :
    pc[t] = "stamping_decision" /\ pc[u] = "stamping_decision"
      /\ job[t].req = job[u].req => t = u

\* The dashboards never count more human decisions than there are requests
\* that left PENDING: a lost race is never counted as a decision.
DecisionsCountedOnce ==
  counted["approved"] + counted["denied"]
    <= Cardinality({r \in Requests : outcome[r] \in Resolved})

\* A resolution is counted even when the recount of the queue is interrupted
\* or the request was resolved twice: at rest no outcome is missing.
EveryResolutionCounted ==
  (\A t \in Threads : pc[t] = "idle") =>
    \A o \in Resolved : Cardinality({r \in Requests : outcome[r] = o}) <= counted[o]

\* EXPIRED means what it says: nobody expires a request before its timeout.
ExpiredOnlyAfterTimeout ==
  \A r \in Requests : outcome[r] = "expired" => clock >= submittedAt[r] + Timeout

\* The audit trail names who decided: an approved or denied request carries a
\* role and a time as soon as its decider has finished writing them.
DecisionAttributed ==
  \A r \in Requests :
    outcome[r] \in {"approved", "denied"} =>
      \/ role[r] # NoRole /\ decidedAt[r] # NoTime
      \/ \E t \in Threads : pc[t] = "stamping_decision" /\ job[t].req = r

\* A polled request does not stay PENDING for ever: expiry is lazy, and it is
\* the poll that carries it out.
PolledRequestResolves ==
  \A r \in Requests :
    (outcome[r] = "pending" /\ submittedAt[r] + Timeout <= MaxClock)
      ~> outcome[r] \in Resolved

\* With one thread the queue-depth gauge is exact whenever no call is running.
DepthExact ==
  (\A t \in Threads : pc[t] = "idle") => depth = Cardinality(Pending)

\* The promise of the abstract queue, as a refinement: every request resolved
\* once.  One thread keeps it; several do not (Expire above overwrites).
Contract == INSTANCE ApprovalContract

MeetsContract == Contract!ContractSpec

\* The same promise as a step: a resolved request keeps its outcome.
ResolutionIsFinal ==
  [][\A r \in Requests : outcome[r] \in Resolved => outcome'[r] = outcome[r]]_vars
==============================================================================
