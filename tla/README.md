# SIMULACRUM: a TLA+ development

SIMULACRUM sits between an LLM agent and its tools. Every proposed tool call goes
through `POST /sessions/{id}/intercept`: a circuit breaker wraps six detectors, the number
of detectors that flag the call and the tool's risk tier give a response tier (allow, flag,
require approval, block), held calls wait in an approval queue, and every attempt goes into
a per-session log. This directory models that program, checks the models with TLC and
proves theorems about them with TLAPS. Paths below are relative to `src/src/simulacrum/`.

## 1. Inventory

| Component | State | Operations | What is hard about it |
|---|---|---|---|
| Circuit breaker, `interception/circuit_breaker.py` | `_state`, `_failure_count`, `_opened_at` | `state` (half-open test), `call` | The synchronous endpoints run in FastAPI's thread pool, so several threads are inside `call` on one unlocked object |
| Approval queue, `tier_engine/approval_queue.py` | dictionary of requests; the depth gauge and the outcome counter | `submit`, `get` (expires lazily), `decide` | Two approver roles decide, status polls and reports expire, all without a lock; the gauge is a recount |
| Interceptor, `interception/interceptor.py` | none of its own; drives the others | `intercept_and_call` | Six ways through it, each with its order of log, queue and tool, and an exception possible at every step |
| Session detectors, `detectors/{permission_escalation,loop_rate,exfiltration}.py` | none; read the session log | `check_*` | Each reads the log anew and without a lock while other calls of the session append |
| Call-local detectors, `detectors/{schema,param_divergence,content_pattern}.py` | none | `check_*`, `check_content` | Text and embeddings |
| Tiers, `risk_tiers/tiers.py`, `tier_engine/response_tier.py` | the registry, filled at start-up | `fail_policy`, `decide_response_tier` | Two tables that must agree on what is irreversible |
| Session store, `session/{store,redis_store}.py` | one list of attempts per session, with a sliding TTL in Redis | `append_attempt`, `get_attempts`, `get_tool_footprint` | RPUSH and EXPIRE are two commands |
| Redis breaker, `interception/redis_circuit_breaker.py` | two Redis keys shared by replicas | `state`, `call` | INCR/SET and DEL/DEL are not atomic together |
| Task representation, `attribution/subtask.py` | current vector and text, sub-task index | `start`, `update_from_user_turn` | reads the text, asks an LLM, then writes |
| Drift scheduler, `attribution/drift_scheduler.py` | last checked counts, standing decisions, the asyncio task | `run_once`, `start`, `stop` | counts of a log that can expire and start again; a task nobody restarts |
| API, `api/{app,state}.py` | the above, and dictionaries of sessions | endpoints, `lifespan` | dictionaries shared by the pool and the event loop |
| Investigation report, `investigation/report.py` | none; reads log and queue | `generate_investigation_report`, `to_redacted_dict` | the log survives a restart in Redis, the queue does not |
| Drift statistics, `drift/` | the deployed detector's metrics, version tracker | `evaluate_promotion`, `compute_psi` | chains of promotions; bins whose edges are rounded |
| Task simulator, `task_sim/` | none | `generate_session` | templates, schemas and thresholds kept in three files |
| `attack_suite/`, `evaluation/`, `generalization_set/` | tallies of one run | attack generators, replay, evaluation programs | labels that must be right; programs that must agree about one sample |
| `adversarial/`, redaction, explanation, settings, metrics | counters | | text, LLM calls |

Interactions: an endpoint calls `intercept_and_call`; this calls the breaker, which calls the
detectors, which read the session store; then the tier table; then the queue, the store and
the tool. The status and decision endpoints and the report call the queue. The drift loop
reads the store. All of it runs in pool threads of one process (the drift loop on the event
loop), several replicas sharing Redis.

What makes each component correct, beyond its types: the breaker never wedges, never
forgets a failure and lets nothing through early; a request of the queue is resolved once,
by one approver, no earlier than its timeout, and is attributed and counted; the interceptor
runs no irreversible tool that was flagged or not scored, runs nothing it has not logged,
and links each held call with its request; what a session has done is held against its later
calls; replicas agree about the shared breaker, and a trip that is lost is made up for; a
session id in a client's hands works until the process ends, and its log expires; drift is
checked when it is due and no more often; the offline programs' ground truth is right.

## 2. Modules

| Module | Models | Uses |
|---|---|---|
| `BreakerContract` | what a breaker promises: `open` and `failures`, a failure, a success | |
| `CircuitBreaker` | the in-memory breaker, thread by thread | refines `BreakerContract` |
| `ApprovalContract` | what the queue promises: a request is queued once and resolved once | |
| `ApprovalQueue` | the queue, thread by thread | refines `ApprovalContract` |
| `Policy` | `fail_policy`, `decide_response_tier` | |
| `Detectors` | the three detectors that read the session log | |
| `AuditContract` | what the audit trail promises its readers: a call is recorded before it runs, queued before it is recorded as held | |
| `Interceptor` | `intercept_and_call` with log, queue, breaker, tools | `Policy`, `Detectors`, `BreakerContract`; refines `AuditContract` |
| `RedisCircuitBreaker` | the breaker that replicas share in Redis, command by command | |
| `SessionIds` | the constant `Sessions` | |
| `SessionStore` | RPUSH, EXPIRE, and the expiry of a key | `SessionIds` |
| `TaskRepresentation` | a session's anchor text, vector and sub-task index | `SessionIds` |
| `DriftScheduler` | the background task, its snapshot and its two dictionaries | `SessionIds` |
| `Api` | the process: sessions, turns, calls being logged, approvals, drift loop, restarts, report | `SessionStore`, `TaskRepresentation`, `DriftScheduler`, `ApprovalContract` |
| `TaskSim` | templates, schemas and tiers; the schema check | |
| `AttackSuite` | generated sessions, attacks worked into them, their replay | `TaskSim`, `Detectors`, `Policy` |
| `LlmJudges` | what is made of an LLM's answer | |
| `Evaluation` | the programs that score trajectories | `LlmJudges` |
| `DriftStatistics` | promotion gate, bins of the stability index | |
| `Offline` | one of the programs at a time | `AttackSuite`, `Evaluation`, `DriftStatistics` |
| `MC*` | instances for TLC | |
| `*Proofs` | theorems (section 4) | |

### Grain of atomicity

The build is CPython 3.12 (`Dockerfile`, `pyproject.toml`): a thread can lose the interpreter
lock only at a call, at a backward jump or while it waits. In `CircuitBreaker` and
`ApprovalQueue` a step is therefore a stretch of straight-line code, and every call
(`self.clock()`, `fn()`, a metric) ends one. `_failure_count += 1` is one step; the half-open
test, which reads the clock between two reads of `_opened_at`, is two; so is the test of
PENDING and the store of EXPIRED in `get`, with a clock call in between; the test and the
store in `decide` are one. Another implementation of Python, or a free-threaded build, would
need finer steps.

In `Interceptor` a step is one access to something shared: a read of the log by a detector,
an append, a submission, the run of a tool. The breaker is there as its contract, which
`CircuitBreaker` is proved to implement, and without time: an open breaker may reject a call
or let it through. (The `TypeError` of section 5 is, seen from here, a call that does not
begin.)

In `RedisCircuitBreaker` a step is one Redis command or one reading of the clock. In `Api` the
requests run in pool threads, a step of theirs being one access to Redis or to a shared
dictionary; the drift loop runs on the event loop, which accepts no request while the loop
scans or checks, but the pool threads of requests accepted before run on, and each Redis read
of the scan lets them. The offline programs have one thread; their steps are one generated
group, one replayed call, one trajectory, one promotion, one index.

### State and actions

`CircuitBreaker`: `state`, `failureCount`, `openedAt` are the three fields, `clock` is
`self.clock()`; `EnterDirectly`, `ReadClock`, `CompareTimes`, `SubtractNone` are the halves of
the `state` property with the decision of lines 65-71; `Succeed`, `FailBelowThreshold`, `Trip`,
`StoreOpenedAt` are lines 72-82. `raised` remembers what a call ended with.

`ApprovalQueue`: `outcome`, `submittedAt`, `decidedAt`, `role` are the fields of the requests,
`depth` and `counted` the metrics. `Submit` is `submit`; `Lookup`, `Expire`, `ReturnFresh`,
`StampExpiry` are `get`; `RaiseAlreadyDecided`, `RecordDecision`, `StampDecision` the rest of
`decide`; `CountOutcome`, `StartSum`, `EndSum`, `SumInterrupted`, `SetDepth` the metrics, with
the recount that iterates over a dictionary other threads extend.

`Interceptor`: `log` is the session store, `held` the queue's requests, `open` and `failures` the
breaker, `pc`, `call`, `scoring`, `ticket` a thread's progress and locals, `reply` what the call
that ended in the last step gave back, `runs` a history of executions by what authorised
them. `since`, in a call and an attempt, is a history variable: the length of the log when the
call began. `StartScoring`/`Reject` are the breaker's decision, `Score*` and `FinishScoring`
`_run_scoring` and the tier decision, `LogAllowed`, `LogBlocked`, `SubmitHeld`, `LogHeld`, `Execute`
lines 301-362, `BypassOpen`, `BypassClosed` lines 269-296, and `ScoringFails`,
`RaiseUnregistered`, `AppendFails` and the second disjuncts of `SubmitHeld` and `Execute` the
exceptions. An append that fails may have reached Redis: RPUSH precedes EXPIRE.

`RedisCircuitBreaker`: `count` and `openedAt` are the two keys. `GetStamp`, `Compare` are `state`
with the decision of `call`; `IncrementCount`, `ReadClock`, `SetStamp` the failure path, `DeleteCount`,
`DeleteStamp` the success path; `CutShort` is a command that raises, applied or not, or a replica
that dies. Two history variables: `torn` remembers that a trip and a success overlapped or a call
was cut short and nothing has repaired the keys since; `overlapped` holds the callers whose trip a
success has overlapped, since only another trip repairs.

`Api`: `tracked` is `_task_representations` in insertion order, `typed` the keys of `_task_types`,
`log` and `volatile` the Redis lists and whether their keys carry a TTL, `anchor`, `vector`, `index`
the task representation, `loop`, `size`, `snapshot`, `lastChecked`, `standing` the scheduler. A session
starts in three steps (the id is drawn, the representation stored, the type stored), a turn
takes three (the anchor is read, the vector moves, the verdict takes effect), a call is logged
in two (`PushAttempt`, `RefreshKey`), either of which may fail (`AppendFails`). `Restart` empties
what the process keeps and leaves Redis. What was decided about a call is an input, as
`Interceptor` has it. `used`, `issued`, `orphans` and `unread` are history variables; `unread` counts
the calls a session has logged since the loop last read it, in the store or expired from it, and
an entry of the snapshot carries the count it was read with. A pass over an empty dictionary ends
at once, and the iteration can find the dictionary changed only after its first session: between
the creation of the iterator and the first read no other thread gets the interpreter.

`AttackSuite`: `calls` grows group by group (`DrawGroup`), one action per generator labels it and
works the attack in, `Replay` runs the next call through schema check, session detectors and
tier decision. `Evaluation`: `ScoreTrajectory` adds one trajectory to the tallies of all programs,
so that they can be compared; the answers of the LLMs are part of the trajectory.
`DriftStatistics`: `Challenge` is one pass through the gate, `ComputePsi` one index. An edge of the
index is rounded four times (`drift/psi.py:84-85`), so that it may be many units in the last place
of the maximum off when the minimum is the larger in magnitude; each edge of the model but the
first carries an error of up to `RoundingError`, and of what floating point guarantees only two
facts are kept: the operations are monotone, so the edges never fall, and the first edge is exact.

## 3. Runs

| Run | Instance | Shows |
|---|---|---|
| `circuit_breaker` | 3 threads, threshold 2, recovery 2 ticks, clock to 5, 4 failures | types; `OpenIsStamped`, `TrialOnlyAfterRecovery`, the refinement `MeetsContract`, and `OpenBreakerRecovers` under fairness |
| `circuit_breaker_exceptions` | the same | **violated**: `OnlyDocumentedExceptions` |
| `approval_queue` | 2 threads, 2 requests, timeout 1, clock to 2 | exclusive, attributed, counted decisions; no early expiry; no reversal |
| `approval_queue_sequential` | 1 thread, timeout 2, clock to 3 | refinement of the contract, exact gauge, and `PolledRequestResolves` under fairness |
| `approval_finality` | 2 threads, 1 request | **violated**: `ResolutionIsFinal` |
| `interceptor` | 2 threads, 2 attempts, four tools (read-only, irreversible of low and of high value, unregistered), shadow mode on and off, every failure | `IrreversibleRunsOnlyClean`, `NothingRunsUnlogged`, `HeldCallsLinked`, `AllowedTellsTheTruth`, the refinement `MeetsContract` |
| `interceptor_history` | 2 threads, 3 attempts, rate threshold 3, outbound threshold 2, no shadow mode | `EscalationSticky`, `EvasionRetryFlagged`, `RepeatsFlagged`, `OutboundOvershootBounded` |
| `redis_breaker` | 3 callers, threshold 2, recovery 1 tick, clock to 3, one call cut short | types, `KeysAgree`, and under fairness `LostTripMadeUp`, `OpenBreakerRecovers` |
| `sessions` | 2 sessions, 2 threads, 1 request, 3 texts, 2 attempts, 2 turns, 1 restart, no drift loop | `IssuedSessionsServed`, `RetentionBounded`, `SubTasksOpenOnNewTasks` |
| `drift` | 2 sessions, 2 threads, 3 attempts, check interval 2, no held calls | types, `ChecksSpaced`, and under fairness `DriftChecked` |
| `drift_snapshot` | 2 sessions, 2 threads | **violated**: `SnapshotNeverInterrupted` |
| `offline` | every template; trajectories of 2 calls of 6 kinds, 2 per group; 2 attack classes, 3 levels; 2 bins | `LegitimateTasksRunClean`, `AttacksShowAtTheirCall`, `BaselinesAgree`, `PromotionNeverRegresses`, `BinsLoseOnlyTheTop` |

Bounds. `MaxClock` stops the clock and `MaxFailures`, `MaxAttempts` and the number of `Requests`
cap what would grow for ever. Three threads are one more than any race described in the
hazards needs in the breaker; the queue's races are between two callers of one request, and
the second request is there for the recount. A clock of 5 contains two recovery periods, a
clock of 2 a timeout and an instant on either side of it. `MaxAttempts` counts calls under
way, so a bound of 3 contains two overlapping calls after a first one, or a call of another
tool between a blocked call and its retry. The thresholds of 7 in the code are constants; 2
and 3 put them within reach. `RepeatsFlagged` and `EvasionRetryFlagged` need a rate threshold
above 2 to be told apart, and `OutboundOvershootBounded` an outbound threshold below the number
of attempts. Which external detectors flag a call is an input: none, or the content
detector, which covers counts of zero to four flags with the three session detectors.
Symmetry over threads, parameters and requests is used only in runs that check no liveness.

`sessions` runs without the drift loop, as the API tests do, because the loop touches neither
store nor sessions; `drift` leaves out turns and held calls, because the loop reads neither.
Two sessions are what an insertion during a scan needs; the three texts are a task, a
refinement, and a new task that would pass for a refinement of the refinement, so that a
verdict on a stale anchor differs from one on the present anchor. In `drift` an interval of 2 and
three calls let one session come due while the other is being read, or expire before it does; the
restart is left to `sessions`, since it resets the scheduler. `MaxAttempts` counts calls in the
store, so that after an expiry a session logs on: that is what a second check of one session takes,
with an expiry or a call between the two, or a call between a read and its check. `ChecksSpaced`
is proved for every bound. In `redis_breaker` three callers are one success, one
failure that trips and one that is let through, and one cut is enough to separate any two
commands. In `offline` the thresholds are those of the code (7), and each template is generated
at every length it can have. The kinds of calls lie at the divergence threshold, one below it,
inside and outside the ambiguous zone and at the extremes, with every way an LLM can answer
badly. In the index `RoundingError` is 2, and the samples hold a value just below the maximum and a
range as narrow as the error, in which edges coincide. The programs run one at a time; what the others start with is fixed
then, because they share no state.

Fairness. The breaker: time passes (`WF(Tick)`) and each thread's enabled step is taken, since a
started call returns or raises and the operating system schedules every thread; threads go on
calling. The queue: weak fairness of time and of a started call, and strong fairness of the
lookups of each request, which says that its client keeps polling and gets a pool thread again
and again. Without polls a request stays PENDING for ever: expiry is lazy. The Redis breaker: as
the in-memory one, for every caller; a call that is cut short is no step of that fairness, and
nothing is assumed of `fn`. The drift loop: weak fairness of its steps only (`WF(Drift)`), since
the event loop runs a task whose sleep is over; nothing is assumed of requests, and a loop
that an exception has ended stays ended, as `DriftChecked` says. The interceptor has no
liveness property.

Deadlock. `ApprovalQueue` stops when all requests are resolved and the clock has run out, and
`Interceptor` when the log is full; `Api` may stop when its bounds are used up and no drift loop
runs, or that loop has ended; the offline programs come to their end. Their runs say
`CHECK_DEADLOCK FALSE`. `CircuitBreaker` and `RedisCircuitBreaker` never stop.

## 4. Proofs

Eight modules hold theorems; each states its inductive invariant as `IInv` or as named parts of
one. Every safety property that a passing run of section 3 checks is a theorem; the inductive
invariants were first checked by TLC on the runs' instances.

* `CircuitBreakerProofs`. From `BreakerAssumption`: types, state and count agree, an open breaker
  has a stamp or a thread about to store one, nothing reaches scoring before recovery, and the
  refinement. `OpenIffTripped` is what the contract says of its own two variables, so no run
  repeats it. The refinement needs `OpenIffTripped` only: a failure that trips changes state and
  count in one step, and every other step but a success is a stutter. `TrialOnlyAfterRecovery`
  needs `clockRead[t] <= clock`: the comparison uses the time the thread read earlier.
* `ApprovalQueueProofs`. From `QueueAssumption` (requests and pool threads are finitely many):
  types, one decider, no early expiry, attribution, no reversal, the counters, and, assuming one
  thread, the refinement and the exact gauge. The strengthening says what is known
  of the request of a thread at each place in `get` and `decide` (a thread that is writing a
  decision found the request pending and has made it resolved), and that a held clock value
  is no later than the clock. The counters need three invariants of their own. `DecisionsInv`:
  counted decisions and requests whose decision is still being written are together no more
  than the resolved ones, which holds because a decision cannot be taken twice. `ResolutionsInv`:
  for each outcome, what is counted and the threads about to count it are together no fewer
  than the requests that have it; the label of a decision is read late, from the request, so
  until then its thread counts for whichever outcome the request has by then. `GaugeInv`: what a
  lone caller has read in its recount is still the state of the queue.
* `InterceptorProofs`. From `InterceptorAssumption` and `PolicyAssumption`: types, and
  `IrreversibleRunsOnlyClean`. That property alone is not inductive: it counts executions, and
  the step that counts one must know why the thread is there. `ThreadInv` adds, for each
  thread, that its arguments are present, that past the decision its tier is that of its
  findings, and that a thread about to run a tool passed one of the three tests. The lemma
  `IrreversibleNeedsNoFlag` about the tier table, and the fail policy, do the rest.
* `InterceptorLogProofs`. From the same assumptions (the pool has finitely many threads, and at
  least one), the properties that relate the log to what happened:
  - `NothingRunsUnlogged` is inductive once types are known. A run moves one thread out of the
    executing ones and into the executions, and an allowed attempt precedes every thread that
    starts to execute.
  - `HeldCallsLinked` needs `HeldInv`: a ticket is the thread's own submission, no log names it
    before the thread logs it, and no two threads have the same one.
  - `EscalationSticky`, `EvasionRetryFlagged` and `RepeatsFlagged` need `HistoryInv`, which carries
    what a detector found from the moment it read the log to the moment the attempt is
    appended. A scored thread holds findings about a prefix of the log at least as long as the
    one at its start, and what is logged never changes; the attempts appended meanwhile are
    the other threads', so each property is about what was there when the call began.
  - `OutboundOvershootBounded` needs `OutboundInv`, a count: the clean outbound attempts in the
    log and the threads that came clean through the exfiltration detector and have not logged
    yet are together no more than the bound. Whoever comes clean has just seen every attempt in
    the log, fewer than the threshold; the other threads are one each.
  - `AllowedTellsTheTruth` needs `ThreadInv` and what is known of a held call.
  - `MeetsContract`, the refinement of `AuditContract`: a reader sees a step of `Interceptor` only
    when it logs, submits or runs. What is logged is a verdict with no request, or that of a held
    call, whose request no log names yet (`HeldInv`). What runs needs a verdict "allowed" beyond
    the runs so far: `NothingRunsUnlogged` counts the thread about to run as well. A failed append
    is a stutter or a record, a failed submission still holds its request.
* `RedisCircuitBreakerProofs`. From `RedisBreakerAssumption`: types, and `KeysAgree`. The property
  speaks of the time from a repair, a trip that no success overlaps or a success that begins with
  no trip under way, to the next overlap or cut; the disagreement that an overlap leaves can last as
  long as no call finishes, and of that time it says nothing. The strengthening has two parts.
  `Apart`: as long as nothing is torn, callers on the failure path past the threshold and callers
  on the success path are never there together. `Undisturbed`: whatever is torn, while some trip has
  not been overlapped the count stands at the threshold and nobody is about to delete the stamp,
  which is why the end of such a trip is a repair.
* `ApiProofs`. From `ApiAssumption`, `TextAssumption`, `SchedulerAssumption`: types, `RetentionBounded`,
  `IssuedSessionsServed`, `ChecksSpaced`, `SubTasksOpenOnNewTasks`, for any number of sessions,
  threads, requests, restarts and any check interval. The invariant says which session and attempt
  a request holds at each place. `IssuedSessionsServed` needs more: the sessions of this process and those about
  to be stored have only held calls in the log that the present queue knows. That rests on ids
  being fresh (a session nobody has drawn has an empty log) and on the queue and the sessions
  being lost together. `SubTasksOpenOnNewTasks` needs that an id about to be stored is in
  nobody else's hands, or storing it would reset a running task. `ChecksSpaced` compares what the
  code subtracts with what was really logged: `Reading` says that a pass reads each session once and
  in the order of the dictionary, and that neither the calls logged since a session was last read nor
  those of an entry that waits for its check are fewer than the store has gained, whatever has
  expired (`UnreadCounted`). A key that expires only lowers the second number, so the code may check
  too late (section 5) and never too early.
* `AttackSuiteProofs`. No assumption: templates, schemas, tiers and thresholds are those of the
  code, but the proofs go by what the tables say, not through the sessions one by one, and a
  session is any that generators and replay can reach.
  - `LegitimateTasksRunClean`: a drawn call has the fields of its schema and a tool of its task's
    baseline, and no prefix of a session holds more than six calls of one tool or six outbound
    ones, because each tool has one group in a template and the group's maximum bounds it.
  - `AttacksShowAtTheirCall`: the log repeats the calls replayed so far, so each signal is a
    statement about the calls before it. For every label one lemma says which calls come from
    the template and what the worked-in one adds; for the frequency attack it is a count: the
    outbound calls of the session and those of the cycle before the attack are exactly
    `OutboundThreshold - 1`, however many the session had. The property is about the signal of the
    detector a class is made for, and about the two pairs of classes that are kept apart (an
    oversized reply may itself be the seventh outbound call, section 5); other
    detectors may speak earlier (most calls of a frequency attack are outside the baseline of the
    task). For an injection that signal is divergence, which is text: what remains of its ground
    truth is that no call of the session fails the schema check (`attack_suite/injection.py:9-10`).
* `OfflineProofs`. From `StatisticsAssumption` and `EvaluationAssumption`:
  - `PromotionNeverRegresses`: being at least as good is transitive over promotions, whichever
    classes each challenger measures.
  - `BinsLoseOnlyTheTop`, for any samples, number of bins and rounding error. All it uses of the
    edges is that they never fall and that the first is the minimum: bins are then disjoint, also
    where edges coincide, and together hold everything from the minimum to the last edge, which
    itself is within the error of the maximum.
  - `BaselinesAgree`, for any trajectories and answers: a trajectory diverges exactly when a call
    does, leaving out calls can only raise the least similarity, a call is flagged exactly when
    the trajectory is, and each probability, 1 included, has one reliability bin.
  Both sums are folds, defined by recursion. The first part of the module proves that the
  recursion has a solution and how the sum behaves, by an induction on the number of indices
  that needs no theorem with an operator as parameter: the set of the numbers that are wrong
  would have a least element (`WFMin`). `OfflineSafety` states all five properties of the run
  `offline` for their composition: a step of one program leaves the variables of the others
  alone, so each specification is implied (`ProgramsApart`).

Only model-checked: the liveness properties `OpenBreakerRecovers` (of both breakers),
`PolledRequestResolves`, `LostTripMadeUp` and `DriftChecked`, because fairness and ENABLED are out
of the prover's reach; and the three violated properties of section 5, which are false.
`MeetsContract` of the queue is false with several threads (`approval_finality`).

## 5. What the violated properties say

* `OnlyDocumentedExceptions`: `call` documents `CircuitOpenError` or `fn`'s exception. If another
  thread's trial succeeds between the two reads of `_opened_at`, `float - None` raises `TypeError`,
  nothing is run or counted, and `intercept_and_call` has no handler for it.
* `ResolutionIsFinal`: a poll that read the clock past the timeout stores EXPIRED over a decision
  recorded meanwhile. Both are counted, and the audit trail keeps the decider's role beside an
  outcome that is not theirs. `NoResurrection`, which holds, says that this is the only way.
* `SnapshotNeverInterrupted`: the docstring of `get_active_sessions_for_drift_check` promises a
  stable snapshot; it is built by iterating over the live dictionary, with a Redis read per
  session. A session stored by a pool thread during such a read makes the iteration raise at its
  next session or at its end, and nothing restarts the task (`attribution/drift_scheduler.py:88-94`).
  An exception of the store ends it in the same way.

Disagreements between text and code that were met while modelling and that no run states:

* `run_once` promises a check "if enough new calls have happened since the last check"
  (`attribution/drift_scheduler.py:57-58`, and `drift_trigger.py:23-24`); line 65 subtracts the count
  of the last check from the number of calls in the store. After the key has expired the store
  starts again from zero, and a session that was checked at n calls is not checked before it has
  n + `check_interval_calls` in the store, although it has logged `check_interval_calls` new ones long
  before. `ChecksSpaced`, which holds, says that the mistake is on that side only; `DriftChecked`
  calls a session due when the code does.
* `attack_suite/exfiltration.py:105-106` says that the frequency stays at 1 in a content session;
  after one read and the six replies of the longest inbox session the oversized reply is the
  seventh outbound call, and both signals show. `AttacksShowAtTheirCall` allows that one call.
* `drift/psi.py:67-71` and `:87-89` promise an edge bin for every current value out of range. The
  last edge is computed apart from the maximum that values are clipped to; when it is rounded below
  (a minimum of -0.9, a maximum of 0.1 and ten bins are enough), what is above the last edge and all
  that is clipped to the maximum are in no bin and their share is missing from the distribution.
  `BinsLoseOnlyTheTop` says that nothing else is lost.
* `interception/interceptor.py:314-316` says that in shadow mode the action always executes; the
  open-circuit path, line 285, does not look at `shadow_mode`. (The API never sets it.)
* The repository's `README.md:93` says that a read-only call fails open on guardrail failure; line
  269 consults the fail policy only for `CircuitOpenError`, so a call whose own scoring fails gets
  the detector's exception.
* `attack_suite/injection.py:9-11` says that only divergence has the structural signal to see an
  injected call; the injected tools are outside every task's baseline, so permission escalation
  reports each of them as well.
* `generalization_set/agentdojo_adapter/adapter.py:48-57` describes a successful attack as
  `security` being false; the code takes `security is True`.
* `evaluation/divergence_rescue_analysis.py` names a threshold of 0.3030 in its docstring; the
  constant is 0.3307. `evaluation/tiebreak_combination.py` promises the most confident suspicious
  verdict; lines 58-66 take the largest probability, verdicts of "normal" included.

## 6. Plan

Done: both breakers, the queue, the interceptor with its audit contract, the API with its store,
task representations and drift loop, the task simulator, the attack suite, the evaluation
programs and the promotion gate; a theorem for every safety property that holds. What could
follow:

1. An abstract session service (a session is opened, used and lost as a whole) that `Api`
   implements, and `AuditContract` over the store of `Api`, whose keys expire and whose queue a
   restart empties: it would have to say which records a reader may still expect.
2. The calibration manifest and the adaptive ladders, as operators over small inputs.

## 7. Not modelled

Embeddings, LLM prompts, regular expressions, redaction, explanations and the logarithms of the
stability index are text or floating-point computations; what they decide enters the models as
input. Authentication, HTTP parsing and settings are left out, and so are requests that are
refused or only read. `drift/version_trigger.py` compares two strings. The ladders of
`adversarial/` hand a fixed list of texts to a detector and tabulate its verdicts, and the poisoning
experiment takes percentiles of similarities: without text and embeddings nothing of them is
left to check. `generalization_set/mutated_attacks.py` builds single calls under a label of their own
(`mutated_injection`), with no session around them and no index to be right about. The calibration manifest is a list of constants compared with the live ones. `is_benign_retry` is computed and never used, and no code records TOOL_ERROR. An approved
request is not replayed by any code: approval only changes the request, so there is no step from
the queue back to a tool. The verdict of a drift check is stored and shown and changes no
decision.
