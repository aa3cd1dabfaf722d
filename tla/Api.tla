---------------------------------- MODULE Api ----------------------------------
(***************************************************************************)
(* api/app.py and api/state.py: the process that serves sessions.  It      *)
(* composes the Redis session store (SessionStore), the task               *)
(* representations (TaskRepresentation), the background drift loop         *)
(* (DriftScheduler) and the approval queue, taken as its contract          *)
(* (ApprovalContract).                                                     *)
(*                                                                         *)
(* The endpoints are synchronous: a request is accepted when the event     *)
(* loop is free and then runs in a pool thread.  Redis outlives the        *)
(* process; the queue, the representations and the scheduler do not.       *)
(*                                                                         *)
(* Of an intercepted call only its logging is kept (Interceptor has the    *)
(* rest): what was decided about it is an input, Decisions.  Requests that *)
(* are refused (404, 409, 422) and those that only read (drift-status,     *)
(* check-drift, the report) change nothing and are not steps; what a       *)
(* report finds is the operator Report.  Authentication is left out.       *)
(***************************************************************************)
EXTENDS SessionStore, TaskRepresentation, DriftScheduler, FiniteSets

CONSTANTS
  Threads,       \* pool threads
  Requests,      \* approval request ids
  LoopStarted,   \* the lifespan handler has run; under the API tests it has not
  Decisions,     \* what intercept_and_call may log: an outcome and whether a
                 \* detector flagged the call
  NoRequest,     \* no approval request
  NoJob,         \* a thread without a request
  MaxAttempts,   \* bound: attempts in the store, calls under way included
  MaxTurns,      \* bound: user turns
  MaxRestarts    \* bound: restarts of the process

Attempts == [outcome : {"allowed", "blocked", "pending_approval"}, flagged : BOOLEAN,
             request : Requests \cup {NoRequest}]

ASSUME ApiAssumption ==
  /\ \A d \in Decisions : [outcome |-> d.outcome, flagged |-> d.flagged, request |-> NoRequest] \in Attempts
  /\ NoRequest \notin Requests /\ LoopStarted \in BOOLEAN
  /\ MaxAttempts \in Nat /\ MaxTurns \in Nat /\ MaxRestarts \in Nat

VARIABLES
  tracked,    \* _task_representations: its keys, in insertion order
  typed,      \* _task_types: its keys
  outcome,    \* approval_queue: the state of each request
  pc,         \* what each pool thread is doing
  job,        \* for which session, and its locals
  used,       \* history: session ids drawn so far (uuid4 never repeats)
  issued,     \* history: ids this process has handed out
  orphans,    \* history: sessions with an append cut short after its RPUSH
  turns,      \* user turns so far
  restarts    \* restarts so far

sessionVars == <<tracked, typed, used, issued>>
threadVars == <<pc, job>>
vars == <<storeVars, taskVars, driftVars, sessionVars, outcome, threadVars, orphans,
          turns, restarts>>

Queue == INSTANCE ApprovalContract

PcValues == {"idle", "starting", "half_started", "judging", "moved", "logging", "pushed"}

Tracked == {tracked[i] : i \in DOMAIN tracked}

\* Calls that are still to be logged, and attempts in the store (bounded).
UnderWay == {t \in Threads : pc[t] = "logging"}
AttemptsKept == UNION {{s} \X DOMAIN log[s] : s \in Sessions}

Init ==
  /\ StoreInit /\ TaskInit /\ DriftInit /\ Queue!ContractInit
  /\ tracked = <<>> /\ typed = {}
  /\ used = {} /\ issued = {}
  /\ pc = [t \in Threads |-> "idle"]
  /\ job = [t \in Threads |-> NoJob]
  /\ orphans = {} /\ turns = 0 /\ restarts = 0

-----------------------------------------------------------------------------
GoTo(t, place, locals) ==
  /\ pc' = [pc EXCEPT ![t] = place]
  /\ job' = [job EXCEPT ![t] = locals]

Leave(t) == GoTo(t, "idle", NoJob)

CanAccept(t) == pc[t] = "idle" /\ EventLoopFree

\* get_task_representation and get_task_type: 404 without either.
Served(s) == s \in Tracked /\ s \in typed

\* POST /sessions draws an id.
StartSession(t) ==
  /\ CanAccept(t)
  /\ \E s \in Sessions \ used :
       /\ used' = used \cup {s}
       /\ GoTo(t, "starting", [session |-> s])
  /\ UNCHANGED <<storeVars, taskVars, driftVars, tracked, typed, issued, outcome,
                 orphans, turns, restarts>>

\* start_session, state.py:131-134.
StoreRepresentation(t) ==
  /\ pc[t] = "starting"
  /\ tracked' = Append(tracked, job[t].session)
  /\ StartTask(job[t].session)
  /\ GoTo(t, "half_started", job[t])
  /\ UNCHANGED <<storeVars, driftVars, typed, used, issued, outcome, orphans, turns, restarts>>

\* state.py:135, and the response with the id.
StoreType(t) ==
  /\ pc[t] = "half_started"
  /\ typed' = typed \cup {job[t].session}
  /\ issued' = issued \cup {job[t].session}
  /\ Leave(t)
  /\ UNCHANGED <<storeVars, taskVars, driftVars, tracked, used, outcome, orphans,
                 turns, restarts>>

\* POST turn: the anchor is read and handed to the classifier.
BeginTurn(t) ==
  /\ CanAccept(t)
  /\ turns < MaxTurns
  /\ turns' = turns + 1
  /\ \E s \in Tracked, text \in Texts :
       GoTo(t, "judging", [session |-> s, text |-> text, anchor |-> anchor[s]])
  /\ UNCHANGED <<storeVars, taskVars, driftVars, sessionVars, outcome, orphans, restarts>>

\* The text is embedded.
EmbedTurn(t) ==
  /\ pc[t] = "judging"
  /\ MoveVector(job[t].session, job[t].text)
  /\ GoTo(t, "moved", job[t])
  /\ UNCHANGED <<storeVars, driftVars, sessionVars, outcome, orphans, turns, restarts>>

\* The verdict on the anchor read at the beginning takes effect.
FinishTurn(t) ==
  /\ pc[t] = "moved"
  /\ Advance(job[t].session, job[t].text, IsNewSubtask(job[t].anchor, job[t].text))
  /\ Leave(t)
  /\ UNCHANGED <<storeVars, driftVars, sessionVars, outcome, orphans, turns, restarts>>

\* POST intercept: the call is decided; a held one is submitted to the queue.
Intercept(t) ==
  /\ CanAccept(t)
  /\ Cardinality(AttemptsKept) + Cardinality(UnderWay) < MaxAttempts
  /\ \E s \in Tracked, d \in Decisions :
       /\ Served(s)
       /\ \/ /\ d.outcome # "pending_approval"
             /\ GoTo(t, "logging", [session |-> s, attempt |->
                  [outcome |-> d.outcome, flagged |-> d.flagged, request |-> NoRequest]])
             /\ UNCHANGED outcome
          \/ /\ d.outcome = "pending_approval"
             /\ \E r \in Requests :
                  /\ Queue!Queue(r)
                  /\ GoTo(t, "logging", [session |-> s, attempt |->
                       [outcome |-> d.outcome, flagged |-> d.flagged, request |-> r]])
  /\ UNCHANGED <<storeVars, taskVars, driftVars, sessionVars, orphans, turns, restarts>>

\* append_attempt: RPUSH, then EXPIRE.
PushAttempt(t) ==
  /\ pc[t] = "logging"
  /\ Push(job[t].session, job[t].attempt) /\ NoteCall(job[t].session)
  /\ GoTo(t, "pushed", [session |-> job[t].session])
  /\ UNCHANGED <<taskVars, loopVars, sessionVars, outcome, orphans, turns, restarts>>

RefreshKey(t) ==
  /\ pc[t] = "pushed"
  /\ Refresh(job[t].session)
  /\ orphans' = orphans \ {job[t].session}
  /\ Leave(t)
  /\ UNCHANGED <<taskVars, driftVars, sessionVars, outcome, turns, restarts>>

\* Redis raises in one of the two, or the reply is lost after RPUSH.
AppendFails(t) ==
  /\ \/ pc[t] = "logging" /\ UNCHANGED <<storeVars, unread, orphans>>
     \/ /\ pc[t] = "logging"
        /\ Push(job[t].session, job[t].attempt) /\ NoteCall(job[t].session)
        /\ orphans' = orphans \cup {job[t].session}
     \/ /\ pc[t] = "pushed"
        /\ orphans' = orphans \cup {job[t].session}
        /\ UNCHANGED <<storeVars, unread>>
  /\ Leave(t)
  /\ UNCHANGED <<taskVars, loopVars, sessionVars, outcome, turns, restarts>>

\* An approver's decision, or the expiry that a poll or a report notices.
ResolveRequest ==
  /\ \E r \in Requests : Queue!Resolve(r)
  /\ UNCHANGED <<storeVars, taskVars, driftVars, sessionVars, threadVars, orphans,
                 turns, restarts>>

Expire ==
  /\ \E s \in Sessions : KeyExpires(s)
  /\ UNCHANGED <<taskVars, driftVars, sessionVars, outcome, threadVars, orphans,
                 turns, restarts>>

\* The background task.
Drift ==
  /\ LoopStarted
  /\ \/ BeginPass(tracked) \/ ScanInterrupted(tracked) \/ ScanSession(tracked, log)
     \/ ScanFails(tracked) \/ EndScan(tracked) \/ RunOnce \/ EndPass
  /\ UNCHANGED <<storeVars, taskVars, sessionVars, outcome, threadVars, orphans, turns, restarts>>

\* The process is stopped or killed and started again: AppState.__init__ and
\* the lifespan handler begin anew, the requests under way are lost.
LoseQueue == outcome' = [r \in Requests |-> "absent"]

RestartKeepingSessions ==
  /\ restarts < MaxRestarts
  /\ restarts' = restarts + 1
  /\ LoseScheduler /\ LoseQueue
  /\ pc' = [t \in Threads |-> "idle"]
  /\ job' = [t \in Threads |-> NoJob]
  /\ orphans' = orphans \cup {job[t].session : t \in {u \in Threads : pc[u] = "pushed"}}
  /\ UNCHANGED <<storeVars, taskVars, sessionVars, turns>>

Restart ==
  /\ restarts < MaxRestarts
  /\ restarts' = restarts + 1
  /\ LoseTasks /\ LoseScheduler /\ LoseQueue
  /\ tracked' = <<>> /\ typed' = {} /\ issued' = {}
  /\ pc' = [t \in Threads |-> "idle"]
  /\ job' = [t \in Threads |-> NoJob]
  /\ orphans' = orphans \cup {job[t].session : t \in {u \in Threads : pc[u] = "pushed"}}
  /\ UNCHANGED <<storeVars, used, turns>>

Handle(t) ==
  \/ StoreRepresentation(t) \/ StoreType(t) \/ EmbedTurn(t) \/ FinishTurn(t)
  \/ PushAttempt(t) \/ RefreshKey(t)

Next ==
  \/ \E t \in Threads :
       StartSession(t) \/ BeginTurn(t) \/ Intercept(t) \/ Handle(t) \/ AppendFails(t)
  \/ ResolveRequest \/ Expire \/ Drift \/ Restart

Spec == Init /\ [][Next]_vars

\* The background task gets its turns as long as it lives.
FairSpec == Spec /\ WF_vars(Drift)
-----------------------------------------------------------------------------
\* generate_investigation_report: what the queue still knows of a held call.
ApprovalOutcome(attempt) ==
  IF attempt.outcome = "pending_approval" /\ attempt.request # NoRequest
     /\ outcome[attempt.request] # "absent"
  THEN outcome[attempt.request] ELSE "none"

With(s, o) == {i \in DOMAIN log[s] : log[s][i].outcome = o}

Report(s) ==
  [total |-> Len(log[s]),
   flagged |-> Cardinality({i \in DOMAIN log[s] : log[s][i].flagged}),
   breakdown |-> [o \in {"allowed", "blocked", "pending_approval"} |-> Cardinality(With(s, o))],
   approvals |-> [i \in DOMAIN log[s] |-> ApprovalOutcome(log[s][i])]]

-----------------------------------------------------------------------------
\* Types; and the scheduler's two dictionaries agree whatever happens between
\* two passes.
TypeOK ==
  /\ log \in [Sessions -> Seq(Attempts)] /\ volatile \in [Sessions -> BOOLEAN]
  /\ anchor \in [Sessions -> Texts] /\ vector \in [Sessions -> Texts]
  /\ index \in [Sessions -> Nat]
  /\ loop \in LoopStates /\ size \in Nat
  /\ snapshot \in Seq(Entries)
  /\ lastChecked \in [Sessions -> Nat]
  /\ standing \in [Sessions -> Nat \cup {NoDecision}]
  /\ unread \in [Sessions -> 0..CheckInterval]
  /\ \A s \in Sessions :
       lastChecked[s] = IF standing[s] = NoDecision THEN 0 ELSE standing[s]
  /\ tracked \in Seq(Sessions) /\ typed \subseteq Sessions
  /\ used \subseteq Sessions /\ issued \subseteq Sessions /\ orphans \subseteq Sessions
  /\ outcome \in [Requests -> {"absent", "pending", "approved", "denied", "expired"}]
  /\ pc \in [Threads -> PcValues]
  /\ turns \in Nat /\ restarts \in Nat

\* A client that was given a session id can use it until the process ends: no
\* endpoint refuses it for a missing task type (the representation is stored
\* first), and a report resolves each of its held calls.  The queue and the
\* sessions are lost together in a restart, so the log in Redis never shows a
\* reachable session a request that nobody knows.
IssuedSessionsServed ==
  \A s \in issued :
    /\ Served(s)
    /\ \A i \in With(s, "pending_approval") : Report(s).approvals[i] # "none"

\* Attempts are not kept indefinitely (docstring of redis_store.py): a key is
\* without a TTL only while an append to it is between RPUSH and EXPIRE, or
\* after one was cut short there, and any later append repairs it.
RetentionBounded ==
  \A s \in Sessions :
    Stored(s) /\ ~volatile[s] =>
      s \in orphans \/ \E t \in Threads : pc[t] = "pushed" /\ job[t].session = s

\* The drift detector is consulted only when CheckInterval calls of the session
\* have been logged since the last check, or the first read, whatever expired,
\* was logged between a read and its check, or was cut short in between
\* (drift_trigger.py:23).
ChecksSpaced ==
  [][\A s \in Sessions :
       standing'[s] \notin {NoDecision, standing[s]} =>
         snapshot # <<>> /\ Head(snapshot).session = s /\ Head(snapshot).unread >= CheckInterval]_vars

\* A turn opens a sub-task only with a text that is no refinement of the task
\* it replaces, unless another turn has replaced the task it was judged
\* against; and nothing else moves the anchor (docstring of
\* update_from_user_turn: refinements must not).
SubTasksOpenOnNewTasks ==
  [][\A s \in Sessions :
       s \in Tracked /\ restarts' = restarts /\ (anchor'[s] # anchor[s] \/ index'[s] # index[s]) =>
         /\ index'[s] = index[s] + 1
         /\ \/ <<anchor[s], anchor'[s]>> \notin Similar
            \/ \E t \in Threads : pc[t] = "moved" /\ job[t].session = s
                                    /\ job[t].anchor # anchor[s]]_vars

LoopEnded == loop \in {"store_failed", "dict_changed"}

\* A session with enough new calls gets a drift check, unless its key expires,
\* the process restarts or the background task has ended.
Due(s) == s \in Tracked /\ Len(log[s]) - lastChecked[s] >= CheckInterval

DriftChecked == \A s \in Sessions : Due(s) ~> ~Due(s) \/ LoopEnded

\* state.py:159-161: the scheduler gets "a stable snapshot, not a live cursor
\* into a dict that could mutate mid-iteration".  The snapshot is built by
\* iterating over the live dictionary, with a Redis read per session.
SnapshotNeverInterrupted == loop # "dict_changed"
================================================================================
