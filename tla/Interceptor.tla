---------------------------- MODULE Interceptor ----------------------------
(***************************************************************************)
(* interception/interceptor.py, intercept_and_call: the path of a proposed *)
(* tool call through the breaker, the detectors, the tier decision, the    *)
(* approval queue, the session log and the tool.  Several pool threads run *)
(* it at once for the same session (api/app.py, intercept).                *)
(*                                                                         *)
(* One step per access to something shared: the breaker, each read of the  *)
(* session store by a detector, each append, the queue, the tool.  What is *)
(* abstracted:                                                             *)
(*   - the breaker is its contract (BreakerContract, which CircuitBreaker  *)
(*     implements), time left out: an open breaker rejects a call or lets  *)
(*     it through half-open, either may happen;                            *)
(*   - schema, divergence and content findings do not depend on shared     *)
(*     state: which of the three flag a call is an input;                  *)
(*   - of scoring_detail the log keeps which detectors flagged the call,   *)
(*     and the approval request; metrics and texts are left out;           *)
(*   - a session is in use, so its key does not expire.                    *)
(***************************************************************************)
EXTENDS Policy, Detectors, Integers

CONSTANTS
  Threads,            \* pool threads
  Sessions,           \* session ids
  Params,             \* parameter dictionaries
  ShadowModes,        \* values shadow_mode is called with: the endpoint leaves it FALSE
  ExternalFindings,   \* which of schema, divergence, content may flag together
  Requests,           \* approval request ids
  FailureThreshold,   \* of the breaker
  NoRequest,          \* no approval request
  NoCall,             \* a thread without a call
  NoReply,            \* no call has ended in the last step
  MaxAttempts,        \* bound: attempts in one session's log, calls under way included
  MaxFailures         \* bound: scoring failures counted since the last success

\* The detectors of a ScoringBundle.
Findings == {"schema", "divergence", "escalation", "loop_rate", "exfiltration", "content"}

\* scoring_detail is None.
NoDetail == {"not_scored"}

ASSUME InterceptorAssumption ==
  /\ ShadowModes \subseteq BOOLEAN
  /\ ExternalFindings \subseteq SUBSET {"schema", "divergence", "content"}
  /\ FailureThreshold \in Nat \ {0}
  /\ MaxAttempts \in Nat
  /\ NoRequest \notin Requests
  /\ NoRequest \notin [session : Sessions, tool : Tools]
  /\ IsFiniteSet(Threads) /\ Threads # {}

VARIABLES
  log,        \* session_store: the attempts of each session, in order
  held,       \* approval_queue: the session and tool of each submitted request
  open,       \* the breaker is tripped
  failures,   \* its failure count
  pc,         \* where each thread stands in intercept_and_call
  call,       \* its arguments
  scoring,    \* what its detectors have found so far
  ticket,     \* the approval request it has submitted
  reply,      \* what intercept_and_call gave back, in the step that ends a call
  runs        \* history: executions per session, tool and authorisation

breakerVars == <<open, failures>>
sharedVars == <<log, held, breakerVars, runs>>
localVars == <<pc, call, scoring, ticket, reply>>
vars == <<sharedVars, localVars>>

Breaker == INSTANCE BreakerContract

PcValues == {"idle", "footprint", "loop_rate", "exfiltration", "content", "deciding",
             "holding", "executing", "bypassing", "bypassed"}

Outcomes == {"allowed", "blocked", "pending_approval"}

\* How an execution was authorised.
Grounds == {"clean", "flagged", "shadow", "bypassed"}

Endings == {"returned", "scoring_error", "store_error", "queue_error",
            "unregistered", "tool_error"}

Calls == [session : Sessions, tool : Tools, params : Params, shadow : BOOLEAN,
          since : Nat]    \* since: length of the log when the call began (history)

Attempts == [tool : Tools, params : Params, outcome : Outcomes,
             detail : (SUBSET Findings) \cup {NoDetail}, request : Requests \cup {NoRequest},
             since : Nat]

NoScoring == [findings |-> {}, tier |-> "allow"]

\* asked: shadow mode was requested; shadow: shadow_mode_active of the result.
Replies == [ending : Endings, tool : Tools, asked : BOOLEAN, tier : ResponseTiers,
            shadow : BOOLEAN, bypassed : BOOLEAN, toolResult : BOOLEAN]

Init ==
  /\ log = [s \in Sessions |-> <<>>]
  /\ held = [r \in Requests |-> NoRequest]
  /\ Breaker!ContractInit
  /\ pc = [t \in Threads |-> "idle"]
  /\ call = [t \in Threads |-> NoCall]
  /\ scoring = [t \in Threads |-> NoScoring]
  /\ ticket = [t \in Threads |-> NoRequest]
  /\ reply = NoReply
  /\ runs = [s \in Sessions |-> [x \in Tools |-> [g \in Grounds |-> 0]]]

-----------------------------------------------------------------------------
History(t) == log[call[t].session]

\* The call goes on.
GoTo(t, place) == pc' = [pc EXCEPT ![t] = place] /\ reply' = NoReply

\* The calls of a session that are under way: each may still append.
UnderWay(s) == {t \in Threads : pc[t] # "idle" /\ call[t].session = s}

\* intercept_and_call returns (a result) or raises (an ending only).
Leave(t, outcome) ==
  /\ pc' = [pc EXCEPT ![t] = "idle"]
  /\ call' = [call EXCEPT ![t] = NoCall]
  /\ scoring' = [scoring EXCEPT ![t] = NoScoring]
  /\ ticket' = [ticket EXCEPT ![t] = NoRequest]
  /\ reply' = outcome

Raise(t, ending) ==
  Leave(t, [ending |-> ending, tool |-> call[t].tool, asked |-> call[t].shadow,
            tier |-> "allow", shadow |-> FALSE, bypassed |-> FALSE, toolResult |-> FALSE])

\* InterceptionResult of a scored call, lines 349-362.
Return(t, ran) ==
  Leave(t, [ending |-> "returned", tool |-> call[t].tool, asked |-> call[t].shadow,
            tier |-> scoring[t].tier, shadow |-> call[t].shadow,
            bypassed |-> FALSE, toolResult |-> ran])

\* InterceptionResult of a bypassed call, lines 278-284 and 290-296:
\* shadow_mode_active keeps its default.
ReturnBypassed(t, tier, ran) ==
  Leave(t, [ending |-> "returned", tool |-> call[t].tool, asked |-> call[t].shadow,
            tier |-> tier, shadow |-> FALSE,
            bypassed |-> TRUE, toolResult |-> ran])

\* InterceptionResult.allowed, which the endpoint returns to the agent.
AllowedIgnoringShadow(res) == res.tier \in {"allow", "flag"}
Allowed(res) == res.shadow \/ res.tier \in {"allow", "flag"}

MayDecide(t) == pc[t] = "deciding" /\ call[t].tool \in Registered

Proceeds(t) == call[t].shadow \/ scoring[t].tier \in {"allow", "flag"}

\* The outcome a call is about to be logged with.
Verdict(t) ==
  CASE pc[t] = "holding" -> "pending_approval"
    [] pc[t] = "bypassing" ->
         IF FailPolicy(call[t].tool) = "fail_open" THEN "allowed" ELSE "blocked"
    [] OTHER -> IF Proceeds(t) THEN "allowed" ELSE "blocked"

\* The attempt; its scoring_detail holds the request of a held call.
Attempt(t) ==
  [tool |-> call[t].tool, params |-> call[t].params, outcome |-> Verdict(t),
   detail |-> IF pc[t] = "bypassing" THEN NoDetail ELSE scoring[t].findings,
   request |-> ticket[t], since |-> call[t].since]

\* session_store.append_attempt.
AppendAttempt(t, attempt) ==
  log' = [log EXCEPT ![call[t].session] = Append(@, attempt)]

-----------------------------------------------------------------------------
\* The endpoint calls intercept_and_call; the breaker's state lets it score,
\* or rejects it with CircuitOpenError (lines 253-269).
Begin(t, place) ==
  /\ pc[t] = "idle"
  /\ \E s \in Sessions, x \in Tools, p \in Params, shadow \in ShadowModes :
       /\ Len(log[s]) + Cardinality(UnderWay(s)) < MaxAttempts
       /\ call' = [call EXCEPT ![t] = [session |-> s, tool |-> x, params |-> p,
                                       shadow |-> shadow, since |-> Len(log[s])]]
  /\ GoTo(t, place)
  /\ UNCHANGED <<sharedVars, scoring, ticket>>

StartScoring(t) == Begin(t, "footprint")

Reject(t) == open /\ Begin(t, "bypassing")

\* A detector's finding is added to the bundle.
Score(t, here, next, flagged, finding) ==
  /\ pc[t] = here
  /\ scoring' = IF flagged
                THEN [scoring EXCEPT ![t].findings = @ \cup {finding}]
                ELSE scoring
  /\ GoTo(t, next)
  /\ UNCHANGED <<sharedVars, call, ticket>>

\* _run_scoring, lines 202-205: the prior footprint is read.
ScoreEscalation(t) ==
  Score(t, "footprint", "loop_rate", IsEscalated(History(t), call[t].tool), "escalation")

\* Lines 206-208: the attempts are read again.
ScoreLoopRate(t) ==
  Score(t, "loop_rate", "exfiltration",
        LoopRateFlags(History(t), call[t].tool, call[t].params), "loop_rate")

\* Lines 209-211: and once more, for an outbound tool.
ScoreExfiltration(t) ==
  Score(t, "exfiltration", "content",
        ExfiltrationFlags(History(t), call[t].tool, call[t].params), "exfiltration")

\* Lines 190-201 and 212-222 (the findings that read nothing shared), the
\* breaker's success, and the tier decision of lines 298-305.
FinishScoring(t) ==
  /\ pc[t] = "content"
  /\ \E external \in ExternalFindings :
       LET findings == scoring[t].findings \cup external
       IN scoring' = [scoring EXCEPT ![t] =
            [findings |-> findings,
             tier |-> IF call[t].tool \in Registered
                      THEN DecideResponseTier(Cardinality(findings), TierOf[call[t].tool])
                      ELSE "allow"]]
  /\ Breaker!RecordSuccess
  /\ GoTo(t, "deciding")
  /\ UNCHANGED <<log, held, runs, call, ticket>>

\* A detector or the session store raises inside the breaker: the breaker
\* counts it and re-raises, and no handler of intercept_and_call catches it.
ScoringFails(t) ==
  /\ pc[t] \in {"footprint", "loop_rate", "exfiltration", "content"}
  /\ failures < MaxFailures
  /\ Breaker!RecordFailure
  /\ Raise(t, "scoring_error")
  /\ UNCHANGED <<log, held, runs>>

\* Line 301: the tool was never registered; nothing is logged.
RaiseUnregistered(t) ==
  /\ pc[t] = "deciding"
  /\ call[t].tool \notin Registered
  /\ Raise(t, "unregistered")
  /\ UNCHANGED sharedVars

\* Lines 310-320 and 342-346: logged as ALLOWED before the tool runs.
LogAllowedBlind(t) ==
  /\ MayDecide(t) /\ Proceeds(t)
  /\ GoTo(t, "executing")
  /\ UNCHANGED <<sharedVars, call, scoring, ticket>>

LogAllowed(t) ==
  /\ MayDecide(t) /\ Proceeds(t)
  /\ AppendAttempt(t, Attempt(t))
  /\ GoTo(t, "executing")
  /\ UNCHANGED <<held, breakerVars, runs, call, scoring, ticket>>

\* Lines 322-326.
LogBlocked(t) ==
  /\ MayDecide(t) /\ ~Proceeds(t)
  /\ scoring[t].tier = "block"
  /\ AppendAttempt(t, Attempt(t))
  /\ Return(t, FALSE)
  /\ UNCHANGED <<held, breakerVars, runs>>

\* Lines 327-329: the call is queued first.
SubmitHeld(t) ==
  /\ MayDecide(t) /\ ~Proceeds(t)
  /\ scoring[t].tier = "require_approval"
  /\ \E r \in Requests :
       /\ held[r] = NoRequest
       /\ held' = [held EXCEPT ![r] = [session |-> call[t].session, tool |-> call[t].tool]]
       /\ \/ /\ ticket' = [ticket EXCEPT ![t] = r]
             /\ GoTo(t, "holding")
             /\ UNCHANGED <<call, scoring>>
          \/ Raise(t, "queue_error")   \* the recount is interrupted (ApprovalQueue)
  /\ UNCHANGED <<log, breakerVars, runs>>

\* Lines 330-341: and then logged, with the request's id.
LogHeldUnlinked(t) ==
  /\ pc[t] = "holding"
  /\ AppendAttempt(t, [Attempt(t) EXCEPT !.request = NoRequest])
  /\ Return(t, FALSE)
  /\ UNCHANGED <<held, breakerVars, runs>>

LogHeld(t) ==
  /\ pc[t] = "holding"
  /\ AppendAttempt(t, Attempt(t))
  /\ Return(t, FALSE)
  /\ UNCHANGED <<held, breakerVars, runs>>

\* Lines 269-275: the breaker is open, the tool's tier fails open.
BypassOpen(t) ==
  /\ pc[t] = "bypassing"
  /\ FailPolicy(call[t].tool) = "fail_open"
  /\ AppendAttempt(t, Attempt(t))
  /\ GoTo(t, "bypassed")
  /\ UNCHANGED <<held, breakerVars, runs, call, scoring, ticket>>

\* Lines 285-296: the tier fails closed; shadow mode is not consulted.
BypassClosed(t) ==
  /\ pc[t] = "bypassing"
  /\ FailPolicy(call[t].tool) = "fail_closed"
  /\ AppendAttempt(t, Attempt(t))
  /\ ReturnBypassed(t, "block", FALSE)
  /\ UNCHANGED <<held, breakerVars, runs>>

\* The session store raises in an append, outside the breaker; the Redis
\* store may do so after the attempt has been pushed (rpush, then expire).
AppendFails(t) ==
  /\ \/ pc[t] \in {"holding", "bypassing"}
     \/ MayDecide(t) /\ (Proceeds(t) \/ scoring[t].tier = "block")
  /\ UNCHANGED log \/ AppendAttempt(t, Attempt(t))
  /\ Raise(t, "store_error")
  /\ UNCHANGED <<held, breakerVars, runs>>

Ground(t) ==
  CASE pc[t] = "bypassed" -> "bypassed"
    [] pc[t] = "executing" /\ scoring[t].findings = {} -> "clean"
    [] OTHER -> IF call[t].shadow THEN "shadow" ELSE "flagged"

\* tool_registry.call, lines 276, 321 and 347.
Execute(t) ==
  /\ pc[t] \in {"executing", "bypassed"}
  /\ runs' = [runs EXCEPT ![call[t].session][call[t].tool][Ground(t)] = @ + 1]
  /\ \/ pc[t] = "bypassed" /\ ReturnBypassed(t, "allow", TRUE)
     \/ pc[t] = "executing" /\ Return(t, TRUE)
     \/ Raise(t, "tool_error")     \* the attempt stays ALLOWED in the log
  /\ UNCHANGED <<log, held, breakerVars>>

Step(t) ==
  \/ ScoreEscalation(t) \/ ScoreLoopRate(t) \/ ScoreExfiltration(t)
  \/ FinishScoring(t) \/ ScoringFails(t)
  \/ RaiseUnregistered(t) \/ LogAllowed(t) \/ LogBlocked(t)
  \/ SubmitHeld(t) \/ LogHeld(t)
  \/ BypassOpen(t) \/ BypassClosed(t)
  \/ AppendFails(t) \/ Execute(t)

Next == \E t \in Threads : StartScoring(t) \/ Reject(t) \/ Step(t)

Spec == Init /\ [][Next]_vars
-----------------------------------------------------------------------------
(***************************************************************************)
(* Properties.                                                             *)
(***************************************************************************)

\* Every field has a value the code can give it; in particular every scored
\* call gets one of the four response tiers (decide_response_tier is total).
TypeOK ==
  /\ log \in [Sessions -> Seq(Attempts)]
  /\ held \in [Requests -> [session : Sessions, tool : Tools] \cup {NoRequest}]
  /\ open \in BOOLEAN /\ failures \in Nat
  /\ pc \in [Threads -> PcValues]
  /\ call \in [Threads -> Calls \cup {NoCall}]
  /\ scoring \in [Threads -> [findings : SUBSET Findings, tier : ResponseTiers]]
  /\ ticket \in [Threads -> Requests \cup {NoRequest}]
  /\ reply \in Replies \cup {NoReply}
  /\ runs \in [Sessions -> [Tools -> [Grounds -> Nat]]]

MayOnlyRunClean(tool) == tool \notin Registered \/ TierOf[tool] \in Irreversible

\* An irreversible tool, or one without a tier, runs only after a scoring that
\* found nothing, or in shadow mode: neither a flag nor an open circuit, nor
\* any overlap with the other threads' calls, lets it through (the tier table,
\* the fail policies and the two execution paths of intercept_and_call).
IrreversibleRunsOnlyClean ==
  \A s \in Sessions, x \in Tools :
    MayOnlyRunClean(x) => runs[s][x]["flagged"] = 0 /\ runs[s][x]["bypassed"] = 0

Executions(s, x) ==
  runs[s][x]["clean"] + runs[s][x]["flagged"] + runs[s][x]["shadow"] + runs[s][x]["bypassed"]

Executing(s, x) ==
  {t \in Threads : pc[t] \in {"executing", "bypassed"} /\ call[t].session = s /\ call[t].tool = x}

AllowedAttempts(s, x) ==
  {i \in DOMAIN log[s] : log[s][i].tool = x /\ log[s][i].outcome = "allowed"}

\* The audit log accounts for every execution that has happened or is under
\* way: append_attempt(ALLOWED) precedes tool_registry.call on all three paths,
\* whatever fails afterwards.
NothingRunsUnlogged ==
  \A s \in Sessions, x \in Tools :
    Executions(s, x) + Cardinality(Executing(s, x)) <= Cardinality(AllowedAttempts(s, x))

\* A held call can be found again in the approval queue from the log, as the
\* investigation report does: each PENDING_APPROVAL attempt names a request
\* submitted for the same session and tool, and no two name the same one.
HeldCallsLinked ==
  \A s \in Sessions : \A i \in DOMAIN log[s] :
    log[s][i].outcome = "pending_approval" =>
      /\ log[s][i].request \in Requests
      /\ held[log[s][i].request] = [session |-> s, tool |-> log[s][i].tool]
      /\ \A r \in Sessions : \A j \in DOMAIN log[r] :
           log[r][j].request = log[s][i].request => r = s /\ i = j

\* Positions of a session's log, and those a call had before it when it began.
Scored(s) == {i \in DOMAIN log[s] : log[s][i].detail # NoDetail}
Before(s, i) == 1..log[s][i].since

\* Escalation is sticky: once a session has proposed a tool outside its
\* baseline, whether that call ran, was blocked, held or bypassed, every call
\* that begins later and is scored is an escalation (get_tool_footprint keeps every
\* attempt).
EscalationSticky ==
  \A s \in Sessions : \A i \in Scored(s) :
    (\E j \in Before(s, i) : log[s][j].tool \notin Baseline)
      => "escalation" \in log[s][i].detail

\* A call whose tool was last blocked with other parameters is flagged, however
\* many calls of other tools lie between and whichever threads made them
\* (check_tool_loop_rate looks at prior_same_tool, not at the last attempt).
\* The same tool must not be in the hands of another thread meanwhile.
EvasionRetryFlagged ==
  \A s \in Sessions : \A i \in Scored(s) : \A j \in Before(s, i) :
    /\ log[s][j].tool = log[s][i].tool
    /\ log[s][j].outcome = "blocked"
    /\ log[s][j].params # log[s][i].params
    /\ \A k \in (j + 1)..(i - 1) : log[s][k].tool # log[s][i].tool
    => "loop_rate" \in log[s][i].detail

\* A call that begins when RateThreshold - 1 attempts of its tool are in the log,
\* whatever their outcomes and whatever lies between them, is flagged
\* (check_tool_loop_rate counts the current call too).
RepeatsFlagged ==
  \A s \in Sessions : \A i \in Scored(s) :
    Cardinality({j \in Before(s, i) : log[s][j].tool = log[s][i].tool}) >= RateThreshold - 1
      => "loop_rate" \in log[s][i].detail

\* The detectors read the log without a lock, so calls in flight at the same
\* time miss one another; the damage is bounded: over all the outbound tools of
\* a session, at most one clean call per other thread beyond the
\* OutboundThreshold - 1 that a single thread gets through (check_exfiltration).
OutboundOvershootBounded ==
  \A s \in Sessions :
    Cardinality({i \in DOMAIN log[s] : log[s][i].detail = {} /\ log[s][i].tool \in Outbound})
      <= (OutboundThreshold - 1) + (Cardinality(Threads) - 1)

\* What the agent is told is what happened: "allowed" exactly when the tool ran
\* in this call, in shadow mode and under an open circuit too.
AllowedTellsTheTruth ==
  reply # NoReply /\ reply.ending = "returned" => (Allowed(reply) <=> reply.toolResult)

\* What of an attempt the audit trail is about.
Entry(attempt) ==
  [tool |-> attempt.tool, outcome |-> attempt.outcome, request |-> attempt.request]

Trail(history) == [i \in DOMAIN history |-> Entry(history[i])]

Audit == INSTANCE AuditContract
           WITH trail <- [s \in Sessions |-> Trail(log[s])],
                ran <- [s \in Sessions |-> [x \in Tools |-> Executions(s, x)]]

\* Interleaved with other threads, their failures and lost appends, every call
\* is a sequence of steps of the audit contract (append_attempt before
\* tool_registry.call, submit before the append that names the request).
MeetsContract == Audit!ContractSpec
==============================================================================
