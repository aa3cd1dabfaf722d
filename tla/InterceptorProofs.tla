------------------------- MODULE InterceptorProofs -------------------------
(***************************************************************************)
(* What holds of Interceptor for every set of threads, sessions and tools, *)
(* every threshold and every log.                                          *)
(***************************************************************************)
EXTENDS Interceptor, FiniteSetTheorems, TLAPS

-----------------------------------------------------------------------------
(***************************************************************************)
(* The two tables.                                                         *)
(***************************************************************************)

\* decide_response_tier returns one of the four response tiers.
LEMMA ResponseTierTotal ==
  ASSUME NEW n \in Nat, NEW tier \in RiskTiers
  PROVE  DecideResponseTier(n, tier) \in ResponseTiers
  BY DEF DecideResponseTier, RiskTiers, ResponseTiers, Irreversible

\* decide_response_tier lets an irreversible tool run only if nothing flagged it.
LEMMA IrreversibleNeedsNoFlag ==
  ASSUME NEW n \in Nat, NEW tier \in Irreversible,
         DecideResponseTier(n, tier) \in {"allow", "flag"}
  PROVE  n = 0
  BY DEF DecideResponseTier, Irreversible

\* flagged_detector_count is a number, zero exactly when no detector flags.
LEMMA FlagCount ==
  ASSUME NEW F \in SUBSET Findings
  PROVE  /\ Cardinality(F) \in Nat
         /\ Cardinality(F) = 0 <=> F = {}
<1>1. IsFiniteSet(Findings)
  <2>1. ASSUME NEW S, IsFiniteSet(S), NEW x PROVE IsFiniteSet(S \cup {x})
    BY <2>1, FS_AddElement
  <2>2. IsFiniteSet({"schema"})
    BY FS_Singleton
  <2>3. IsFiniteSet((((({"schema"} \cup {"divergence"}) \cup {"escalation"})
                      \cup {"loop_rate"}) \cup {"exfiltration"}) \cup {"content"})
    BY <2>1, <2>2, Zenon
  <2>4. Findings = (((({"schema"} \cup {"divergence"}) \cup {"escalation"})
                      \cup {"loop_rate"}) \cup {"exfiltration"}) \cup {"content"}
    BY DEF Findings
  <2> QED
    BY <2>3, <2>4, Zenon
<1>2. IsFiniteSet(F)
  BY <1>1, FS_Subset
<1> QED
  BY <1>2, FS_CardinalityType, FS_EmptySet

-----------------------------------------------------------------------------
(***************************************************************************)
(* The inductive invariant.                                                *)
(***************************************************************************)

\* A thread inside intercept_and_call has its arguments.
CallPresent(t) == pc[t] # "idle" => call[t] \in Calls

\* Past the decision, the response tier is that of the findings.
TierIsDecided(t) ==
  /\ pc[t] \in {"deciding", "executing"}
  /\ call[t].tool \in Registered
  => scoring[t].tier =
       DecideResponseTier(Cardinality(scoring[t].findings), TierOf[call[t].tool])

\* What a thread about to run a tool has passed.
ExecutionIsAuthorised(t) ==
  /\ pc[t] = "executing" => call[t].tool \in Registered /\ Proceeds(t)
  /\ pc[t] = "bypassed" => FailPolicy(call[t].tool) = "fail_open"

ThreadInv(t) == CallPresent(t) /\ TierIsDecided(t) /\ ExecutionIsAuthorised(t)

IInv == TypeOK /\ (\A t \in Threads : ThreadInv(t)) /\ IrreversibleRunsOnlyClean

LEMMA InitIInv == Init => IInv
<1> SUFFICES ASSUME Init PROVE IInv
  OBVIOUS
<1>1. TypeOK
  <2>1. log \in [Sessions -> Seq(Attempts)]
    BY DEF Init
  <2>2. held \in [Requests -> [session : Sessions, tool : Tools] \cup {NoRequest}]
    BY DEF Init
  <2>3. open \in BOOLEAN /\ failures \in Nat
    BY DEF Init, Breaker!ContractInit
  <2>4. pc \in [Threads -> PcValues] /\ call \in [Threads -> Calls \cup {NoCall}]
    BY DEF Init, PcValues
  <2>5. scoring \in [Threads -> [findings : SUBSET Findings, tier : ResponseTiers]]
    BY DEF Init, NoScoring, ResponseTiers
  <2>6. ticket \in [Threads -> Requests \cup {NoRequest}] /\ reply \in Replies \cup {NoReply}
    BY DEF Init
  <2>7. runs \in [Sessions -> [Tools -> [Grounds -> Nat]]]
    BY DEF Init
  <2> QED
    BY <2>1, <2>2, <2>3, <2>4, <2>5, <2>6, <2>7 DEF TypeOK
<1>2. \A t \in Threads : ThreadInv(t)
  BY DEF Init, ThreadInv, CallPresent, TierIsDecided, ExecutionIsAuthorised
<1>3. IrreversibleRunsOnlyClean
  BY DEF Init, IrreversibleRunsOnlyClean, Grounds
<1> QED
  BY <1>1, <1>2, <1>3 DEF IInv

\* The attempt a thread logs has the type of one.
LEMMA AttemptType ==
  ASSUME TypeOK, NEW t \in Threads, ThreadInv(t), pc[t] # "idle"
  PROVE  Attempt(t) \in Attempts
<1>1. call[t] \in Calls
  BY DEF ThreadInv, CallPresent
<1>2. /\ call[t].tool \in Tools /\ call[t].params \in Params /\ call[t].since \in Nat
  BY <1>1 DEF Calls
<1>3. Verdict(t) \in Outcomes
  BY DEF Verdict, Outcomes
<1>4. scoring[t].findings \in SUBSET Findings /\ ticket[t] \in Requests \cup {NoRequest}
  BY DEF TypeOK
<1> QED
  BY <1>2, <1>3, <1>4 DEF Attempt, Attempts

\* Appending an attempt keeps the type of the log.
LEMMA AppendType ==
  ASSUME TypeOK, NEW t \in Threads, call[t] \in Calls, NEW attempt \in Attempts,
         AppendAttempt(t, attempt)
  PROVE  log' \in [Sessions -> Seq(Attempts)]
<1>1. call[t].session \in Sessions
  BY DEF Calls
<1>2. Append(log[call[t].session], attempt) \in Seq(Attempts)
  BY <1>1 DEF TypeOK
<1> QED
  BY <1>1, <1>2 DEF TypeOK, AppendAttempt

\* A step that moves one thread on, or ends its call, keeps the types of the
\* thread's own variables.
LEMMA LeaveType ==
  ASSUME TypeOK, NEW t \in Threads, ThreadInv(t), pc[t] # "idle", NEW outcome \in Replies,
         Leave(t, outcome)
  PROVE  /\ pc' \in [Threads -> PcValues]
         /\ call' \in [Threads -> Calls \cup {NoCall}]
         /\ scoring' \in [Threads -> [findings : SUBSET Findings, tier : ResponseTiers]]
         /\ ticket' \in [Threads -> Requests \cup {NoRequest}]
         /\ reply' \in Replies \cup {NoReply}
  BY DEF TypeOK, Leave, PcValues, NoScoring, ResponseTiers

\* What a call gives back has the type of a reply, however it ends.
LEMMA RaiseType ==
  ASSUME TypeOK, NEW t \in Threads, ThreadInv(t), pc[t] # "idle", NEW ending \in Endings,
         Raise(t, ending)
  PROVE  \E outcome \in Replies : Leave(t, outcome)
  BY DEF ThreadInv, CallPresent, Calls, Raise, Replies, ResponseTiers

LEMMA ReturnType ==
  ASSUME TypeOK, NEW t \in Threads, ThreadInv(t), pc[t] # "idle", NEW ran \in BOOLEAN,
         \/ Return(t, ran)
         \/ \E tier \in ResponseTiers : ReturnBypassed(t, tier, ran)
  PROVE  \E outcome \in Replies : Leave(t, outcome)
<1>1. CASE Return(t, ran)
  BY <1>1 DEF ThreadInv, CallPresent, Calls, Return, Replies, Endings, TypeOK
<1>2. CASE \E tier \in ResponseTiers : ReturnBypassed(t, tier, ran)
  BY <1>2 DEF ThreadInv, CallPresent, Calls, ReturnBypassed, Replies, Endings
<1> QED
  BY <1>1, <1>2

\* A step of thread t that leaves the other threads' program counters, calls
\* and findings alone keeps what is known of them.
LEMMA OtherThreads ==
  ASSUME NEW t \in Threads, NEW u \in Threads, ThreadInv(u),
         pc'[u] = pc[u], call'[u] = call[u], scoring'[u] = scoring[u]
  PROVE  ThreadInv(u)'
  BY DEF ThreadInv, CallPresent, TierIsDecided, ExecutionIsAuthorised, Proceeds

\* A call that has ended leaves nothing to be known of its thread.
LEMMA LeaveThreads ==
  ASSUME TypeOK, \A u \in Threads : ThreadInv(u), NEW t \in Threads,
         NEW outcome, Leave(t, outcome)
  PROVE  (\A u \in Threads : ThreadInv(u))'
<1> SUFFICES ASSUME NEW u \in Threads PROVE ThreadInv(u)'
  OBVIOUS
<1>1. CASE u = t
  <2>1. pc'[u] = "idle"
    BY <1>1 DEF TypeOK, Leave
  <2> QED
    BY <2>1 DEF ThreadInv, CallPresent, TierIsDecided, ExecutionIsAuthorised
<1>2. CASE u # t
  <2>1. pc'[u] = pc[u] /\ call'[u] = call[u] /\ scoring'[u] = scoring[u]
    BY <1>2 DEF TypeOK, Leave
  <2> QED
    BY <2>1, OtherThreads
<1> QED
  BY <1>1, <1>2

\* The step that ends a call without running the tool.
LEMMA LeaveStep ==
  ASSUME IInv, NEW t \in Threads, pc[t] # "idle", NEW outcome \in Replies, Leave(t, outcome),
         held' \in [Requests -> [session : Sessions, tool : Tools] \cup {NoRequest}],
         open' \in BOOLEAN, failures' \in Nat, log' \in [Sessions -> Seq(Attempts)],
         runs' = runs
  PROVE  IInv'
<1>1. TypeOK'
  BY LeaveType DEF IInv, TypeOK
<1>2. (\A u \in Threads : ThreadInv(u))'
  BY LeaveThreads DEF IInv
<1>3. IrreversibleRunsOnlyClean'
  BY DEF IInv, IrreversibleRunsOnlyClean, MayOnlyRunClean
<1> QED
  BY <1>1, <1>2, <1>3 DEF IInv

\* The step that takes a call on: only thread t's own entries change.
LEMMA MoveStep ==
  ASSUME IInv, NEW t \in Threads, NEW place \in PcValues, GoTo(t, place),
         NEW c \in Calls, call' = [call EXCEPT ![t] = c],
         NEW sc \in [findings : SUBSET Findings, tier : ResponseTiers],
         scoring' = [scoring EXCEPT ![t] = sc],
         ticket' \in [Threads -> Requests \cup {NoRequest}],
         held' \in [Requests -> [session : Sessions, tool : Tools] \cup {NoRequest}],
         open' \in BOOLEAN, failures' \in Nat, log' \in [Sessions -> Seq(Attempts)],
         runs' = runs, ThreadInv(t)'
  PROVE  IInv'
<1>1. TypeOK'
  <2>1. pc' \in [Threads -> PcValues] /\ reply' \in Replies \cup {NoReply}
    BY DEF IInv, TypeOK, GoTo
  <2>2. call' \in [Threads -> Calls \cup {NoCall}]
    BY DEF IInv, TypeOK
  <2>3. scoring' \in [Threads -> [findings : SUBSET Findings, tier : ResponseTiers]]
    BY DEF IInv, TypeOK
  <2> QED
    BY <2>1, <2>2, <2>3 DEF IInv, TypeOK
<1>2. ASSUME NEW u \in Threads, u # t PROVE ThreadInv(u)'
  <2>1. pc'[u] = pc[u] /\ call'[u] = call[u] /\ scoring'[u] = scoring[u]
    BY <1>2 DEF IInv, TypeOK, GoTo
  <2> QED
    BY <2>1, OtherThreads DEF IInv
<1>3. (\A u \in Threads : ThreadInv(u))'
  BY <1>2
<1>4. IrreversibleRunsOnlyClean'
  BY DEF IInv, IrreversibleRunsOnlyClean, MayOnlyRunClean
<1> QED
  BY <1>1, <1>3, <1>4 DEF IInv

\* A call that begins, whatever the breaker decides.
LEMMA BeginStep ==
  ASSUME IInv, NEW t \in Threads, NEW place \in {"footprint", "bypassing"}, Begin(t, place)
  PROVE  IInv'
<1>1. PICK s \in Sessions, x \in Tools, p \in Params, shadow \in ShadowModes :
        call' = [call EXCEPT ![t] = [session |-> s, tool |-> x, params |-> p,
                                     shadow |-> shadow, since |-> Len(log[s])]]
  BY DEF Begin
<1> DEFINE c == [session |-> s, tool |-> x, params |-> p,
                 shadow |-> shadow, since |-> Len(log[s])]
<1>2. c \in Calls
  BY InterceptorAssumption DEF Calls, IInv, TypeOK
<1>3. scoring[t] \in [findings : SUBSET Findings, tier : ResponseTiers]
      /\ scoring' = [scoring EXCEPT ![t] = scoring[t]]
  BY DEF Begin, IInv, TypeOK
<1>4. pc'[t] = place /\ call'[t] = c
  BY <1>1 DEF Begin, GoTo, IInv, TypeOK
<1>5. ThreadInv(t)'
  BY <1>2, <1>4 DEF ThreadInv, CallPresent, TierIsDecided, ExecutionIsAuthorised
<1>6. place \in PcValues /\ GoTo(t, place)
  BY DEF Begin, PcValues
<1> QED
  BY <1>1, <1>2, <1>3, <1>5, <1>6, MoveStep DEF Begin, IInv, TypeOK, sharedVars, breakerVars

\* A detector that reads the session's history.
LEMMA ScoreStep ==
  ASSUME IInv, NEW t \in Threads, NEW flagged, NEW finding \in Findings,
         NEW here \in PcValues \ {"idle"},
         NEW next \in {"loop_rate", "exfiltration", "content"},
         Score(t, here, next, flagged, finding)
  PROVE  IInv'
<1> DEFINE sc == IF flagged
                 THEN [scoring[t] EXCEPT !.findings = @ \cup {finding}]
                 ELSE scoring[t]
<1>1. sc \in [findings : SUBSET Findings, tier : ResponseTiers]
  BY DEF IInv, TypeOK
<1>2. scoring' = [scoring EXCEPT ![t] = sc]
  BY DEF Score, IInv, TypeOK
<1>3. call[t] \in Calls /\ call' = [call EXCEPT ![t] = call[t]]
  BY DEF Score, IInv, TypeOK, ThreadInv, CallPresent
<1>4. next \in PcValues /\ GoTo(t, next)
  BY DEF Score, PcValues
<1>5. ThreadInv(t)'
  <2>1. pc'[t] = next /\ call'[t] = call[t]
    BY <1>3 DEF Score, GoTo, IInv, TypeOK
  <2> QED
    BY <1>3, <2>1 DEF ThreadInv, CallPresent, TierIsDecided, ExecutionIsAuthorised
<1> HIDE DEF sc
<1> QED
  BY <1>1, <1>2, <1>3, <1>4, <1>5, MoveStep DEF Score, IInv, TypeOK, sharedVars, breakerVars

\* The tier decision.
LEMMA FinishScoringStep ==
  ASSUME IInv, NEW t \in Threads, FinishScoring(t)
  PROVE  IInv'
<1> DEFINE findings(external) == scoring[t].findings \cup external
           sc(external) ==
             [findings |-> findings(external),
              tier |-> IF call[t].tool \in Registered
                       THEN DecideResponseTier(Cardinality(findings(external)),
                                               TierOf[call[t].tool])
                       ELSE "allow"]
<1>1. PICK external \in ExternalFindings : scoring' = [scoring EXCEPT ![t] = sc(external)]
  BY DEF FinishScoring
<1>2. findings(external) \in SUBSET Findings
  BY InterceptorAssumption DEF IInv, TypeOK, Findings
<1>3. sc(external) \in [findings : SUBSET Findings, tier : ResponseTiers]
  <2>1. CASE call[t].tool \in Registered
    <3>1. Cardinality(findings(external)) \in Nat
      BY <1>2, FlagCount
    <3>2. TierOf[call[t].tool] \in RiskTiers
      BY <2>1, PolicyAssumption
    <3>3. DecideResponseTier(Cardinality(findings(external)), TierOf[call[t].tool])
            \in ResponseTiers
      BY <3>1, <3>2, ResponseTierTotal
    <3> HIDE DEF findings
    <3> QED
      BY <1>2, <2>1, <3>3
  <2>2. CASE call[t].tool \notin Registered
    BY <1>2, <2>2 DEF ResponseTiers
  <2> QED
    BY <2>1, <2>2
<1>4. call[t] \in Calls /\ call' = [call EXCEPT ![t] = call[t]]
  BY DEF FinishScoring, IInv, TypeOK, ThreadInv, CallPresent
<1>5. open' \in BOOLEAN /\ failures' \in Nat
  BY DEF FinishScoring, Breaker!RecordSuccess
<1>6. ThreadInv(t)'
  <2>1. pc'[t] = "deciding" /\ call'[t] = call[t]
    BY <1>4 DEF FinishScoring, GoTo, IInv, TypeOK
  <2>2. scoring'[t] = sc(external)
    BY <1>1 DEF IInv, TypeOK
  <2>3. TierIsDecided(t)'
    BY <2>1, <2>2 DEF TierIsDecided
  <2> QED
    BY <1>4, <2>1, <2>3 DEF ThreadInv, CallPresent, ExecutionIsAuthorised
<1>7. "deciding" \in PcValues /\ GoTo(t, "deciding")
  BY DEF FinishScoring, PcValues
<1> HIDE DEF sc
<1> QED
  BY <1>1, <1>3, <1>4, <1>5, <1>6, <1>7, MoveStep
     DEF FinishScoring, IInv, TypeOK, sharedVars, breakerVars

\* What a thread logs is an attempt, so the log keeps its type.
LEMMA LoggingType ==
  ASSUME IInv, NEW t \in Threads, pc[t] # "idle",
         UNCHANGED log \/ AppendAttempt(t, Attempt(t))
  PROVE  log' \in [Sessions -> Seq(Attempts)]
<1>1. call[t] \in Calls
  BY DEF IInv, ThreadInv, CallPresent
<1>2. Attempt(t) \in Attempts
  BY AttemptType DEF IInv
<1> QED
  BY <1>1, <1>2, AppendType DEF IInv, TypeOK

\* The steps that end a call with an exception before or instead of the tool.
LEMMA RaiseStep ==
  ASSUME IInv, NEW t \in Threads,
         ScoringFails(t) \/ RaiseUnregistered(t) \/ AppendFails(t)
  PROVE  IInv'
<1>1. pc[t] # "idle"
  BY DEF ScoringFails, RaiseUnregistered, AppendFails, MayDecide
<1>2. \E ending \in Endings : Raise(t, ending)
  BY DEF ScoringFails, RaiseUnregistered, AppendFails, Endings
<1>3. PICK outcome \in Replies : Leave(t, outcome)
  BY <1>1, <1>2, RaiseType DEF IInv
<1>4. log' \in [Sessions -> Seq(Attempts)]
  <2>1. UNCHANGED log \/ AppendAttempt(t, Attempt(t))
    BY DEF ScoringFails, RaiseUnregistered, AppendFails, sharedVars
  <2> QED
    BY <1>1, <2>1, LoggingType
<1>5. /\ held' = held /\ runs' = runs
      /\ open' \in BOOLEAN /\ failures' \in Nat
  <2>1. CASE ScoringFails(t)
    <3>1. held' = held /\ runs' = runs /\ Breaker!RecordFailure
      BY <2>1 DEF ScoringFails
    <3> QED
      BY <3>1 DEF Breaker!RecordFailure, IInv, TypeOK
  <2>2. CASE RaiseUnregistered(t) \/ AppendFails(t)
    <3>1. held' = held /\ runs' = runs /\ open' = open /\ failures' = failures
      BY <2>2 DEF RaiseUnregistered, AppendFails, sharedVars, breakerVars
    <3> QED
      BY <3>1 DEF IInv, TypeOK
  <2> QED
    BY <2>1, <2>2
<1> QED
  BY <1>1, <1>3, <1>4, <1>5, LeaveStep DEF IInv, TypeOK

\* The steps that log a call and return without running the tool.
LEMMA RefusalStep ==
  ASSUME IInv, NEW t \in Threads, LogBlocked(t) \/ LogHeld(t) \/ BypassClosed(t)
  PROVE  IInv'
<1>1. pc[t] # "idle"
  BY DEF LogBlocked, LogHeld, BypassClosed, MayDecide
<1>2. Return(t, FALSE) \/ \E tier \in ResponseTiers : ReturnBypassed(t, tier, FALSE)
  BY DEF LogBlocked, LogHeld, BypassClosed, ResponseTiers
<1>3. PICK outcome \in Replies : Leave(t, outcome)
  BY <1>1, <1>2, ReturnType DEF IInv
<1>4. log' \in [Sessions -> Seq(Attempts)]
  BY <1>1, LoggingType DEF LogBlocked, LogHeld, BypassClosed
<1>5. held' = held /\ runs' = runs /\ open' = open /\ failures' = failures
  BY DEF LogBlocked, LogHeld, BypassClosed, breakerVars
<1> QED
  BY <1>1, <1>3, <1>4, <1>5, LeaveStep DEF IInv, TypeOK

\* Logged as ALLOWED: the tool comes next.
LEMMA LogAllowedStep ==
  ASSUME IInv, NEW t \in Threads, LogAllowed(t)
  PROVE  IInv'
<1>1. /\ pc[t] = "deciding" /\ call[t].tool \in Registered /\ Proceeds(t)
      /\ GoTo(t, "executing") /\ "executing" \in PcValues
  BY DEF LogAllowed, MayDecide, PcValues
<1>2. log' \in [Sessions -> Seq(Attempts)]
  BY <1>1, LoggingType DEF LogAllowed
<1>3. call[t] \in Calls /\ call' = [call EXCEPT ![t] = call[t]]
  BY <1>1 DEF LogAllowed, IInv, TypeOK, ThreadInv, CallPresent
<1>4. /\ scoring[t] \in [findings : SUBSET Findings, tier : ResponseTiers]
      /\ scoring' = [scoring EXCEPT ![t] = scoring[t]]
  BY DEF LogAllowed, IInv, TypeOK
<1>5. pc'[t] = "executing" /\ call'[t] = call[t] /\ scoring'[t] = scoring[t]
  BY <1>1 DEF LogAllowed, GoTo, IInv, TypeOK
<1>6. ThreadInv(t)'
  BY <1>1, <1>3, <1>5
     DEF IInv, ThreadInv, CallPresent, TierIsDecided, ExecutionIsAuthorised, Proceeds
<1> QED
  BY <1>1, <1>2, <1>3, <1>4, <1>6, MoveStep DEF LogAllowed, IInv, TypeOK, breakerVars

\* Logged as ALLOWED under an open circuit: the fail policy is open.
LEMMA BypassOpenStep ==
  ASSUME IInv, NEW t \in Threads, BypassOpen(t)
  PROVE  IInv'
<1>1. /\ pc[t] = "bypassing" /\ FailPolicy(call[t].tool) = "fail_open"
      /\ GoTo(t, "bypassed") /\ "bypassed" \in PcValues
  BY DEF BypassOpen, PcValues
<1>2. log' \in [Sessions -> Seq(Attempts)]
  BY <1>1, LoggingType DEF BypassOpen
<1>3. call[t] \in Calls /\ call' = [call EXCEPT ![t] = call[t]]
  BY <1>1 DEF BypassOpen, IInv, TypeOK, ThreadInv, CallPresent
<1>4. /\ scoring[t] \in [findings : SUBSET Findings, tier : ResponseTiers]
      /\ scoring' = [scoring EXCEPT ![t] = scoring[t]]
  BY DEF BypassOpen, IInv, TypeOK
<1>5. pc'[t] = "bypassed" /\ call'[t] = call[t]
  BY <1>1 DEF BypassOpen, GoTo, IInv, TypeOK
<1>6. ThreadInv(t)'
  BY <1>1, <1>3, <1>5 DEF ThreadInv, CallPresent, TierIsDecided, ExecutionIsAuthorised
<1> QED
  BY <1>1, <1>2, <1>3, <1>4, <1>6, MoveStep DEF BypassOpen, IInv, TypeOK, breakerVars

\* Submitting a held call: the queue has it, whether or not submit then raises.
LEMMA SubmitHeldStep ==
  ASSUME IInv, NEW t \in Threads, SubmitHeld(t)
  PROVE  IInv'
<1>1. pc[t] # "idle" /\ call[t] \in Calls
  BY DEF SubmitHeld, MayDecide, IInv, ThreadInv, CallPresent
<1>2. PICK r \in Requests :
        /\ held' = [held EXCEPT ![r] = [session |-> call[t].session, tool |-> call[t].tool]]
        /\ \/ /\ ticket' = [ticket EXCEPT ![t] = r]
              /\ GoTo(t, "holding")
              /\ UNCHANGED <<call, scoring>>
           \/ Raise(t, "queue_error")
  BY DEF SubmitHeld
<1>3. held' \in [Requests -> [session : Sessions, tool : Tools] \cup {NoRequest}]
  BY <1>1, <1>2 DEF IInv, TypeOK, Calls
<1>4. log' = log /\ runs' = runs /\ open' = open /\ failures' = failures
  BY DEF SubmitHeld, breakerVars
<1>5. CASE /\ ticket' = [ticket EXCEPT ![t] = r]
           /\ GoTo(t, "holding")
           /\ UNCHANGED <<call, scoring>>
  <2>1. call' = [call EXCEPT ![t] = call[t]]
    BY <1>5 DEF IInv, TypeOK
  <2>2. /\ scoring[t] \in [findings : SUBSET Findings, tier : ResponseTiers]
        /\ scoring' = [scoring EXCEPT ![t] = scoring[t]]
    BY <1>5 DEF IInv, TypeOK
  <2>3. ticket' \in [Threads -> Requests \cup {NoRequest}]
    BY <1>5 DEF IInv, TypeOK
  <2>4. pc'[t] = "holding" /\ call'[t] = call[t] /\ "holding" \in PcValues
    BY <1>5 DEF GoTo, IInv, TypeOK, PcValues
  <2>5. ThreadInv(t)'
    BY <1>1, <2>4 DEF ThreadInv, CallPresent, TierIsDecided, ExecutionIsAuthorised
  <2> QED
    BY <1>1, <1>3, <1>4, <1>5, <2>1, <2>2, <2>3, <2>4, <2>5, MoveStep DEF IInv, TypeOK
<1>6. CASE Raise(t, "queue_error")
  <2>1. PICK outcome \in Replies : Leave(t, outcome)
    BY <1>1, <1>6, RaiseType DEF IInv, Endings
  <2> QED
    BY <1>1, <1>3, <1>4, <2>1, LeaveStep DEF IInv, TypeOK
<1> QED
  BY <1>2, <1>5, <1>6

\* An irreversible tool, or one without a tier, is never run on the strength of
\* a flag that was overruled or of an open circuit.
LEMMA GroundOfIrreversible ==
  ASSUME IInv, NEW t \in Threads, pc[t] \in {"executing", "bypassed"},
         MayOnlyRunClean(call[t].tool)
  PROVE  Ground(t) \in {"clean", "shadow"}
<1>1. CASE pc[t] = "bypassed"
  <2>1. FailPolicy(call[t].tool) = "fail_open"
    BY <1>1 DEF IInv, ThreadInv, ExecutionIsAuthorised
  <2> QED
    BY <2>1 DEF FailPolicy, MayOnlyRunClean
<1>2. CASE pc[t] = "executing"
  <2>1. /\ call[t].tool \in Registered
        /\ Proceeds(t)
        /\ scoring[t].tier =
             DecideResponseTier(Cardinality(scoring[t].findings), TierOf[call[t].tool])
    BY <1>2 DEF IInv, ThreadInv, TierIsDecided, ExecutionIsAuthorised
  <2>2. TierOf[call[t].tool] \in Irreversible
    BY <2>1 DEF MayOnlyRunClean
  <2>3. CASE call[t].shadow
    BY <1>2, <2>3 DEF Ground
  <2>4. CASE scoring[t].tier \in {"allow", "flag"}
    <3>1. scoring[t].findings \in SUBSET Findings
      BY DEF IInv, TypeOK
    <3>2. Cardinality(scoring[t].findings) = 0
      BY <2>1, <2>2, <2>4, <3>1, FlagCount, IrreversibleNeedsNoFlag
    <3>3. scoring[t].findings = {}
      BY <3>1, <3>2, FlagCount
    <3> QED
      BY <1>2, <3>3 DEF Ground
  <2> QED
    BY <2>1, <2>3, <2>4 DEF Proceeds
<1> QED
  BY <1>1, <1>2

\* The tool runs and the call ends.
LEMMA ExecuteStep ==
  ASSUME IInv, NEW t \in Threads, Execute(t)
  PROVE  IInv'
<1> DEFINE s == call[t].session
           x == call[t].tool
           g == Ground(t)
<1>1. pc[t] \in {"executing", "bypassed"} /\ pc[t] # "idle"
  BY DEF Execute
<1>2. s \in Sessions /\ x \in Tools
  BY <1>1 DEF IInv, ThreadInv, CallPresent, Calls
<1>3. g \in Grounds
  BY DEF Ground, Grounds
<1>4. runs' = [runs EXCEPT ![s][x][g] = @ + 1]
  BY DEF Execute
<1> HIDE DEF s, x, g
<1>5. runs' \in [Sessions -> [Tools -> [Grounds -> Nat]]]
  BY <1>2, <1>3, <1>4 DEF IInv, TypeOK
<1>6. PICK outcome \in Replies : Leave(t, outcome)
  <2>1. \/ Return(t, TRUE) \/ \E tier \in ResponseTiers : ReturnBypassed(t, tier, TRUE)
        \/ Raise(t, "tool_error")
    BY DEF Execute, ResponseTiers
  <2> QED
    BY <1>1, <2>1, ReturnType, RaiseType DEF IInv, Endings
<1>7. UNCHANGED <<log, held, open, failures>>
  BY DEF Execute, breakerVars
<1>8. TypeOK'
  BY <1>1, <1>5, <1>6, <1>7, LeaveType DEF IInv, TypeOK
<1>9. (\A u \in Threads : ThreadInv(u))'
  BY <1>6, LeaveThreads DEF IInv
<1>10. IrreversibleRunsOnlyClean'
  <2> SUFFICES ASSUME NEW r \in Sessions, NEW y \in Tools, MayOnlyRunClean(y)
               PROVE  runs'[r][y]["flagged"] = 0 /\ runs'[r][y]["bypassed"] = 0
    BY DEF IrreversibleRunsOnlyClean, MayOnlyRunClean
  <2>1. runs[r][y]["flagged"] = 0 /\ runs[r][y]["bypassed"] = 0
    BY DEF IInv, IrreversibleRunsOnlyClean
  <2>2. r = s /\ y = x => g \in {"clean", "shadow"}
    BY <1>1, GroundOfIrreversible DEF s, x, g
  <2> QED
    BY <1>2, <1>3, <1>4, <2>1, <2>2 DEF IInv, TypeOK, Grounds
<1> QED
  BY <1>8, <1>9, <1>10 DEF IInv

-----------------------------------------------------------------------------
LEMMA NextIInv == IInv /\ [Next]_vars => IInv'
<1> SUFFICES ASSUME IInv, [Next]_vars PROVE IInv'
  OBVIOUS
<1>1. ASSUME NEW t \in Threads, StartScoring(t) PROVE IInv'
  BY <1>1, BeginStep DEF StartScoring
<1>2. ASSUME NEW t \in Threads, Reject(t) PROVE IInv'
  BY <1>2, BeginStep DEF Reject
<1>3. ASSUME NEW t \in Threads, ScoreEscalation(t) PROVE IInv'
  BY <1>3, ScoreStep DEF ScoreEscalation, PcValues, Findings
<1>4. ASSUME NEW t \in Threads, ScoreLoopRate(t) PROVE IInv'
  BY <1>4, ScoreStep DEF ScoreLoopRate, PcValues, Findings
<1>5. ASSUME NEW t \in Threads, ScoreExfiltration(t) PROVE IInv'
  BY <1>5, ScoreStep DEF ScoreExfiltration, PcValues, Findings
<1>6. ASSUME NEW t \in Threads, FinishScoring(t) PROVE IInv'
  BY <1>6, FinishScoringStep
<1>7. ASSUME NEW t \in Threads, ScoringFails(t) \/ RaiseUnregistered(t) \/ AppendFails(t)
      PROVE  IInv'
  BY <1>7, RaiseStep
<1>8. ASSUME NEW t \in Threads, LogAllowed(t) PROVE IInv'
  BY <1>8, LogAllowedStep
<1>9. ASSUME NEW t \in Threads, LogBlocked(t) \/ LogHeld(t) \/ BypassClosed(t) PROVE IInv'
  BY <1>9, RefusalStep
<1>10. ASSUME NEW t \in Threads, SubmitHeld(t) PROVE IInv'
  BY <1>10, SubmitHeldStep
<1>11. ASSUME NEW t \in Threads, BypassOpen(t) PROVE IInv'
  BY <1>11, BypassOpenStep
<1>12. ASSUME NEW t \in Threads, Execute(t) PROVE IInv'
  BY <1>12, ExecuteStep
<1>13. CASE UNCHANGED vars
  <2>1. TypeOK'
    BY <1>13 DEF vars, sharedVars, localVars, breakerVars, IInv, TypeOK
  <2>2. (\A t \in Threads : ThreadInv(t))'
    BY <1>13 DEF vars, localVars, IInv, ThreadInv, CallPresent, TierIsDecided,
                 ExecutionIsAuthorised, Proceeds
  <2>3. IrreversibleRunsOnlyClean'
    BY <1>13 DEF vars, sharedVars, IInv, IrreversibleRunsOnlyClean, MayOnlyRunClean
  <2> QED
    BY <2>1, <2>2, <2>3 DEF IInv
<1> QED
  BY <1>1, <1>2, <1>3, <1>4, <1>5, <1>6, <1>7, <1>8, <1>9, <1>10, <1>11, <1>12, <1>13
     DEF Next, Step

LEMMA IInvAlways == Spec => []IInv
  BY InitIInv, NextIInv, PTL DEF Spec

\* Every reachable state has the types of the code's values, for any number of
\* threads and tools and a log of any length.
THEOREM TypeCorrect == Spec => []TypeOK
<1>1. IInv => TypeOK
  BY DEF IInv
<1> QED
  BY <1>1, IInvAlways, PTL

\* An irreversible or unregistered tool never runs flagged, and never through
\* an open circuit, whatever the other threads do and whatever fails.
THEOREM IrreversibleToolsRunClean == Spec => []IrreversibleRunsOnlyClean
<1>1. IInv => IrreversibleRunsOnlyClean
  BY DEF IInv
<1> QED
  BY <1>1, IInvAlways, PTL
============================================================================
