------------------------ MODULE InterceptorLogProofs ------------------------
(***************************************************************************)
(* What Interceptor's session log says, for every set of threads, sessions *)
(* and tools and a log of any length: what runs is in it, what is held can *)
(* be found from it, and what the detectors promise of a later call holds  *)
(* however the calls of other threads lie between.                         *)
(***************************************************************************)
EXTENDS InterceptorProofs

-----------------------------------------------------------------------------
(***************************************************************************)
(* The inductive invariant, beyond IInv.                                   *)
(***************************************************************************)

\* What the detectors look for, in the first n attempts of a history h.
LeftBaseline(h, n) == \E j \in 1..n : h[j].tool \notin Baseline

Repeated(h, n, tool) == Cardinality({j \in 1..n : h[j].tool = tool}) >= RateThreshold - 1

\* One of them was blocked with other parameters, and up to position last the
\* tool was not proposed again.
Evaded(h, n, last, tool, params) ==
  \E j \in 1..n :
    /\ h[j].tool = tool
    /\ h[j].outcome = "blocked"
    /\ h[j].params # params
    /\ \A k \in (j + 1)..last : h[k].tool # tool

\* Where a thread that has passed a detector stands until it logs its call.
PastEscalation == {"loop_rate", "exfiltration", "content", "deciding", "holding"}
PastLoopRate == {"exfiltration", "content", "deciding", "holding"}
PastExfiltration == {"content", "deciding", "holding"}

\* The log was at least as long when the thread read it as when its call began.
SinceIsPast(u) == pc[u] # "idle" => call[u].since \in 0..Len(History(u))

\* What was there when its call began has been seen by the detectors it passed.
EscalationSeen(u) ==
  pc[u] \in PastEscalation /\ LeftBaseline(History(u), call[u].since)
    => "escalation" \in scoring[u].findings

LoopSeen(u) ==
  /\ pc[u] \in PastLoopRate
  /\ \/ Repeated(History(u), call[u].since, call[u].tool)
     \/ Evaded(History(u), call[u].since, Len(History(u)), call[u].tool, call[u].params)
  => "loop_rate" \in scoring[u].findings

ThreadHistory(u) == SinceIsPast(u) /\ EscalationSeen(u) /\ LoopSeen(u)

\* The same of the attempts in the log.
AttemptHistory(h, i) ==
  /\ h[i].since \in 0..(i - 1)
  /\ h[i].detail # NoDetail =>
       /\ LeftBaseline(h, h[i].since) => "escalation" \in h[i].detail
       /\ \/ Repeated(h, h[i].since, h[i].tool)
          \/ Evaded(h, h[i].since, i - 1, h[i].tool, h[i].params)
          => "loop_rate" \in h[i].detail

HistoryInv ==
  /\ \A u \in Threads : ThreadHistory(u)
  /\ \A s \in Sessions : \A i \in DOMAIN log[s] : AttemptHistory(log[s], i)

\* A thread holds a request exactly between submitting and logging it; the
\* request is its own, and not in the log yet.
TicketIsMine(u) ==
  /\ pc[u] # "holding" => ticket[u] = NoRequest
  /\ pc[u] = "holding" =>
       /\ ~Proceeds(u)
       /\ ticket[u] \in Requests
       /\ held[ticket[u]] = [session |-> call[u].session, tool |-> call[u].tool]
       /\ \A v \in Threads : ticket[v] = ticket[u] => v = u
       /\ \A s \in Sessions : \A i \in DOMAIN log[s] : log[s][i].request # ticket[u]

\* A request in the log has been submitted.
LoggedIsSubmitted ==
  \A s \in Sessions : \A i \in DOMAIN log[s] :
    log[s][i].request # NoRequest => held[log[s][i].request] # NoRequest

HeldInv == (\A u \in Threads : TicketIsMine(u)) /\ LoggedIsSubmitted /\ HeldCallsLinked

\* The threads that have come clean through the exfiltration detector with an
\* outbound call of the session, and have not logged it.
Cleared(s) ==
  {t \in Threads : /\ pc[t] \in PastExfiltration
                   /\ call[t].session = s
                   /\ call[t].tool \in Outbound
                   /\ scoring[t].findings = {}}

CleanOutbound(s) == {i \in DOMAIN log[s] : log[s][i].detail = {} /\ log[s][i].tool \in Outbound}

\* The clean outbound calls, logged or about to be.
OutboundInv ==
  \A s \in Sessions :
    Cardinality(CleanOutbound(s)) + Cardinality(Cleared(s))
      <= (OutboundThreshold - 1) + (Cardinality(Threads) - 1)

LogInv == HistoryInv /\ HeldInv /\ NothingRunsUnlogged /\ OutboundInv /\ AllowedTellsTheTruth

-----------------------------------------------------------------------------
(***************************************************************************)
(* Logs that grow.                                                         *)
(***************************************************************************)

\* g is h, or h with later attempts.
Extends(h, g) == Len(h) <= Len(g) /\ \A j \in 1..Len(h) : g[j] = h[j]

\* Appending extends.
LEMMA AppendExtends ==
  ASSUME NEW h \in Seq(Attempts), NEW a \in Attempts
  PROVE  /\ Append(h, a) \in Seq(Attempts)
         /\ Len(Append(h, a)) = Len(h) + 1
         /\ Append(h, a)[Len(h) + 1] = a
         /\ Extends(h, Append(h, a))
  BY DEF Extends

\* A prefix has finitely many attempts of a tool.
LEMMA PrefixFinite ==
  ASSUME NEW n \in Nat, NEW S, S \subseteq 1..n
  PROVE  IsFiniteSet(S) /\ Cardinality(S) \in Nat
<1>1. IsFiniteSet(1..n)
  BY FS_Interval
<1> QED
  BY <1>1, FS_Subset, FS_CardinalityType

\* What the detectors look for among the first n attempts was there before the
\* log grew; growing can only put another call between an evaded one and now.
LEMMA HistoryKept ==
  ASSUME NEW h \in Seq(Attempts), NEW g \in Seq(Attempts), Extends(h, g),
         NEW n \in 0..Len(h), NEW last \in 0..Len(h), NEW m \in Nat, last <= m,
         NEW tool, NEW params
  PROVE  /\ LeftBaseline(g, n) => LeftBaseline(h, n)
         /\ Repeated(g, n, tool) => Repeated(h, n, tool)
         /\ Evaded(g, n, m, tool, params) => Evaded(h, n, last, tool, params)
<1>1. \A j \in 1..n : j \in 1..Len(h) /\ g[j] = h[j]
  BY DEF Extends
<1>2. LeftBaseline(g, n) => LeftBaseline(h, n)
  BY <1>1 DEF LeftBaseline
<1>3. Repeated(g, n, tool) => Repeated(h, n, tool)
  <2>1. {j \in 1..n : g[j].tool = tool} = {j \in 1..n : h[j].tool = tool}
    BY <1>1
  <2> QED
    BY <2>1 DEF Repeated
<1>4. ASSUME Evaded(g, n, m, tool, params) PROVE Evaded(h, n, last, tool, params)
  <2>1. PICK j \in 1..n : /\ g[j].tool = tool
                          /\ g[j].outcome = "blocked"
                          /\ g[j].params # params
                          /\ \A k \in (j + 1)..m : g[k].tool # tool
    BY <1>4 DEF Evaded
  <2>2. h[j].tool = tool /\ h[j].outcome = "blocked" /\ h[j].params # params
    BY <1>1, <2>1
  <2>3. ASSUME NEW k \in (j + 1)..last PROVE h[k].tool # tool
    <3>1. k \in (j + 1)..m /\ k \in 1..Len(h)
      OBVIOUS
    <3>2. g[k] = h[k]
      BY <3>1 DEF Extends
    <3> QED
      BY <2>1, <3>1, <3>2
  <2> QED
    BY <2>2, <2>3 DEF Evaded
<1> QED
  BY <1>2, <1>3, <1>4

\* The detectors find what was there when the call began.
LEMMA EscalationFound ==
  ASSUME NEW h \in Seq(Attempts), NEW n \in 0..Len(h), NEW tool, LeftBaseline(h, n)
  PROVE  IsEscalated(h, tool)
<1>1. PICK j \in 1..n : h[j].tool \notin Baseline
  BY DEF LeftBaseline
<1>2. j \in DOMAIN h
  OBVIOUS
<1> QED
  BY <1>1, <1>2 DEF IsEscalated, Footprint

LEMMA RepetitionFound ==
  ASSUME NEW h \in Seq(Attempts), NEW n \in 0..Len(h), NEW tool, NEW params,
         Repeated(h, n, tool)
  PROVE  LoopRateFlags(h, tool, params)
<1> DEFINE P == {j \in 1..n : h[j].tool = tool}
           Q == SameTool(h, tool)
<1>1. P \subseteq Q
  BY DEF SameTool
<1>2. IsFiniteSet(Q) /\ Cardinality(Q) \in Nat
  <2>1. Q \subseteq 1..Len(h)
    BY DEF SameTool
  <2> QED
    BY <2>1, PrefixFinite
<1>3. Cardinality(P) <= Cardinality(Q) /\ Cardinality(P) \in Nat
  BY <1>1, <1>2, FS_Subset, FS_CardinalityType
<1>4. Cardinality(P) >= RateThreshold - 1
  BY DEF Repeated
<1> HIDE DEF P, Q
<1>5. Cardinality(Q) + 1 >= RateThreshold
  BY <1>2, <1>3, <1>4, DetectorAssumption
<1> QED
  BY <1>5 DEF LoopRateFlags, IsRateExceeded, Q

LEMMA EvasionFound ==
  ASSUME NEW h \in Seq(Attempts), NEW n \in 0..Len(h), NEW tool, NEW params,
         Evaded(h, n, Len(h), tool, params)
  PROVE  LoopRateFlags(h, tool, params)
<1>1. PICK j \in 1..n : /\ h[j].tool = tool
                        /\ h[j].outcome = "blocked"
                        /\ h[j].params # params
                        /\ \A k \in (j + 1)..Len(h) : h[k].tool # tool
  BY DEF Evaded
<1>2. j \in SameTool(h, tool)
  BY <1>1 DEF SameTool
<1>3. \A k \in SameTool(h, tool) : k <= j
  BY <1>1 DEF SameTool
<1> QED
  BY <1>1, <1>2, <1>3 DEF LoopRateFlags, IsEvasionRetry

-----------------------------------------------------------------------------
(***************************************************************************)
(* What a step changes.                                                    *)
(***************************************************************************)

\* The calls of the other threads stay where they are.
MovesOnly(t) ==
  \A u \in Threads \ {t} :
    /\ pc'[u] = pc[u] /\ call'[u] = call[u]
    /\ scoring'[u] = scoring[u] /\ ticket'[u] = ticket[u]

\* Thread t logs its call.
Logging(t) ==
  /\ pc[t] \in {"deciding", "holding", "bypassing"}
  /\ pc'[t] \in {"idle", "executing", "bypassed"}
  /\ AppendAttempt(t, Attempt(t))

ThreadStep(t) == StartScoring(t) \/ Reject(t) \/ Step(t)

LEMMA LeaveMovesOnly ==
  ASSUME TypeOK, NEW t \in Threads, NEW outcome, Leave(t, outcome)
  PROVE  MovesOnly(t) /\ pc'[t] = "idle"
  BY DEF TypeOK, Leave, MovesOnly

LEMMA GoToMovesOnly ==
  ASSUME TypeOK, NEW t \in Threads, NEW place, GoTo(t, place),
         NEW c, call' = [call EXCEPT ![t] = c],
         NEW sc, scoring' = [scoring EXCEPT ![t] = sc],
         NEW r, ticket' = [ticket EXCEPT ![t] = r]
  PROVE  MovesOnly(t) /\ pc'[t] = place
  BY DEF TypeOK, GoTo, MovesOnly

\* Every step is one thread's, and writes at most its own call to the log.
LEMMA StepShape ==
  ASSUME TypeOK, NEW t \in Threads, ThreadStep(t)
  PROVE  MovesOnly(t) /\ (log' = log \/ Logging(t))
<1>1. CASE \E place : Begin(t, place)
  BY <1>1 DEF Begin, GoTo, TypeOK, MovesOnly, sharedVars
<1>2. CASE \E here, next, flagged, finding : Score(t, here, next, flagged, finding)
  BY <1>2 DEF Score, GoTo, TypeOK, MovesOnly, sharedVars
<1>3. CASE FinishScoring(t)
  BY <1>3 DEF FinishScoring, GoTo, TypeOK, MovesOnly
<1>4. CASE ScoringFails(t) \/ RaiseUnregistered(t)
  BY <1>4, LeaveMovesOnly DEF ScoringFails, RaiseUnregistered, Raise, sharedVars
<1>5. CASE LogAllowed(t)
  BY <1>5 DEF LogAllowed, MayDecide, GoTo, TypeOK, MovesOnly, Logging
<1>6. CASE LogBlocked(t) \/ LogHeld(t)
  BY <1>6, LeaveMovesOnly DEF LogBlocked, LogHeld, MayDecide, Return, Logging
<1>7. CASE SubmitHeld(t)
  <2>1. log' = log
    BY <1>7 DEF SubmitHeld
  <2>2. CASE Raise(t, "queue_error")
    BY <2>1, <2>2, LeaveMovesOnly DEF Raise
  <2>3. CASE ~Raise(t, "queue_error")
    BY <1>7, <2>1, <2>3 DEF SubmitHeld, GoTo, TypeOK, MovesOnly
  <2> QED
    BY <2>2, <2>3
<1>8. CASE BypassOpen(t)
  BY <1>8 DEF BypassOpen, GoTo, TypeOK, MovesOnly, Logging
<1>9. CASE BypassClosed(t)
  BY <1>9, LeaveMovesOnly DEF BypassClosed, ReturnBypassed, Logging
<1>10. CASE AppendFails(t)
  BY <1>10, LeaveMovesOnly DEF AppendFails, MayDecide, Raise, Logging
<1>11. CASE Execute(t)
  BY <1>11, LeaveMovesOnly DEF Execute, ReturnBypassed, Return, Raise
<1> QED
  BY <1>1, <1>2, <1>3, <1>4, <1>5, <1>6, <1>7, <1>8, <1>9, <1>10, <1>11
     DEF ThreadStep, Step, StartScoring, Reject, ScoreEscalation, ScoreLoopRate,
         ScoreExfiltration

\* So the logs only grow.
LEMMA LogsExtend ==
  ASSUME IInv, NEW t \in Threads, log' = log \/ Logging(t)
  PROVE  /\ log' \in [Sessions -> Seq(Attempts)]
         /\ \A s \in Sessions : Extends(log[s], log'[s])
<1>1. log \in [Sessions -> Seq(Attempts)]
  BY DEF IInv, TypeOK
<1>2. CASE log' = log
  BY <1>1, <1>2 DEF Extends
<1>3. CASE Logging(t)
  <2>1. call[t] \in Calls /\ Attempt(t) \in Attempts
    BY <1>3, AttemptType DEF Logging, IInv, ThreadInv, CallPresent
  <2>2. call[t].session \in Sessions
    BY <2>1 DEF Calls
  <2>3. log' = [log EXCEPT ![call[t].session] = Append(@, Attempt(t))]
    BY <1>3 DEF Logging, AppendAttempt
  <2>4. ASSUME NEW s \in Sessions
        PROVE  log'[s] \in Seq(Attempts) /\ Extends(log[s], log'[s])
    <3>1. CASE s = call[t].session
      <4>1. log'[s] = Append(log[s], Attempt(t)) /\ log[s] \in Seq(Attempts)
        BY <1>1, <2>3, <3>1
      <4> QED
        BY <2>1, <4>1, AppendExtends
    <3>2. CASE s # call[t].session
      <4>1. log'[s] = log[s] /\ log[s] \in Seq(Attempts)
        BY <1>1, <2>3, <3>2
      <4> QED
        BY <4>1 DEF Extends
    <3> QED
      BY <3>1, <3>2
  <2>5. log' \in [Sessions -> Seq(Attempts)]
    <3>1. log' = [s \in Sessions |-> log'[s]]
      BY <1>1, <2>3
    <3> QED
      BY <2>4, <3>1
  <2> QED
    BY <2>4, <2>5
<1> QED
  BY <1>2, <1>3

\* Where thread t has logged its attempt, and where the log is as it was.
LEMMA LoggedWhere ==
  ASSUME IInv, NEW t \in Threads, Logging(t)
  PROVE  /\ call[t] \in Calls /\ call[t].session \in Sessions
         /\ Attempt(t) \in Attempts
         /\ log[call[t].session] \in Seq(Attempts)
         /\ log'[call[t].session] = Append(log[call[t].session], Attempt(t))
         /\ \A s \in Sessions : s # call[t].session => log'[s] = log[s]
<1>1. call[t] \in Calls /\ Attempt(t) \in Attempts
  BY AttemptType DEF Logging, IInv, ThreadInv, CallPresent
<1>2. call[t].session \in Sessions
  BY <1>1 DEF Calls
<1>3. log \in [Sessions -> Seq(Attempts)]
  BY DEF IInv, TypeOK
<1> QED
  BY <1>1, <1>2, <1>3 DEF Logging, AppendAttempt

-----------------------------------------------------------------------------
(***************************************************************************)
(* The history each call knows.                                            *)
(***************************************************************************)

\* A thread that stays, or goes on with its findings, still knows what it knew.
LEMMA ThreadHistoryKept ==
  ASSUME log \in [Sessions -> Seq(Attempts)], log' \in [Sessions -> Seq(Attempts)],
         \A s \in Sessions : Extends(log[s], log'[s]),
         NEW u \in Threads, CallPresent(u), ThreadHistory(u), call'[u] = call[u],
         scoring[u].findings \subseteq scoring'[u].findings,
         pc'[u] # "idle" => pc[u] # "idle",
         pc'[u] \in PastEscalation => pc[u] \in PastEscalation,
         pc'[u] \in PastLoopRate => pc[u] \in PastLoopRate
  PROVE  ThreadHistory(u)'
<1>1. CASE pc'[u] = "idle"
  BY <1>1 DEF ThreadHistory, SinceIsPast, EscalationSeen, LoopSeen, PastEscalation,
              PastLoopRate
<1>2. CASE pc'[u] # "idle"
  <2> DEFINE h == log[call[u].session]
             g == log'[call[u].session]
             n == call[u].since
  <2>1. h \in Seq(Attempts) /\ g \in Seq(Attempts) /\ Extends(h, g)
    BY <1>2 DEF CallPresent, Calls
  <2>2. n \in 0..Len(h)
    BY <1>2 DEF ThreadHistory, SinceIsPast, History
  <2>3. n \in 0..Len(g) /\ Len(h) \in 0..Len(h) /\ Len(g) \in Nat /\ Len(h) <= Len(g)
    BY <2>1, <2>2 DEF Extends
  <2>4. /\ LeftBaseline(g, n) => LeftBaseline(h, n)
        /\ Repeated(g, n, call[u].tool) => Repeated(h, n, call[u].tool)
        /\ Evaded(g, n, Len(g), call[u].tool, call[u].params)
             => Evaded(h, n, Len(h), call[u].tool, call[u].params)
    <3> HIDE DEF h, g, n
    <3> QED
      BY ONLY <2>1, <2>2, <2>3, HistoryKept
  <2>5. SinceIsPast(u)'
    BY <2>3 DEF SinceIsPast, History
  <2>6. EscalationSeen(u)'
    BY <2>4 DEF EscalationSeen, History, ThreadHistory
  <2>7. LoopSeen(u)'
    BY <2>4 DEF LoopSeen, History, ThreadHistory
  <2> QED
    BY <2>5, <2>6, <2>7 DEF ThreadHistory
<1> QED
  BY <1>1, <1>2

\* A call that begins: no detector has looked yet.
LEMMA BeginHistory ==
  ASSUME IInv, NEW t \in Threads, NEW place \in {"footprint", "bypassing"}, Begin(t, place)
  PROVE  ThreadHistory(t)'
<1>1. PICK s \in Sessions, x \in Tools, p \in Params, shadow \in ShadowModes :
        call' = [call EXCEPT ![t] = [session |-> s, tool |-> x, params |-> p,
                                     shadow |-> shadow, since |-> Len(log[s])]]
  BY DEF Begin
<1>2. /\ pc'[t] = place /\ log' = log
      /\ call'[t].session = s /\ call'[t].since = Len(log[s])
      /\ log[s] \in Seq(Attempts)
  BY <1>1 DEF Begin, GoTo, IInv, TypeOK, sharedVars
<1>3. SinceIsPast(t)'
  BY <1>2 DEF SinceIsPast, History
<1> QED
  BY <1>2, <1>3 DEF ThreadHistory, EscalationSeen, LoopSeen, PastEscalation, PastLoopRate

\* The permission escalation detector sees the history of its moment.
LEMMA EscalationHistory ==
  ASSUME IInv, NEW t \in Threads, ThreadHistory(t), ScoreEscalation(t)
  PROVE  ThreadHistory(t)'
<1> DEFINE h == log[call[t].session]
           n == call[t].since
<1>1. /\ pc[t] = "footprint" /\ pc'[t] = "loop_rate"
      /\ log' = log /\ call' = call
      /\ scoring' = IF IsEscalated(h, call[t].tool)
                    THEN [scoring EXCEPT ![t].findings = @ \cup {"escalation"}]
                    ELSE scoring
  BY DEF ScoreEscalation, Score, GoTo, IInv, TypeOK, History, sharedVars
<1>2. h \in Seq(Attempts) /\ n \in 0..Len(h)
  BY <1>1 DEF IInv, TypeOK, ThreadInv, CallPresent, Calls, ThreadHistory, SinceIsPast, History
<1>3. ASSUME LeftBaseline(h, n) PROVE "escalation" \in scoring'[t].findings
  <2>1. IsEscalated(h, call[t].tool)
    BY <1>2, <1>3, EscalationFound
  <2>2. scoring' = [scoring EXCEPT ![t].findings = @ \cup {"escalation"}]
    BY <1>1, <2>1
  <2> QED
    BY <2>2 DEF IInv, TypeOK
<1>4. EscalationSeen(t)'
  BY <1>1, <1>3 DEF EscalationSeen, History
<1>5. SinceIsPast(t)'
  BY <1>1, <1>2 DEF SinceIsPast, History
<1>6. LoopSeen(t)'
  BY <1>1 DEF LoopSeen, PastLoopRate
<1> QED
  BY <1>4, <1>5, <1>6 DEF ThreadHistory

\* So does the loop-rate detector, reading the log once more.
LEMMA LoopHistory ==
  ASSUME IInv, NEW t \in Threads, ThreadHistory(t), ScoreLoopRate(t)
  PROVE  ThreadHistory(t)'
<1> DEFINE h == log[call[t].session]
           n == call[t].since
           x == call[t].tool
           p == call[t].params
<1>1. /\ pc[t] = "loop_rate" /\ pc'[t] = "exfiltration"
      /\ log' = log /\ call' = call
      /\ scoring' = IF LoopRateFlags(h, x, p)
                    THEN [scoring EXCEPT ![t].findings = @ \cup {"loop_rate"}]
                    ELSE scoring
  BY DEF ScoreLoopRate, Score, GoTo, IInv, TypeOK, History, sharedVars
<1>2. h \in Seq(Attempts) /\ n \in 0..Len(h)
  BY <1>1 DEF IInv, TypeOK, ThreadInv, CallPresent, Calls, ThreadHistory, SinceIsPast, History
<1>3. ASSUME Repeated(h, n, x) \/ Evaded(h, n, Len(h), x, p)
      PROVE  "loop_rate" \in scoring'[t].findings
  <2>1. LoopRateFlags(h, x, p)
    BY <1>2, <1>3, RepetitionFound, EvasionFound
  <2>2. scoring' = [scoring EXCEPT ![t].findings = @ \cup {"loop_rate"}]
    BY <1>1, <2>1
  <2> QED
    BY <2>2 DEF IInv, TypeOK
<1>4. scoring[t].findings \subseteq scoring'[t].findings
  BY <1>1 DEF IInv, TypeOK
<1>5. LoopSeen(t)'
  BY <1>1, <1>3 DEF LoopSeen, History
<1>6. SinceIsPast(t)'
  BY <1>1, <1>2 DEF SinceIsPast, History
<1>7. EscalationSeen(t)'
  BY <1>1, <1>4 DEF ThreadHistory, EscalationSeen, History, PastEscalation
<1> QED
  BY <1>5, <1>6, <1>7 DEF ThreadHistory

\* A call that has ended leaves no history.
LEMMA IdleHistory ==
  ASSUME NEW t, pc'[t] \in {"idle", "executing", "bypassed"},
         pc'[t] # "idle" => SinceIsPast(t)'
  PROVE  ThreadHistory(t)'
  BY DEF ThreadHistory, SinceIsPast, EscalationSeen, LoopSeen, PastEscalation, PastLoopRate

\* The step of a thread keeps its history.
LEMMA OwnHistory ==
  ASSUME IInv, NEW t \in Threads, ThreadHistory(t), ThreadStep(t)
  PROVE  ThreadHistory(t)'
<1>0. /\ log \in [Sessions -> Seq(Attempts)] /\ CallPresent(t)
      /\ log' \in [Sessions -> Seq(Attempts)]
      /\ \A s \in Sessions : Extends(log[s], log'[s])
  BY StepShape, LogsExtend DEF IInv, TypeOK, ThreadInv
<1>1. CASE StartScoring(t) \/ Reject(t)
  BY <1>1, BeginHistory DEF StartScoring, Reject
<1>2. CASE ScoreEscalation(t)
  BY <1>2, EscalationHistory
<1>3. CASE ScoreLoopRate(t)
  BY <1>3, LoopHistory
<1>4. CASE ScoreExfiltration(t) \/ FinishScoring(t)
  <2>1. call'[t] = call[t] /\ scoring[t].findings \subseteq scoring'[t].findings
    <3>1. scoring \in [Threads -> [findings : SUBSET Findings, tier : ResponseTiers]]
      BY DEF IInv, TypeOK
    <3>2. CASE ScoreExfiltration(t)
      BY <3>1, <3>2 DEF ScoreExfiltration, Score
    <3>3. CASE FinishScoring(t)
      BY <3>1, <3>3 DEF FinishScoring
    <3> QED
      BY <1>4, <3>2, <3>3
  <2>2. pc[t] \in {"exfiltration", "content"} /\ pc'[t] \in {"content", "deciding"}
    BY <1>4 DEF ScoreExfiltration, Score, FinishScoring, GoTo, IInv, TypeOK
  <2> QED
    BY <1>0, <2>1, <2>2, ThreadHistoryKept DEF PastEscalation, PastLoopRate
<1>5. CASE LogAllowed(t) \/ BypassOpen(t)
  <2>1. call'[t] = call[t] /\ scoring[t].findings \subseteq scoring'[t].findings
    BY <1>5 DEF LogAllowed, BypassOpen
  <2>2. pc[t] # "idle" /\ pc'[t] \in {"executing", "bypassed"}
    BY <1>5 DEF LogAllowed, BypassOpen, MayDecide, GoTo, IInv, TypeOK
  <2> QED
    BY <1>0, <2>1, <2>2, ThreadHistoryKept DEF PastEscalation, PastLoopRate
<1>6. CASE SubmitHeld(t) /\ pc'[t] # "idle"
  <2>1. pc[t] = "deciding"
    BY <1>6 DEF SubmitHeld, MayDecide
  <2>2. call'[t] = call[t] /\ scoring[t].findings \subseteq scoring'[t].findings
    BY <1>6 DEF SubmitHeld, Raise, Leave, IInv, TypeOK
  <2> QED
    BY <1>0, <2>1, <2>2, ThreadHistoryKept DEF PastEscalation, PastLoopRate
<1>7. CASE pc'[t] = "idle"
  BY <1>7, IdleHistory
<1>8. CASE \/ ScoringFails(t) \/ RaiseUnregistered(t) \/ AppendFails(t) \/ Execute(t)
           \/ LogBlocked(t) \/ LogHeld(t) \/ BypassClosed(t)
  <2>1. pc'[t] = "idle"
    BY <1>8 DEF ScoringFails, RaiseUnregistered, AppendFails, Execute, LogBlocked, LogHeld,
                BypassClosed, Raise, Return, ReturnBypassed, Leave, IInv, TypeOK
  <2> QED
    BY <2>1, IdleHistory
<1> QED
  BY <1>1, <1>2, <1>3, <1>4, <1>5, <1>6, <1>7, <1>8 DEF ThreadStep, Step

\* What holds of an attempt goes on holding as the log grows.
LEMMA AttemptHistoryKept ==
  ASSUME NEW h \in Seq(Attempts), NEW g \in Seq(Attempts), Extends(h, g),
         NEW i \in 1..Len(h), AttemptHistory(h, i)
  PROVE  AttemptHistory(g, i)
<1> DEFINE n == h[i].since
           x == h[i].tool
           p == h[i].params
<1>1. g[i] = h[i] /\ n \in 0..(i - 1)
  BY DEF Extends, AttemptHistory
<1>2. n \in 0..Len(h) /\ i - 1 \in 0..Len(h) /\ i - 1 \in Nat /\ i - 1 <= i - 1
  BY <1>1
<1>3. /\ LeftBaseline(g, n) => LeftBaseline(h, n)
      /\ Repeated(g, n, x) => Repeated(h, n, x)
      /\ Evaded(g, n, i - 1, x, p) => Evaded(h, n, i - 1, x, p)
  <2> HIDE DEF n, x, p
  <2> QED
    BY <1>2, HistoryKept
<1> QED
  BY <1>1, <1>3 DEF AttemptHistory

\* An attempt that is logged carries what its thread knew.
LEMMA LoggedHistory ==
  ASSUME IInv, NEW t \in Threads, ThreadHistory(t), Logging(t)
  PROVE  AttemptHistory(log'[call[t].session], Len(log[call[t].session]) + 1)
<1> DEFINE h == log[call[t].session]
           a == Attempt(t)
           g == Append(h, a)
           n == call[t].since
           x == call[t].tool
           p == call[t].params
           i == Len(h) + 1
<1>1. h \in Seq(Attempts) /\ a \in Attempts /\ log'[call[t].session] = g
  BY LoggedWhere
<1>2. g \in Seq(Attempts) /\ g[i] = a /\ Extends(h, g)
  <2> HIDE DEF h, a
  <2> QED
    BY <1>1, AppendExtends
<1>3. a.since = n /\ a.tool = x /\ a.params = p
  BY DEF Attempt
<1>4. pc[t] \in {"deciding", "holding", "bypassing"}
  BY DEF Logging
<1>5. n \in 0..Len(h)
  BY <1>4 DEF ThreadHistory, SinceIsPast, History
<1>6. Len(h) \in Nat /\ Len(h) \in 0..Len(h) /\ Len(h) <= Len(h) /\ i - 1 = Len(h)
  BY <1>1
<1>7. /\ LeftBaseline(g, n) => LeftBaseline(h, n)
      /\ Repeated(g, n, x) => Repeated(h, n, x)
      /\ Evaded(g, n, Len(h), x, p) => Evaded(h, n, Len(h), x, p)
  <2> HIDE DEF h, g, n, x, p, i
  <2> QED
    BY <1>1, <1>2, <1>5, <1>6, HistoryKept
<1>8. CASE a.detail = NoDetail
  BY <1>1, <1>2, <1>3, <1>5, <1>6, <1>8 DEF AttemptHistory
<1>9. CASE a.detail # NoDetail
  <2>1. pc[t] \in {"deciding", "holding"} /\ a.detail = scoring[t].findings
    BY <1>4, <1>9 DEF Attempt
  <2>2. LeftBaseline(g, n) => "escalation" \in a.detail
    BY <1>7, <2>1 DEF ThreadHistory, EscalationSeen, PastEscalation, History
  <2>3. Repeated(g, n, x) \/ Evaded(g, n, Len(h), x, p) => "loop_rate" \in a.detail
    BY <1>7, <2>1 DEF ThreadHistory, LoopSeen, PastLoopRate, History
  <2>4. AttemptHistory(g, i)
    <3> HIDE DEF h, a, g, n, x, p, i
    <3> QED
      BY <1>2, <1>3, <1>5, <1>6, <2>2, <2>3 DEF AttemptHistory
  <2> QED
    BY <1>1, <2>4
<1> QED
  BY <1>8, <1>9

LEMMA HistoryStep ==
  ASSUME IInv, HistoryInv, NEW t \in Threads, ThreadStep(t)
  PROVE  HistoryInv'
<1>1. MovesOnly(t) /\ (log' = log \/ Logging(t))
  BY StepShape DEF IInv
<1>2. /\ log \in [Sessions -> Seq(Attempts)] /\ log' \in [Sessions -> Seq(Attempts)]
      /\ \A s \in Sessions : Extends(log[s], log'[s])
  BY <1>1, LogsExtend DEF IInv, TypeOK
<1>3. ASSUME NEW u \in Threads PROVE ThreadHistory(u)'
  <2>1. ThreadHistory(u) /\ CallPresent(u)
    BY DEF HistoryInv, IInv, ThreadInv
  <2>2. CASE u = t
    BY <2>1, <2>2, OwnHistory
  <2>3. CASE u # t
    <3>1. pc'[u] = pc[u] /\ call'[u] = call[u] /\ scoring'[u] = scoring[u]
      BY <1>1, <2>3 DEF MovesOnly
    <3> QED
      BY <1>2, <2>1, <3>1, ThreadHistoryKept
  <2> QED
    BY <2>2, <2>3
<1>4. ASSUME NEW s \in Sessions, NEW i \in DOMAIN log'[s]
      PROVE  AttemptHistory(log'[s], i)
  <2>1. log[s] \in Seq(Attempts) /\ log'[s] \in Seq(Attempts) /\ Extends(log[s], log'[s])
    BY <1>2
  <2>2. CASE i \in 1..Len(log[s])
    <3>1. \A k \in DOMAIN log[s] : AttemptHistory(log[s], k)
      BY DEF HistoryInv
    <3>2. AttemptHistory(log[s], i)
      BY <2>1, <2>2, <3>1
    <3> QED
      BY <2>1, <2>2, <3>2, AttemptHistoryKept
  <2>3. CASE i \notin 1..Len(log[s])
    <3>1. log'[s] # log[s]
      BY <2>1, <2>3
    <3>2. Logging(t) /\ s = call[t].session
      BY <1>1, <3>1, LoggedWhere
    <3>3. log'[s] = Append(log[s], Attempt(t)) /\ Attempt(t) \in Attempts
      BY <3>2, LoggedWhere
    <3>4. i = Len(log[s]) + 1
      BY <2>1, <2>3, <3>3
    <3>5. ThreadHistory(t)
      BY DEF HistoryInv
    <3> QED
      BY <3>2, <3>4, <3>5, LoggedHistory
  <2> QED
    BY <2>2, <2>3
<1> QED
  BY <1>3, <1>4 DEF HistoryInv

\* The three promises of the session detectors, read from the log.
LEMMA HistoryPromises ==
  ASSUME TypeOK, HistoryInv
  PROVE  EscalationSticky /\ EvasionRetryFlagged /\ RepeatsFlagged
<1>1. ASSUME NEW s \in Sessions, NEW i \in Scored(s)
      PROVE  /\ LeftBaseline(log[s], log[s][i].since) => "escalation" \in log[s][i].detail
             /\ \/ Repeated(log[s], log[s][i].since, log[s][i].tool)
                \/ Evaded(log[s], log[s][i].since, i - 1, log[s][i].tool, log[s][i].params)
                => "loop_rate" \in log[s][i].detail
  BY DEF HistoryInv, AttemptHistory, Scored
<1>2. EscalationSticky
  BY <1>1 DEF EscalationSticky, Before, LeftBaseline
<1>3. EvasionRetryFlagged
  BY <1>1 DEF EvasionRetryFlagged, Before, Evaded
<1>4. RepeatsFlagged
  BY <1>1 DEF RepeatsFlagged, Before, Repeated
<1> QED
  BY <1>2, <1>3, <1>4

-----------------------------------------------------------------------------
(***************************************************************************)
(* Held calls, and what the agent is told.                                 *)
(***************************************************************************)

\* An attempt of the log was there before, or is the one thread t has logged.
LEMMA LogPositions ==
  ASSUME IInv, NEW t \in Threads, log' = log \/ Logging(t),
         NEW s \in Sessions, NEW i \in DOMAIN log'[s]
  PROVE  \/ i \in DOMAIN log[s] /\ log'[s][i] = log[s][i]
         \/ /\ Logging(t) /\ s = call[t].session /\ i = Len(log[s]) + 1
            /\ log'[s][i] = Attempt(t)
<1>1. log[s] \in Seq(Attempts)
  BY DEF IInv, TypeOK
<1>2. CASE log'[s] = log[s]
  BY <1>2
<1>3. CASE log'[s] # log[s]
  <2>1. Logging(t) /\ s = call[t].session
    BY <1>3, LoggedWhere
  <2>2. log'[s] = Append(log[s], Attempt(t)) /\ Attempt(t) \in Attempts
    BY <2>1, LoggedWhere
  <2> QED
    BY <1>1, <2>1, <2>2
<1> QED
  BY <1>2, <1>3

\* What the queue keeps of thread t's call.
Submission(t) == [session |-> call[t].session, tool |-> call[t].tool]

LEMMA SubmissionType ==
  ASSUME NEW t \in Threads, CallPresent(t), pc[t] # "idle"
  PROVE  Submission(t) # NoRequest
<1>1. call[t] \in Calls
  BY DEF CallPresent
<1>2. Submission(t) \in [session : Sessions, tool : Tools]
  BY <1>1 DEF Calls, Submission
<1> QED
  BY <1>2, InterceptorAssumption

\* Thread t submits request r, and holds it or is interrupted at once.
Submits(t, r) ==
  /\ held[r] = NoRequest
  /\ held' = [held EXCEPT ![r] = Submission(t)]
  /\ log' = log
  /\ \/ pc'[t] = "idle" /\ ticket'[t] = NoRequest
     \/ /\ pc'[t] = "holding" /\ ticket'[t] = r
        /\ call'[t] = call[t] /\ scoring'[t] = scoring[t] /\ ~Proceeds(t)

\* The queue and a thread's ticket change together.
LEMMA QueueShape ==
  ASSUME TypeOK, NEW t \in Threads, CallPresent(t), TicketIsMine(t), ThreadStep(t)
  PROVE  \/ held' = held /\ pc'[t] # "holding" /\ ticket'[t] = NoRequest
         \/ pc[t] # "idle" /\ \E r \in Requests : Submits(t, r)
<1>1. CASE \/ StartScoring(t) \/ Reject(t) \/ ScoreEscalation(t) \/ ScoreLoopRate(t)
           \/ ScoreExfiltration(t) \/ FinishScoring(t) \/ LogAllowed(t) \/ BypassOpen(t)
  <2>1. held' = held /\ ticket' = ticket
    BY <1>1 DEF StartScoring, Reject, Begin, ScoreEscalation, ScoreLoopRate,
                ScoreExfiltration, Score, FinishScoring, LogAllowed, BypassOpen, sharedVars
  <2>2. pc[t] # "holding" /\ pc'[t] # "holding"
    BY <1>1 DEF StartScoring, Reject, Begin, ScoreEscalation, ScoreLoopRate,
                ScoreExfiltration, Score, FinishScoring, LogAllowed, BypassOpen, MayDecide,
                GoTo, TypeOK
  <2> QED
    BY <2>1, <2>2 DEF TicketIsMine
<1>2. CASE \/ ScoringFails(t) \/ RaiseUnregistered(t) \/ AppendFails(t) \/ Execute(t)
           \/ LogBlocked(t) \/ LogHeld(t) \/ BypassClosed(t)
  <2>1. held' = held
    BY <1>2 DEF ScoringFails, RaiseUnregistered, AppendFails, Execute, LogBlocked, LogHeld,
                BypassClosed, sharedVars
  <2>2. pc'[t] = "idle" /\ ticket'[t] = NoRequest
    BY <1>2 DEF ScoringFails, RaiseUnregistered, AppendFails, Execute, LogBlocked, LogHeld,
                BypassClosed, Raise, Return, ReturnBypassed, Leave, TypeOK
  <2> QED
    BY <2>1, <2>2
<1>3. CASE SubmitHeld(t)
  <2>1. PICK r \in Requests :
          /\ held[r] = NoRequest
          /\ held' = [held EXCEPT ![r] = Submission(t)]
          /\ \/ /\ ticket' = [ticket EXCEPT ![t] = r]
                /\ GoTo(t, "holding")
                /\ UNCHANGED <<call, scoring>>
             \/ Raise(t, "queue_error")
    BY <1>3 DEF SubmitHeld, Submission
  <2>2. pc[t] = "deciding" /\ log' = log /\ ~Proceeds(t)
    BY <1>3 DEF SubmitHeld, MayDecide
  <2>3. CASE Raise(t, "queue_error")
    <3>1. pc'[t] = "idle" /\ ticket'[t] = NoRequest
      BY <2>3 DEF Raise, Leave, TypeOK
    <3> QED
      BY <2>1, <2>2, <3>1 DEF Submits
  <2>4. CASE /\ ticket' = [ticket EXCEPT ![t] = r]
             /\ GoTo(t, "holding")
             /\ UNCHANGED <<call, scoring>>
    <3>1. /\ pc'[t] = "holding" /\ ticket'[t] = r
          /\ call'[t] = call[t] /\ scoring'[t] = scoring[t]
      BY <2>4 DEF GoTo, TypeOK
    <3> QED
      BY <2>1, <2>2, <3>1 DEF Submits
  <2> QED
    BY <2>1, <2>3, <2>4
<1> QED
  BY <1>1, <1>2, <1>3 DEF ThreadStep, Step

\* A request that was submitted stays as it was submitted.
LEMMA HeldKept ==
  ASSUME TypeOK, NEW t \in Threads,
         held' = held \/ \E r \in Requests : Submits(t, r)
  PROVE  \A q \in Requests : held[q] # NoRequest => held'[q] = held[q]
  BY DEF TypeOK, Submits

\* The ticket of another thread stays its own.
LEMMA OthersTicket ==
  ASSUME IInv, HeldInv, NEW t \in Threads, ThreadStep(t), NEW u \in Threads, u # t
  PROVE  TicketIsMine(u)'
<1>1. MovesOnly(t) /\ (log' = log \/ Logging(t))
  BY StepShape DEF IInv
<1>2. /\ pc'[u] = pc[u] /\ call'[u] = call[u]
      /\ scoring'[u] = scoring[u] /\ ticket'[u] = ticket[u]
  BY <1>1 DEF MovesOnly
<1>3. TicketIsMine(u) /\ TicketIsMine(t) /\ CallPresent(u) /\ CallPresent(t)
  BY DEF HeldInv, IInv, ThreadInv
<1>4. CASE pc[u] # "holding"
  BY <1>2, <1>3, <1>4 DEF TicketIsMine
<1>5. CASE pc[u] = "holding"
  <2> DEFINE q == ticket[u]
  <2>1. /\ q \in Requests /\ held[q] = Submission(u)
        /\ \A v \in Threads : ticket[v] = q => v = u
        /\ \A s \in Sessions : \A i \in DOMAIN log[s] : log[s][i].request # q
        /\ ~Proceeds(u)
    BY <1>3, <1>5 DEF TicketIsMine, Submission
  <2>2. held[q] # NoRequest
    BY <1>3, <1>5, <2>1, SubmissionType
  <2>3. held' = held \/ \E r \in Requests : Submits(t, r)
    BY <1>3, QueueShape DEF IInv
  <2>4. held'[q] = held[q]
    BY <2>1, <2>2, <2>3, HeldKept DEF IInv
  <2>5. ticket'[t] # q
    <3>1. CASE ticket'[t] = NoRequest
      BY <2>1, <3>1, InterceptorAssumption
    <3>2. CASE ticket'[t] # NoRequest
      <4>1. PICK r \in Requests : Submits(t, r)
        BY <1>3, <3>2, QueueShape DEF IInv
      <4> QED
        BY <2>2, <3>2, <4>1 DEF Submits
    <3> QED
      BY <3>1, <3>2
  <2>6. ASSUME NEW v \in Threads, ticket'[v] = q PROVE v = u
    <3>1. v # t
      BY <2>5, <2>6
    <3>2. ticket'[v] = ticket[v]
      BY <1>1, <3>1 DEF MovesOnly
    <3> QED
      BY <2>1, <2>6, <3>2
  <2>7. ASSUME NEW s \in Sessions, NEW i \in DOMAIN log'[s] PROVE log'[s][i].request # q
    <3>1. CASE i \in DOMAIN log[s] /\ log'[s][i] = log[s][i]
      BY <2>1, <3>1
    <3>2. CASE log'[s][i] = Attempt(t)
      BY <2>1, <3>2 DEF Attempt
    <3> QED
      BY <1>1, <3>1, <3>2, LogPositions
  <2>8. ~Proceeds(u)'
    BY <1>2, <2>1 DEF Proceeds
  <2>9. held'[q] = [session |-> call'[u].session, tool |-> call'[u].tool]
    BY <1>2, <2>1, <2>4 DEF Submission
  <2> HIDE DEF q
  <2>10. ticket'[u] = q
    BY <1>2 DEF q
  <2> QED
    BY <1>2, <1>5, <2>1, <2>6, <2>7, <2>8, <2>9, <2>10 DEF TicketIsMine
<1> QED
  BY <1>4, <1>5

\* A thread that submits gets a request nobody holds and no log names.
LEMMA OwnTicket ==
  ASSUME IInv, HeldInv, NEW t \in Threads, ThreadStep(t)
  PROVE  TicketIsMine(t)'
<1>1. MovesOnly(t)
  BY StepShape DEF IInv
<1>2. \A u \in Threads : TicketIsMine(u) /\ CallPresent(u)
  BY DEF HeldInv, IInv, ThreadInv
<1>3. CASE pc'[t] # "holding" /\ ticket'[t] = NoRequest
  BY <1>3 DEF TicketIsMine
<1>4. ASSUME NEW r \in Requests, Submits(t, r), pc'[t] = "holding", pc[t] # "idle"
      PROVE  TicketIsMine(t)'
  <2>1. /\ held[r] = NoRequest /\ held'[r] = Submission(t) /\ log' = log
        /\ ticket'[t] = r
        /\ call'[t] = call[t] /\ scoring'[t] = scoring[t] /\ ~Proceeds(t)
    BY <1>4 DEF Submits, IInv, TypeOK
  <2>2. ASSUME NEW v \in Threads, ticket'[v] = r PROVE v = t
    <3>1. SUFFICES ASSUME v # t PROVE FALSE
      OBVIOUS
    <3>2. ticket[v] = r
      BY <1>1, <2>2, <3>1 DEF MovesOnly
    <3>3. pc[v] = "holding" /\ held[r] = Submission(v)
      BY <1>2, <3>2, InterceptorAssumption DEF TicketIsMine, Submission
    <3> QED
      BY <1>2, <2>1, <3>3, SubmissionType
  <2>3. ASSUME NEW s \in Sessions, NEW i \in DOMAIN log'[s] PROVE log'[s][i].request # r
    BY <2>1, <2>3, InterceptorAssumption DEF HeldInv, LoggedIsSubmitted
  <2>4. ~Proceeds(t)' /\ held'[r] = [session |-> call'[t].session, tool |-> call'[t].tool]
    BY <2>1 DEF Proceeds, Submission
  <2> QED
    BY <1>4, <2>1, <2>2, <2>3, <2>4 DEF TicketIsMine
<1>5. \/ pc'[t] # "holding" /\ ticket'[t] = NoRequest
      \/ pc[t] # "idle" /\ \E r \in Requests : Submits(t, r)
  BY <1>2, QueueShape DEF IInv
<1>6. CASE pc[t] # "idle" /\ \E r \in Requests : Submits(t, r)
  <2>1. PICK r \in Requests : Submits(t, r)
    BY <1>6
  <2>2. \/ pc'[t] = "holding"
        \/ pc'[t] # "holding" /\ ticket'[t] = NoRequest
    BY <2>1 DEF Submits
  <2> QED
    BY <1>3, <1>4, <1>6, <2>1, <2>2
<1> QED
  BY <1>3, <1>5, <1>6

LEMMA LoggedIsSubmittedStep ==
  ASSUME IInv, HeldInv, NEW t \in Threads, ThreadStep(t)
  PROVE  LoggedIsSubmitted'
<1> SUFFICES ASSUME NEW s \in Sessions, NEW i \in DOMAIN log'[s],
                    log'[s][i].request # NoRequest
             PROVE  held'[log'[s][i].request] # NoRequest
  BY DEF LoggedIsSubmitted
<1> DEFINE q == log'[s][i].request
<1>1. log' = log \/ Logging(t)
  BY StepShape DEF IInv
<1>2. TicketIsMine(t) /\ CallPresent(t)
  BY DEF HeldInv, IInv, ThreadInv
<1>3. held[q] # NoRequest
  <2>1. CASE i \in DOMAIN log[s] /\ log'[s][i] = log[s][i]
    BY <2>1 DEF HeldInv, LoggedIsSubmitted
  <2>2. CASE Logging(t) /\ log'[s][i] = Attempt(t)
    <3>1. q = ticket[t]
      BY <2>2 DEF Attempt
    <3>2. pc[t] = "holding" /\ held[q] = Submission(t)
      BY <1>2, <3>1 DEF TicketIsMine, Submission
    <3> QED
      BY <1>2, <3>2, SubmissionType
  <2> QED
    BY <1>1, <2>1, <2>2, LogPositions
<1>4. q \in Requests
  <2>1. log'[s][i] \in Attempts
    <3>1. log' \in [Sessions -> Seq(Attempts)]
      BY <1>1, LogsExtend
    <3>2. log'[s] \in Seq(Attempts)
      BY <3>1
    <3> QED
      BY <3>2
  <2> QED
    BY <2>1 DEF Attempts
<1>5. held'[q] = held[q]
  <2>1. held' = held \/ \E r \in Requests : Submits(t, r)
    BY <1>2, QueueShape DEF IInv
  <2> QED
    BY <1>3, <1>4, <2>1, HeldKept DEF IInv
<1> QED
  BY <1>3, <1>5

\* Only a held call is logged as pending, and with the request it holds.
LEMMA PendingIsHeld ==
  ASSUME NEW t, Attempt(t).outcome = "pending_approval"
  PROVE  pc[t] = "holding"
  BY DEF Attempt, Verdict

\* Two attempts never name one request, whichever threads logged them.
LEMMA HeldCallsLinkedStep ==
  ASSUME IInv, HeldInv, NEW t \in Threads, ThreadStep(t)
  PROVE  HeldCallsLinked'
<1> SUFFICES ASSUME NEW s \in Sessions, NEW i \in DOMAIN log'[s],
                    log'[s][i].outcome = "pending_approval"
             PROVE  /\ log'[s][i].request \in Requests
                    /\ held'[log'[s][i].request] = [session |-> s, tool |-> log'[s][i].tool]
                    /\ \A r \in Sessions : \A j \in DOMAIN log'[r] :
                         log'[r][j].request = log'[s][i].request => r = s /\ i = j
  BY DEF HeldCallsLinked
<1> DEFINE a == log'[s][i]
           q == a.request
<1>1. log' = log \/ Logging(t)
  BY StepShape DEF IInv
<1>2. TicketIsMine(t) /\ CallPresent(t)
  BY DEF HeldInv, IInv, ThreadInv
<1>3. held' = held \/ \E r \in Requests : Submits(t, r)
  BY <1>2, QueueShape DEF IInv
<1>4. held[q] # NoRequest /\ q \in Requests => held'[q] = held[q]
  BY <1>3, HeldKept DEF IInv
<1>5. CASE i \in DOMAIN log[s] /\ a = log[s][i]
  <2>1. /\ q \in Requests /\ held[q] = [session |-> s, tool |-> a.tool]
        /\ \A r \in Sessions : \A j \in DOMAIN log[r] :
             log[r][j].request = q => r = s /\ i = j
    BY <1>5 DEF HeldInv, HeldCallsLinked
  <2>2. held[q] # NoRequest
    BY <1>5, <2>1, InterceptorAssumption DEF HeldInv, LoggedIsSubmitted
  <2>3. ASSUME NEW r \in Sessions, NEW j \in DOMAIN log'[r], log'[r][j].request = q
        PROVE  r = s /\ i = j
    <3>1. CASE j \in DOMAIN log[r] /\ log'[r][j] = log[r][j]
      BY <2>1, <2>3, <3>1
    <3>2. CASE Logging(t) /\ log'[r][j] = Attempt(t)
      <4>1. q = ticket[t]
        BY <2>3, <3>2 DEF Attempt
      <4>2. pc[t] = "holding"
        BY <1>2, <2>1, <4>1, InterceptorAssumption DEF TicketIsMine
      <4> QED
        BY <1>2, <1>5, <4>1, <4>2 DEF TicketIsMine
    <3> QED
      BY <1>1, <3>1, <3>2, LogPositions
  <2> QED
    BY <1>4, <2>1, <2>2, <2>3
<1>6. CASE /\ Logging(t) /\ s = call[t].session /\ i = Len(log[s]) + 1
           /\ a = Attempt(t)
  <2>1. pc[t] = "holding"
    BY <1>6, PendingIsHeld
  <2>2. q = ticket[t] /\ a.tool = call[t].tool
    BY <1>6 DEF Attempt
  <2>3. q \in Requests /\ held[q] = [session |-> s, tool |-> a.tool]
    BY <1>2, <1>6, <2>1, <2>2 DEF TicketIsMine
  <2>4. held[q] # NoRequest
    BY <1>2, <1>6, <2>1, <2>2, <2>3, SubmissionType DEF Submission
  <2>5. ASSUME NEW r \in Sessions, NEW j \in DOMAIN log'[r], log'[r][j].request = q
        PROVE  r = s /\ i = j
    <3>1. CASE j \in DOMAIN log[r] /\ log'[r][j] = log[r][j]
      BY <1>2, <2>1, <2>2, <2>5, <3>1 DEF TicketIsMine
    <3>2. CASE Logging(t) /\ r = call[t].session /\ j = Len(log[r]) + 1
      BY <1>6, <3>2
    <3> QED
      BY <1>1, <3>1, <3>2, LogPositions
  <2> QED
    BY <1>4, <2>3, <2>4, <2>5
<1> QED
  BY <1>1, <1>5, <1>6, LogPositions

LEMMA HeldStep ==
  ASSUME IInv, HeldInv, NEW t \in Threads, ThreadStep(t)
  PROVE  HeldInv'
<1>1. ASSUME NEW u \in Threads PROVE TicketIsMine(u)'
  BY OwnTicket, OthersTicket
<1> QED
  BY <1>1, LoggedIsSubmittedStep, HeldCallsLinkedStep DEF HeldInv

\* The reply that ends a call agrees with what the call has done.
LEMMA TruthStep ==
  ASSUME IInv, HeldInv, NEW t \in Threads, ThreadStep(t)
  PROVE  AllowedTellsTheTruth'
<1>1. CASE \/ StartScoring(t) \/ Reject(t) \/ ScoreEscalation(t) \/ ScoreLoopRate(t)
           \/ ScoreExfiltration(t) \/ FinishScoring(t) \/ LogAllowed(t) \/ BypassOpen(t)
  <2>1. reply' = NoReply
    BY <1>1 DEF StartScoring, Reject, Begin, ScoreEscalation, ScoreLoopRate,
                ScoreExfiltration, Score, FinishScoring, LogAllowed, BypassOpen, GoTo
  <2> QED
    BY <2>1 DEF AllowedTellsTheTruth
<1>2. CASE \/ ScoringFails(t) \/ RaiseUnregistered(t) \/ AppendFails(t)
           \/ \E ending \in Endings \ {"returned"} : Raise(t, ending)
  <2>1. reply'.ending # "returned"
    BY <1>2 DEF ScoringFails, RaiseUnregistered, AppendFails, Raise, Leave
  <2> QED
    BY <2>1 DEF AllowedTellsTheTruth
<1>3. CASE LogBlocked(t) \/ LogHeld(t)
  <2>1. ~Proceeds(t)
    BY <1>3 DEF LogBlocked, LogHeld, HeldInv, TicketIsMine
  <2>2. /\ reply'.tier = scoring[t].tier /\ reply'.shadow = call[t].shadow
        /\ reply'.toolResult = FALSE
    BY <1>3 DEF LogBlocked, LogHeld, Return, Leave
  <2> QED
    BY <2>1, <2>2 DEF AllowedTellsTheTruth, Allowed, Proceeds
<1>4. CASE SubmitHeld(t)
  <2>1. reply' = NoReply \/ Raise(t, "queue_error")
    BY <1>4 DEF SubmitHeld, GoTo
  <2> QED
    BY <1>2, <2>1 DEF AllowedTellsTheTruth, Endings
<1>5. CASE BypassClosed(t)
  <2>1. reply'.tier = "block" /\ reply'.shadow = FALSE /\ reply'.toolResult = FALSE
    BY <1>5 DEF BypassClosed, ReturnBypassed, Leave
  <2> QED
    BY <2>1 DEF AllowedTellsTheTruth, Allowed
<1>6. CASE Execute(t)
  <2>1. CASE Raise(t, "tool_error")
    BY <1>2, <2>1 DEF Endings
  <2>2. CASE ReturnBypassed(t, "allow", TRUE)
    <3>1. reply'.tier = "allow" /\ reply'.toolResult = TRUE
      BY <2>2 DEF ReturnBypassed, Leave
    <3> QED
      BY <3>1 DEF AllowedTellsTheTruth, Allowed
  <2>3. CASE pc[t] = "executing" /\ Return(t, TRUE)
    <3>1. Proceeds(t)
      BY <2>3 DEF IInv, ThreadInv, ExecutionIsAuthorised
    <3>2. /\ reply'.tier = scoring[t].tier /\ reply'.shadow = call[t].shadow
          /\ reply'.toolResult = TRUE
      BY <2>3 DEF Return, Leave
    <3> QED
      BY <3>1, <3>2 DEF AllowedTellsTheTruth, Allowed, Proceeds
  <2> QED
    BY <1>6, <2>1, <2>2, <2>3 DEF Execute
<1> QED
  BY <1>1, <1>2, <1>3, <1>4, <1>5, <1>6 DEF ThreadStep, Step

-----------------------------------------------------------------------------
(***************************************************************************)
(* Counting calls in the log and threads on their way to it.               *)
(***************************************************************************)

\* The positions of a history that hold an attempt of S.
Positions(h, S) == {i \in DOMAIN h : h[i] \in S}

LEMMA PositionsFinite ==
  ASSUME NEW h \in Seq(Attempts), NEW S
  PROVE  IsFiniteSet(Positions(h, S)) /\ Cardinality(Positions(h, S)) \in Nat
<1>1. Positions(h, S) \subseteq 1..Len(h) /\ Len(h) \in Nat
  BY DEF Positions
<1> QED
  BY <1>1, PrefixFinite

\* An appended attempt of S adds one position, any other none.
LEMMA PositionsAppend ==
  ASSUME NEW h \in Seq(Attempts), NEW a \in Attempts, NEW S
  PROVE  /\ a \in S => Cardinality(Positions(Append(h, a), S))
                         = Cardinality(Positions(h, S)) + 1
         /\ a \notin S => Cardinality(Positions(Append(h, a), S))
                            = Cardinality(Positions(h, S))
<1> DEFINE g == Append(h, a)
<1>1. /\ Len(g) = Len(h) + 1 /\ g[Len(h) + 1] = a
      /\ \A i \in 1..Len(h) : g[i] = h[i]
      /\ g \in Seq(Attempts)
  BY AppendExtends DEF Extends
<1>2. DOMAIN h = 1..Len(h) /\ DOMAIN g = 1..(Len(h) + 1) /\ Len(h) \in Nat
  BY <1>1
<1>3. Len(h) + 1 \notin Positions(h, S)
  BY <1>2 DEF Positions
<1> HIDE DEF g
<1>4. ASSUME a \in S PROVE Positions(g, S) = Positions(h, S) \cup {Len(h) + 1}
  BY <1>1, <1>2, <1>4 DEF Positions
<1>5. ASSUME a \notin S PROVE Positions(g, S) = Positions(h, S)
  BY <1>1, <1>2, <1>5 DEF Positions
<1>6. ASSUME a \in S PROVE Cardinality(Positions(g, S)) = Cardinality(Positions(h, S)) + 1
  BY <1>3, <1>4, <1>6, PositionsFinite, FS_AddElement
<1>7. ASSUME a \notin S PROVE Cardinality(Positions(g, S)) = Cardinality(Positions(h, S))
  BY <1>5, <1>7
<1> QED
  BY <1>6, <1>7 DEF g

\* Thread t adds an attempt of S to the log of session s.
Adds(t, s, S) == Logging(t) /\ s = call[t].session /\ Attempt(t) \in S

LEMMA PositionsStep ==
  ASSUME IInv, NEW t \in Threads, log' = log \/ Logging(t), NEW s \in Sessions, NEW S
  PROVE  /\ Cardinality(Positions(log[s], S)) \in Nat
         /\ Adds(t, s, S) => Cardinality(Positions(log'[s], S))
                               = Cardinality(Positions(log[s], S)) + 1
         /\ ~Adds(t, s, S) => Cardinality(Positions(log'[s], S))
                                = Cardinality(Positions(log[s], S))
<1>1. log[s] \in Seq(Attempts)
  BY DEF IInv, TypeOK
<1>2. Cardinality(Positions(log[s], S)) \in Nat
  BY <1>1, PositionsFinite
<1>3. CASE Logging(t) /\ s = call[t].session
  <2>1. log'[s] = Append(log[s], Attempt(t)) /\ Attempt(t) \in Attempts
    BY <1>3, LoggedWhere
  <2> QED
    BY <1>1, <1>2, <1>3, <2>1, PositionsAppend DEF Adds
<1>4. CASE ~(Logging(t) /\ s = call[t].session)
  <2>1. log'[s] = log[s]
    BY <1>4, LoggedWhere
  <2> QED
    BY <1>2, <1>4, <2>1 DEF Adds
<1> QED
  BY <1>3, <1>4

\* A set of threads that thread t alone enters or leaves.
LEMMA ThreadSets ==
  ASSUME NEW A \in SUBSET Threads, NEW B \in SUBSET Threads, NEW t \in Threads,
         \A u \in Threads \ {t} : u \in B => u \in A
  PROVE  /\ Cardinality(A) \in Nat /\ Cardinality(B) \in Nat
         /\ Cardinality(B) <= Cardinality(Threads)
         /\ Cardinality(B) <= Cardinality(A) + 1
         /\ (t \in B => t \in A) => Cardinality(B) <= Cardinality(A)
         /\ t \in A /\ t \notin B => Cardinality(B) + 1 <= Cardinality(A)
<1>1. IsFiniteSet(Threads)
  BY InterceptorAssumption
<1>2. IsFiniteSet(A) /\ IsFiniteSet(B)
  BY <1>1, FS_Subset
<1>3. Cardinality(A) \in Nat /\ Cardinality(B) \in Nat
  BY <1>2, FS_CardinalityType
<1>4. Cardinality(B) <= Cardinality(Threads)
  BY <1>1, FS_Subset
<1>5. ASSUME t \in B => t \in A PROVE Cardinality(B) <= Cardinality(A)
  <2>1. B \subseteq A
    BY <1>5
  <2> QED
    BY <1>2, <2>1, FS_Subset
<1>6. Cardinality(B) <= Cardinality(A) + 1
  <2>1. B \subseteq A \cup {t}
    OBVIOUS
  <2>2. IsFiniteSet(A \cup {t}) /\ Cardinality(A \cup {t}) <= Cardinality(A) + 1
    BY <1>2, <1>3, FS_AddElement
  <2>3. Cardinality(B) <= Cardinality(A \cup {t}) /\ Cardinality(A \cup {t}) \in Nat
    BY <2>1, <2>2, FS_Subset, FS_CardinalityType
  <2> QED
    BY <1>3, <2>2, <2>3
<1>7. ASSUME t \in A, t \notin B PROVE Cardinality(B) + 1 <= Cardinality(A)
  <2>1. B \subseteq A \ {t}
    BY <1>7
  <2>2. IsFiniteSet(A \ {t}) /\ Cardinality(A \ {t}) = Cardinality(A) - 1
    BY <1>2, <1>7, FS_RemoveElement
  <2>3. Cardinality(B) <= Cardinality(A \ {t})
    BY <2>1, <2>2, FS_Subset
  <2> QED
    BY <1>3, <2>2, <2>3
<1> QED
  BY <1>3, <1>4, <1>5, <1>6, <1>7

\* The attempts of a tool that were allowed.
AllowedOf(x) == {a \in Attempts : a.tool = x /\ a.outcome = "allowed"}

LEMMA AllowedPositions ==
  ASSUME NEW s \in Sessions, NEW x \in Tools
  PROVE  /\ log \in [Sessions -> Seq(Attempts)]
              => AllowedAttempts(s, x) = Positions(log[s], AllowedOf(x))
         /\ log' \in [Sessions -> Seq(Attempts)]
              => AllowedAttempts(s, x)' = Positions(log'[s], AllowedOf(x))
<1>1. ASSUME NEW h \in Seq(Attempts)
      PROVE  {i \in DOMAIN h : h[i].tool = x /\ h[i].outcome = "allowed"}
               = Positions(h, AllowedOf(x))
  BY <1>1 DEF Positions, AllowedOf
<1> QED
  BY <1>1 DEF AllowedAttempts

\* What an execution adds to the count of executions.
LEMMA ExecutionsStep ==
  ASSUME IInv, NEW t \in Threads, ThreadStep(t), NEW s \in Sessions, NEW x \in Tools
  PROVE  /\ Executions(s, x) \in Nat
         /\ Execute(t) /\ s = call[t].session /\ x = call[t].tool
              => Executions(s, x)' = Executions(s, x) + 1
         /\ ~(Execute(t) /\ s = call[t].session /\ x = call[t].tool)
              => Executions(s, x)' = Executions(s, x)
<1>1. runs[s][x] \in [Grounds -> Nat]
  BY DEF IInv, TypeOK
<1>2. Executions(s, x) \in Nat
  BY <1>1 DEF Executions, Grounds
<1>3. CASE Execute(t)
  <2> DEFINE g == Ground(t)
             r == call[t].session
             y == call[t].tool
  <2>1. g \in Grounds
    BY DEF Ground, Grounds
  <2>2. r \in Sessions /\ y \in Tools
    BY <1>3 DEF Execute, IInv, ThreadInv, CallPresent, Calls
  <2>3. runs' = [runs EXCEPT ![r][y][g] = @ + 1]
    BY <1>3 DEF Execute
  <2> HIDE DEF g, r, y
  <2>4. CASE s = r /\ x = y
    <3>1. runs'[s][x] = [runs[s][x] EXCEPT ![g] = @ + 1]
      BY <2>2, <2>3, <2>4 DEF IInv, TypeOK
    <3>2. Executions(s, x)' = Executions(s, x) + 1
      BY <1>1, <2>1, <3>1 DEF Executions, Grounds
    <3> QED
      BY <1>2, <1>3, <2>4, <3>2 DEF r, y
  <2>5. CASE ~(s = r /\ x = y)
    <3>1. runs'[s][x] = runs[s][x]
      BY <2>2, <2>3, <2>5 DEF IInv, TypeOK
    <3> QED
      BY <1>2, <2>5, <3>1 DEF Executions, r, y
  <2> QED
    BY <2>4, <2>5
<1>4. CASE ~Execute(t)
  <2>1. runs' = runs
    BY <1>4 DEF ThreadStep, Step, StartScoring, Reject, Begin, ScoreEscalation, ScoreLoopRate,
       ScoreExfiltration, Score, FinishScoring, ScoringFails, RaiseUnregistered, LogAllowed,
       LogBlocked, SubmitHeld, LogHeld, BypassOpen, BypassClosed, AppendFails, sharedVars
  <2> QED
    BY <1>2, <1>4, <2>1 DEF Executions
<1> QED
  BY <1>3, <1>4

\* A thread is about to run a tool only after it has logged it as allowed.
LEMMA ExecutingStep ==
  ASSUME IInv, NEW t \in Threads, ThreadStep(t), NEW s \in Sessions, NEW x \in Tools
  PROVE  /\ Execute(t) => t \notin Executing(s, x)'
         /\ Execute(t) /\ s = call[t].session /\ x = call[t].tool => t \in Executing(s, x)
         /\ t \in Executing(s, x)' =>
              t \in Executing(s, x) \/ Adds(t, s, AllowedOf(x))
<1>1. ASSUME Execute(t) PROVE t \notin Executing(s, x)'
  <2>1. pc'[t] = "idle"
    BY <1>1 DEF Execute, Return, ReturnBypassed, Raise, Leave, IInv, TypeOK
  <2> QED
    BY <2>1 DEF Executing
<1>2. ASSUME Execute(t), s = call[t].session, x = call[t].tool PROVE t \in Executing(s, x)
  BY <1>2 DEF Execute, Executing
<1>3. ASSUME t \in Executing(s, x)', t \notin Executing(s, x) PROVE Adds(t, s, AllowedOf(x))
  <2>1. pc'[t] \in {"executing", "bypassed"} /\ call'[t].session = s /\ call'[t].tool = x
    BY <1>3 DEF Executing
  <2>2. LogAllowed(t) \/ BypassOpen(t)
    BY <1>1, <1>3, <2>1
       DEF ThreadStep, Step, StartScoring, Reject, Begin, ScoreEscalation, ScoreLoopRate,
           ScoreExfiltration, Score, FinishScoring, ScoringFails, RaiseUnregistered,
           LogBlocked, SubmitHeld, LogHeld, BypassClosed, AppendFails, Raise, Return,
           ReturnBypassed, Leave, GoTo, IInv, TypeOK
  <2>3. call[t].session = s /\ call[t].tool = x
    BY <2>1, <2>2 DEF LogAllowed, BypassOpen
  <2>4. Verdict(t) = "allowed"
    BY <2>2 DEF LogAllowed, BypassOpen, MayDecide, Verdict
  <2>5. Logging(t)
    BY <2>1, <2>2 DEF LogAllowed, BypassOpen, MayDecide, Logging
  <2>6. Attempt(t) \in AllowedOf(x)
    <3>1. Attempt(t) \in Attempts
      BY <2>5, LoggedWhere
    <3> QED
      BY <2>3, <2>4, <3>1 DEF Attempt, AllowedOf
  <2> QED
    BY <2>3, <2>5, <2>6 DEF Adds
<1> QED
  BY <1>1, <1>2, <1>3

LEMMA NothingRunsUnloggedStep ==
  ASSUME IInv, NothingRunsUnlogged, NEW t \in Threads, ThreadStep(t)
  PROVE  NothingRunsUnlogged'
<1> SUFFICES ASSUME NEW s \in Sessions, NEW x \in Tools
             PROVE  Executions(s, x)' + Cardinality(Executing(s, x)')
                      <= Cardinality(AllowedAttempts(s, x)')
  BY DEF NothingRunsUnlogged
<1> DEFINE S == AllowedOf(x)
           X == Executing(s, x)
           Y == Executing(s, x)'
           m == Cardinality(Positions(log[s], S))
           n == Cardinality(Positions(log'[s], S))
<1>1. MovesOnly(t) /\ (log' = log \/ Logging(t))
  BY StepShape DEF IInv
<1>2. /\ log \in [Sessions -> Seq(Attempts)]
      /\ log' \in [Sessions -> Seq(Attempts)]
  BY <1>1, LogsExtend DEF IInv, TypeOK
<1>3. Cardinality(AllowedAttempts(s, x)) = m /\ Cardinality(AllowedAttempts(s, x)') = n
  BY <1>2, AllowedPositions
<1>4. m \in Nat /\ (Adds(t, s, S) => n = m + 1) /\ (~Adds(t, s, S) => n = m)
  BY <1>1, PositionsStep
<1>5. Executions(s, x) + Cardinality(X) <= m
  BY <1>3 DEF NothingRunsUnlogged
<1>6. /\ Cardinality(X) \in Nat /\ Cardinality(Y) \in Nat
      /\ Cardinality(Y) <= Cardinality(X) + 1
      /\ (t \in Y => t \in X) => Cardinality(Y) <= Cardinality(X)
      /\ t \in X /\ t \notin Y => Cardinality(Y) + 1 <= Cardinality(X)
  <2>1. X \in SUBSET Threads /\ Y \in SUBSET Threads
    BY DEF Executing
  <2>2. \A u \in Threads \ {t} : u \in Y => u \in X
    BY <1>1 DEF MovesOnly, Executing
  <2> HIDE DEF X, Y
  <2> QED
    BY <2>1, <2>2, ThreadSets
<1>7. /\ Execute(t) => t \notin Y
      /\ Execute(t) /\ s = call[t].session /\ x = call[t].tool => t \in X
      /\ t \in Y => t \in X \/ Adds(t, s, S)
  BY ExecutingStep
<1>8. /\ Executions(s, x) \in Nat
      /\ Execute(t) /\ s = call[t].session /\ x = call[t].tool
           => Executions(s, x)' = Executions(s, x) + 1
      /\ ~(Execute(t) /\ s = call[t].session /\ x = call[t].tool)
           => Executions(s, x)' = Executions(s, x)
  BY ExecutionsStep
<1> HIDE DEF X, Y, S, m, n
<1>9. Executions(s, x)' + Cardinality(Y) <= n
  <2>1. CASE Execute(t) /\ s = call[t].session /\ x = call[t].tool
    BY <1>4, <1>5, <1>6, <1>7, <1>8, <2>1
  <2>2. CASE ~(Execute(t) /\ s = call[t].session /\ x = call[t].tool)
    <3>1. Executions(s, x)' = Executions(s, x)
      BY <1>8, <2>2
    <3>2. Cardinality(Y) <= Cardinality(X) \/ Adds(t, s, S)
      BY <1>6, <1>7
    <3> QED
      BY <1>4, <1>5, <1>6, <1>8, <3>1, <3>2
  <2> QED
    BY <2>1, <2>2
<1> QED
  BY <1>3, <1>9 DEF Y

\* Scored without a finding, and of an outbound tool.
CleanAttempts == {a \in Attempts : a.detail = {} /\ a.tool \in Outbound}

LEMMA CleanPositions ==
  ASSUME NEW s \in Sessions
  PROVE  /\ log \in [Sessions -> Seq(Attempts)]
              => CleanOutbound(s) = Positions(log[s], CleanAttempts)
         /\ log' \in [Sessions -> Seq(Attempts)]
              => CleanOutbound(s)' = Positions(log'[s], CleanAttempts)
<1>1. ASSUME NEW h \in Seq(Attempts)
      PROVE  {i \in DOMAIN h : h[i].detail = {} /\ h[i].tool \in Outbound}
               = Positions(h, CleanAttempts)
  BY <1>1 DEF Positions, CleanAttempts
<1> QED
  BY <1>1 DEF CleanOutbound

\* A clean call is logged only by a thread that the detector has cleared, and
\* the thread is then done with it.
LEMMA CleanIsCleared ==
  ASSUME NEW t \in Threads, NEW s \in Sessions, Adds(t, s, CleanAttempts)
  PROVE  t \in Cleared(s) /\ t \notin Cleared(s)'
<1>1. /\ pc[t] \in {"deciding", "holding", "bypassing"}
      /\ pc'[t] \in {"idle", "executing", "bypassed"}
      /\ call[t].session = s
      /\ Attempt(t).detail = {} /\ Attempt(t).tool \in Outbound
  BY DEF Adds, Logging, CleanAttempts
<1>2. NoDetail # {}
  BY DEF NoDetail
<1>3. pc[t] # "bypassing" /\ scoring[t].findings = {} /\ call[t].tool \in Outbound
  BY <1>1, <1>2 DEF Attempt
<1> QED
  BY <1>1, <1>3 DEF Cleared, PastExfiltration

\* The detector clears a thread only while the log has room below the threshold.
LEMMA ClearedStep ==
  ASSUME IInv, NEW t \in Threads, ThreadStep(t), NEW s \in Sessions,
         t \in Cleared(s)', t \notin Cleared(s)
  PROVE  log' = log /\ Cardinality(CleanOutbound(s)) <= OutboundThreshold - 2
<1>1. /\ pc'[t] \in PastExfiltration /\ call'[t].session = s
      /\ call'[t].tool \in Outbound /\ scoring'[t].findings = {}
  BY DEF Cleared
<1>2. ScoreExfiltration(t)
  <2>1. CASE FinishScoring(t)
    <3>1. /\ pc[t] = "content" /\ call' = call
          /\ scoring[t].findings \subseteq scoring'[t].findings
      BY <2>1 DEF FinishScoring, IInv, TypeOK
    <3> QED
      BY <1>1, <3>1 DEF Cleared, PastExfiltration
  <2>2. CASE SubmitHeld(t)
    <3>1. pc[t] = "deciding" /\ call'[t] = call[t] /\ scoring'[t] = scoring[t]
      BY <1>1, <2>2
         DEF SubmitHeld, MayDecide, Raise, Leave, IInv, TypeOK, PastExfiltration
    <3> QED
      BY <1>1, <3>1 DEF Cleared, PastExfiltration
  <2>3. pc'[t] \in {"content", "deciding", "holding"}
    BY <1>1 DEF PastExfiltration
  <2> QED
    BY <2>1, <2>2, <2>3
       DEF ThreadStep, Step, StartScoring, Reject, Begin, ScoreEscalation, ScoreLoopRate,
           Score, ScoringFails, RaiseUnregistered, LogAllowed, LogBlocked, LogHeld,
           BypassOpen, BypassClosed, AppendFails, Execute, Raise, Return, ReturnBypassed,
           Leave, GoTo, IInv, TypeOK
<1>3. log' = log /\ call' = call
  BY <1>2 DEF ScoreExfiltration, Score, sharedVars
<1> DEFINE h == log[s]
<1>4. h \in Seq(Attempts) /\ History(t) = h /\ call[t].tool \in Outbound
  BY <1>1, <1>3 DEF History, IInv, TypeOK
<1>5. ~IsFrequencyExceeded(h)
  <2>1. SUFFICES ASSUME IsFrequencyExceeded(h) PROVE FALSE
    OBVIOUS
  <2>2. ExfiltrationFlags(History(t), call[t].tool, call[t].params)
    BY <1>4, <2>1 DEF ExfiltrationFlags
  <2>3. "exfiltration" \in scoring'[t].findings
    BY <1>2, <2>2 DEF ScoreExfiltration, Score, IInv, TypeOK
  <2> QED
    BY <1>1, <2>3
<1>6. CleanOutbound(s) \subseteq OutboundCalls(h)
  BY DEF CleanOutbound, OutboundCalls
<1>7. IsFiniteSet(OutboundCalls(h)) /\ Cardinality(OutboundCalls(h)) \in Nat
  <2>1. OutboundCalls(h) \subseteq 1..Len(h) /\ Len(h) \in Nat
    BY <1>4 DEF OutboundCalls
  <2> QED
    BY <2>1, PrefixFinite
<1>8. /\ Cardinality(CleanOutbound(s)) <= Cardinality(OutboundCalls(h))
      /\ Cardinality(CleanOutbound(s)) \in Nat
  BY <1>6, <1>7, FS_Subset, FS_CardinalityType
<1>9. ~(Cardinality(OutboundCalls(h)) + 1 >= OutboundThreshold)
  BY <1>5 DEF IsFrequencyExceeded
<1> HIDE DEF h
<1>10. Cardinality(CleanOutbound(s)) <= OutboundThreshold - 2
  BY <1>7, <1>8, <1>9, DetectorAssumption
<1> QED
  BY <1>3, <1>10

LEMMA OutboundStep ==
  ASSUME IInv, OutboundInv, NEW t \in Threads, ThreadStep(t)
  PROVE  OutboundInv'
<1> DEFINE bound == (OutboundThreshold - 1) + (Cardinality(Threads) - 1)
<1> SUFFICES ASSUME NEW s \in Sessions
             PROVE  Cardinality(CleanOutbound(s)') + Cardinality(Cleared(s)') <= bound
  BY DEF OutboundInv
<1> DEFINE S == CleanAttempts
           A == Cleared(s)
           B == Cleared(s)'
           m == Cardinality(Positions(log[s], S))
           n == Cardinality(Positions(log'[s], S))
<1>1. MovesOnly(t) /\ (log' = log \/ Logging(t))
  BY StepShape DEF IInv
<1>2. /\ log \in [Sessions -> Seq(Attempts)]
      /\ log' \in [Sessions -> Seq(Attempts)]
  BY <1>1, LogsExtend DEF IInv, TypeOK
<1>3. Cardinality(CleanOutbound(s)) = m /\ Cardinality(CleanOutbound(s)') = n
  BY <1>2, CleanPositions
<1>4. m \in Nat /\ (Adds(t, s, S) => n = m + 1) /\ (~Adds(t, s, S) => n = m)
  BY <1>1, PositionsStep
<1>5. m + Cardinality(A) <= bound
  BY <1>3 DEF OutboundInv
<1>6. /\ Cardinality(A) \in Nat /\ Cardinality(B) \in Nat
      /\ Cardinality(B) <= Cardinality(Threads)
      /\ (t \in B => t \in A) => Cardinality(B) <= Cardinality(A)
      /\ t \in A /\ t \notin B => Cardinality(B) + 1 <= Cardinality(A)
  <2>1. A \in SUBSET Threads /\ B \in SUBSET Threads
    BY DEF Cleared
  <2>2. \A u \in Threads \ {t} : u \in B => u \in A
    BY <1>1 DEF MovesOnly, Cleared
  <2> HIDE DEF A, B
  <2> QED
    BY <2>1, <2>2, ThreadSets
<1>7. Adds(t, s, S) => t \in A /\ t \notin B
  BY CleanIsCleared
<1>8. t \in B /\ t \notin A => log' = log /\ m <= OutboundThreshold - 2
  BY <1>3, ClearedStep
<1>9. OutboundThreshold \in Nat /\ Cardinality(Threads) \in Nat
  BY DetectorAssumption, InterceptorAssumption, FS_CardinalityType
<1>10. log' = log => n = m
  OBVIOUS
<1> HIDE DEF A, B, S, m, n
<1>11. n + Cardinality(B) <= bound
  <2>1. CASE Adds(t, s, S)
    BY <1>4, <1>5, <1>6, <1>7, <1>9, <2>1
  <2>2. CASE ~Adds(t, s, S) /\ (t \in B => t \in A)
    BY <1>4, <1>5, <1>6, <1>9, <2>2
  <2>3. CASE t \in B /\ t \notin A
    <3>1. n = m /\ m <= OutboundThreshold - 2
      BY <1>8, <1>10, <2>3
    <3> QED
      BY <1>4, <1>6, <1>9, <3>1
  <2> QED
    BY <2>1, <2>2, <2>3
<1> QED
  BY <1>3, <1>11 DEF B

-----------------------------------------------------------------------------
(***************************************************************************)
(* The theorems.                                                           *)
(***************************************************************************)

LEMMA InitLogInv == Init => LogInv
<1> SUFFICES ASSUME Init PROVE LogInv
  OBVIOUS
<1>1. /\ \A s \in Sessions : log[s] = <<>> /\ DOMAIN log[s] = {}
      /\ \A t \in Threads : pc[t] = "idle" /\ ticket[t] = NoRequest
  BY DEF Init
<1>2. HistoryInv
  BY <1>1 DEF HistoryInv, ThreadHistory, SinceIsPast, EscalationSeen, LoopSeen,
              PastEscalation, PastLoopRate
<1>3. HeldInv
  BY <1>1 DEF HeldInv, TicketIsMine, LoggedIsSubmitted, HeldCallsLinked
<1>4. NothingRunsUnlogged
  <2> SUFFICES ASSUME NEW s \in Sessions, NEW x \in Tools
               PROVE  Executions(s, x) + Cardinality(Executing(s, x))
                        <= Cardinality(AllowedAttempts(s, x))
    BY DEF NothingRunsUnlogged
  <2>1. Executions(s, x) = 0
    BY DEF Init, Executions, Grounds
  <2>2. Executing(s, x) = {} /\ AllowedAttempts(s, x) = {}
    BY <1>1 DEF Executing, AllowedAttempts
  <2> QED
    BY <2>1, <2>2, FS_EmptySet
<1>5. OutboundInv
  <2> SUFFICES ASSUME NEW s \in Sessions
               PROVE  Cardinality(CleanOutbound(s)) + Cardinality(Cleared(s))
                        <= (OutboundThreshold - 1) + (Cardinality(Threads) - 1)
    BY DEF OutboundInv
  <2>1. CleanOutbound(s) = {} /\ Cleared(s) = {}
    BY <1>1 DEF CleanOutbound, Cleared, PastExfiltration
  <2>2. Cardinality(CleanOutbound(s)) = 0 /\ Cardinality(Cleared(s)) = 0
    BY <2>1, FS_EmptySet
  <2>3. Cardinality(Threads) \in Nat /\ Cardinality(Threads) # 0
    BY InterceptorAssumption, FS_CardinalityType, FS_EmptySet
  <2> QED
    BY <2>2, <2>3, DetectorAssumption
<1>6. AllowedTellsTheTruth
  BY DEF Init, AllowedTellsTheTruth
<1> QED
  BY <1>2, <1>3, <1>4, <1>5, <1>6 DEF LogInv

LEMMA NextLogInv == IInv /\ LogInv /\ [Next]_vars => LogInv'
<1> SUFFICES ASSUME IInv, LogInv, [Next]_vars PROVE LogInv'
  OBVIOUS
<1>1. ASSUME NEW t \in Threads, ThreadStep(t) PROVE LogInv'
  BY <1>1, HistoryStep, HeldStep, NothingRunsUnloggedStep, OutboundStep, TruthStep
     DEF LogInv
<1>2. CASE UNCHANGED vars
  <2>1. /\ log' = log /\ held' = held /\ runs' = runs /\ pc' = pc /\ call' = call
        /\ scoring' = scoring /\ ticket' = ticket /\ reply' = reply
    BY <1>2 DEF vars, sharedVars, localVars
  <2>2. HistoryInv'
    BY <2>1 DEF LogInv, HistoryInv, ThreadHistory, SinceIsPast, EscalationSeen, LoopSeen,
                History
  <2>3. HeldInv'
    BY <2>1 DEF LogInv, HeldInv, TicketIsMine, LoggedIsSubmitted, HeldCallsLinked, Proceeds
  <2>4. NothingRunsUnlogged'
    BY <2>1 DEF LogInv, NothingRunsUnlogged, Executions, Executing, AllowedAttempts
  <2>5. OutboundInv'
    BY <2>1 DEF LogInv, OutboundInv, CleanOutbound, Cleared
  <2>6. AllowedTellsTheTruth'
    BY <2>1 DEF LogInv, AllowedTellsTheTruth
  <2> QED
    BY <2>2, <2>3, <2>4, <2>5, <2>6 DEF LogInv
<1> QED
  BY <1>1, <1>2 DEF Next, ThreadStep

LEMMA LogInvAlways == Spec => [](TypeOK /\ LogInv)
<1>1. IInv => TypeOK
  BY DEF IInv
<1> QED
  BY <1>1, IInvAlways, InitLogInv, NextLogInv, PTL DEF Spec

\* The audit log accounts for every execution, finished or under way: whatever
\* fails after append_attempt, no tool has run without its ALLOWED attempt.
THEOREM ExecutionsAreLogged == Spec => []NothingRunsUnlogged
<1>1. LogInv => NothingRunsUnlogged
  BY DEF LogInv
<1> QED
  BY <1>1, LogInvAlways, PTL

\* Every PENDING_APPROVAL attempt names a request that was submitted for its
\* session and tool, and no other attempt of any session names it.
THEOREM HeldCallsFound == Spec => []HeldCallsLinked
<1>1. LogInv => HeldCallsLinked
  BY DEF LogInv, HeldInv
<1> QED
  BY <1>1, LogInvAlways, PTL

\* "allowed" is what the agent is told exactly when the tool ran in that call.
THEOREM RepliesAreTrue == Spec => []AllowedTellsTheTruth
<1>1. LogInv => AllowedTellsTheTruth
  BY DEF LogInv
<1> QED
  BY <1>1, LogInvAlways, PTL

\* A tool outside the baseline in the log when a call begins makes the call an
\* escalation, if it is scored.
THEOREM EscalationsStick == Spec => []EscalationSticky
<1>1. TypeOK /\ LogInv => EscalationSticky
  BY HistoryPromises DEF LogInv
<1> QED
  BY <1>1, LogInvAlways, PTL

\* A retry with changed parameters of a call that was blocked is flagged,
\* whatever calls of other tools the other threads log between.
THEOREM EvasionsAreFlagged == Spec => []EvasionRetryFlagged
<1>1. TypeOK /\ LogInv => EvasionRetryFlagged
  BY HistoryPromises DEF LogInv
<1> QED
  BY <1>1, LogInvAlways, PTL

\* So is the call that reaches the rate threshold, for any threshold.
THEOREM RepetitionsAreFlagged == Spec => []RepeatsFlagged
<1>1. TypeOK /\ LogInv => RepeatsFlagged
  BY HistoryPromises DEF LogInv
<1> QED
  BY <1>1, LogInvAlways, PTL

\* The detectors' unlocked reads let through at most one clean outbound call per
\* further thread, for any number of threads and any threshold.
THEOREM OvershootIsBounded == Spec => []OutboundOvershootBounded
<1>1. TypeOK /\ LogInv => OutboundOvershootBounded
  <2> SUFFICES ASSUME TypeOK, LogInv, NEW s \in Sessions
               PROVE  Cardinality(CleanOutbound(s))
                        <= (OutboundThreshold - 1) + (Cardinality(Threads) - 1)
    BY DEF OutboundOvershootBounded, CleanOutbound
  <2>1. Cardinality(CleanOutbound(s)) + Cardinality(Cleared(s))
          <= (OutboundThreshold - 1) + (Cardinality(Threads) - 1)
    BY DEF LogInv, OutboundInv
  <2>2. Cardinality(Cleared(s)) \in Nat /\ Cardinality(Threads) \in Nat
    <3>1. Cleared(s) \subseteq Threads
      BY DEF Cleared
    <3> QED
      BY <3>1, InterceptorAssumption, FS_Subset, FS_CardinalityType
  <2>3. Cardinality(CleanOutbound(s)) \in Nat
    <3>1. log[s] \in Seq(Attempts) /\ CleanOutbound(s) = Positions(log[s], CleanAttempts)
      BY CleanPositions DEF TypeOK
    <3> QED
      BY <3>1, PositionsFinite
  <2> QED
    BY <2>1, <2>2, <2>3, DetectorAssumption
<1> QED
  BY <1>1, LogInvAlways, PTL

-----------------------------------------------------------------------------
(***************************************************************************)
(* The audit contract.                                                     *)
(***************************************************************************)

\* The trail of a log with one more attempt.
LEMMA TrailAppend ==
  ASSUME NEW h \in Seq(Attempts), NEW a \in Attempts
  PROVE  Trail(Append(h, a)) = Append(Trail(h), Entry(a))
<1> DEFINE g == Append(h, a)
           n == Len(h)
           E == {Entry(b) : b \in Attempts}
<1>1. /\ n \in Nat /\ DOMAIN h = 1..n /\ DOMAIN g = 1..(n + 1)
      /\ g[n + 1] = a /\ \A i \in 1..n : g[i] = h[i] /\ h[i] \in Attempts
  BY AppendExtends DEF Extends
<1> HIDE DEF g, n
<1>2. Trail(h) \in Seq(E) /\ Len(Trail(h)) = n /\ \A i \in 1..n : Trail(h)[i] = Entry(h[i])
  <2>1. Trail(h) = [i \in 1..n |-> Entry(h[i])]
    BY <1>1 DEF Trail
  <2>2. \A i \in 1..n : Entry(h[i]) \in E
    BY <1>1
  <2> HIDE DEF E
  <2> QED
    BY <1>1, <2>1, <2>2
<1>3. Entry(a) \in E
  OBVIOUS
<1> HIDE DEF E
<1>4. /\ Append(Trail(h), Entry(a)) \in Seq(E)
      /\ Len(Append(Trail(h), Entry(a))) = n + 1
      /\ Append(Trail(h), Entry(a))[n + 1] = Entry(a)
      /\ \A i \in 1..n : Append(Trail(h), Entry(a))[i] = Entry(h[i])
  BY <1>1, <1>2, <1>3
<1>5. Trail(g) = [i \in 1..(n + 1) |-> Entry(g[i])]
  BY <1>1 DEF Trail
<1>6. \A i \in 1..(n + 1) : Append(Trail(h), Entry(a))[i] = Entry(g[i])
  <2> SUFFICES ASSUME NEW i \in 1..(n + 1)
               PROVE  Append(Trail(h), Entry(a))[i] = Entry(g[i])
    OBVIOUS
  <2>1. CASE i = n + 1
    BY <1>1, <1>4, <2>1
  <2>2. CASE i \in 1..n
    BY <1>1, <1>4, <2>2
  <2>3. i = n + 1 \/ i \in 1..n
    BY <1>1
  <2> QED
    BY <2>1, <2>2, <2>3
<1>7. Append(Trail(h), Entry(a)) = [i \in 1..(n + 1) |-> Append(Trail(h), Entry(a))[i]]
  <2> DEFINE R == Append(Trail(h), Entry(a))
  <2>1. R \in Seq(E) /\ Len(R) = n + 1
    BY <1>4
  <2> HIDE DEF R
  <2>2. R = [i \in 1..(n + 1) |-> R[i]]
    BY <1>1, <2>1
  <2> QED
    BY <2>2 DEF R
<1> QED
  BY <1>5, <1>6, <1>7 DEF g

\* A step is seen by the readers of the trail when it logs, submits or runs.
LEMMA AuditShape ==
  ASSUME NEW t \in Threads, ThreadStep(t), TypeOK
  PROVE  \/ UNCHANGED <<log, held, runs>>
         \/ Logging(t) /\ UNCHANGED <<held, runs>>
         \/ SubmitHeld(t) /\ UNCHANGED <<log, runs>>
         \/ Execute(t) /\ UNCHANGED <<log, held>>
<1>1. log' = log \/ Logging(t)
  BY StepShape
<1>2. CASE SubmitHeld(t)
  BY <1>2 DEF SubmitHeld
<1>3. CASE Execute(t)
  BY <1>3 DEF Execute
<1>4. CASE ~SubmitHeld(t) /\ ~Execute(t)
  <2>1. held' = held /\ runs' = runs
    BY <1>4 DEF ThreadStep, Step, StartScoring, Reject, Begin, ScoreEscalation, ScoreLoopRate,
       ScoreExfiltration, Score, FinishScoring, ScoringFails, RaiseUnregistered, LogAllowed,
       LogBlocked, LogHeld, BypassOpen, BypassClosed, AppendFails, sharedVars
  <2> QED
    BY <1>1, <2>1
<1> QED
  BY <1>2, <1>3, <1>4

\* Logging a call records its verdict, and for a held one its request.
LEMMA LoggingMeetsContract ==
  ASSUME IInv, LogInv, NEW t \in Threads, Logging(t), UNCHANGED <<held, runs>>
  PROVE  Audit!ContractNext
<1> DEFINE s == call[t].session
           x == call[t].tool
           T == [z \in Sessions |-> Trail(log[z])]
<1>1. /\ s \in Sessions /\ Attempt(t) \in Attempts /\ log[s] \in Seq(Attempts)
      /\ log'[s] = Append(log[s], Attempt(t))
      /\ \A z \in Sessions : z # s => log'[z] = log[z]
  BY LoggedWhere
<1>2. x \in Tools
  BY LoggedWhere DEF Calls
<1>3. TicketIsMine(t)
  BY DEF LogInv, HeldInv
<1>4. Entry(Attempt(t)) = [tool |-> x, outcome |-> Verdict(t), request |-> ticket[t]]
  BY DEF Entry, Attempt
<1>5. T' = [T EXCEPT ![s] = Append(@, Entry(Attempt(t)))]
  <2>1. Trail(log'[s]) = Append(Trail(log[s]), Entry(Attempt(t)))
    BY <1>1, TrailAppend
  <2>2. T' = [z \in Sessions |-> Trail(log'[z])]
    OBVIOUS
  <2>3. \A z \in Sessions : Trail(log'[z]) = IF z = s THEN Append(T[s], Entry(Attempt(t))) ELSE T[z]
    BY <1>1, <2>1
  <2> HIDE DEF s
  <2> QED
    BY <2>2, <2>3
<1>6. [z \in Sessions |-> [y \in Tools |-> Executions(z, y)]]'
        = [z \in Sessions |-> [y \in Tools |-> Executions(z, y)]]
  BY DEF Executions
<1>7. ASSUME NEW outcome, Verdict(t) = outcome, NEW r, ticket[t] = r
      PROVE  Audit!Record(s, x, outcome, r)
  BY <1>4, <1>5, <1>6, <1>7 DEF Audit!Record
<1>8. CASE pc[t] = "holding"
  <2>1. /\ ticket[t] \in Requests /\ held[ticket[t]] = [session |-> s, tool |-> x]
        /\ \A z \in Sessions : \A i \in DOMAIN log[z] : log[z][i].request # ticket[t]
    BY <1>3, <1>8 DEF TicketIsMine
  <2>2. Verdict(t) = "pending_approval"
    BY <1>8 DEF Verdict
  <2>3. ~Audit!Recorded(ticket[t])
    BY <2>1 DEF Audit!Recorded, Trail, Entry
  <2>4. Audit!RecordHeld(s, x, ticket[t])
    BY <1>7, <2>1, <2>2, <2>3 DEF Audit!RecordHeld
  <2> HIDE DEF s, x
  <2> QED
    BY <1>1, <1>2, <2>1, <2>4 DEF Audit!ContractNext
<1>9. CASE pc[t] # "holding"
  <2>1. ticket[t] = NoRequest
    BY <1>3, <1>9 DEF TicketIsMine
  <2>2. Verdict(t) \in {"allowed", "blocked"}
    BY <1>9 DEF Verdict
  <2>3. Audit!Decide(s, x)
    BY <1>7, <2>1, <2>2 DEF Audit!Decide
  <2> HIDE DEF s, x
  <2> QED
    BY <1>1, <1>2, <2>3 DEF Audit!ContractNext
<1> QED
  BY <1>8, <1>9

\* A submission, whatever interrupts it, puts its call into the queue.
LEMMA SubmissionMeetsContract ==
  ASSUME IInv, NEW t \in Threads, SubmitHeld(t), UNCHANGED <<log, runs>>
  PROVE  Audit!ContractNext
<1>1. PICK r \in Requests :
        /\ held[r] = NoRequest
        /\ held' = [held EXCEPT ![r] = [session |-> call[t].session, tool |-> call[t].tool]]
  BY DEF SubmitHeld
<1>2. call[t].session \in Sessions /\ call[t].tool \in Tools
  BY DEF SubmitHeld, MayDecide, IInv, ThreadInv, CallPresent, Calls
<1>3. Audit!Hold(call[t].session, call[t].tool, r)
  BY <1>1 DEF Audit!Hold, Executions
<1> QED
  BY <1>2, <1>3 DEF Audit!ContractNext

\* The contract counts as the log does.
LEMMA AuditCounts ==
  ASSUME NEW S
  PROVE  Audit!Cardinality(S) = Cardinality(S)
BY DEF Audit!Cardinality, Cardinality

\* A tool runs on a verdict that no other run has used, nor a thread is about to.
LEMMA ExecutionMeetsContract ==
  ASSUME IInv, LogInv, NEW t \in Threads, ThreadStep(t), Execute(t), UNCHANGED <<log, held>>
  PROVE  Audit!ContractNext
<1> DEFINE Ran == [z \in Sessions |-> [y \in Tools |-> Executions(z, y)]]
<1>1. PICK s \in Sessions, x \in Tools : s = call[t].session /\ x = call[t].tool
  BY DEF Execute, IInv, ThreadInv, CallPresent, Calls
<1>2. /\ Executions(s, x) \in Nat /\ Executions(s, x)' = Executions(s, x) + 1
      /\ \A z \in Sessions, y \in Tools :
           ~(z = s /\ y = x) => Executions(z, y)' = Executions(z, y)
  <2>1. Executions(s, x) \in Nat /\ Executions(s, x)' = Executions(s, x) + 1
    BY <1>1, ExecutionsStep
  <2>2. ASSUME NEW z \in Sessions, NEW y \in Tools, ~(z = s /\ y = x)
        PROVE  Executions(z, y)' = Executions(z, y)
    BY <1>1, <2>2, ExecutionsStep
  <2> QED
    BY <2>1, <2>2
<1>3. Executions(s, x) + Cardinality(Executing(s, x)) <= Cardinality(AllowedAttempts(s, x))
  BY <1>1 DEF LogInv, NothingRunsUnlogged
<1>4. Cardinality(Executing(s, x)) \in Nat /\ Cardinality(Executing(s, x)) >= 1
  <2>1. t \in Executing(s, x)
    BY <1>1 DEF Executing, Execute
  <2>2. Executing(s, x) \subseteq Threads
    BY DEF Executing
  <2>3. {t} \subseteq Executing(s, x)
    BY <2>1
  <2>4. IsFiniteSet(Executing(s, x)) /\ Cardinality(Executing(s, x)) \in Nat
    BY <2>2, InterceptorAssumption, FS_Subset, FS_CardinalityType
  <2>5. Cardinality({t}) = 1
    BY FS_Singleton
  <2> QED
    BY <2>3, <2>4, <2>5, FS_Subset
<1>5. Cardinality(AllowedAttempts(s, x)) \in Nat
  <2>1. log[s] \in Seq(Attempts) /\ AllowedAttempts(s, x) = Positions(log[s], AllowedOf(x))
    BY <1>1, AllowedPositions DEF IInv, TypeOK
  <2> QED
    BY <2>1, PositionsFinite
<1>6. Executions(s, x) < Cardinality(AllowedAttempts(s, x))
  BY <1>2, <1>3, <1>4, <1>5
<1>7. Audit!Permits(s, x) = AllowedAttempts(s, x)
  BY <1>1 DEF Audit!Permits, AllowedAttempts, Trail, Entry
<1>8. Ran[s][x] < Audit!Cardinality(Audit!Permits(s, x))
  BY <1>1, <1>6, <1>7, AuditCounts
<1>9. Ran' = [Ran EXCEPT ![s][x] = @ + 1]
  <2>1. Ran' = [z \in Sessions |-> [y \in Tools |-> Executions(z, y)']]
    OBVIOUS
  <2>2. ASSUME NEW z \in Sessions, NEW y \in Tools
        PROVE  Executions(z, y)' = IF z = s /\ y = x THEN Ran[s][x] + 1 ELSE Ran[z][y]
    BY <1>1, <1>2
  <2>3. Ran[s] = [y \in Tools |-> Ran[s][y]]
    BY <1>1
  <2>4. Ran' = [z \in Sessions |-> [y \in Tools |->
                  IF z = s /\ y = x THEN Ran[s][x] + 1 ELSE Ran[z][y]]]
    BY <2>1, <2>2
  <2>5. DOMAIN Ran = Sessions /\ \A z \in Sessions : Ran[z] = [y \in Tools |-> Ran[z][y]]
    OBVIOUS
  <2> HIDE DEF Ran
  <2> QED
    BY <1>1, <2>4, <2>5
<1>10. Audit!Run(s, x)
  <2>1. UNCHANGED <<[z \in Sessions |-> Trail(log[z])], held>>
    OBVIOUS
  <2> QED
    BY <1>8, <1>9, <2>1 DEF Audit!Run
<1> QED
  BY <1>1, <1>10 DEF Audit!ContractNext

LEMMA InitMeetsContract == Init => Audit!ContractInit
<1> SUFFICES ASSUME Init PROVE Audit!ContractInit
  OBVIOUS
<1>1. \A s \in Sessions : Trail(log[s]) = <<>>
  BY DEF Init, Trail
<1>2. \A s \in Sessions, x \in Tools : Executions(s, x) = 0
  BY DEF Init, Executions, Grounds
<1> QED
  BY <1>1, <1>2 DEF Audit!ContractInit, Init

LEMMA StepMeetsContract ==
  IInv /\ LogInv /\ [Next]_vars => [Audit!ContractNext]_(Audit!contractVars)
<1> SUFFICES ASSUME IInv, LogInv, [Next]_vars
             PROVE  Audit!ContractNext \/ UNCHANGED Audit!contractVars
  OBVIOUS
<1>1. ASSUME UNCHANGED <<log, held, runs>> PROVE UNCHANGED Audit!contractVars
  BY <1>1 DEF Audit!contractVars, Executions
<1>2. ASSUME NEW t \in Threads, ThreadStep(t)
      PROVE  Audit!ContractNext \/ UNCHANGED Audit!contractVars
  BY <1>1, <1>2, AuditShape, LoggingMeetsContract, SubmissionMeetsContract,
     ExecutionMeetsContract DEF IInv
<1>3. CASE UNCHANGED vars
  BY <1>1, <1>3 DEF vars, sharedVars
<1> QED
  BY <1>2, <1>3 DEF Next, ThreadStep

\* intercept_and_call implements the audit contract, for any threads, sessions,
\* tools and failures: trail, queue and executions change as if calls came one
\* by one, each recorded before it runs and queued before it is recorded.
THEOREM AuditTrailMeetsContract == Spec => MeetsContract
<1>1. Spec => []IInv /\ [](TypeOK /\ LogInv)
  BY IInvAlways, LogInvAlways
<1>2. Init => Audit!ContractInit
  BY InitMeetsContract
<1>3. IInv /\ LogInv /\ [Next]_vars => [Audit!ContractNext]_(Audit!contractVars)
  BY StepMeetsContract
<1> QED
  BY <1>1, <1>2, <1>3, PTL DEF Spec, MeetsContract, Audit!ContractSpec
============================================================================
