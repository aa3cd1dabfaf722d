------------------------------- MODULE ApiProofs -------------------------------
(***************************************************************************)
(* What holds of Api for every number of sessions, threads, requests,      *)
(* restarts and of any check interval.  ApiInv is the inductive invariant: *)
(* types, what each request under way knows, that the sessions of this     *)
(* process, also those about to be stored, have no held call in the log    *)
(* that the queue of this process does not know, and that no fewer calls   *)
(* were logged since the drift loop read a session than the store gained.  *)
(***************************************************************************)
EXTENDS Api, TLAPS

\* The queue knows the request of a held call.
Known(attempt, queue) ==
  attempt.outcome = "pending_approval" =>
    attempt.request \in Requests /\ queue[attempt.request] # "absent"

\* The locals of a request: its session was drawn, and is in nobody else's hands
\* until its representation is stored; a held call was submitted before.
JobOK(t) ==
  /\ pc[t] \in {"starting", "half_started", "logging", "pushed"} => job[t].session \in used
  /\ pc[t] \in {"judging", "moved"} => job[t].session \in Sessions /\ job[t].text \in Texts
  /\ pc[t] = "starting" =>
       /\ job[t].session \notin Tracked
       /\ \A u \in Threads \ {t} : pc[u] = "starting" => job[u].session # job[t].session
  /\ pc[t] = "half_started" => job[t].session \in Tracked
  /\ pc[t] = "logging" => job[t].attempt \in Attempts /\ Known(job[t].attempt, outcome)

\* Sessions of this process, ready or about to be.
Ours(s) == s \in Tracked \/ \E t \in Threads : pc[t] = "starting" /\ job[t].session = s

HeldCallsKnown ==
  \A s \in Sessions : Ours(s) => \A i \in DOMAIN log[s] : Known(log[s][i], outcome)

OnlyUsed ==
  /\ Tracked \subseteq used /\ issued \subseteq Tracked /\ issued \subseteq typed
  /\ \A s \in Sessions \ used : log[s] = <<>>

Jobs == job = [t \in Threads |-> job[t]] /\ \A t \in Threads : JobOK(t)

\* What the loop has read: the sessions in the order of the dictionary, each
\* once, and none of a session that is not stored.
TrackedOnce == \A i, j \in DOMAIN tracked : tracked[i] = tracked[j] => i = j

ReadOnce == \A i, j \in DOMAIN snapshot : snapshot[i].session = snapshot[j].session => i = j

ReadInOrder ==
  /\ loop = "scanning" =>
       /\ size <= Len(tracked) /\ Len(snapshot) <= Len(tracked)
       /\ \A i \in DOMAIN snapshot : snapshot[i].session = tracked[i]
  /\ \A i \in DOMAIN snapshot : snapshot[i].session \in Tracked
  /\ loop \notin {"scanning", "checking"} => snapshot = <<>>

Covers(count, calls) == count = CheckInterval \/ count >= calls

Pending(s) == \E i \in DOMAIN snapshot : snapshot[i].session = s

\* The calls logged since a session was last read are no fewer than the store
\* has gained since then, and those up to its entry no fewer than the store had
\* gained over the last check.
UnreadCounted ==
  loop \notin {"store_failed", "dict_changed"} =>
    \A s \in Sessions : Ours(s) =>
      /\ ~Pending(s) => Covers(unread[s], Len(log[s]) - lastChecked[s])
      /\ \A i \in DOMAIN snapshot : snapshot[i].session = s =>
           /\ Covers(snapshot[i].unread, snapshot[i].calls - lastChecked[s])
           /\ Covers(unread[s], Len(log[s]) - snapshot[i].calls)

Reading == TrackedOnce /\ ReadOnce /\ ReadInOrder /\ UnreadCounted

ApiInv == TypeOK /\ Jobs /\ OnlyUsed /\ HeldCallsKnown /\ RetentionBounded /\ Reading

USE ApiAssumption, TextAssumption, SchedulerAssumption

-----------------------------------------------------------------------------
\* Init.

LEMMA InitApiInv == Init => ApiInv
<1> SUFFICES ASSUME Init PROVE ApiInv
  OBVIOUS
<1> USE DEF Init, StoreInit, TaskInit, DriftInit, Queue!ContractInit
<1>1. TypeOK
  BY DEF TypeOK, LoopStates, PcValues
<1>2. Tracked = {}
  BY DEF Tracked
<1>3. Jobs /\ OnlyUsed /\ HeldCallsKnown /\ RetentionBounded
  BY <1>2 DEF Jobs, JobOK, OnlyUsed, HeldCallsKnown, Ours, RetentionBounded, Stored
<1>4. Reading
  BY <1>2 DEF Reading, TrackedOnce, ReadOnce, ReadInOrder, UnreadCounted, Ours
<1>5. QED
  BY <1>1, <1>3, <1>4 DEF ApiInv

-----------------------------------------------------------------------------
\* Types.

LEMMA StartSessionType == ASSUME ApiInv, NEW t \in Threads, StartSession(t) PROVE TypeOK'
BY DEF ApiInv, TypeOK, StartSession, GoTo, PcValues, storeVars, taskVars, driftVars, loopVars

LEMMA StoreRepresentationType ==
  ASSUME ApiInv, NEW t \in Threads, StoreRepresentation(t) PROVE TypeOK'
<1>1. job[t].session \in Sessions
  BY DEF ApiInv, TypeOK, Jobs, JobOK, StoreRepresentation
<1>2. tracked' \in Seq(Sessions)
  BY <1>1 DEF ApiInv, TypeOK, StoreRepresentation
<1>3. anchor' \in [Sessions -> Texts] /\ vector' \in [Sessions -> Texts] /\ index' \in [Sessions -> Nat]
  BY DEF ApiInv, TypeOK, StoreRepresentation, StartTask
<1>4. pc' \in [Threads -> PcValues]
  BY DEF ApiInv, TypeOK, StoreRepresentation, GoTo, PcValues
<1>5. QED
  BY <1>2, <1>3, <1>4 DEF ApiInv, TypeOK, StoreRepresentation, storeVars, driftVars, loopVars

LEMMA StoreTypeType == ASSUME ApiInv, NEW t \in Threads, StoreType(t) PROVE TypeOK'
<1>1. job[t].session \in Sessions
  BY DEF ApiInv, TypeOK, Jobs, JobOK, StoreType
<1>2. QED
  BY <1>1 DEF ApiInv, TypeOK, StoreType, Leave, GoTo, PcValues, storeVars, taskVars, driftVars, loopVars

LEMMA BeginTurnType == ASSUME ApiInv, NEW t \in Threads, BeginTurn(t) PROVE TypeOK'
BY DEF ApiInv, TypeOK, BeginTurn, GoTo, PcValues, storeVars, taskVars, driftVars, loopVars, sessionVars

LEMMA EmbedTurnType == ASSUME ApiInv, NEW t \in Threads, EmbedTurn(t) PROVE TypeOK'
<1>1. job[t].session \in Sessions /\ job[t].text \in Texts
  BY DEF ApiInv, Jobs, JobOK, EmbedTurn
<1>2. QED
  BY <1>1 DEF ApiInv, TypeOK, EmbedTurn, MoveVector, GoTo, PcValues, storeVars, driftVars, loopVars, sessionVars

LEMMA FinishTurnType == ASSUME ApiInv, NEW t \in Threads, FinishTurn(t) PROVE TypeOK'
<1>1. job[t].session \in Sessions /\ job[t].text \in Texts
  BY DEF ApiInv, Jobs, JobOK, FinishTurn
<1>2. anchor' \in [Sessions -> Texts] /\ index' \in [Sessions -> Nat] /\ vector' = vector
  <2>1. anchor \in [Sessions -> Texts] /\ index \in [Sessions -> Nat]
    BY DEF ApiInv, TypeOK
  <2>2. PICK new : Advance(job[t].session, job[t].text, new)
    BY DEF FinishTurn
  <2>3. QED
    BY <1>1, <2>1, <2>2 DEF Advance
<1>3. pc' \in [Threads -> PcValues]
  BY DEF ApiInv, TypeOK, FinishTurn, Leave, GoTo, PcValues
<1>4. QED
  BY <1>2, <1>3 DEF ApiInv, TypeOK, FinishTurn, storeVars, driftVars, loopVars, sessionVars

LEMMA InterceptType == ASSUME ApiInv, NEW t \in Threads, Intercept(t) PROVE TypeOK'
BY DEF ApiInv, TypeOK, Intercept, Queue!Queue, GoTo, PcValues, storeVars, taskVars, driftVars, loopVars,
       sessionVars

LEMMA PushType ==
  ASSUME log \in [Sessions -> Seq(Attempts)], NEW s \in Sessions, NEW a \in Attempts, Push(s, a)
  PROVE  log' \in [Sessions -> Seq(Attempts)]
<1>1. Append(log[s], a) \in Seq(Attempts)
  OBVIOUS
<1>2. QED
  BY <1>1 DEF Push

LEMMA NoteCallType ==
  ASSUME unread \in [Sessions -> 0..CheckInterval], NEW s \in Sessions, NoteCall(s)
  PROVE  /\ unread' \in [Sessions -> 0..CheckInterval]
         /\ \A u \in Sessions \ {s} : unread'[u] = unread[u]
         /\ \A n \in Int : Covers(unread[s], n) => Covers(unread'[s], n + 1)
<1>1. unread[s] \in 0..CheckInterval /\ CheckInterval \in Nat
  OBVIOUS
<1>2. UpToInterval(unread[s] + 1) \in 0..CheckInterval
  BY <1>1 DEF UpToInterval
<1>3. \A n \in Int : Covers(unread[s], n) => Covers(UpToInterval(unread[s] + 1), n + 1)
  BY <1>1 DEF UpToInterval, Covers
<1>4. QED
  BY <1>2, <1>3 DEF NoteCall

LEMMA PushAttemptType == ASSUME ApiInv, NEW t \in Threads, PushAttempt(t) PROVE TypeOK'
<1>1. job[t].session \in Sessions /\ job[t].attempt \in Attempts
  BY DEF ApiInv, TypeOK, Jobs, JobOK, PushAttempt
<1>2. log' \in [Sessions -> Seq(Attempts)]
  BY <1>1, PushType DEF ApiInv, TypeOK, PushAttempt
<1>3. unread' \in [Sessions -> 0..CheckInterval]
  BY <1>1, NoteCallType DEF ApiInv, TypeOK, PushAttempt
<1>4. QED
  BY <1>2, <1>3 DEF ApiInv, TypeOK, PushAttempt, Push, GoTo, PcValues, taskVars, driftVars, loopVars, sessionVars

LEMMA RefreshKeyType == ASSUME ApiInv, NEW t \in Threads, RefreshKey(t) PROVE TypeOK'
BY DEF ApiInv, TypeOK, RefreshKey, Refresh, Stored, Leave, GoTo, PcValues, taskVars, driftVars, loopVars,
       sessionVars

LEMMA AppendFailsType == ASSUME ApiInv, NEW t \in Threads, AppendFails(t) PROVE TypeOK'
<1>1. job[t].session \in Sessions /\ (pc[t] = "logging" => job[t].attempt \in Attempts)
  BY DEF ApiInv, TypeOK, Jobs, JobOK, AppendFails
<1>2. log' \in [Sessions -> Seq(Attempts)]
  BY <1>1, PushType DEF ApiInv, TypeOK, AppendFails, storeVars
<1>3. unread' \in [Sessions -> 0..CheckInterval]
  BY <1>1, NoteCallType DEF ApiInv, TypeOK, AppendFails
<1>4. QED
  BY <1>1, <1>2, <1>3 DEF ApiInv, TypeOK, AppendFails, Push, Leave, GoTo, PcValues, taskVars, driftVars, loopVars,
                    sessionVars, storeVars

LEMMA ResolveRequestType == ASSUME ApiInv, ResolveRequest PROVE TypeOK'
BY DEF ApiInv, TypeOK, ResolveRequest, Queue!Resolve, storeVars, taskVars, driftVars, loopVars, sessionVars,
       threadVars

LEMMA ExpireType == ASSUME ApiInv, Expire PROVE TypeOK'
BY DEF ApiInv, TypeOK, Expire, KeyExpires, taskVars, driftVars, loopVars, sessionVars, threadVars

LEMMA RestartType == ASSUME ApiInv, Restart PROVE TypeOK'
<1>1. \A t \in Threads : pc[t] = "pushed" => job[t].session \in Sessions
  BY DEF ApiInv, TypeOK, Jobs, JobOK
<1>2. QED
  BY <1>1 DEF ApiInv, TypeOK, Restart, LoseTasks, LoseScheduler, LoseQueue, PcValues, LoopStates,
              storeVars

\* The first entry of a non-empty snapshot.
LEMMA HeadInSet == ASSUME NEW S, NEW q \in Seq(S), q # <<>> PROVE Head(q) \in S
OBVIOUS

\* The dictionary has a next session while one is to be read.
LEMMA NextToScan ==
  ASSUME TypeOK, Reading, MoreToScan(tracked)
  PROVE  Len(snapshot) + 1 \in 1..Len(tracked)
<1>1. tracked \in Seq(Sessions) /\ snapshot \in Seq(Entries) /\ size \in Nat
  BY DEF TypeOK
<1>2. Len(tracked) \in Nat /\ Len(snapshot) \in Nat
  BY <1>1
<1>3. Len(snapshot) < size /\ size <= Len(tracked)
  BY DEF Reading, ReadInOrder, MoreToScan
<1>4. QED
  BY <1>1, <1>2, <1>3

LEMMA DriftType == ASSUME ApiInv, Drift PROVE TypeOK'
<1> USE DEF TypeOK, LoopStates, EndLoop
<1>1. TypeOK /\ UNCHANGED <<storeVars, taskVars, sessionVars, outcome, threadVars, orphans, turns, restarts>>
  BY DEF ApiInv, Drift
<1>2. CASE BeginPass(tracked)
  BY <1>1, <1>2 DEF BeginPass, storeVars, taskVars, sessionVars, threadVars
<1>3. CASE ScanInterrupted(tracked)
  BY <1>1, <1>3 DEF ScanInterrupted, storeVars, taskVars, sessionVars, threadVars
<1>4. CASE ScanSession(tracked, log)
  <2>1. tracked # <<>> => \A n \in 1..Len(tracked) : tracked[n] \in Sessions
    BY <1>1
  <2>2. Len(snapshot) + 1 \in 1..Len(tracked)
    BY <1>1, <1>4, NextToScan DEF ApiInv, ScanSession
  <2> DEFINE s == tracked[Len(snapshot) + 1]
  <2>3. s \in Sessions /\ Len(log[s]) \in Nat /\ unread[s] \in 0..CheckInterval
    BY <1>1, <2>1, <2>2
  <2>4. [session |-> s, calls |-> Len(log[s]), unread |-> unread[s]] \in Entries
    BY <2>3 DEF Entries
  <2>5. snapshot' \in Seq(Entries) /\ unread' \in [Sessions -> 0..CheckInterval]
    BY <1>1, <1>4, <2>3, <2>4 DEF ScanSession, Entries
  <2>6. QED
    BY <1>1, <1>4, <2>5 DEF ScanSession, Entries, storeVars, taskVars, sessionVars, threadVars
<1>5. CASE ScanFails(tracked)
  BY <1>1, <1>5 DEF ScanFails, storeVars, taskVars, sessionVars, threadVars
<1>6. CASE EndScan(tracked)
  BY <1>1, <1>6 DEF EndScan, storeVars, taskVars, sessionVars, threadVars
<1>7. CASE RunOnce
  <2>1. snapshot \in Seq(Entries) /\ snapshot # <<>>
    BY <1>1, <1>7 DEF RunOnce, Entries
  <2>2. snapshot' \in Seq(Entries)
    BY <1>7, <2>1 DEF RunOnce
  <2> DEFINE entry == Head(snapshot)
             s == entry.session
  <2>3. entry \in Entries
    BY <2>1, HeadInSet
  <2>4. /\ s \in Sessions /\ entry.calls \in Nat /\ entry.calls # NoDecision
        /\ entry.unread \in 0..CheckInterval
    BY <2>3 DEF Entries
  <2>5. CheckDrift(s, entry) \/ KeepDecision(s, entry)
    BY <1>7 DEF RunOnce
  <2> HIDE DEF entry, s
  <2>6. /\ lastChecked' \in [Sessions -> Nat] /\ standing' \in [Sessions -> Nat \cup {NoDecision}]
        /\ unread' \in [Sessions -> 0..CheckInterval]
        /\ \A x \in Sessions :
             lastChecked'[x] = IF standing'[x] = NoDecision THEN 0 ELSE standing'[x]
    <3>1. CASE CheckDrift(s, entry)
      BY <1>1, <2>4, <3>1 DEF CheckDrift
    <3>2. CASE KeepDecision(s, entry)
      <4>1. UpToInterval(unread[s] + entry.unread) \in 0..CheckInterval
        <5>1. unread[s] \in 0..CheckInterval /\ CheckInterval \in Nat
          BY <1>1, <2>4
        <5>2. QED
          BY <2>4, <5>1 DEF UpToInterval
      <4>2. QED
        BY <1>1, <2>4, <3>2, <4>1 DEF KeepDecision
    <3>3. QED
      BY <2>5, <3>1, <3>2
  <2>7. QED
    BY <1>1, <1>7, <2>2, <2>6 DEF RunOnce, Entries, storeVars, taskVars, sessionVars, threadVars
<1>8. CASE EndPass
  BY <1>1, <1>8 DEF EndPass, storeVars, taskVars, sessionVars, threadVars
<1>9. QED
  BY <1>2, <1>3, <1>4, <1>5, <1>6, <1>7, <1>8 DEF Drift

LEMMA NextType == ASSUME ApiInv, [Next]_vars PROVE TypeOK'
<1>1. CASE UNCHANGED vars
  BY <1>1 DEF ApiInv, TypeOK, vars, storeVars, taskVars, driftVars, loopVars, sessionVars, threadVars
<1>2. CASE Next
  BY <1>2, StartSessionType, StoreRepresentationType, StoreTypeType, BeginTurnType, EmbedTurnType,
     FinishTurnType, InterceptType, PushAttemptType, RefreshKeyType, AppendFailsType,
     ResolveRequestType, ExpireType, DriftType, RestartType DEF Next, Handle
<1>3. QED
  BY <1>1, <1>2
-----------------------------------------------------------------------------
\* What requests know, and which held calls the queue knows.

\* Outside a restart no request is forgotten by the queue.
Remembered == \A r \in Requests : outcome[r] # "absent" => outcome'[r] # "absent"

LEMMA KnownStays == ASSUME Remembered, NEW a, Known(a, outcome) PROVE Known(a, outcome')
BY DEF Known, Remembered

LEMMA TrackedAreSessions == ASSUME tracked \in Seq(Sessions) PROVE Tracked \subseteq Sessions
BY DEF Tracked

\* The part of the invariant a request under way can disturb.
Work == Jobs /\ OnlyUsed /\ HeldCallsKnown

\* A step of one request after its session exists: it leaves the sessions alone
\* and logs only calls that the queue knows.
LEMMA RequestStep ==
  ASSUME ApiInv, NEW t \in Threads, NEW place, NEW locals, GoTo(t, place, locals),
         place # "starting", pc[t] # "starting", JobOK(t)', Remembered, UNCHANGED sessionVars,
         \A s \in Sessions \ used : log'[s] = log[s],
         \A s \in Sessions : \A i \in DOMAIN log'[s] :
           \/ i \in DOMAIN log[s] /\ log'[s][i] = log[s][i]
           \/ Known(log'[s][i], outcome')
  PROVE  Work'
<1>1. /\ pc'[t] = place /\ job'[t] = locals /\ job' = [u \in Threads |-> job'[u]]
      /\ \A u \in Threads \ {t} : pc'[u] = pc[u] /\ job'[u] = job[u]
  BY DEF ApiInv, TypeOK, Jobs, GoTo
<1>2. Tracked' = Tracked
  BY DEF Tracked, sessionVars
<1>3. ASSUME NEW u \in Threads \ {t} PROVE JobOK(u)'
  <2>1. JobOK(u)
    BY DEF ApiInv, Jobs
  <2>2. pc[u] = "logging" => Known(job[u].attempt, outcome')
    BY <2>1, KnownStays DEF JobOK
  <2>3. QED
    BY <1>1, <1>2, <2>1, <2>2 DEF JobOK, sessionVars
<1>4. Jobs'
  BY <1>1, <1>3 DEF Jobs
<1>5. OnlyUsed'
  BY <1>2 DEF ApiInv, OnlyUsed, sessionVars
<1>6. ASSUME NEW s \in Sessions, Ours(s)', NEW i \in DOMAIN log'[s] PROVE Known(log'[s][i], outcome')
  <2>1. Ours(s)
    BY <1>1, <1>2, <1>6 DEF Ours
  <2>2. CASE i \in DOMAIN log[s] /\ log'[s][i] = log[s][i]
    <3>1. Known(log[s][i], outcome')
      BY <2>1, <2>2, KnownStays DEF ApiInv, HeldCallsKnown
    <3>2. QED
      BY <2>2, <3>1
  <2>3. QED
    BY <1>6, <2>2
<1>7. QED
  BY <1>4, <1>5, <1>6 DEF Work, HeldCallsKnown

LEMMA BeginTurnWork == ASSUME ApiInv, NEW t \in Threads, BeginTurn(t) PROVE Work'
<1>1. PICK s \in Tracked, text \in Texts :
        GoTo(t, "judging", [session |-> s, text |-> text, anchor |-> anchor[s]])
  BY DEF BeginTurn
<1>2. s \in Sessions
  BY TrackedAreSessions DEF ApiInv, TypeOK
<1>3. JobOK(t)'
  BY <1>1, <1>2 DEF ApiInv, TypeOK, Jobs, JobOK, GoTo
<1>4. QED
  BY <1>1, <1>3, RequestStep DEF BeginTurn, Remembered, CanAccept, storeVars

LEMMA EmbedTurnWork == ASSUME ApiInv, NEW t \in Threads, EmbedTurn(t) PROVE Work'
<1>1. JobOK(t)'
  BY DEF ApiInv, TypeOK, Jobs, JobOK, EmbedTurn, GoTo
<1>2. QED
  BY <1>1, RequestStep DEF EmbedTurn, Remembered, storeVars

LEMMA FinishTurnWork == ASSUME ApiInv, NEW t \in Threads, FinishTurn(t) PROVE Work'
<1>1. JobOK(t)'
  BY DEF ApiInv, TypeOK, Jobs, JobOK, FinishTurn, Leave, GoTo
<1>2. QED
  BY <1>1, RequestStep DEF FinishTurn, Remembered, Leave, storeVars

LEMMA RefreshKeyWork == ASSUME ApiInv, NEW t \in Threads, RefreshKey(t) PROVE Work'
<1>1. JobOK(t)'
  BY DEF ApiInv, TypeOK, Jobs, JobOK, RefreshKey, Leave, GoTo
<1>2. QED
  BY <1>1, RequestStep DEF RefreshKey, Refresh, Remembered, Leave

LEMMA InterceptWork == ASSUME ApiInv, NEW t \in Threads, Intercept(t) PROVE Work'
<1>1. PICK s \in Tracked, d \in Decisions :
        \/ /\ d.outcome # "pending_approval"
           /\ GoTo(t, "logging", [session |-> s, attempt |->
                [outcome |-> d.outcome, flagged |-> d.flagged, request |-> NoRequest]])
           /\ UNCHANGED outcome
        \/ /\ d.outcome = "pending_approval"
           /\ \E r \in Requests :
                /\ Queue!Queue(r)
                /\ GoTo(t, "logging", [session |-> s, attempt |->
                     [outcome |-> d.outcome, flagged |-> d.flagged, request |-> r]])
  BY DEF Intercept
<1>2. s \in used
  BY DEF ApiInv, OnlyUsed
<1>3. [outcome |-> d.outcome, flagged |-> d.flagged, request |-> NoRequest] \in Attempts
  BY <1>1
<1>4. CASE d.outcome # "pending_approval"
  <2> DEFINE locals == [session |-> s, attempt |->
               [outcome |-> d.outcome, flagged |-> d.flagged, request |-> NoRequest]]
  <2>1. GoTo(t, "logging", locals) /\ UNCHANGED outcome
    BY <1>1, <1>4
  <2>2. JobOK(t)'
    BY <1>2, <1>3, <1>4, <2>1 DEF ApiInv, TypeOK, Jobs, JobOK, GoTo, Known, Intercept, sessionVars
  <2>3. QED
    BY <2>1, <2>2, RequestStep DEF Intercept, Remembered, CanAccept, storeVars
<1>5. CASE d.outcome = "pending_approval"
  <2>1. PICK r \in Requests :
          /\ Queue!Queue(r)
          /\ GoTo(t, "logging", [session |-> s, attempt |->
               [outcome |-> d.outcome, flagged |-> d.flagged, request |-> r]])
    BY <1>1, <1>5
  <2> DEFINE attempt == [outcome |-> d.outcome, flagged |-> d.flagged, request |-> r]
  <2>2. attempt \in Attempts
    BY <1>3 DEF Attempts
  <2>3. Known(attempt, outcome') /\ Remembered
    BY <2>1 DEF ApiInv, TypeOK, Queue!Queue, Known, Remembered
  <2>4. pc'[t] = "logging" /\ job'[t] = [session |-> s, attempt |-> attempt] /\ used' = used
    BY <2>1 DEF ApiInv, TypeOK, Jobs, GoTo, Intercept, sessionVars
  <2> HIDE DEF attempt
  <2>5. JobOK(t)'
    BY <1>2, <2>2, <2>3, <2>4 DEF JobOK
  <2>6. QED
    BY <2>1, <2>3, <2>5, RequestStep DEF Intercept, CanAccept, storeVars
<1>6. QED
  BY <1>4, <1>5

\* An attempt that is pushed is the request's own, which the queue knows.
LEMMA PushedCallKnown ==
  ASSUME ApiInv, NEW t \in Threads, pc[t] = "logging", UNCHANGED outcome,
         Push(job[t].session, job[t].attempt)
  PROVE  /\ job[t].session \in used
         /\ \A s \in Sessions \ used : log'[s] = log[s]
         /\ \A s \in Sessions : \A i \in DOMAIN log'[s] :
              \/ i \in DOMAIN log[s] /\ log'[s][i] = log[s][i]
              \/ Known(log'[s][i], outcome')
<1> DEFINE here == job[t].session
           attempt == job[t].attempt
<1>1. here \in used /\ here \in Sessions /\ attempt \in Attempts /\ Known(attempt, outcome')
  BY DEF ApiInv, TypeOK, Jobs, JobOK
<1>2. log \in [Sessions -> Seq(Attempts)] /\ log' = [log EXCEPT ![here] = Append(@, attempt)]
  BY DEF ApiInv, TypeOK, Push
<1> HIDE DEF here, attempt
<1>3. log[here] \in Seq(Attempts)
  BY <1>1, <1>2
<1>4. \A i \in DOMAIN Append(log[here], attempt) :
        \/ i \in DOMAIN log[here] /\ Append(log[here], attempt)[i] = log[here][i]
        \/ Append(log[here], attempt)[i] = attempt
  BY <1>1, <1>3
<1>5. ASSUME NEW s \in Sessions, NEW i \in DOMAIN log'[s]
      PROVE  \/ i \in DOMAIN log[s] /\ log'[s][i] = log[s][i]
             \/ Known(log'[s][i], outcome')
  <2>1. CASE s = here
    BY <1>1, <1>2, <1>4, <1>5, <2>1
  <2>2. CASE s # here
    BY <1>1, <1>2, <1>5, <2>2
  <2>3. QED
    BY <2>1, <2>2
<1>6. \A s \in Sessions \ used : log'[s] = log[s]
  BY <1>1, <1>2
<1>7. QED
  BY <1>1, <1>5, <1>6 DEF here

LEMMA PushAttemptWork == ASSUME ApiInv, NEW t \in Threads, PushAttempt(t) PROVE Work'
<1>1. JobOK(t)'
  BY PushedCallKnown DEF ApiInv, TypeOK, Jobs, JobOK, PushAttempt, GoTo, sessionVars
<1>2. QED
  BY <1>1, RequestStep, PushedCallKnown DEF PushAttempt, Remembered

LEMMA AppendFailsWork == ASSUME ApiInv, NEW t \in Threads, AppendFails(t) PROVE Work'
<1>1. JobOK(t)'
  BY DEF ApiInv, TypeOK, Jobs, JobOK, AppendFails, Leave, GoTo
<1>2. CASE UNCHANGED storeVars
  BY <1>1, <1>2, RequestStep DEF AppendFails, Remembered, Leave, storeVars
<1>3. CASE pc[t] = "logging" /\ Push(job[t].session, job[t].attempt)
  BY <1>1, <1>3, RequestStep, PushedCallKnown DEF AppendFails, Remembered, Leave
<1>4. QED
  BY <1>2, <1>3 DEF AppendFails

LEMMA StoreTypeWork == ASSUME ApiInv, NEW t \in Threads, StoreType(t) PROVE Work'
<1>1. /\ pc'[t] = "idle" /\ job' = [u \in Threads |-> job'[u]]
      /\ \A u \in Threads \ {t} : pc'[u] = pc[u] /\ job'[u] = job[u]
  BY DEF ApiInv, TypeOK, Jobs, StoreType, Leave, GoTo
<1>2. Tracked' = Tracked /\ job[t].session \in Tracked
  BY DEF ApiInv, Jobs, JobOK, Tracked, StoreType
<1>3. Jobs'
  BY <1>1, <1>2 DEF ApiInv, Jobs, JobOK, StoreType
<1>4. OnlyUsed'
  BY <1>2 DEF ApiInv, OnlyUsed, StoreType, storeVars
<1>5. \A s \in Sessions : Ours(s)' => Ours(s)
  BY <1>1, <1>2 DEF Ours
<1>6. HeldCallsKnown'
  BY <1>5 DEF ApiInv, HeldCallsKnown, StoreType, storeVars
<1>7. QED
  BY <1>3, <1>4, <1>6 DEF Work

LEMMA StoreRepresentationWork ==
  ASSUME ApiInv, NEW t \in Threads, StoreRepresentation(t) PROVE Work'
<1> DEFINE new == job[t].session
<1>1. /\ pc'[t] = "half_started" /\ job'[t] = job[t] /\ job' = [u \in Threads |-> job'[u]]
      /\ \A u \in Threads \ {t} : pc'[u] = pc[u] /\ job'[u] = job[u]
  BY DEF ApiInv, TypeOK, Jobs, StoreRepresentation, GoTo
<1>2. new \in Sessions /\ new \in used /\ pc[t] = "starting"
  BY DEF ApiInv, TypeOK, Jobs, JobOK, StoreRepresentation
<1>3. Tracked' = Tracked \cup {new}
  <2>1. tracked \in Seq(Sessions) /\ tracked' = Append(tracked, new)
    BY DEF ApiInv, TypeOK, StoreRepresentation
  <2> HIDE DEF new
  <2>2. QED
    BY <1>2, <2>1 DEF Tracked
<1>4. ASSUME NEW u \in Threads PROVE JobOK(u)'
  <2>1. JobOK(u) /\ JobOK(t)
    BY DEF ApiInv, Jobs
  <2>2. CASE u = t
    BY <1>1, <1>2, <1>3, <2>2 DEF JobOK, StoreRepresentation
  <2>3. CASE u # t
    BY <1>1, <1>2, <1>3, <2>1, <2>3 DEF JobOK, StoreRepresentation
  <2>4. QED
    BY <2>2, <2>3
<1>5. OnlyUsed'
  BY <1>2, <1>3 DEF ApiInv, OnlyUsed, StoreRepresentation, storeVars
<1>6. \A s \in Sessions : Ours(s)' => Ours(s)
  BY <1>1, <1>2, <1>3 DEF Ours
<1>7. HeldCallsKnown'
  BY <1>6 DEF ApiInv, HeldCallsKnown, StoreRepresentation, storeVars
<1>8. QED
  BY <1>1, <1>4, <1>5, <1>7 DEF Work, Jobs

LEMMA StartSessionWork == ASSUME ApiInv, NEW t \in Threads, StartSession(t) PROVE Work'
<1>1. PICK new \in Sessions \ used :
        used' = used \cup {new} /\ GoTo(t, "starting", [session |-> new])
  BY DEF StartSession
<1>2. /\ pc'[t] = "starting" /\ job'[t] = [session |-> new] /\ job' = [u \in Threads |-> job'[u]]
      /\ \A u \in Threads \ {t} : pc'[u] = pc[u] /\ job'[u] = job[u]
  BY <1>1 DEF ApiInv, TypeOK, Jobs, GoTo
<1>3. Tracked' = Tracked /\ new \notin Tracked /\ log[new] = <<>>
  BY DEF ApiInv, OnlyUsed, Tracked, StartSession
<1>4. \A u \in Threads : pc[u] = "starting" => job[u].session # new
  BY DEF ApiInv, Jobs, JobOK
<1>5. ASSUME NEW u \in Threads PROVE JobOK(u)'
  <2>1. CASE u = t
    BY <1>1, <1>2, <1>3, <1>4, <2>1 DEF JobOK
  <2>2. CASE u # t
    BY <1>1, <1>2, <1>3, <1>4, <2>2 DEF ApiInv, Jobs, JobOK, StartSession
  <2>3. QED
    BY <2>1, <2>2
<1>6. OnlyUsed'
  BY <1>1, <1>3 DEF ApiInv, OnlyUsed, StartSession, storeVars
<1>7. \A s \in Sessions : Ours(s)' => Ours(s) \/ s = new
  BY <1>2, <1>3 DEF Ours
<1>8. HeldCallsKnown'
  BY <1>3, <1>7 DEF ApiInv, HeldCallsKnown, StartSession, storeVars
<1>9. QED
  BY <1>2, <1>5, <1>6, <1>8 DEF Work, Jobs

\* The steps of nobody's request.
LEMMA OthersWork ==
  ASSUME ApiInv, ResolveRequest \/ Expire \/ Drift \/ UNCHANGED vars
  PROVE  Work'
<1>1. UNCHANGED <<sessionVars, threadVars>>
  BY DEF ResolveRequest, Expire, Drift, vars
<1>2. Remembered
  BY DEF ApiInv, TypeOK, ResolveRequest, Queue!Resolve, Expire, Drift, vars, Remembered
<1>3. \A s \in Sessions : log'[s] = log[s] \/ log'[s] = <<>>
  BY DEF ApiInv, TypeOK, ResolveRequest, Expire, KeyExpires, Drift, vars, storeVars
<1>4. Tracked' = Tracked
  BY <1>1 DEF Tracked, sessionVars
<1>5. ASSUME NEW t \in Threads PROVE JobOK(t)'
  <2>1. JobOK(t)
    BY DEF ApiInv, Jobs
  <2>2. pc[t] = "logging" => Known(job[t].attempt, outcome')
    BY <1>2, <2>1, KnownStays DEF JobOK
  <2>3. QED
    BY <1>1, <1>4, <2>1, <2>2 DEF JobOK, sessionVars, threadVars
<1>6. Jobs' /\ OnlyUsed'
  BY <1>1, <1>3, <1>4, <1>5 DEF ApiInv, Jobs, OnlyUsed, sessionVars, threadVars
<1>7. ASSUME NEW s \in Sessions, Ours(s)', NEW i \in DOMAIN log'[s]
      PROVE  Known(log'[s][i], outcome')
  <2>1. Ours(s)
    BY <1>1, <1>4, <1>7 DEF Ours, threadVars
  <2>2. log'[s] = log[s]
    BY <1>3, <1>7
  <2>3. QED
    BY <1>2, <1>7, <2>1, <2>2, KnownStays DEF ApiInv, HeldCallsKnown
<1>8. QED
  BY <1>6, <1>7 DEF Work, HeldCallsKnown

LEMMA RestartWork == ASSUME ApiInv, Restart PROVE Work'
<1>1. Tracked' = {} /\ \A t \in Threads : pc'[t] = "idle"
  BY DEF Restart, Tracked
<1>2. QED
  BY <1>1 DEF ApiInv, Restart, Work, Jobs, JobOK, OnlyUsed, HeldCallsKnown, Ours, storeVars

LEMMA NextWork == ASSUME ApiInv, [Next]_vars PROVE Work'
BY StartSessionWork, StoreRepresentationWork, StoreTypeWork, BeginTurnWork, EmbedTurnWork,
   FinishTurnWork, InterceptWork, PushAttemptWork, RefreshKeyWork, AppendFailsWork, OthersWork,
   RestartWork DEF Next, Handle

-----------------------------------------------------------------------------
\* Every key without a TTL has an append to it under way or cut short.

\* A step that leaves the store alone, and appends under way or cut short so.
LEMMA RetentionStays ==
  ASSUME RetentionBounded, UNCHANGED storeVars, orphans \subseteq orphans',
         \A t \in Threads : pc[t] = "pushed" =>
           \/ pc'[t] = "pushed" /\ job'[t].session = job[t].session
           \/ job[t].session \in orphans'
  PROVE  RetentionBounded'
BY DEF RetentionBounded, Stored, storeVars

LEMMA PushedStaysPushed ==
  ASSUME ApiInv, NEW t \in Threads, NEW place, NEW locals, GoTo(t, place, locals),
         pc[t] # "pushed"
  PROVE  \A u \in Threads : pc[u] = "pushed" => pc'[u] = "pushed" /\ job'[u] = job[u]
BY DEF ApiInv, TypeOK, Jobs, GoTo

LEMMA SilentRetention ==
  ASSUME ApiInv, NEW t \in Threads,
         StartSession(t) \/ StoreRepresentation(t) \/ StoreType(t) \/ BeginTurn(t)
           \/ EmbedTurn(t) \/ FinishTurn(t) \/ Intercept(t)
  PROVE  RetentionBounded'
<1>1. UNCHANGED <<storeVars, orphans>> /\ pc[t] # "pushed"
  BY DEF StartSession, StoreRepresentation, StoreType, BeginTurn, EmbedTurn, FinishTurn, Intercept,
         CanAccept
<1>2. \E place, locals : GoTo(t, place, locals)
  BY DEF StartSession, StoreRepresentation, StoreType, BeginTurn, EmbedTurn, FinishTurn, Intercept,
         Leave
<1>3. QED
  BY <1>1, <1>2, PushedStaysPushed, RetentionStays DEF ApiInv

LEMMA PushAttemptRetention ==
  ASSUME ApiInv, NEW t \in Threads, PushAttempt(t) PROVE RetentionBounded'
<1>1. \A u \in Threads : pc[u] = "pushed" => pc'[u] = "pushed" /\ job'[u] = job[u]
  BY PushedStaysPushed DEF PushAttempt
<1>2. pc'[t] = "pushed" /\ job'[t].session = job[t].session
  BY DEF ApiInv, TypeOK, Jobs, PushAttempt, GoTo
<1>3. \A s \in Sessions : s # job[t].session => log'[s] = log[s]
  BY DEF ApiInv, TypeOK, PushAttempt, Push
<1>4. QED
  BY <1>1, <1>2, <1>3 DEF ApiInv, RetentionBounded, Stored, PushAttempt, Push

LEMMA RefreshKeyRetention ==
  ASSUME ApiInv, NEW t \in Threads, RefreshKey(t) PROVE RetentionBounded'
<1> DEFINE here == job[t].session
<1>1. \A u \in Threads \ {t} : pc'[u] = pc[u] /\ job'[u] = job[u]
  BY DEF ApiInv, TypeOK, Jobs, RefreshKey, Leave, GoTo
<1>2. /\ log' = log /\ orphans' = orphans \ {here}
      /\ \A s \in Sessions : volatile'[s] = IF s = here THEN Stored(s) ELSE volatile[s]
  BY DEF ApiInv, TypeOK, RefreshKey, Refresh
<1>3. \A s \in Sessions : Stored(s)' <=> Stored(s)
  BY <1>2 DEF Stored
<1> HIDE DEF here
<1>4. ASSUME NEW s \in Sessions, Stored(s)', ~volatile'[s]
      PROVE  s \in orphans' \/ \E u \in Threads : pc'[u] = "pushed" /\ job'[u].session = s
  <2>1. s # here /\ ~volatile[s] /\ Stored(s)
    BY <1>2, <1>3, <1>4
  <2>2. s \in orphans \/ \E u \in Threads : pc[u] = "pushed" /\ job[u].session = s
    BY <2>1 DEF ApiInv, RetentionBounded
  <2>3. QED
    BY <1>1, <1>2, <2>1, <2>2 DEF here
<1>5. QED
  BY <1>4 DEF RetentionBounded

LEMMA AppendFailsRetention ==
  ASSUME ApiInv, NEW t \in Threads, AppendFails(t) PROVE RetentionBounded'
<1>1. \A u \in Threads \ {t} : pc'[u] = pc[u] /\ job'[u] = job[u]
  BY DEF ApiInv, TypeOK, Jobs, AppendFails, Leave, GoTo
<1>2. CASE UNCHANGED storeVars
  <2>1. orphans \subseteq orphans' /\ (pc[t] = "pushed" => job[t].session \in orphans')
    BY DEF AppendFails
  <2>2. QED
    BY <1>1, <1>2, <2>1, RetentionStays DEF ApiInv
<1>3. CASE /\ pc[t] = "logging" /\ Push(job[t].session, job[t].attempt)
           /\ orphans' = orphans \cup {job[t].session}
  <2>1. \A s \in Sessions : s # job[t].session => log'[s] = log[s]
    BY <1>3 DEF ApiInv, TypeOK, Push
  <2>2. QED
    BY <1>1, <1>3, <2>1 DEF ApiInv, RetentionBounded, Stored, Push
<1>4. QED
  BY <1>2, <1>3 DEF AppendFails

LEMMA OthersRetention ==
  ASSUME ApiInv, ResolveRequest \/ Drift \/ UNCHANGED vars PROVE RetentionBounded'
BY RetentionStays DEF ApiInv, ResolveRequest, Drift, vars, threadVars

LEMMA ExpireRetention == ASSUME ApiInv, Expire PROVE RetentionBounded'
<1>1. \A s \in Sessions : log'[s] = <<>> \/ (log'[s] = log[s] /\ (volatile'[s] <=> volatile[s]))
  BY DEF ApiInv, TypeOK, Expire, KeyExpires
<1>2. QED
  BY <1>1 DEF ApiInv, RetentionBounded, Stored, Expire, threadVars

LEMMA RestartRetention == ASSUME ApiInv, Restart PROVE RetentionBounded'
BY RetentionStays DEF ApiInv, Restart

LEMMA NextRetention == ASSUME ApiInv, [Next]_vars PROVE RetentionBounded'
BY SilentRetention, PushAttemptRetention, RefreshKeyRetention, AppendFailsRetention,
   OthersRetention, ExpireRetention, RestartRetention DEF Next, Handle

-----------------------------------------------------------------------------
\* What the loop has read, and how many calls were logged since.

LEMMA EntryTypes ==
  ASSUME TypeOK, NEW i \in DOMAIN snapshot
  PROVE  /\ snapshot[i].session \in Sessions /\ snapshot[i].calls \in Nat
         /\ snapshot[i].unread \in 0..CheckInterval
<1>1. snapshot[i] \in Entries
  BY DEF TypeOK
<1>2. QED
  BY <1>1 DEF Entries

LEMMA OursStays ==
  ASSUME ApiInv, NEW t \in Threads, NEW place, NEW locals, GoTo(t, place, locals),
         place # "starting", UNCHANGED tracked
  PROVE  \A s : Ours(s)' => Ours(s)
BY DEF ApiInv, TypeOK, Jobs, GoTo, Ours, Tracked

\* A step that leaves the loop and the dictionary alone, and counts what it logs.
LEMMA ReadingStays ==
  ASSUME ApiInv, TypeOK', UNCHANGED <<loopVars, tracked>>,
         \A s \in Sessions : Ours(s)' => Ours(s) \/ (s \notin Tracked /\ log'[s] = <<>>),
         \A s \in Sessions : \A n \in Int :
           Covers(unread[s], Len(log[s]) - n) => Covers(unread'[s], Len(log'[s]) - n)
  PROVE  Reading'
<1>1. /\ snapshot' = snapshot /\ loop' = loop /\ size' = size /\ lastChecked' = lastChecked
      /\ tracked' = tracked /\ Tracked' = Tracked
  BY DEF loopVars, Tracked
<1>2. TrackedOnce' /\ ReadOnce' /\ ReadInOrder'
  BY <1>1 DEF ApiInv, Reading, TrackedOnce, ReadOnce, ReadInOrder
<1>3. ASSUME loop \notin {"store_failed", "dict_changed"}, NEW s \in Sessions, Ours(s)'
      PROVE  /\ ~Pending(s) => Covers(unread'[s], Len(log'[s]) - lastChecked[s])
             /\ \A i \in DOMAIN snapshot : snapshot[i].session = s =>
                  /\ Covers(snapshot[i].unread, snapshot[i].calls - lastChecked[s])
                  /\ Covers(unread'[s], Len(log'[s]) - snapshot[i].calls)
  <2>1. lastChecked[s] \in Nat /\ \A i \in DOMAIN snapshot : snapshot[i].calls \in Nat
    BY EntryTypes DEF ApiInv, TypeOK
  <2>2. CASE Ours(s)
    <3>1. /\ ~Pending(s) => Covers(unread[s], Len(log[s]) - lastChecked[s])
          /\ \A i \in DOMAIN snapshot : snapshot[i].session = s =>
               /\ Covers(snapshot[i].unread, snapshot[i].calls - lastChecked[s])
               /\ Covers(unread[s], Len(log[s]) - snapshot[i].calls)
      BY <1>3, <2>2 DEF ApiInv, Reading, UnreadCounted
    <3>2. \A n \in Int : Covers(unread[s], Len(log[s]) - n) => Covers(unread'[s], Len(log'[s]) - n)
      OBVIOUS
    <3>3. QED
      BY <2>1, <3>1, <3>2
  <2>3. CASE s \notin Tracked /\ log'[s] = <<>>
    <3>1. ~Pending(s)
      BY <2>3 DEF ApiInv, Reading, ReadInOrder, Pending
    <3>2. unread'[s] \in Nat /\ Len(log'[s]) = 0
      BY <2>3 DEF TypeOK
    <3>3. QED
      BY <2>1, <3>1, <3>2 DEF Covers, Pending
  <2>4. QED
    BY <1>3, <2>2, <2>3
<1>4. UnreadCounted'
  BY <1>1, <1>3 DEF UnreadCounted, Pending
<1>5. QED
  BY <1>2, <1>4 DEF Reading

\* Steps that log nothing.
LEMMA SilentReading ==
  ASSUME ApiInv, TypeOK', NEW t \in Threads,
         StoreType(t) \/ BeginTurn(t) \/ EmbedTurn(t) \/ FinishTurn(t) \/ Intercept(t)
           \/ RefreshKey(t)
  PROVE  Reading'
<1>1. UNCHANGED <<loopVars, unread, tracked>> /\ log' = log
  BY DEF StoreType, BeginTurn, EmbedTurn, FinishTurn, Intercept, RefreshKey, Refresh, driftVars,
         sessionVars, storeVars
<1>2. \E place, locals : GoTo(t, place, locals) /\ place # "starting"
  <2>1. CASE StoreType(t) \/ FinishTurn(t) \/ RefreshKey(t)
    BY <2>1 DEF StoreType, FinishTurn, RefreshKey, Leave
  <2>2. CASE BeginTurn(t)
    BY <2>2 DEF BeginTurn
  <2>3. CASE EmbedTurn(t)
    BY <2>3 DEF EmbedTurn
  <2>4. CASE Intercept(t)
    <3>1. \E locals : GoTo(t, "logging", locals)
      BY <2>4 DEF Intercept
    <3>2. QED
      BY <3>1
  <2>5. QED
    BY <2>1, <2>2, <2>3, <2>4
<1>3. QED
  BY <1>1, <1>2, OursStays, ReadingStays

LEMMA StartSessionReading ==
  ASSUME ApiInv, TypeOK', NEW t \in Threads, StartSession(t) PROVE Reading'
<1>1. UNCHANGED <<loopVars, unread, tracked, log>>
  BY DEF StartSession, driftVars, storeVars
<1>2. PICK new \in Sessions \ used : GoTo(t, "starting", [session |-> new])
  BY DEF StartSession
<1>3. new \notin Tracked /\ log'[new] = <<>>
  BY <1>1 DEF ApiInv, OnlyUsed
<1>4. \A s : Ours(s)' => Ours(s) \/ s = new
  BY <1>1, <1>2 DEF ApiInv, TypeOK, Jobs, GoTo, Ours, Tracked
<1>5. QED
  BY <1>1, <1>3, <1>4, ReadingStays

\* A call that is pushed is counted.
LEMMA PushCounts ==
  ASSUME ApiInv, NEW s \in Sessions, NEW a \in Attempts, Push(s, a), NoteCall(s)
  PROVE  \A u \in Sessions : \A n \in Int :
           Covers(unread[u], Len(log[u]) - n) => Covers(unread'[u], Len(log'[u]) - n)
<1>1. /\ Len(log[s]) \in Nat /\ Len(log'[s]) = Len(log[s]) + 1
      /\ \A u \in Sessions \ {s} : log'[u] = log[u]
  BY DEF ApiInv, TypeOK, Push
<1>2. /\ \A u \in Sessions \ {s} : unread'[u] = unread[u]
      /\ \A n \in Int : Covers(unread[s], n) => Covers(unread'[s], n + 1)
  BY NoteCallType DEF ApiInv, TypeOK
<1>3. ASSUME NEW n \in Int, Covers(unread[s], Len(log[s]) - n)
      PROVE  Covers(unread'[s], Len(log'[s]) - n)
  <2>1. Len(log[s]) - n \in Int /\ (Len(log[s]) - n) + 1 = Len(log'[s]) - n
    BY <1>1
  <2>2. Covers(unread'[s], (Len(log[s]) - n) + 1)
    BY <1>2, <1>3, <2>1
  <2>3. QED
    BY <2>1, <2>2
<1>4. QED
  BY <1>1, <1>2, <1>3

LEMMA AppendReading ==
  ASSUME ApiInv, TypeOK', NEW t \in Threads, PushAttempt(t) \/ AppendFails(t) PROVE Reading'
<1>1. UNCHANGED <<loopVars, tracked>>
  BY DEF PushAttempt, AppendFails, sessionVars
<1>2. \E place, locals : GoTo(t, place, locals) /\ place # "starting"
  BY DEF PushAttempt, AppendFails, Leave
<1>3. \A s : Ours(s)' => Ours(s)
  BY <1>1, <1>2, OursStays
<1>4. CASE UNCHANGED <<storeVars, unread>>
  BY <1>1, <1>3, <1>4, ReadingStays DEF storeVars
<1>5. CASE /\ pc[t] = "logging" /\ Push(job[t].session, job[t].attempt)
           /\ NoteCall(job[t].session)
  <2>1. job[t].session \in Sessions /\ job[t].attempt \in Attempts
    BY <1>5 DEF ApiInv, TypeOK, Jobs, JobOK
  <2>2. QED
    BY <1>1, <1>3, <1>5, <2>1, PushCounts, ReadingStays
<1>6. QED
  BY <1>4, <1>5 DEF PushAttempt, AppendFails

LEMMA OthersReading ==
  ASSUME ApiInv, TypeOK', ResolveRequest \/ Expire \/ UNCHANGED vars PROVE Reading'
<1>1. UNCHANGED <<loopVars, unread, tracked, pc, job>>
  BY DEF ResolveRequest, Expire, vars, driftVars, sessionVars, threadVars
<1>2. \A s : Ours(s)' => Ours(s)
  BY <1>1 DEF Ours, Tracked
<1>3. \A s \in Sessions : log'[s] = log[s] \/ log'[s] = <<>>
  BY DEF ApiInv, TypeOK, ResolveRequest, Expire, KeyExpires, vars, storeVars
<1>4. ASSUME NEW s \in Sessions, NEW n \in Int, Covers(unread[s], Len(log[s]) - n)
      PROVE  Covers(unread'[s], Len(log'[s]) - n)
  <2>1. Len(log[s]) \in Nat /\ unread'[s] = unread[s] /\ unread[s] \in Nat
    BY <1>1 DEF ApiInv, TypeOK
  <2>2. CASE log'[s] = log[s]
    BY <1>4, <2>1, <2>2
  <2>3. CASE log'[s] = <<>>
    <3>1. Len(log'[s]) = 0
      BY <2>3
    <3>2. QED
      BY <1>4, <2>1, <3>1 DEF Covers
  <2>4. QED
    BY <1>3, <2>2, <2>3
<1>5. QED
  BY <1>1, <1>2, <1>4, ReadingStays

LEMMA StoreRepresentationReading ==
  ASSUME ApiInv, TypeOK', NEW t \in Threads, StoreRepresentation(t) PROVE Reading'
<1> DEFINE new == job[t].session
<1>1. UNCHANGED <<loopVars, unread, log>> /\ tracked' = Append(tracked, new)
  BY DEF StoreRepresentation, driftVars, storeVars
<1>2. new \in Sessions /\ new \notin Tracked /\ pc[t] = "starting" /\ tracked \in Seq(Sessions)
  BY DEF ApiInv, TypeOK, Jobs, JobOK, StoreRepresentation
<1>3. /\ pc'[t] = "half_started"
      /\ \A u \in Threads \ {t} : pc'[u] = pc[u] /\ job'[u] = job[u]
  BY DEF ApiInv, TypeOK, Jobs, StoreRepresentation, GoTo
<1>4. Ours(new)
  BY <1>2 DEF Ours
<1> HIDE DEF new
<1>5. /\ Len(tracked') = Len(tracked) + 1 /\ Len(tracked) \in Nat
      /\ DOMAIN tracked' = 1..(Len(tracked) + 1) /\ DOMAIN tracked = 1..Len(tracked)
      /\ tracked'[Len(tracked) + 1] = new
      /\ \A i \in 1..Len(tracked) : tracked'[i] = tracked[i]
  BY <1>1, <1>2
<1>6. Tracked' = Tracked \cup {new}
  BY <1>5 DEF Tracked
<1>7. TrackedOnce'
  <2>1. \A i \in 1..Len(tracked) : tracked[i] # new
    BY <1>2, <1>5 DEF Tracked
  <2>2. ASSUME NEW i \in 1..(Len(tracked) + 1), NEW j \in 1..(Len(tracked) + 1),
               tracked'[i] = tracked'[j]
        PROVE  i = j
    <3>1. CASE i \in 1..Len(tracked) /\ j \in 1..Len(tracked)
      BY <1>5, <2>2, <3>1 DEF ApiInv, Reading, TrackedOnce
    <3>2. CASE i = Len(tracked) + 1 \/ j = Len(tracked) + 1
      BY <1>5, <2>1, <2>2, <3>2
    <3>3. QED
      BY <1>5, <3>1, <3>2
  <2>3. QED
    BY <1>5, <2>2 DEF TrackedOnce
<1>8. /\ snapshot' = snapshot /\ loop' = loop /\ size' = size /\ lastChecked' = lastChecked
      /\ unread' = unread /\ log' = log
  BY <1>1 DEF loopVars
<1>9. ReadOnce' /\ ReadInOrder'
  <2>1. snapshot \in Seq(Entries) /\ size \in Nat
    BY DEF ApiInv, TypeOK, Entries
  <2>2. Len(snapshot) \in Nat /\ DOMAIN snapshot = 1..Len(snapshot)
    BY <2>1
  <2>3. ASSUME loop = "scanning"
        PROVE  /\ size <= Len(tracked) + 1 /\ Len(snapshot) <= Len(tracked) + 1
               /\ \A i \in DOMAIN snapshot : snapshot[i].session = tracked'[i]
    BY <1>5, <2>1, <2>2, <2>3 DEF ApiInv, Reading, ReadInOrder
  <2>4. QED
    BY <1>5, <1>6, <1>8, <2>3 DEF ApiInv, Reading, ReadOnce, ReadInOrder
<1>10. \A s : Ours(s)' => Ours(s)
  BY <1>3, <1>4, <1>6 DEF Ours
<1>11. UnreadCounted'
  BY <1>8, <1>10 DEF ApiInv, Reading, UnreadCounted, Pending
<1>12. QED
  BY <1>7, <1>9, <1>11 DEF Reading

LEMMA RestartReading == ASSUME ApiInv, Restart PROVE Reading'
<1>1. tracked' = <<>> /\ snapshot' = <<>> /\ loop' = "sleeping" /\ \A t \in Threads : pc'[t] = "idle"
  BY DEF Restart, LoseScheduler
<1>2. QED
  BY <1>1 DEF Reading, TrackedOnce, ReadOnce, ReadInOrder, UnreadCounted, Ours, Tracked

\* Steps of the loop that leave the list of entries as it is.
LEMMA SameEntriesReading ==
  ASSUME ApiInv, UNCHANGED <<tracked, log, pc, job, snapshot, lastChecked, unread>>,
         loop \notin {"store_failed", "dict_changed"}
  PROVE  TrackedOnce' /\ ReadOnce' /\ UnreadCounted'
<1>1. \A s : Ours(s)' <=> Ours(s)
  BY DEF Ours, Tracked
<1>2. QED
  BY <1>1 DEF ApiInv, Reading, TrackedOnce, ReadOnce, UnreadCounted, Pending

LEMMA EndLoopReading ==
  ASSUME ApiInv, UNCHANGED tracked, ScanInterrupted(tracked) \/ ScanFails(tracked)
  PROVE  Reading'
<1>1. snapshot' = <<>> /\ loop' \in {"store_failed", "dict_changed"} /\ Tracked' = Tracked
  BY DEF ScanInterrupted, ScanFails, EndLoop, Tracked
<1>2. QED
  BY <1>1 DEF ApiInv, Reading, TrackedOnce, ReadOnce, ReadInOrder, UnreadCounted

LEMMA ScanSessionReading ==
  ASSUME ApiInv, UNCHANGED <<tracked, log, pc, job>>, ScanSession(tracked, log)
  PROVE  Reading'
<1>1. \A s : (Ours(s)' <=> Ours(s)) /\ Tracked' = Tracked
  BY DEF Ours, Tracked
<1>2. /\ snapshot \in Seq(Entries) /\ tracked \in Seq(Sessions) /\ size \in Nat
      /\ lastChecked \in [Sessions -> Nat]
      /\ unread \in [Sessions -> 0..CheckInterval] /\ log \in [Sessions -> Seq(Attempts)]
  BY DEF ApiInv, TypeOK
<1>3. PICK n \in 1..Len(tracked), s \in Sessions : n = Len(snapshot) + 1 /\ s = tracked[n]
  <2>1. PICK n \in 1..Len(tracked) : n = Len(snapshot) + 1
    BY NextToScan DEF ApiInv, ScanSession
  <2>2. tracked[n] \in Sessions
    BY <1>2, <2>1
  <2>3. QED
    BY <2>1, <2>2
<1>4. s \in Sessions /\ s \in Tracked /\ Ours(s) /\ Len(log[s]) \in Nat
  BY <1>3, <1>2 DEF Tracked, Ours
<1>5. PICK e : e = [session |-> s, calls |-> Len(log[s]), unread |-> unread[s]]
  OBVIOUS
<1>6. /\ snapshot' = Append(snapshot, e) /\ unread' = [unread EXCEPT ![s] = 0]
      /\ loop = "scanning" /\ UNCHANGED <<loop, size, lastChecked>>
  BY <1>3, <1>5 DEF ScanSession, MoreToScan
<1>7. /\ Len(snapshot) \in Nat /\ DOMAIN snapshot = 1..Len(snapshot) /\ DOMAIN snapshot' = 1..n
      /\ snapshot'[n] = e /\ \A i \in DOMAIN snapshot : i \in 1..n /\ snapshot'[i] = snapshot[i]
      /\ \A i \in 1..n : i = n \/ i \in DOMAIN snapshot
  <2>1. Len(snapshot) \in Nat /\ DOMAIN snapshot = 1..Len(snapshot) /\ n = Len(snapshot) + 1
    BY <1>3, <1>2
  <2>2. e \in Entries
    BY <1>2, <1>4, <1>5 DEF Entries
  <2>3. /\ Len(snapshot') = n /\ DOMAIN snapshot' = 1..n /\ snapshot'[n] = e
        /\ \A i \in 1..Len(snapshot) : snapshot'[i] = snapshot[i]
    BY <1>2, <1>6, <2>1, <2>2
  <2>4. QED
    BY <2>1, <2>3
<1>8. \A i \in DOMAIN snapshot : snapshot[i].session = tracked[i] /\ snapshot[i].session # s
  <2>1. ASSUME NEW i \in DOMAIN snapshot
        PROVE  snapshot[i].session = tracked[i] /\ i \in DOMAIN tracked /\ i # n
    <3>1. snapshot[i].session = tracked[i]
      BY <1>6 DEF ApiInv, Reading, ReadInOrder
    <3>2. i \in 1..Len(snapshot) /\ n = Len(snapshot) + 1 /\ n <= Len(tracked)
      BY <1>3, <1>7
    <3>3. i \in 1..Len(tracked) /\ i # n /\ DOMAIN tracked = 1..Len(tracked)
      <4>1. Len(tracked) \in Nat /\ DOMAIN tracked = 1..Len(tracked)
        BY <1>2
      <4>2. QED
        BY <1>7, <3>2, <4>1
    <3>4. QED
      BY <3>1, <3>3
  <2>2. n \in DOMAIN tracked
    BY <1>3, <1>2
  <2>3. QED
    BY <1>3, <2>1, <2>2 DEF ApiInv, Reading, TrackedOnce
<1>9. e.session = s /\ e.calls = Len(log[s]) /\ e.unread = unread[s]
  BY <1>5
<1>10. TrackedOnce'
  BY DEF ApiInv, Reading, TrackedOnce
<1>11. ReadOnce'
  BY <1>7, <1>8, <1>9 DEF ApiInv, Reading, ReadOnce
<1>12. ReadInOrder'
  <2>1. size <= Len(tracked) /\ Len(snapshot') = n /\ n <= Len(tracked)
    BY <1>3, <1>2, <1>6, <1>7 DEF ApiInv, Reading, ReadInOrder
  <2>2. \A i \in DOMAIN snapshot' : snapshot'[i].session = tracked[i]
    BY <1>3, <1>7, <1>8, <1>9
  <2>3. \A i \in DOMAIN snapshot' : snapshot'[i].session \in Tracked
    BY <1>4, <1>7, <1>9 DEF ApiInv, Reading, ReadInOrder
  <2>4. QED
    BY <1>1, <1>6, <2>1, <2>2, <2>3 DEF ReadInOrder
<1>13. ASSUME NEW u \in Sessions, Ours(u)
       PROVE  /\ ~Pending(u)' => Covers(unread'[u], Len(log[u]) - lastChecked[u])
              /\ \A i \in DOMAIN snapshot' : snapshot'[i].session = u =>
                   /\ Covers(snapshot'[i].unread, snapshot'[i].calls - lastChecked[u])
                   /\ Covers(unread'[u], Len(log[u]) - snapshot'[i].calls)
  <2>1. /\ ~Pending(u) => Covers(unread[u], Len(log[u]) - lastChecked[u])
        /\ \A i \in DOMAIN snapshot : snapshot[i].session = u =>
             /\ Covers(snapshot[i].unread, snapshot[i].calls - lastChecked[u])
             /\ Covers(unread[u], Len(log[u]) - snapshot[i].calls)
    BY <1>6, <1>13 DEF ApiInv, Reading, UnreadCounted
  <2>2. CASE u = s
    <3>1. ~Pending(s) /\ Pending(s)'
      BY <1>7, <1>8, <1>9 DEF Pending
    <3>2. \A i \in DOMAIN snapshot' : snapshot'[i].session = s => i = n
      BY <1>7, <1>8
    <3>3. Covers(unread'[s], Len(log[s]) - Len(log[s]))
      BY <1>2, <1>4, <1>6 DEF Covers
    <3>4. QED
      BY <1>7, <1>9, <2>1, <2>2, <3>1, <3>2, <3>3
  <2>3. CASE u # s
    <3>1. (Pending(u)' <=> Pending(u)) /\ unread'[u] = unread[u]
      BY <1>2, <1>6, <1>7, <1>9, <2>3 DEF Pending
    <3>2. \A i \in DOMAIN snapshot' : snapshot'[i].session = u =>
            i \in DOMAIN snapshot /\ snapshot'[i] = snapshot[i]
      BY <1>7, <1>9, <2>3
    <3>3. QED
      BY <2>1, <3>1, <3>2
  <2>4. QED
    BY <2>2, <2>3
<1>14. UnreadCounted'
  BY <1>1, <1>6, <1>13 DEF UnreadCounted
<1>15. QED
  BY <1>10, <1>11, <1>12, <1>14 DEF Reading

LEMMA RunOnceReading ==
  ASSUME ApiInv, UNCHANGED <<tracked, log, pc, job>>, RunOnce
  PROVE  Reading'
<1>1. \A s : (Ours(s)' <=> Ours(s)) /\ Tracked' = Tracked
  BY DEF Ours, Tracked
<1>2. /\ snapshot \in Seq(Entries) /\ snapshot # <<>> /\ loop = "checking" /\ loop' = "checking"
      /\ snapshot' = Tail(snapshot)
  BY DEF ApiInv, TypeOK, RunOnce
<1>3. PICK e, s : e = Head(snapshot) /\ s = e.session
  OBVIOUS
<1>4. CheckDrift(s, e) \/ KeepDecision(s, e)
  BY <1>3 DEF RunOnce
<1>5. /\ Len(snapshot) \in Nat \ {0} /\ DOMAIN snapshot = 1..Len(snapshot) /\ e = snapshot[1]
      /\ DOMAIN snapshot' = 1..(Len(snapshot) - 1)
      /\ \A i \in DOMAIN snapshot' : i + 1 \in DOMAIN snapshot /\ snapshot'[i] = snapshot[i + 1]
  BY <1>2, <1>3
<1>6. 1 \in DOMAIN snapshot /\ \A i \in DOMAIN snapshot : i = 1 \/ i - 1 \in DOMAIN snapshot'
  BY <1>5
<1>7. s \in Sessions /\ e.calls \in Nat /\ e.unread \in 0..CheckInterval
  BY <1>3, <1>5, <1>6, EntryTypes DEF ApiInv
<1>8. TrackedOnce'
  BY DEF ApiInv, Reading, TrackedOnce
<1>9. ReadOnce'
  <2>1. ASSUME NEW i \in DOMAIN snapshot', NEW j \in DOMAIN snapshot',
               snapshot'[i].session = snapshot'[j].session
        PROVE  i = j
    <3>1. i + 1 = j + 1 /\ i \in Int /\ j \in Int
      BY <1>5, <2>1 DEF ApiInv, Reading, ReadOnce
    <3>2. QED
      BY <3>1
  <2>2. QED
    BY <2>1 DEF ReadOnce
<1>10. ReadInOrder'
  BY <1>1, <1>2, <1>5 DEF ApiInv, Reading, ReadInOrder
<1>11. \A i \in DOMAIN snapshot' : snapshot'[i].session # s
  <2>1. \A i \in DOMAIN snapshot' : i + 1 # 1
    BY <1>5
  <2>2. QED
    BY <1>3, <1>5, <1>6, <2>1 DEF ApiInv, Reading, ReadOnce
<1>12. /\ lastChecked \in [Sessions -> Nat] /\ unread \in [Sessions -> 0..CheckInterval]
       /\ log \in [Sessions -> Seq(Attempts)]
  BY DEF ApiInv, TypeOK
<1>13. ASSUME NEW u \in Sessions, Ours(u)
       PROVE  /\ ~Pending(u)' => Covers(unread'[u], Len(log[u]) - lastChecked'[u])
              /\ \A i \in DOMAIN snapshot' : snapshot'[i].session = u =>
                   /\ Covers(snapshot'[i].unread, snapshot'[i].calls - lastChecked'[u])
                   /\ Covers(unread'[u], Len(log[u]) - snapshot'[i].calls)
  <2>1. /\ ~Pending(u) => Covers(unread[u], Len(log[u]) - lastChecked[u])
        /\ \A i \in DOMAIN snapshot : snapshot[i].session = u =>
             /\ Covers(snapshot[i].unread, snapshot[i].calls - lastChecked[u])
             /\ Covers(unread[u], Len(log[u]) - snapshot[i].calls)
    BY <1>2, <1>13 DEF ApiInv, Reading, UnreadCounted
  <2>2. CASE u = s
    <3>1. /\ Covers(e.unread, e.calls - lastChecked[s])
          /\ Covers(unread[s], Len(log[s]) - e.calls)
      BY <1>3, <1>5, <1>6, <2>1, <2>2
    <3>2. Covers(unread'[s], Len(log[s]) - lastChecked'[s])
      <4>1. CASE CheckDrift(s, e)
        BY <1>7, <1>12, <3>1, <4>1 DEF CheckDrift
      <4>2. CASE KeepDecision(s, e)
        <5>1. /\ unread[s] \in 0..CheckInterval /\ lastChecked[s] \in Nat /\ Len(log[s]) \in Nat
              /\ CheckInterval \in Nat
          BY <1>7, <1>12
        <5>2. unread'[s] = UpToInterval(unread[s] + e.unread) /\ lastChecked' = lastChecked
          BY <1>7, <1>12, <4>2 DEF KeepDecision
        <5>3. Covers(UpToInterval(unread[s] + e.unread), Len(log[s]) - lastChecked[s])
          BY <1>7, <3>1, <5>1 DEF Covers, UpToInterval
        <5>4. QED
          BY <5>2, <5>3
      <4>3. QED
        BY <1>4, <4>1, <4>2
    <3>3. QED
      BY <1>11, <2>2, <3>2
  <2>3. CASE u # s
    <3>1. unread'[u] = unread[u] /\ lastChecked'[u] = lastChecked[u]
      BY <1>4, <1>12, <2>3 DEF CheckDrift, KeepDecision
    <3>2. Pending(u) => Pending(u)'
      <4>1. ASSUME NEW i \in DOMAIN snapshot, snapshot[i].session = u PROVE Pending(u)'
        <5>1. i # 1
          BY <1>3, <1>5, <2>3, <4>1
        <5>2. i - 1 \in DOMAIN snapshot' /\ (i - 1) + 1 = i
          BY <1>5, <1>6, <5>1
        <5>3. snapshot'[i - 1].session = u
          BY <1>5, <4>1, <5>2
        <5>4. QED
          BY <5>2, <5>3 DEF Pending
      <4>2. QED
        BY <4>1 DEF Pending
    <3>3. QED
      BY <1>5, <2>1, <3>1, <3>2
  <2>4. QED
    BY <2>2, <2>3
<1>14. UnreadCounted'
  BY <1>1, <1>13 DEF UnreadCounted
<1>15. QED
  BY <1>8, <1>9, <1>10, <1>14 DEF Reading

LEMMA DriftReading == ASSUME ApiInv, Drift PROVE Reading'
<1>1. UNCHANGED <<tracked, log, pc, job>> /\ Tracked' = Tracked
  BY DEF Drift, storeVars, sessionVars, threadVars, Tracked
<1>2. CASE BeginPass(tracked)
  <2>1. snapshot = <<>> /\ UNCHANGED <<snapshot, lastChecked, unread>> /\ loop = "sleeping"
        /\ size' = Len(tracked)
    BY <1>2 DEF ApiInv, Reading, ReadInOrder, BeginPass
  <2>2. TrackedOnce' /\ ReadOnce' /\ UnreadCounted'
    BY <1>1, <2>1, SameEntriesReading
  <2>3. Len(tracked) \in Nat
    BY DEF ApiInv, TypeOK
  <2>4. ReadInOrder'
    BY <1>1, <2>1, <2>3 DEF ReadInOrder
  <2>5. QED
    BY <2>2, <2>4 DEF Reading
<1>3. CASE ScanInterrupted(tracked) \/ ScanFails(tracked)
  BY <1>1, <1>3, EndLoopReading
<1>4. CASE ScanSession(tracked, log)
  BY <1>1, <1>4, ScanSessionReading
<1>5. CASE EndScan(tracked) \/ EndPass
  <2>1. UNCHANGED <<snapshot, lastChecked, unread>> /\ loop \in {"scanning", "checking"}
    BY <1>5 DEF EndScan, EndPass
  <2>2. TrackedOnce' /\ ReadOnce' /\ UnreadCounted'
    BY <1>1, <2>1, SameEntriesReading
  <2>3. ReadInOrder'
    BY <1>1, <1>5 DEF ApiInv, Reading, ReadInOrder, EndScan, EndPass
  <2>4. QED
    BY <2>2, <2>3 DEF Reading
<1>6. CASE RunOnce
  BY <1>1, <1>6, RunOnceReading
<1>7. QED
  BY <1>2, <1>3, <1>4, <1>5, <1>6 DEF Drift

LEMMA NextReading == ASSUME ApiInv, TypeOK', [Next]_vars PROVE Reading'
BY SilentReading, StartSessionReading, StoreRepresentationReading, AppendReading, OthersReading,
   DriftReading, RestartReading DEF Next, Handle

-----------------------------------------------------------------------------
\* ApiInv is inductive.
LEMMA ApiInvariant == Spec => []ApiInv
<1>1. ApiInv /\ [Next]_vars => ApiInv'
  BY NextType, NextWork, NextRetention, NextReading DEF ApiInv, Work
<1>2. QED
  BY <1>1, InitApiInv, PTL DEF Spec

\* The types; and the scheduler's count of the last check and its standing
\* decision are written and lost together.
THEOREM TypeCorrect == Spec => []TypeOK
BY ApiInvariant, PTL DEF ApiInv

\* No key is left without a TTL but by an append that is under way or was cut
\* short between RPUSH and EXPIRE (redis_store.py:94-95).
THEOREM KeysExpire == Spec => []RetentionBounded
BY ApiInvariant, PTL DEF ApiInv

\* Whoever was given a session id is served, and a report on the session knows
\* what became of each held call (app.py:260-270, report.py:101-116), whatever
\* crashes and interleavings came before.
THEOREM SessionsServed == Spec => []IssuedSessionsServed
<1>1. ASSUME ApiInv PROVE IssuedSessionsServed
  <2>1. ASSUME NEW s \in issued PROVE Served(s) /\ Ours(s) /\ s \in Sessions
    BY <1>1, <2>1 DEF ApiInv, TypeOK, OnlyUsed, Served, Ours
  <2>2. ASSUME NEW s \in issued, NEW i \in With(s, "pending_approval")
        PROVE  Report(s).approvals[i] # "none"
    <3>1. i \in DOMAIN log[s] /\ log[s][i].outcome = "pending_approval"
      BY DEF With
    <3>2. log[s][i].request \in Requests /\ outcome[log[s][i].request] # "absent"
      BY <1>1, <2>1, <3>1 DEF ApiInv, HeldCallsKnown, Known
    <3>3. ApprovalOutcome(log[s][i]) = outcome[log[s][i].request]
      BY <3>1, <3>2 DEF ApprovalOutcome
    <3>4. outcome[log[s][i].request] # "none"
      BY <1>1, <3>2 DEF ApiInv, TypeOK
    <3>5. Report(s).approvals[i] = ApprovalOutcome(log[s][i])
      BY <3>1 DEF Report
    <3>6. QED
      BY <3>3, <3>4, <3>5
  <2>3. QED
    BY <2>1, <2>2 DEF IssuedSessionsServed
<1>2. QED
  BY <1>1, ApiInvariant, PTL

\* Each check of a session comes CheckInterval logged calls after the check or
\* the first read before it, through expiries of its key and whatever is logged
\* between a read and its check (drift_scheduler.py:64-75).
THEOREM ChecksAreSpaced == Spec => ChecksSpaced
<1> DEFINE Spaced ==
      \A s \in Sessions :
        standing'[s] \notin {NoDecision, standing[s]} =>
          snapshot # <<>> /\ Head(snapshot).session = s /\ Head(snapshot).unread >= CheckInterval
<1>1. ASSUME ApiInv, [Next]_vars PROVE Spaced
  <2>1. CASE RunOnce
    <3>1. snapshot \in Seq(Entries) /\ snapshot # <<>> /\ loop = "checking"
      BY <1>1, <2>1 DEF ApiInv, TypeOK, RunOnce
    <3>2. PICK e, here : e = Head(snapshot) /\ here = e.session
      OBVIOUS
    <3>3. 1 \in DOMAIN snapshot /\ e = snapshot[1]
      BY <3>1, <3>2
    <3>4. here \in Sessions /\ e.calls \in Nat /\ e.unread \in 0..CheckInterval
      BY <1>1, <3>2, <3>3, EntryTypes DEF ApiInv
    <3>5. CASE CheckDrift(here, e)
      <4>1. here \in Tracked
        BY <1>1, <3>2, <3>3 DEF ApiInv, Reading, ReadInOrder
      <4>2. Covers(e.unread, e.calls - lastChecked[here])
        BY <1>1, <3>1, <3>2, <3>3, <3>4, <4>1 DEF ApiInv, Reading, UnreadCounted, Ours
      <4>3. lastChecked[here] \in Nat /\ standing \in [Sessions -> Nat \cup {NoDecision}]
        BY <1>1, <3>4 DEF ApiInv, TypeOK
      <4>4. e.calls - lastChecked[here] >= CheckInterval
        BY <3>5 DEF CheckDrift, ShouldCheckDrift
      <4>5. e.unread >= CheckInterval
        BY <3>4, <4>2, <4>3, <4>4 DEF Covers
      <4>6. \A s \in Sessions : s # here => standing'[s] = standing[s]
        BY <3>5, <4>3 DEF CheckDrift
      <4>7. QED
        BY <3>1, <3>2, <4>5, <4>6
    <3>6. CASE KeepDecision(here, e)
      BY <3>6 DEF KeepDecision
    <3>7. QED
      BY <2>1, <3>2, <3>5, <3>6 DEF RunOnce
  <2>2. CASE Restart
    BY <2>2 DEF Restart, LoseScheduler
  <2>3. CASE UNCHANGED standing
    BY <2>3
  <2>4. RunOnce \/ Restart \/ UNCHANGED standing
    BY <1>1 DEF Next, Handle, vars, driftVars, loopVars, StartSession, StoreRepresentation, StoreType,
       BeginTurn, EmbedTurn, FinishTurn, Intercept, PushAttempt, RefreshKey, AppendFails,
       ResolveRequest, Expire, Drift, BeginPass, ScanInterrupted, ScanSession, ScanFails, EndScan,
       EndPass, EndLoop
  <2>5. QED
    BY <2>1, <2>2, <2>3, <2>4
<1>2. QED
  BY <1>1, ApiInvariant, PTL DEF Spec, ChecksSpaced

\* The anchor of a session's task moves only to a text judged no refinement of
\* the anchor it was judged against (subtask.py:61-70).
THEOREM SubTasksOpen == Spec => SubTasksOpenOnNewTasks
<1> DEFINE Opens ==
      \A s \in Sessions :
        s \in Tracked /\ restarts' = restarts /\ (anchor'[s] # anchor[s] \/ index'[s] # index[s]) =>
          /\ index'[s] = index[s] + 1
          /\ \/ <<anchor[s], anchor'[s]>> \notin Similar
             \/ \E t \in Threads : pc[t] = "moved" /\ job[t].session = s
                                     /\ job[t].anchor # anchor[s]
<1>1. ASSUME ApiInv, [Next]_vars PROVE Opens
  <2>1. ASSUME NEW t \in Threads, FinishTurn(t) PROVE Opens
    BY <1>1, <2>1 DEF ApiInv, TypeOK, FinishTurn, Advance, IsNewSubtask
  <2>2. ASSUME NEW t \in Threads, StoreRepresentation(t) PROVE Opens
    <3>1. job[t].session \notin Tracked
      BY <1>1, <2>2 DEF ApiInv, Jobs, JobOK, StoreRepresentation
    <3>2. QED
      BY <1>1, <2>2, <3>1 DEF ApiInv, TypeOK, StoreRepresentation, StartTask
  <2>3. CASE Restart
    BY <1>1, <2>3 DEF ApiInv, TypeOK, Restart
  <2>4. CASE UNCHANGED <<anchor, index>>
    BY <2>4
  <2>5. \/ \E t \in Threads : FinishTurn(t) \/ StoreRepresentation(t)
        \/ Restart \/ UNCHANGED <<anchor, index>>
    BY <1>1 DEF Next, Handle, vars, taskVars, StartSession, StoreType, BeginTurn, EmbedTurn,
       MoveVector, Intercept, PushAttempt, RefreshKey, AppendFails, ResolveRequest, Expire, Drift
  <2>6. QED
    BY <2>1, <2>2, <2>3, <2>4, <2>5
<1>2. QED
  BY <1>1, ApiInvariant, PTL DEF Spec, SubTasksOpenOnNewTasks
================================================================================
