---------------------------- MODULE DriftScheduler ----------------------------
(***************************************************************************)
(* attribution/drift_scheduler.py and the iterator it polls,               *)
(* AppState.get_active_sessions_for_drift_check (api/state.py).  The loop  *)
(* is an asyncio task: it gives the event loop back only while it sleeps,  *)
(* but the pool threads of requests already accepted run on, and each      *)
(* Redis read of the scan lets them.                                       *)
(*                                                                         *)
(* The dictionary of task representations is the sequence of its keys in   *)
(* insertion order.  Of a drift decision only the number of calls it was   *)
(* taken at is kept; neither detector raises (GroqDriftDetector falls back *)
(* on any exception).                                                      *)
(***************************************************************************)
EXTENDS SessionIds, Integers, Sequences

CONSTANTS
  CheckInterval,   \* check_interval_calls, 3 in the code
  NoDecision       \* a session that was never checked

ASSUME SchedulerAssumption == CheckInterval \in Nat \ {0} /\ NoDecision \notin Nat

VARIABLES
  loop,          \* where the background task stands
  size,          \* the length of the dictionary when the iteration began
  snapshot,      \* the list under construction, then the part not yet checked
  lastChecked,   \* _last_checked_call_count, 0 when absent
  standing,      \* _standing_decisions: checked_at_call_count
  unread         \* history: calls logged since the loop last read the session,
                 \* those of an entry that led to no check included; it stays at
                 \* CheckInterval once it is there

loopVars == <<loop, size, snapshot, lastChecked, standing>>
driftVars == <<loopVars, unread>>

\* store_failed, dict_changed: an exception has ended the task for good.
LoopStates == {"sleeping", "scanning", "checking", "store_failed", "dict_changed"}

\* What a pass knows of a session: its calls in the store when it was read, and
\* the history value it was read with.
Entries == [session : Sessions, calls : Nat, unread : 0..CheckInterval]

\* start, and nothing checked yet.
DriftInit ==
  /\ loop = "sleeping"
  /\ size = 0
  /\ snapshot = <<>>
  /\ lastChecked = [s \in Sessions |-> 0]
  /\ standing = [s \in Sessions |-> NoDecision]
  /\ unread = [s \in Sessions |-> 0]

\* stop, or a killed process, and start in the next one.
LoseScheduler ==
  /\ loop' = "sleeping"
  /\ size' = 0
  /\ snapshot' = <<>>
  /\ lastChecked' = [s \in Sessions |-> 0]
  /\ standing' = [s \in Sessions |-> NoDecision]
  /\ unread' = [s \in Sessions |-> 0]

\* The event loop can dispatch requests.
EventLoopFree == loop \in {"sleeping", "store_failed", "dict_changed"}

UpToInterval(n) == IF n < CheckInterval THEN n ELSE CheckInterval

\* A call is logged in the store.
NoteCall(s) == unread' = [unread EXCEPT ![s] = UpToInterval(@ + 1)]

EndLoop(reason) ==
  /\ loop' = reason
  /\ size' = 0
  /\ snapshot' = <<>>
  /\ UNCHANGED <<lastChecked, standing, unread>>

\* The sleep is over: iteration over the dictionary begins.  Until the first
\* Redis read no other thread runs: an empty dictionary is found empty.
BeginPass(tracked) ==
  /\ loop = "sleeping"
  /\ loop' = IF tracked = <<>> THEN "checking" ELSE "scanning"
  /\ size' = Len(tracked)
  /\ UNCHANGED <<snapshot, lastChecked, standing, unread>>

\* Python's dictionary iterator refuses to go on, or to end, when the size has
\* changed since it began; other threads had their chance in the Redis read and
\* in the loop's body for the last session.
ScanInterrupted(tracked) ==
  /\ loop = "scanning" /\ snapshot # <<>>
  /\ Len(tracked) # size
  /\ EndLoop("dict_changed")

MoreToScan(tracked) ==
  /\ loop = "scanning" /\ Len(snapshot) < size
  /\ snapshot = <<>> \/ Len(tracked) = size

\* The next session and its number of calls in the store (get_calls).
ScanSession(tracked, log) ==
  /\ MoreToScan(tracked)
  /\ LET s == tracked[Len(snapshot) + 1]
     IN /\ snapshot' = Append(snapshot,
                              [session |-> s, calls |-> Len(log[s]), unread |-> unread[s]])
        /\ unread' = [unread EXCEPT ![s] = 0]
  /\ UNCHANGED <<loop, size, lastChecked, standing>>

\* The store raises: the task ends.
ScanFails(tracked) == MoreToScan(tracked) /\ EndLoop("store_failed")

EndScan(tracked) ==
  /\ loop = "scanning"
  /\ Len(tracked) = size /\ Len(snapshot) = size
  /\ loop' = "checking"
  /\ UNCHANGED <<size, snapshot, lastChecked, standing, unread>>

\* should_check_drift
ShouldCheckDriftLate(callsSince) == callsSince > CheckInterval

ShouldCheckDrift(callsSince) == callsSince >= CheckInterval

\* run_once on the next entry.  lastChecked counts what the store held at the
\* last check: after the key has expired the difference is too small, even
\* negative, and nothing is due.
CheckDriftForgetting(s, entry) ==
  /\ ShouldCheckDrift(entry.calls - lastChecked[s])
  /\ standing' = [standing EXCEPT ![s] = entry.calls]
  /\ UNCHANGED <<lastChecked, unread>>

CheckDrift(s, entry) ==
  /\ ShouldCheckDrift(entry.calls - lastChecked[s])
  /\ standing' = [standing EXCEPT ![s] = entry.calls]
  /\ lastChecked' = [lastChecked EXCEPT ![s] = entry.calls]
  /\ UNCHANGED unread

KeepDecision(s, entry) ==
  /\ ~ ShouldCheckDrift(entry.calls - lastChecked[s])
  /\ unread' = [unread EXCEPT ![s] = UpToInterval(@ + entry.unread)]
  /\ UNCHANGED <<lastChecked, standing>>

RunOnce ==
  /\ loop = "checking" /\ snapshot # <<>>
  /\ LET entry == Head(snapshot)
     IN CheckDrift(entry.session, entry) \/ KeepDecision(entry.session, entry)
  /\ snapshot' = Tail(snapshot)
  /\ UNCHANGED <<loop, size>>

\* Every entry is checked: asyncio.sleep.
EndPass ==
  /\ loop = "checking" /\ snapshot = <<>>
  /\ loop' = "sleeping"
  /\ size' = 0
  /\ UNCHANGED <<snapshot, lastChecked, standing, unread>>
===============================================================================
