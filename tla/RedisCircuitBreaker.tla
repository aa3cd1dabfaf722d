------------------------- MODULE RedisCircuitBreaker -------------------------
(***************************************************************************)
(* interception/redis_circuit_breaker.py: the breaker that replicas share  *)
(* through two Redis keys, failure_count and opened_at.                    *)
(*                                                                         *)
(* Redis executes a command atomically and nothing spans two of them, so a *)
(* step is one command, or one reading of the wall clock (time.time, taken *)
(* to agree between replicas).  Any command may raise in the replica, its  *)
(* effect applied or not, and a replica may be killed between two: in both *)
(* cases the call is cut short where it stands.  The GET of the count that *)
(* words CircuitOpenError changes nothing and is not a step.               *)
(***************************************************************************)
EXTENDS Naturals

CONSTANTS
  Callers,            \* threads of all the replicas
  FailureThreshold,   \* failure_threshold, 3 in the code
  RecoveryTimeout,    \* recovery_timeout_seconds, in ticks
  NoTime,             \* the key opened_at does not exist
  MaxClock,           \* bound: the clock stops there
  MaxFailures,        \* bound: the count saturates there; the code only
                      \* compares it with the threshold
  MaxCuts             \* bound: calls cut short

ASSUME RedisBreakerAssumption ==
  /\ FailureThreshold \in Nat \ {0}
  /\ RecoveryTimeout \in Nat \ {0}
  /\ MaxClock \in Nat
  /\ MaxFailures \in Nat /\ MaxFailures >= FailureThreshold
  /\ MaxCuts \in Nat
  /\ NoTime \notin Nat

VARIABLES
  count,      \* key failure_count; 0: it does not exist
  openedAt,   \* key opened_at
  clock,      \* time.time()
  pc,         \* where each caller stands in `call`
  held,       \* the time it holds: a stamp it read, or the clock of its trip
  cuts,       \* calls cut short so far
  overlapped, \* history: callers whose trip a success has overlapped
  torn        \* history: a trip and a success overlapped, or a call was cut
              \* short, and nothing has repaired the keys since

keys == <<count, openedAt>>
history == <<overlapped, torn>>
vars == <<keys, clock, pc, held, cuts, history>>

\* comparing: opened_at has been read (lines 71-75); running: inside fn();
\* tripping: INCR reached the threshold (97); stamping: the clock is read (98);
\* clearing: the count is deleted, the stamp not yet (101-102).
PcValues == {"idle", "comparing", "running", "tripping", "stamping", "clearing"}

Init ==
  /\ count = 0
  /\ openedAt = NoTime
  /\ clock = 0
  /\ pc = [c \in Callers |-> "idle"]
  /\ held = [c \in Callers |-> NoTime]
  /\ cuts = 0
  /\ overlapped = {} /\ torn = FALSE

-----------------------------------------------------------------------------
GoTo(c, place, time) ==
  /\ pc' = [pc EXCEPT ![c] = place]
  /\ held' = [held EXCEPT ![c] = time]

Leave(c) == GoTo(c, "idle", NoTime)

Clearing == {c \in Callers : pc[c] = "clearing"}
Opening == {c \in Callers : pc[c] \in {"tripping", "stamping"}}

\* `state`, lines 71-73: no stamp, the call proceeds; else its age is compared.
GetStamp(c) ==
  /\ pc[c] = "idle"
  /\ IF openedAt = NoTime THEN GoTo(c, "running", NoTime)
                          ELSE GoTo(c, "comparing", openedAt)
  /\ UNCHANGED <<keys, clock, cuts, history>>

\* Lines 75-77 and 86-92: half-open lets the call run, else CircuitOpenError.
NeverRecovered(c) == FALSE

RecoveryElapsed(c) == clock >= held[c] + RecoveryTimeout

Compare(c) ==
  /\ pc[c] = "comparing"
  /\ IF RecoveryElapsed(c) THEN GoTo(c, "running", NoTime) ELSE Leave(c)
  /\ UNCHANGED <<keys, clock, cuts, history>>

\* new_count >= failure_threshold.
TripsAtExactCount(new) == new = FailureThreshold

Trips(new) == new >= FailureThreshold

\* Lines 95-97: fn raised, INCR.
IncrementCount(c) ==
  LET new == IF count < MaxFailures THEN count + 1 ELSE count
  IN /\ pc[c] = "running"
     /\ count' = new
     /\ IF Trips(new) THEN GoTo(c, "tripping", NoTime) ELSE Leave(c)
     /\ IF Trips(new) /\ Clearing # {}
        THEN torn' = TRUE /\ overlapped' = overlapped \cup {c}
        ELSE UNCHANGED history
     /\ UNCHANGED <<openedAt, clock, cuts>>

\* Line 98: str(self.clock()) is evaluated, then the SET is sent.
ReadClock(c) ==
  /\ pc[c] = "tripping"
  /\ GoTo(c, "stamping", clock)
  /\ UNCHANGED <<keys, clock, cuts, history>>

\* A trip that no success has overlapped repairs the keys.
NoteTrip(c) ==
  /\ torn' = (torn /\ c \in overlapped)
  /\ overlapped' = overlapped \ {c}

SetStampAhead(c) ==
  /\ pc[c] = "stamping"
  /\ openedAt' = held[c] + RecoveryTimeout
  /\ Leave(c)
  /\ NoteTrip(c)
  /\ UNCHANGED <<count, clock, cuts>>

SetStamp(c) ==
  /\ pc[c] = "stamping"
  /\ openedAt' = held[c]
  /\ Leave(c)
  /\ NoteTrip(c)
  /\ UNCHANGED <<count, clock, cuts>>

\* Line 101: fn returned, the count is deleted first.
DeleteCount(c) ==
  /\ pc[c] = "running"
  /\ count' = 0
  /\ GoTo(c, "clearing", NoTime)
  /\ torn' = (Opening # {})
  /\ overlapped' = overlapped \cup Opening
  /\ UNCHANGED <<openedAt, clock, cuts>>

\* Line 102: and then the stamp.
DeleteStampOnlyIfCounted(c) ==
  /\ pc[c] = "clearing"
  /\ openedAt' = IF count > 0 THEN NoTime ELSE openedAt
  /\ Leave(c)
  /\ UNCHANGED <<count, clock, cuts, history>>

DeleteStamp(c) ==
  /\ pc[c] = "clearing"
  /\ openedAt' = NoTime
  /\ Leave(c)
  /\ UNCHANGED <<count, clock, cuts, history>>

\* The next command raises, or the replica dies; a command in flight may still
\* be applied.
CutShort(c) ==
  /\ pc[c] # "idle"
  /\ cuts < MaxCuts
  /\ cuts' = cuts + 1
  /\ torn' = (torn \/ pc[c] \in {"running", "tripping", "stamping", "clearing"})
  /\ overlapped' = (IF pc[c] = "running" THEN overlapped \cup Opening ELSE overlapped) \ {c}
  /\ Leave(c)
  /\ \/ UNCHANGED keys
     \/ pc[c] = "running" /\ count < MaxFailures /\ count' = count + 1 /\ UNCHANGED openedAt
     \/ pc[c] = "running" /\ count' = 0 /\ UNCHANGED openedAt
     \/ pc[c] = "stamping" /\ openedAt' = held[c] /\ UNCHANGED count
     \/ pc[c] = "clearing" /\ openedAt' = NoTime /\ UNCHANGED count
  /\ UNCHANGED clock

Tick ==
  /\ clock < MaxClock
  /\ clock' = clock + 1
  /\ UNCHANGED <<keys, pc, held, cuts, history>>

Finish(c) == IncrementCount(c) \/ DeleteCount(c)

Step(c) ==
  GetStamp(c) \/ Compare(c) \/ Finish(c) \/ ReadClock(c) \/ SetStamp(c) \/ DeleteStamp(c)

Next == (\E c \in Callers : Step(c) \/ CutShort(c)) \/ Tick

Spec == Init /\ [][Next]_vars

\* Time passes, every call that is not cut short goes on, and callers keep
\* calling; nothing is assumed about fn succeeding.
Fairness == WF_vars(Tick) /\ \A c \in Callers : WF_vars(Step(c))

FairSpec == Spec /\ Fairness

-----------------------------------------------------------------------------
\* Types of the keys and locals; no stamp, stored or held, lies in the future:
\* a future one would keep every replica's breaker shut beyond its timeout.
Times == {time \in Nat : time <= clock} \cup {NoTime}

TypeOK ==
  /\ clock \in Nat
  /\ count \in 0..MaxFailures
  /\ openedAt \in Times
  /\ pc \in [Callers -> PcValues]
  /\ held \in [Callers -> Times]
  /\ \A c \in Callers : held[c] = NoTime <=> pc[c] \notin {"comparing", "stamping"}
  /\ cuts \in Nat
  /\ overlapped \subseteq Opening /\ torn \in BOOLEAN

\* "Any replica observes the same trip/recovery state" (docstring of call): the
\* two keys agree for every replica, up to the command a caller is about to
\* send, until a trip and a success overlap or a call is cut short.  What those
\* leave behind may disagree for as long as no call finishes, but the next trip
\* that no success overlaps, and the next success that begins with no trip under
\* way, repair it.  Any number of concurrent failures, or of concurrent
\* successes, is harmless.
KeysAgree ==
  ~torn =>
    /\ openedAt # NoTime => count >= FailureThreshold \/ Clearing # {}
    /\ count >= FailureThreshold => openedAt # NoTime \/ Opening # {}

\* A trip that was wiped by an overlapping success, or cut short between INCR
\* and SET, is made up for: while calls go on, a count at the threshold leads to
\* a stamp or to a success that resets it.
LostTripMadeUp == count >= FailureThreshold ~> openedAt # NoTime \/ count < FailureThreshold

\* An open breaker recovers, also when its stamp was set after the success that
\* should have closed it: once its timeout can elapse before the clock stops, a
\* call is let through, the stamp goes, or a later trip renews it.
RecoveryInReach == openedAt # NoTime /\ openedAt + RecoveryTimeout <= MaxClock

OpenBreakerRecovers == RecoveryInReach ~> ~RecoveryInReach \/ \E c \in Callers : pc[c] = "running"
==============================================================================
