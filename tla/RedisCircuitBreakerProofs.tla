---------------------- MODULE RedisCircuitBreakerProofs ----------------------
(***************************************************************************)
(* What holds of RedisCircuitBreaker for every number of callers,          *)
(* threshold, timeout and bound.  KeysAgree is not inductive: deleting the *)
(* stamp must not orphan a count, and setting it must find one.  Apart     *)
(* adds why: while nothing is torn, callers about to open the breaker and  *)
(* callers about to close it are never there together.  Undisturbed adds   *)
(* why a trip repairs torn keys: as long as no success overlaps it, also   *)
(* when earlier overlaps have torn the keys, its count stands and nobody   *)
(* is about to delete its stamp.                                           *)
(***************************************************************************)
EXTENDS RedisCircuitBreaker, TLAPS

\* Whoever opens has a count at the threshold, whoever clears one below it.
Apart ==
  ~torn =>
    /\ Opening # {} => count >= FailureThreshold
    /\ Clearing # {} => count < FailureThreshold

Undisturbed == Opening \subseteq overlapped \/ (Clearing = {} /\ count >= FailureThreshold)

KeysInv == TypeOK /\ KeysAgree /\ Apart /\ Undisturbed

USE RedisBreakerAssumption

LEMMA InitKeysInv == Init => KeysInv
<1> SUFFICES ASSUME Init PROVE KeysInv
  OBVIOUS
<1>1. TypeOK
  <2>1. pc \in [Callers -> PcValues] /\ held \in [Callers -> Times]
    BY DEF Init, Times, PcValues
  <2>2. \A c \in Callers : held[c] = NoTime /\ pc[c] = "idle"
    BY DEF Init
  <2>3. clock \in Nat /\ count \in 0..MaxFailures /\ openedAt \in Times /\ cuts \in Nat
    BY DEF Init, Times
  <2>4. torn \in BOOLEAN /\ overlapped \subseteq Opening
    BY DEF Init
  <2>5. QED
    BY <2>1, <2>2, <2>3, <2>4 DEF TypeOK
<1>2. Opening = {} /\ Clearing = {}
  BY DEF Init, Opening, Clearing
<1>3. QED
  BY <1>1, <1>2 DEF Init, KeysInv, KeysAgree, Apart, Undisturbed

-----------------------------------------------------------------------------
\* Types, step by step of `call`.

LEMMA NextTypeOK == TypeOK /\ [Next]_vars => TypeOK'
<1> SUFFICES ASSUME TypeOK, [Next]_vars PROVE TypeOK'
  OBVIOUS
<1> USE DEF TypeOK, Times, PcValues, GoTo, Leave, keys, history, Opening
<1>1. ASSUME NEW c \in Callers, GetStamp(c) PROVE TypeOK'
  BY <1>1 DEF GetStamp
<1>2. ASSUME NEW c \in Callers, Compare(c) PROVE TypeOK'
  BY <1>2 DEF Compare
<1>3. ASSUME NEW c \in Callers, IncrementCount(c) PROVE TypeOK'
  <2>1. overlapped \subseteq Opening /\ Opening \subseteq Opening'
    BY <1>3 DEF IncrementCount
  <2>2. Trips(count') => c \in Opening'
    BY <1>3 DEF IncrementCount
  <2>3. torn' \in BOOLEAN /\ overlapped' \subseteq Opening'
    <3>1. CASE Trips(count') /\ Clearing # {}
      BY <1>3, <2>1, <2>2, <3>1 DEF IncrementCount
    <3>2. CASE ~(Trips(count') /\ Clearing # {})
      BY <1>3, <2>1, <3>2 DEF IncrementCount
    <3>3. QED
      BY <3>1, <3>2
  <2>4. QED
    BY <1>3, <2>3 DEF IncrementCount
<1>4. ASSUME NEW c \in Callers, DeleteCount(c) PROVE TypeOK'
  BY <1>4 DEF DeleteCount
<1>5. ASSUME NEW c \in Callers, ReadClock(c) PROVE TypeOK'
  BY <1>5 DEF ReadClock
<1>6. ASSUME NEW c \in Callers, SetStamp(c) PROVE TypeOK'
  BY <1>6 DEF SetStamp, NoteTrip
<1>7. ASSUME NEW c \in Callers, DeleteStamp(c) PROVE TypeOK'
  BY <1>7 DEF DeleteStamp
<1>8. ASSUME NEW c \in Callers, CutShort(c) PROVE TypeOK'
  BY <1>8 DEF CutShort
<1>9. CASE Tick
  BY <1>9 DEF Tick
<1>10. CASE UNCHANGED vars
  BY <1>10 DEF vars
<1>11. QED
  BY <1>1, <1>2, <1>3, <1>4, <1>5, <1>6, <1>7, <1>8, <1>9, <1>10 DEF Next, Step, Finish

-----------------------------------------------------------------------------
\* The agreement of the two keys, step by step.  Only c changes its place.

\* Where the callers that change the keys stand after a step of c.
LEMMA Places ==
  ASSUME TypeOK, NEW c \in Callers, NEW place, NEW time, GoTo(c, place, time)
  PROVE  /\ Opening' = (IF place \in {"tripping", "stamping"} THEN Opening \cup {c} ELSE Opening \ {c})
         /\ Clearing' = (IF place = "clearing" THEN Clearing \cup {c} ELSE Clearing \ {c})
BY DEF TypeOK, GoTo, Opening, Clearing

\* A step that moves no caller into, out of or between the command pairs.
LEMMA Elsewhere ==
  ASSUME KeysInv, Opening' = Opening, Clearing' = Clearing, UNCHANGED <<keys, history>>
  PROVE  KeysAgree' /\ Apart' /\ Undisturbed'
BY DEF KeysInv, KeysAgree, Apart, Undisturbed, keys, history

LEMMA NextKeysAgree == KeysInv /\ [Next]_vars => KeysAgree' /\ Apart' /\ Undisturbed'
<1> SUFFICES ASSUME KeysInv, [Next]_vars PROVE KeysAgree' /\ Apart' /\ Undisturbed'
  OBVIOUS
<1> DEFINE Agree == KeysAgree' /\ Apart' /\ Undisturbed'
<1>0. TypeOK /\ KeysAgree /\ Apart /\ Undisturbed /\ count \in Nat /\ count' \in Nat
  BY NextTypeOK DEF KeysInv, TypeOK
<1>1. ASSUME NEW c \in Callers, GetStamp(c) \/ Compare(c) \/ ReadClock(c) PROVE Agree
  <2>1. PICK place, time : GoTo(c, place, time)
    BY <1>1 DEF GetStamp, Compare, ReadClock, Leave
  <2>2. Opening' = Opening /\ Clearing' = Clearing
    BY <1>0, <1>1, <2>1 DEF TypeOK, GetStamp, Compare, ReadClock, GoTo, Leave, Opening, Clearing
  <2>3. UNCHANGED <<keys, history>>
    BY <1>1 DEF GetStamp, Compare, ReadClock
  <2>4. QED
    BY <2>2, <2>3, Elsewhere
<1>2. ASSUME NEW c \in Callers, IncrementCount(c) PROVE Agree
  <2>1. pc[c] = "running" /\ c \notin Opening /\ c \notin Clearing
    BY <1>2 DEF IncrementCount, Opening, Clearing
  <2>2. /\ IF Trips(count') THEN Opening' = Opening \cup {c} ELSE Opening' = Opening
        /\ Clearing' = Clearing
    BY <1>0, <1>2, <2>1, Places DEF IncrementCount, Leave
  <2>3. openedAt' = openedAt /\ count <= count'
    BY <1>0, <1>2 DEF TypeOK, IncrementCount
  <2>4. CASE Trips(count') /\ Clearing # {}
    <3>1. torn' /\ overlapped' = overlapped \cup {c}
      BY <1>2, <2>4 DEF IncrementCount
    <3>2. QED
      BY <1>0, <2>2, <2>4, <3>1 DEF KeysAgree, Apart, Undisturbed
  <2>5. CASE ~(Trips(count') /\ Clearing # {})
    <3>1. UNCHANGED history
      BY <1>2, <2>5 DEF IncrementCount
    <3>2. KeysAgree' /\ Apart'
      BY <1>0, <2>2, <2>3, <2>5, <3>1 DEF KeysAgree, Apart, Trips, history
    <3>3. Undisturbed'
      BY <1>0, <2>2, <2>3, <2>5, <3>1 DEF Undisturbed, Trips, history
    <3>4. QED
      BY <3>2, <3>3
  <2>6. QED
    BY <2>4, <2>5
<1>3. ASSUME NEW c \in Callers, DeleteCount(c) PROVE Agree
  <2>1. pc[c] = "running" /\ c \notin Opening
    BY <1>3 DEF DeleteCount, Opening
  <2>2. Opening' = Opening /\ Clearing' = Clearing \cup {c}
    BY <1>0, <1>3, <2>1, Places DEF DeleteCount
  <2>3. count' = 0 /\ (~torn' => Opening = {}) /\ Opening \subseteq overlapped'
    BY <1>3 DEF DeleteCount
  <2>4. QED
    BY <1>0, <2>2, <2>3 DEF KeysAgree, Apart, Undisturbed
<1>4. ASSUME NEW c \in Callers, SetStamp(c) PROVE Agree
  <2>1. c \in Opening /\ c \notin Clearing
    BY <1>4 DEF SetStamp, Opening, Clearing
  <2>2. Opening' = Opening \ {c} /\ Clearing' = Clearing
    BY <1>0, <1>4, <2>1, Places DEF SetStamp, Leave
  <2>3. openedAt' # NoTime /\ count' = count
    BY <1>0, <1>4 DEF TypeOK, SetStamp
  <2>4. overlapped' = overlapped \ {c} /\ (~torn' => ~torn \/ c \notin overlapped)
    BY <1>4 DEF SetStamp, NoteTrip
  <2>5. Undisturbed'
    BY <1>0, <2>2, <2>3, <2>4 DEF Undisturbed
  <2>6. ~torn' => Clearing = {} /\ count >= FailureThreshold
    <3>1. CASE ~torn
      BY <1>0, <2>1, <3>1 DEF Apart
    <3>2. CASE c \notin overlapped
      BY <1>0, <2>1, <3>2 DEF Undisturbed
    <3>3. QED
      BY <2>4, <3>1, <3>2
  <2>7. QED
    BY <2>2, <2>3, <2>5, <2>6 DEF KeysAgree, Apart
<1>5. ASSUME NEW c \in Callers, DeleteStamp(c) PROVE Agree
  <2>1. c \in Clearing /\ c \notin Opening
    BY <1>5 DEF DeleteStamp, Opening, Clearing
  <2>2. Opening' = Opening /\ Clearing' = Clearing \ {c}
    BY <1>0, <1>5, <2>1, Places DEF DeleteStamp, Leave
  <2>3. openedAt' = NoTime /\ count' = count /\ UNCHANGED history
    BY <1>5 DEF DeleteStamp
  <2>4. QED
    BY <1>0, <2>1, <2>2, <2>3 DEF KeysAgree, Apart, Undisturbed, history
<1>6. ASSUME NEW c \in Callers, CutShort(c) PROVE Agree
  <2>1. Opening' = Opening \ {c} /\ Clearing' = Clearing \ {c}
    BY <1>0, <1>6, Places DEF CutShort, Leave
  <2>2. CASE pc[c] = "comparing"
    <3>1. Opening' = Opening /\ Clearing' = Clearing
      BY <2>1, <2>2 DEF Opening, Clearing
    <3>2. UNCHANGED keys /\ torn' = torn /\ overlapped' = overlapped \ {c}
      <4>1. UNCHANGED keys
        BY <1>6, <2>2 DEF CutShort
      <4>2. torn' = torn
        BY <1>0, <1>6, <2>2 DEF TypeOK, CutShort
      <4>3. overlapped' = overlapped \ {c}
        BY <1>6, <2>2 DEF CutShort
      <4>4. QED
        BY <4>1, <4>2, <4>3
    <3>3. c \notin overlapped
      BY <1>0, <2>2 DEF TypeOK, Opening
    <3>4. QED
      BY <3>1, <3>2, <3>3, Elsewhere DEF history
  <2>3. CASE pc[c] # "comparing"
    <3>1. torn'
      BY <1>0, <1>6, <2>3 DEF TypeOK, PcValues, CutShort
    <3>2. Undisturbed'
      <4>1. CASE pc[c] = "running"
        <5>1. overlapped' = (overlapped \cup Opening) \ {c}
          BY <1>6, <4>1 DEF CutShort
        <5>2. QED
          BY <2>1, <5>1 DEF Undisturbed
      <4>2. CASE pc[c] # "running"
        <5>1. overlapped' = overlapped \ {c} /\ count' = count
          BY <1>6, <4>2 DEF CutShort, keys
        <5>2. QED
          BY <1>0, <2>1, <5>1 DEF Undisturbed
      <4>3. QED
        BY <4>1, <4>2
    <3>3. QED
      BY <3>1, <3>2 DEF KeysAgree, Apart
  <2>4. QED
    BY <2>2, <2>3
<1>7. CASE Tick \/ UNCHANGED vars
  <2>1. Opening' = Opening /\ Clearing' = Clearing /\ UNCHANGED <<keys, history>>
    BY <1>7 DEF Tick, vars, Opening, Clearing
  <2>2. QED
    BY <2>1, Elsewhere
<1>8. QED
  BY <1>1, <1>2, <1>3, <1>4, <1>5, <1>6, <1>7 DEF Next, Step, Finish

LEMMA KeysInvariant == Spec => []KeysInv
<1>1. KeysInv /\ [Next]_vars => KeysInv'
  BY NextTypeOK, NextKeysAgree DEF KeysInv
<1>2. QED
  BY InitKeysInv, <1>1, PTL DEF Spec

\* The keys keep their types, and no stamp lies in the future of any replica.
THEOREM TypeCorrect == Spec => []TypeOK
BY KeysInvariant, PTL DEF KeysInv

\* From the end of a trip that no success overlaps, or the beginning of a
\* success that finds no trip under way, whatever disagreement was left before,
\* until a trip and a success overlap or a call is cut short, the count and the
\* stamp tell every replica the same.
THEOREM ReplicasAgree == Spec => []KeysAgree
BY KeysInvariant, PTL DEF KeysInv
==============================================================================
