---------------------------- MODULE AuditContract ----------------------------
(***************************************************************************)
(* What the audit trail promises to whoever reads it afterwards            *)
(* (interception/interceptor.py, intercept_and_call; the investigation     *)
(* report reads it so): a trail is only appended to, one verdict per call; *)
(* a tool runs on the strength of a verdict "allowed" that is already      *)
(* there, one run for each; a call is recorded as held only when it has    *)
(* been queued, under the request it was queued as, and once.  The         *)
(* detectors, the breaker and the threads are no part of this view.        *)
(***************************************************************************)
EXTENDS Naturals, Sequences, FiniteSets

CONSTANTS Sessions, Tools, Requests, NoRequest

VARIABLES trail,    \* per session, the verdicts on its calls
          held,     \* the call each request stands for
          ran       \* how often a tool has run for a session

contractVars == <<trail, held, ran>>

ContractInit ==
  /\ trail = [s \in Sessions |-> <<>>]
  /\ held = [r \in Requests |-> NoRequest]
  /\ ran = [s \in Sessions |-> [x \in Tools |-> 0]]

Record(s, x, outcome, r) ==
  /\ trail' = [trail EXCEPT ![s] = Append(@, [tool |-> x, outcome |-> outcome, request |-> r])]
  /\ UNCHANGED <<held, ran>>

\* A verdict on a call that is not held.
Decide(s, x) == \E outcome \in {"allowed", "blocked"} : Record(s, x, outcome, NoRequest)

\* The approval queue takes a call.
Hold(s, x, r) ==
  /\ held[r] = NoRequest
  /\ held' = [held EXCEPT ![r] = [session |-> s, tool |-> x]]
  /\ UNCHANGED <<trail, ran>>

Recorded(r) == \E s \in Sessions : \E i \in DOMAIN trail[s] : trail[s][i].request = r

\* And only then the trail does, once.
RecordHeld(s, x, r) ==
  /\ held[r] = [session |-> s, tool |-> x]
  /\ ~Recorded(r)
  /\ Record(s, x, "pending_approval", r)

Permits(s, x) ==
  {i \in DOMAIN trail[s] : trail[s][i].tool = x /\ trail[s][i].outcome = "allowed"}

Run(s, x) ==
  /\ ran[s][x] < Cardinality(Permits(s, x))
  /\ ran' = [ran EXCEPT ![s][x] = @ + 1]
  /\ UNCHANGED <<trail, held>>

ContractNext ==
  \E s \in Sessions, x \in Tools :
    \/ Decide(s, x) \/ Run(s, x)
    \/ \E r \in Requests : Hold(s, x, r) \/ RecordHeld(s, x, r)

ContractSpec == ContractInit /\ [][ContractNext]_contractVars
==============================================================================
