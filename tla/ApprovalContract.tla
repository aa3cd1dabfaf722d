-------------------------- MODULE ApprovalContract --------------------------
(***************************************************************************)
(* What the approval queue promises (tier_engine/approval_queue.py): a     *)
(* submitted request is resolved at most once, by a human decision or by   *)
(* expiry, and a resolved request "cannot record a new decision".          *)
(***************************************************************************)
CONSTANT Requests

VARIABLE outcome

ContractInit == outcome = [r \in Requests |-> "absent"]

\* A held call is queued.
Queue(r) ==
  /\ outcome[r] = "absent"
  /\ outcome' = [outcome EXCEPT ![r] = "pending"]

\* An approver decides it, or nobody did in time.
Resolve(r) ==
  /\ outcome[r] = "pending"
  /\ \E o \in {"approved", "denied", "expired"} :
       outcome' = [outcome EXCEPT ![r] = o]

ContractNext == \E r \in Requests : Queue(r) \/ Resolve(r)

ContractSpec == ContractInit /\ [][ContractNext]_outcome
==============================================================================
