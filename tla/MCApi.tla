--------------------------------- MODULE MCApi ---------------------------------
(* Two sessions, so that one can be opened while the loop reads the other.  *)
(* The texts are a task, a refinement of it, and a new task that would pass *)
(* for a refinement of the refinement.                                      *)
EXTENDS Api, TLC

CONSTANTS task, refinement, pivot

SimilarTexts ==
  {<<task, task>>, <<refinement, refinement>>, <<pivot, pivot>>,
   <<task, refinement>>, <<refinement, task>>, <<refinement, pivot>>, <<pivot, refinement>>}

Allowed == [outcome |-> "allowed", flagged |-> FALSE]
Held == [outcome |-> "pending_approval", flagged |-> TRUE]
AllowedOnly == {Allowed}
AllowedOrHeld == {Allowed, Held}

Symmetry == Permutations(Sessions) \cup Permutations(Threads)
================================================================================
