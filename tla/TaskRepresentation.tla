-------------------------- MODULE TaskRepresentation --------------------------
(***************************************************************************)
(* attribution/subtask.py: what a session's ongoing task is believed to    *)
(* be.  A text stands for itself and for its embedding; which texts the    *)
(* boundary classifier takes for one task is a relation (Similar), that    *)
(* need not be transitive.                                                 *)
(***************************************************************************)
EXTENDS SessionIds, Naturals

CONSTANTS
  Texts,         \* what users say
  InitialText,   \* TASK_INITIAL_USER_TEXT of the session's task type
  Similar        \* pairs <<task text, new text>> judged a refinement

ASSUME TextAssumption == InitialText \in Texts /\ Similar \subseteq Texts \X Texts

VARIABLES anchor,   \* current_task_text
          vector,   \* current_vector: the text it embeds
          index     \* sub_task_index

taskVars == <<anchor, vector, index>>

TaskInit ==
  /\ anchor = [s \in Sessions |-> InitialText]
  /\ vector = [s \in Sessions |-> InitialText]
  /\ index = [s \in Sessions |-> 0]

\* The process and its dictionary are gone.
LoseTasks ==
  /\ anchor' = [s \in Sessions |-> InitialText]
  /\ vector' = [s \in Sessions |-> InitialText]
  /\ index' = [s \in Sessions |-> 0]

\* TaskRepresentation.start
StartTask(s) ==
  /\ anchor' = [anchor EXCEPT ![s] = InitialText]
  /\ vector' = [vector EXCEPT ![s] = InitialText]
  /\ index' = [index EXCEPT ![s] = 0]

\* EmbeddingBoundaryClassifier.is_new_subtask
IsNewSubtask(current, new) == <<current, new>> \notin Similar

\* update_from_user_turn, lines 64-65: the vector follows every turn.
MoveVector(s, text) ==
  /\ vector' = [vector EXCEPT ![s] = text]
  /\ UNCHANGED <<anchor, index>>

\* Lines 66-70: the anchor follows only a turn that was judged a new sub-task.
AdvanceAlways(s, text, new) ==
  /\ index' = IF new THEN [index EXCEPT ![s] = @ + 1] ELSE index
  /\ anchor' = [anchor EXCEPT ![s] = text]
  /\ UNCHANGED vector

Advance(s, text, new) ==
  /\ index' = IF new THEN [index EXCEPT ![s] = @ + 1] ELSE index
  /\ anchor' = IF new THEN [anchor EXCEPT ![s] = text] ELSE anchor
  /\ UNCHANGED vector
===============================================================================
