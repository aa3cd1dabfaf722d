-------------------------------- MODULE Offline --------------------------------
(***************************************************************************)
(* The programs that run beside the service, one per behaviour: a replay   *)
(* of the attack suite, an evaluation of AgentDojo trajectories, or the    *)
(* promotion gate, or the stability index.  They share no state.           *)
(***************************************************************************)
EXTENDS AttackSuite, Evaluation, DriftStatistics

VARIABLE program

vars == <<program, suiteVars, evaluationVars, statisticsVars>>

Init ==
  /\ program \in {"suite", "evaluation", "gate", "index"}
  /\ SuiteInit /\ EvaluationInit /\ StatisticsInit

Suite == program = "suite" /\ SuiteNext /\ UNCHANGED <<program, evaluationVars, statisticsVars>>

Evaluate ==
  program = "evaluation" /\ EvaluationNext /\ UNCHANGED <<program, suiteVars, statisticsVars>>

Gate == program = "gate" /\ Challenge /\ UNCHANGED <<program, suiteVars, evaluationVars>>

Index == program = "index" /\ ComputePsi /\ UNCHANGED <<program, suiteVars, evaluationVars>>

Next == Suite \/ Evaluate \/ Gate \/ Index

Spec == Init /\ [][Next]_vars
================================================================================
