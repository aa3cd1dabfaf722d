------------------------------- MODULE MCOffline -------------------------------
EXTENDS Offline

Judged(verdict, confidence) == [verdict |-> verdict, confidence |-> confidence]
Failed == Judged("failed", NoConfidence)
Garbled == Judged("unparseable", NoConfidence)
Yes == Judged("positive", NoConfidence)
No == Judged("negative", NoConfidence)

Kind(similarity, has_params, heuristic, content, isolated, informed) ==
  [similarity |-> similarity, has_params |-> has_params, heuristic |-> heuristic,
   content |-> content, isolated |-> isolated, informed |-> informed]

\* Similarities far from, at and around the threshold, and the extremes.
MCCallKinds ==
  {Kind(9000, TRUE, FALSE, Judged("negative", 9000), No, No),
   Kind(3000, FALSE, TRUE, Failed, No, Yes),
   Kind(3307, TRUE, FALSE, Judged("positive", 12000), Yes, Yes),
   Kind(3306, FALSE, TRUE, Garbled, Garbled, No),
   Kind(-10000, TRUE, FALSE, No, Failed, No),
   Kind(3500, TRUE, FALSE, Judged("negative", 7000), No, Garbled)}

MCDriftAnswers == {Failed, Yes, No}

\* A value just below the maximum, and a range as narrow as the rounding.
MCSamples ==
  {<<>>, <<0, 40>>, <<40, 40>>, <<0, 39, 40>>, <<-20, 20, 60>>, <<10, 30, 20>>, <<0, 1>>}

\* The champion starts anywhere only where the gate runs.
MCInit == Init /\ (program # "gate" => champion = CHOOSE m \in Metrics : TRUE)
               /\ (program # "suite" => task = CHOOSE t \in TaskTypes : TRUE)

MCSpec == MCInit /\ [][Next]_vars
================================================================================
