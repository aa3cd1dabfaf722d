------------------------------- MODULE LlmJudges -------------------------------
(***************************************************************************)
(* The detectors that ask an LLM and what they make of its answer          *)
(* (content_pattern.py, goal_drift.py, input_only_baseline.py,             *)
(* context_aware_baseline.py).  An answer is an exception of the client    *)
(* ("failed"), a text without a verdict line, or one with a verdict and    *)
(* perhaps a confidence, a number in hundredths of a percent.              *)
(***************************************************************************)
EXTENDS Integers, FiniteSets, FiniteSetsExt

CONSTANT NoConfidence

Certain == 10000

Answers(confidences) ==
  [verdict : {"failed", "unparseable"}, confidence : {NoConfidence}]
  \cup [verdict : {"positive", "negative"}, confidence : confidences]

Parsed(answer) == answer.verdict \in {"positive", "negative"}

\* A number in the text is clamped to 0..100 percent.
Clamped(n) == Max({0, Min({Certain, n})})

Confidence(answer) ==
  IF answer.confidence = NoConfidence THEN NoConfidence ELSE Clamped(answer.confidence)

\* GroqContentPatternDetector.check_content: on any failure the heuristic's
\* verdict, which carries no confidence.
CheckContent(answer, heuristic) ==
  IF Parsed(answer)
  THEN [suspicious |-> answer.verdict = "positive", confidence |-> Confidence(answer)]
  ELSE [suspicious |-> heuristic, confidence |-> NoConfidence]

\* GroqDriftDetector.check_drift: on any failure NullDriftDetector's "not drifted".
CheckDrift(answer) == answer.verdict = "positive"

\* InputOnlyClassifier.classify and ContextAwareClassifier.classify: a text
\* without a verdict is no flag; the client's exception is not caught.
ClassifyRaises(answer) == answer.verdict = "failed"
IsFlagged(answer) == answer.verdict = "positive"
================================================================================
