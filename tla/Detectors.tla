------------------------------ MODULE Detectors ------------------------------
(***************************************************************************)
(* The three session-level detectors as operators on the attempts that the *)
(* session store returns: permission escalation, tool-loop rate (with the  *)
(* retry-versus-evasion split) and exfiltration (detectors/*.py).  An      *)
(* attempt is a record with at least the fields tool, params and outcome.  *)
(***************************************************************************)
EXTENDS Naturals, Sequences, FiniteSets

CONSTANTS
  Baseline,            \* BASELINE_FOOTPRINT of the session's task type
  Outbound,            \* OUTBOUND_TOOLS
  OversizedParams,     \* parameters with a value above the content threshold
  RateThreshold,       \* DEFAULT_RATE_THRESHOLD, 7 in the code
  OutboundThreshold    \* DEFAULT_OUTBOUND_FREQUENCY_THRESHOLD, 7 in the code

ASSUME DetectorAssumption ==
  RateThreshold \in Nat \ {0} /\ OutboundThreshold \in Nat \ {0}

\* get_tool_footprint: every attempt counts, executed or not.
FootprintOfAllowed(attempts) ==
  {attempts[i].tool : i \in {j \in DOMAIN attempts : attempts[j].outcome = "allowed"}}

Footprint(attempts) == {attempts[i].tool : i \in DOMAIN attempts}

\* check_permission_escalation on the prior footprint and the new tool.
IsEscalated(attempts, tool) == (Footprint(attempts) \cup {tool}) \ Baseline # {}

\* prior_same_tool and prior_outbound, as positions in the history.
SameTool(attempts, tool) == {i \in DOMAIN attempts : attempts[i].tool = tool}

OutboundCalls(attempts) == {i \in DOMAIN attempts : attempts[i].tool \in Outbound}

IsRateExceededLate(attempts, tool) ==
  Cardinality(SameTool(attempts, tool)) >= RateThreshold

IsRateExceeded(attempts, tool) ==
  Cardinality(SameTool(attempts, tool)) + 1 >= RateThreshold

\* The last attempt of the tool was BLOCKED and the parameters have changed.
IsEvasionRetryOfLastCall(attempts, tool, params) ==
  /\ attempts # <<>>
  /\ LET last == attempts[Len(attempts)]
     IN last.tool = tool /\ last.outcome = "blocked" /\ last.params # params

IsEvasionRetry(attempts, tool, params) ==
  \E i \in SameTool(attempts, tool) :
    /\ \A j \in SameTool(attempts, tool) : j <= i
    /\ attempts[i].outcome = "blocked"
    /\ attempts[i].params # params

\* LoopRateResult.is_flagged.
LoopRateFlags(attempts, tool, params) ==
  IsRateExceeded(attempts, tool) \/ IsEvasionRetry(attempts, tool, params)

\* ExfiltrationResult.is_flagged; only outbound tools are looked at.
IsFrequencyExceededLate(attempts) ==
  Cardinality(OutboundCalls(attempts)) >= OutboundThreshold

IsFrequencyExceeded(attempts) ==
  Cardinality(OutboundCalls(attempts)) + 1 >= OutboundThreshold

ExfiltrationFlags(attempts, tool, params) ==
  /\ tool \in Outbound
  /\ IsFrequencyExceeded(attempts) \/ params \in OversizedParams
==============================================================================
