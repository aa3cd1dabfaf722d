------------------------------- MODULE Policy -------------------------------
(***************************************************************************)
(* The two tables that decide what happens to a call: the fail policy of a *)
(* risk tier (risk_tiers/tiers.py) and the response tier of a scored call  *)
(* (tier_engine/response_tier.py).                                         *)
(***************************************************************************)
EXTENDS Naturals

CONSTANTS
  Tools,        \* names an agent may call, registered or not
  Registered,   \* the tools ToolRegistry.register has seen
  TierOf        \* their risk tiers

RiskTiers == {"read_only", "reversible_write",
              "irreversible_low_value", "irreversible_high_value"}

Irreversible == {"irreversible_low_value", "irreversible_high_value"}

ResponseTiers == {"allow", "flag", "require_approval", "block"}

ASSUME PolicyAssumption ==
  /\ Registered \subseteq Tools
  /\ TierOf \in [Registered -> RiskTiers]

\* _TIER_FAIL_POLICY, and FAIL_CLOSED for a tool without a tier
\* (interceptor.py, _fail_policy_for).
FailPolicyOpenForLowValue(tool) ==
  IF tool \in Registered /\ TierOf[tool] # "irreversible_high_value"
  THEN "fail_open" ELSE "fail_closed"

FailPolicy(tool) ==
  IF tool \in Registered /\ TierOf[tool] \notin Irreversible
  THEN "fail_open" ELSE "fail_closed"

\* decide_response_tier.
DecideResponseTierLenient(flags, tier) ==
  CASE flags = 0 -> "allow"
    [] flags > 0 /\ tier = "irreversible_high_value" -> "block"
    [] flags = 1 /\ tier # "irreversible_high_value" -> "flag"
    [] OTHER -> "require_approval"

DecideResponseTierNoFlag(flags, tier) ==
  CASE flags = 0 -> "allow"
    [] flags > 0 /\ tier = "irreversible_high_value" -> "block"
    [] flags = 1 /\ tier \notin Irreversible -> "none"
    [] OTHER -> "require_approval"

DecideResponseTier(flags, tier) ==
  CASE flags = 0 -> "allow"
    [] flags > 0 /\ tier = "irreversible_high_value" -> "block"
    [] flags = 1 /\ tier \notin Irreversible -> "flag"
    [] OTHER -> "require_approval"
==============================================================================
