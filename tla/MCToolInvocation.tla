-------------------------- MODULE MCToolInvocation --------------------------
(* Two calls in flight, each slot used again and again, under a policy that *)
(* lists some of the reasons there are to object; a breaker of two samples  *)
(* that opens at the first failure in two.                                  *)
EXTENDS ToolInvocation, TLC

CONSTANTS c1, c2

SomeReasons == {"tool_not_in_allowlist", "payload_too_large", "egress_violation",
                "agent_guard_failed", "contextual_evaluator_escalated",
                "policy_fetch_failed", "registry_mutation"}
Listing == {"payload_too_large", "agent_guard_failed", "registry_mutation",
            "missing_audit_signature"}
SomePolicies == {Listing}
EitherCall == Permutations(Calls)
============================================================================
