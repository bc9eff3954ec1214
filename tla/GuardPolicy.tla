----------------------------- MODULE GuardPolicy -----------------------------
(***************************************************************************)
(* What a policy says of an input (src/guard/policy.ts), in either of its  *)
(* forms: a list of rules, of which the first that applies decides, or the *)
(* policy object of the gateway, of which the guard reads the allowlists,  *)
(* the agent guard and what to do with a violation.                        *)
(*                                                                         *)
(* An optional field of a policy is a field it may lack, or a set of at    *)
(* most one value.  A target is a record of its parts with the text it was *)
(* read from, in raw.  Two policies of one hash are one policy, so that    *)
(* the guards cached by hash hold nothing of their own; the text that      *)
(* remains of a redacted content is left out.                              *)
(***************************************************************************)
EXTENDS ContentGuard, Integers

CONSTANTS
    Questions,   \* inputs a guard may be asked about, with the policy in force
    Covers       \* Covers[p]: the texts that a wildcard pattern other than * matches

GuardKinds == {"message_outbound", "tool_call", "mcp_call", "api_call"}
GuardOutcomes == {"allow", "redact", "block", "escalate"}

ASSUME QuestionAssumption ==
    \A q \in Questions :
        /\ q.input.kind \in GuardKinds
        /\ "rules" \in DOMAIN q.policy =>
              /\ q.policy.rules \in Seq(ToSet(q.policy.rules))
              /\ \A n \in DOMAIN q.policy.rules : q.policy.rules[n].outcome \in GuardOutcomes

----------------------------------------------------------------------------
\* Targets and patterns.

NoTarget == [raw |-> "", form |-> "plain", server |-> "", name |-> "", version |-> "",
             host |-> ""]

ReadTarget(input) == IF input.target # NoTarget THEN input.target ELSE input.place

\* mcp://server/tool and server:tool name a server; a text without a tool's name
\* is a name itself.
ParseMcpTarget(target) ==
    [server |-> IF target.form = "url" \/ (target.form = "pair" /\ target.name # "")
                THEN target.server ELSE "",
     name |-> IF target.name # "" THEN target.name ELSE target.raw,
     version |-> target.version]

\* Without any pattern everything matches.
WildcardMatch(value, patterns) ==
    \/ patterns = {} \/ "*" \in patterns
    \/ \E p \in patterns \ {"*"} : value \in Covers[p]

\* An entry of an allowlist is tool[@version] with no server, or
\* mcp://server[/tool[@version]]; "*" for the version stands for any, and for the
\* tool only where no version follows, but in an entry for everything.
Everything == {[server |-> "", name |-> "*", version |-> ""],
               [server |-> "*", name |-> "", version |-> ""],
               [server |-> "*", name |-> "*", version |-> "*"]}

MatchesAllowlist(allowlist, tool) ==
    \/ allowlist \cap Everything # {}
    \/ \E e \in allowlist :
         /\ e.server = "" \/ e.server = "*" \/ e.server = tool.server
         /\ \/ e.name = tool.name /\ e.version \in {"", "*", tool.version}
            \/ e.server # "" /\ e.name \in {"", "*"} /\ e.version = ""

----------------------------------------------------------------------------
\* A policy of rules.

\* A rule for no kind, target or tag in particular is for all.  "*" as one kind
\* among others is not a kind.
Applies(rule, input) ==
    /\ rule.kinds = {} \/ input.kind \in rule.kinds
    /\ WildcardMatch(ReadTarget(input).raw, rule.targets)
    /\ rule.tags = {} \/ rule.tags \cap input.tags # {}

DefaultOutcome(policy) ==
    IF "defaultOutcome" \in DOMAIN policy /\ policy.defaultOutcome = "block"
    THEN "block" ELSE "allow"

RulesFor(policy, input) ==
    IF "rules" \notin DOMAIN policy THEN {}
    ELSE {n \in DOMAIN policy.rules : Applies(policy.rules[n], input)}

First(indices) == CHOOSE n \in indices : \A m \in indices : n <= m

EvaluateGuardPolicyRule(policy, input) ==
    LET applying == RulesFor(policy, input)
    IN  IF applying = {} THEN DefaultOutcome(policy)
        ELSE policy.rules[First(applying)].outcome

----------------------------------------------------------------------------
\* A policy object.

\* What lacks either field is taken for a policy of rules, without any.
IsLegacyPolicyObject(policy) == {"enforcement", "tools"} \subseteq DOMAIN policy

NormalizePolicyReason(reason) ==
    CASE reason = "idempotency_missing" -> "missing_idempotency_for_side_effect"
      [] reason = "tool_in_denylist"    -> "tool_not_in_allowlist"
      [] OTHER                          -> reason

DenyOn(policy) == {NormalizePolicyReason(r) : r \in policy.enforcement.deny}

\* What is denied is escalated, where the policy does not say what is.
EscalateOn(policy) ==
    IF policy.enforcement.escalate = {} THEN DenyOn(policy)
    ELSE {NormalizePolicyReason(r) : r \in UNION policy.enforcement.escalate}

\* The agent guard of a policy has its own patterns only.
BuildAgentGuard(policy) ==
    [enabled |-> policy.guard.enabled, severity |-> policy.guard.severity,
     count |-> policy.guard.count, apps |-> <<>>, hosted |-> <<>>]

GuardFindings(policy, input) ==
    IF input.kind # "message_outbound" THEN <<>>
    ELSE Scan(BuildAgentGuard(policy), input.text, "output", {})

\* A call that names no tool is listed.
ToolListed(policy, target) ==
    target = NoTarget \/ MatchesAllowlist(policy.tools, ParseMcpTarget(target))

EgressAllowed(policy, target) ==
    \/ target = NoTarget
    \/ WildcardMatch(target.raw, policy.egress)
    \/ target.host # "" /\ WildcardMatch(target.host, policy.egress)

Violation(policy, input) ==
    LET target == ReadTarget(input)
    IN  CASE input.kind \in {"tool_call", "mcp_call"} ->
               IF ToolListed(policy, target) THEN "none" ELSE "tool_not_in_allowlist"
          [] input.kind = "api_call" ->
               IF EgressAllowed(policy, target) THEN "none" ELSE "egress_violation"
          [] input.kind = "message_outbound" ->
               IF ShouldBlock(BuildAgentGuard(policy), GuardFindings(policy, input))
               THEN "agent_guard_failed" ELSE "none"

\* Mutant: what can be redacted is not refused.
SanctionAfterRedaction(policy, violation, redacts) ==
    IF violation # "none" /\ policy.approves /\ violation \in EscalateOn(policy)
    THEN "escalate"
    ELSE IF redacts THEN "redact"
    ELSE IF violation # "none" /\ violation \in DenyOn(policy) THEN "block" ELSE "allow"

\* What a violation comes to, of a content with findings to redact or without.
Sanction(policy, violation, redacts) ==
    IF violation # "none" /\ policy.approves /\ violation \in EscalateOn(policy)
    THEN "escalate"
    ELSE IF violation # "none" /\ violation \in DenyOn(policy) THEN "block"
    ELSE IF redacts THEN "redact" ELSE "allow"

EvaluateGuardDecision(policy, input) ==
    IF ~IsLegacyPolicyObject(policy) THEN EvaluateGuardPolicyRule(policy, input)
    ELSE Sanction(policy, Violation(policy, input),
                  policy.redacts /\ GuardFindings(policy, input) # <<>>)

----------------------------------------------------------------------------
\* What must not run unless a reviewer approves of it: what an object denies, or
\* escalates where it has violations approved, and what rules refuse or escalate
\* before any rule lets it pass.
Forbidden(policy, input) ==
    IF IsLegacyPolicyObject(policy)
    THEN /\ Violation(policy, input) # "none"
         /\ \/ Violation(policy, input) \in DenyOn(policy)
            \/ policy.approves /\ Violation(policy, input) \in EscalateOn(policy)
    ELSE LET applying == RulesFor(policy, input)
             Passes(n) == policy.rules[n].outcome \in {"allow", "redact"}
         IN  IF applying = {}
             THEN "defaultOutcome" \in DOMAIN policy /\ policy.defaultOutcome = "block"
             ELSE \E n \in applying : \A m \in applying : m <= n => ~Passes(m)
=============================================================================
