------------------------- MODULE MCGuardEscalation -------------------------
(* One guarded call and two watchers, who may wait for its escalation      *)
(* before, while or after the call does, and share a loop with it or with  *)
(* each other.  Loops of different escalations have nothing in common.     *)
(* Two policies of rules, two policy objects and one that lacks its tools  *)
(* judge calls, requests and messages of each kind.                        *)
EXTENDS GuardEscalation

CONSTANTS c1, w1, w2, clean, mail, secret

TheMatches == [p \in {clean, mail, secret} |->
    CASE p = clean -> {} [] p = mail -> {"agent_pii"} [] p = secret -> {"agent_secret"}]
TheSubjects == [p \in {clean, mail, secret} |-> IF p = mail THEN "email" ELSE "none"]

NoHits == [p \in {clean, mail, secret} |-> {}]

TheCovers == [p \in {"fs:*", "*.org"} |->
    IF p = "*.org" THEN {"a.org"} ELSE {"fs:", "fs:read@1", "fs:write"}]

Target(form, server, name, version, raw) ==
    [raw |-> raw, form |-> form, server |-> server, name |-> name, version |-> version,
     host |-> ""]
Url(host) == [NoTarget EXCEPT !.raw = "https://" \o host \o "/x", !.host = host]
Tools == {Target("pair", "fs", "read", "1", "fs:read@1"), Target("plain", "", "read", "2", "read@2"),
          Target("pair", "fs", "write", "", "fs:write"), Target("pair", "fs", "", "", "fs:"),
          Target("url", "fs", "", "", "mcp://fs/"), Target("url", "fs", "read", "", "mcp://fs/read"),
          NoTarget}

Input(kind, target, text) ==
    [kind |-> kind, target |-> target, place |-> NoTarget, tags |-> {"side"}, text |-> text]
TheInputs ==
    {Input(k, t, <<>>) : k \in {"tool_call", "mcp_call"}, t \in Tools}
    \cup {Input("api_call", t, <<>>) : t \in {Url("a.org"), Url("b.net"), Url(""), NoTarget}}
    \cup {[Input("api_call", NoTarget, <<>>) EXCEPT !.place = Url("b.net"), !.tags = {}]}
    \cup {Input("message_outbound", NoTarget, text) :
            text \in {<<clean>>, <<mail>>, <<secret>>, <<mail, mail>>}}

Rule(kinds, targets, tags, to) ==
    [kinds |-> kinds, targets |-> targets, tags |-> tags, outcome |-> to]
Ruled == [rules |-> <<Rule({"*", "api_call"}, {"*.org"}, {}, "block"),
                      Rule({"tool_call"}, {"fs:*"}, {"side"}, "escalate"),
                      Rule({"tool_call", "mcp_call"}, {"fs:*", "*"}, {"other", "side"}, "allow"),
                      Rule({"message_outbound"}, {}, {}, "redact"),
                      Rule({}, {}, {"side"}, "block")>>]

Entry(server, name, version) == [server |-> server, name |-> name, version |-> version]
Strict ==
    [enforcement |-> [deny |-> {"tool_in_denylist", "egress_violation", "agent_guard_failed"},
                      escalate |-> {{"tool_not_in_allowlist"}}],
     tools |-> {Entry("fs", "read", "*"), Entry("", "read", "2"), Entry("", "fs:", "")},
     egress |-> {"*.org"}, redacts |-> TRUE, approves |-> FALSE,
     guard |-> [enabled |-> TRUE, severity |-> {"critical"}, count |-> {2}]]
Approving ==
    [Strict EXCEPT !.approves = TRUE, !.enforcement.escalate = {}, !.enforcement.deny = @ \ {"agent_guard_failed"},
                   !.tools = {Entry("fs", "", "")}]
ThePolicies ==
    {Ruled, [defaultOutcome |-> "block"], Strict, Approving,
     [Strict EXCEPT !.enforcement.deny = {}, !.approves = TRUE, !.tools = {Entry("*", "*", "*")}],
     [enforcement |-> Strict.enforcement]}

TheQuestions == [policy : ThePolicies, input : TheInputs]
============================================================================
