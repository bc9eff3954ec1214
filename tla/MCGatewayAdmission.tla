------------------------- MODULE MCGatewayAdmission -------------------------
(* Two configurations, one bare and one with every section, seven policies  *)
(* that go over them, and requests that differ from a good one in one or    *)
(* two respects.                                                            *)
EXTENDS GatewayAdmission

Bare ==
    [tenant |-> "acme", authn |-> Null, entitlements |-> Null, broker |-> "none",
     targets |-> {"files"}, enforcement |-> << >>, runtime |-> << >>, security |-> << >>,
     ap2 |-> << >>, reporter |-> FALSE]
Full ==
    [tenant |-> "acme", authn |-> [oidc |-> OidcFields, lenient |-> TRUE],
     entitlements |->
       [acme |-> [allow |-> {"tenant"}, deny |-> {"bob"}, limited |-> TRUE],
        other |-> [allow |-> {"alice"}, deny |-> {}, limited |-> FALSE]],
     broker |-> "resolved", targets |-> {"files"},
     enforcement |-> [mode |-> "enforce",
                      deny_on |-> {"egress_violation", "duration_too_long",
                                   "tool_in_denylist", "ap2_vc_untrusted"}],
     runtime |-> << >>,
     security |-> [egress_allowlist |-> {"egress_violation"},
                   limits |-> {"payload_too_large", "duration_too_long"},
                   side_effects |-> {"approve_high_risk"}],
     ap2 |-> [mode |-> "partial"], reporter |-> TRUE]

SomeBases == {Bare, Full}
Remote(failing) ==
    [runtime |-> [mode |-> "remote", endpoint |-> TRUE, retries |-> 1,
                  failureMode |-> failing]]
SomePolicies ==
    {<< >>, Remote("allow"), Remote("local"),
     [authn |-> [mode |-> "oidc", oidc |-> {"issuer"}, lenient |-> Null],
      runtime |-> [mode |-> "remote", endpoint |-> TRUE, retries |-> 0,
                   failureMode |-> "deny"]],
     [authn |-> [mode |-> "disabled", oidc |-> {}, lenient |-> Null],
      security |-> [allow_versions |-> {"version_unpinned"}], broker |-> "unresolved",
      runtime |-> [mode |-> "remote", endpoint |-> FALSE]],
     [enforcement |-> [mode |-> "observe", escalate_on |-> {"payload_too_large"}]],
     [enforcement |-> [deny_on |-> {"fs_violation", "payload_too_large"},
                       escalate_on |-> {"payload_too_large", "tool_not_in_allowlist"}],
      security |-> [fs_allowlist |-> {"fs_violation"}],
      ap2 |-> [enabled |-> TRUE, tools |-> {"read"}]]}

Good ==
    [route |-> "mcp", body |-> "json", key |-> TRUE, server |-> "files",
     token |-> "valid", claims |-> [tenant |-> "acme", names |-> {"alice"}],
     headerTenant |-> Null, node |-> "node", tool |-> "read", faults |-> {},
     mandates |-> {}, keyIsDigest |-> TRUE]
SomeRequests ==
    {Good, [Good EXCEPT !.route = "other"], [Good EXCEPT !.body = "broken"],
     [Good EXCEPT !.route = "a2a", !.key = FALSE], [Good EXCEPT !.server = "mail"],
     [Good EXCEPT !.token = "invalid"]}
    \cup {[Good EXCEPT !.token = t, !.headerTenant = h, !.claims.tenant = i] :
            t \in {"none", "valid"}, h \in {Null, "acme", "other"}, i \in {"acme", "other", Null}}
    \cup {[Good EXCEPT !.claims.names = {"bob"}, !.faults = f] :
            f \in {{}, {"version_unpinned", "egress_violation"}}}
    \cup {[Good EXCEPT !.faults = f] : f \in SUBSET {"payload_too_large", "fs_violation",
                                                     "egress_violation"}}
    \cup {[Good EXCEPT !.tool = "write", !.mandates = m, !.keyIsDigest = d] :
            m \in {{}, {"ap2_intent_missing"}, {"ap2_vc_untrusted", "ap2_cart_mismatch"}},
            d \in BOOLEAN}
SomeTenants == {"acme", "other"}
=============================================================================
