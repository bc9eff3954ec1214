-------------------------- MODULE GatewayAdmission --------------------------
(***************************************************************************)
(* The way of one request through the gateway server: the policy merged    *)
(* into the configuration when it starts (src/gateway/proxy/server.ts),    *)
(* the routes and what they require, authentication, entitlements, the     *)
(* security checks (src/gateway/middleware/authz.ts, security.ts), the     *)
(* runtime adapter that decides on what they found, with its retries and   *)
(* fallbacks (src/runtime-adapter/), the escalation of a denial, and the   *)
(* answer the caller gets.                                                 *)
(*                                                                         *)
(* Deduplication, the quota stores and the audit record are the modules    *)
(* GatewayPipeline and GatewayQuota; here a limit is met or not.  Tokens,  *)
(* patterns and payloads are abstracted to what they decide: an allowlist  *)
(* is the set of principals it lets call the tool at hand, and a check is  *)
(* the reason it may give.  Identity provider, upstream, escalation        *)
(* reporter and remote decision service are external.                      *)
(***************************************************************************)
EXTENDS Integers, Sequences

CONSTANTS
    Bases,      \* configurations the operator may start the gateway with
    Policies,   \* policies that may be merged into one: the sections they have
    Arrivals,   \* requests that may come in
    Tenants,
    Null        \* an optional setting, header or section that is absent

OidcFields == {"issuer", "audience", "jwks_uri"}

\* Reasons the mandates can give, in the order of the code.
MandateFaults == << "ap2_verification_error", "ap2_intent_mandate_conflict",
                    "ap2_cart_mandate_conflict", "ap2_intent_missing",
                    "ap2_mandate_missing", "ap2_cart_mismatch", "ap2_vc_untrusted" >>
Reasons == {"tool_in_denylist", "tool_not_in_allowlist", "version_unpinned",
            "egress_violation", "fs_violation", "payload_too_large",
            "ap2_idempotency_mismatch", "duration_too_long"}
           \cup {MandateFaults[i] : i \in DOMAIN MandateFaults}
\* Without these there is no digest of the cart.
Undecoded == {MandateFaults[i] : i \in 1 .. 5}

Given(f, k, default) == IF k \in DOMAIN f THEN f[k] ELSE default

Sections == {"tenant", "authn", "entitlements", "broker", "targets", "enforcement",
             "runtime", "security", "ap2", "reporter"}

\* A configuration has every section, fields of tokens are those the code knows, and
\* numbers of retries are natural numbers.
ASSUME AdmissionAssumption ==
    /\ Bases # {} /\ Arrivals # {}
    /\ \A c \in Bases : DOMAIN c = Sections
    /\ Null \notin Policies
    /\ Null \notin Tenants
    /\ \A c \in Bases :
         /\ c.tenant \in Tenants
         /\ c.authn # Null => c.authn.oidc \subseteq OidcFields
         /\ Given(c.runtime, "retries", 1) \in Nat
    /\ \A p \in Policies :
         /\ Given(p, "authn", Null) # Null => p.authn.oidc \subseteq OidcFields
         /\ Given(Given(p, "runtime", << >>), "retries", 1) \in Nat
    /\ \A r \in Arrivals :
         /\ r.headerTenant \in Tenants \cup {Null}
         /\ r.token \in {"none", "invalid", "valid"}
         /\ r.claims.tenant \in Tenants \cup {Null}

VARIABLES
    cfg,         \* the configuration, once started with the policy merged in
    stage,       \* where the gateway is with the request
    req,         \* the request, Null before the first
    tenant,      \* the tenant it is taken to come from
    holders,     \* the names by which it is looked up in the entitlements
    ask,         \* what is put to the runtime adapter
    attempt,     \* which attempt at the remote service this is
    verdict,     \* what was decided last, and by whom
    lifted,      \* history: who let pass what the local rules deny
    escalation,  \* what became of asking a human
    upstream,    \* whether the request was forwarded, and with the vendor's key
    status       \* the status the caller is answered with, 0 before

admissionVars == << cfg, stage, req, tenant, holders, ask, attempt, verdict, lifted,
           escalation, upstream, status >>

Places == {"boot", "refused", "listening", "authn", "authz", "local", "remote",
           "backoff", "fallback", "act", "escalate", "security", "quota", "forward",
           "upstream", "answered"}
Sources == {"none", "local", "remote", "fallback-local", "fallback-allow", "fallback-deny"}
NoVerdict == [decision |-> "none", source |-> "none"]
NoAsk == [about |-> "none", reasons |-> << >>, denyOn |-> {}, any |-> FALSE]

Elements(s) == {s[i] : i \in DOMAIN s}

-----------------------------------------------------------------------------
(* Starting: a policy's sections go over those of the configuration, some  *)
(* as a whole and some field by field.                                     *)

\* authn: a policy may disable it, and completes what was configured.
MergedAuthn(own, p) ==
    IF p = Null THEN own
    ELSE IF p.mode = "disabled" THEN Null
    ELSE IF p.mode = "oidc" \/ p.oidc # {}
      THEN [oidc |-> p.oidc \cup (IF own = Null THEN {} ELSE own.oidc),
            lenient |-> IF p.lenient # Null THEN p.lenient
                        ELSE own # Null /\ own.lenient]
    ELSE own

\* { ...own, ...given }
Spread(own, given) ==
    [k \in DOMAIN own \cup DOMAIN given |-> IF k \in DOMAIN given THEN given[k] ELSE own[k]]

Merged(c, p) ==
    [c EXCEPT !.authn = MergedAuthn(@, Given(p, "authn", Null)),
              !.entitlements = Given(p, "entitlements", @),
              !.broker = Given(p, "broker", @),
              !.targets = Given(p, "targets", @),
              !.enforcement = Spread(@, Given(p, "enforcement", << >>)),
              !.runtime = Spread(@, Given(p, "runtime", << >>)),
              !.security = Spread(@, Given(p, "security", << >>)),
              !.ap2 = Spread(@, Given(p, "ap2", << >>))]

\* A service token is not implemented, oidc needs its three fields when the
\* policy says anything of it, and there must be targets.
MayStart(c, p) ==
    LET a == Given(p, "authn", Null) IN
    /\ a # Null =>
         /\ a.mode # "service_token"
         /\ a.mode # "disabled" /\ (a.mode = "oidc" \/ a.oidc # {})
              => MergedAuthn(c.authn, a).oidc = OidcFields
    /\ Merged(c, p).targets # {}

-----------------------------------------------------------------------------
(* What the configuration says of a request.                               *)

Mode == Given(cfg.enforcement, "mode", "observe")

\* normalizePolicyReasonToken: two reasons are known by an older name.
Token(reason) ==
    IF reason = "idempotency_missing" THEN "missing_idempotency_for_side_effect"
    ELSE IF reason = "tool_in_denylist" THEN "tool_not_in_allowlist"
    ELSE reason

DenyOn == {Token(x) : x \in Given(cfg.enforcement, "deny_on", {})}
EscalateOn == {Token(x) : x \in Given(cfg.enforcement, "escalate_on", DenyOn)}

\* The server demands a key on both routes, and on one a body.
A2aLacks(r) == r.route = "a2a" /\ (r.body # "json" \/ ~r.key)
McpLacks(r) == r.route = "mcp" /\ (r.body = "broken" \/ ~r.key)

Malformed(r) ==
    IF r.route \notin {"a2a", "mcp"} THEN 404
    ELSE IF A2aLacks(r) \/ McpLacks(r) THEN 400
    ELSE 0

\* verifyOidcJWT, extractIdentity: a token without the tenant's claim is
\* one of the tenant "unknown".
ClaimedTenant(r) == IF r.claims.tenant = Null THEN "unknown" ELSE r.claims.tenant

\* The lists looked at are the tenant's and those of anyone the caller is:
\* the names and roles of the token, and the node of a header.
HoldersOf(r, names) == names \cup {"tenant", r.node}

\* checkEntitlements: a denylist comes first.
Entitlement(r) ==
    LET none == [allow |-> {}, deny |-> {}, limited |-> FALSE]
        mine == Given(cfg.entitlements, tenant, none)
    IN  IF holders \cap mine.deny # {} THEN << "tool_in_denylist" >>
        ELSE IF holders \cap mine.allow = {} THEN << "tool_not_in_allowlist" >>
        ELSE << >>

\* The AP2 mandates are looked at for the tools listed, or for side effects.
\* The allowlist, when there is one, stands for what must have mandates.
MandatesMatter(r) ==
    LET mode == Given(cfg.ap2, "mode", "")
        enabled == Given(cfg.ap2, "enabled", FALSE) \/ mode # ""
        required == Given(cfg.ap2, "require", FALSE) \/ mode \in {"partial", "full"}
        listed == Given(cfg.ap2, "tools", Null)
    IN  enabled /\ IF listed # Null THEN r.tool \in listed
                   ELSE required /\ r.tool = "write"

\* Array.find: the first of the places where something was found.
Earliest(places) == CHOOSE i \in places : \A j \in places : i <= j

\* verifyAp2MandatesFromHeaders gives one reason, the first there is.
MandateReason(r) ==
    LET there == {i \in DOMAIN MandateFaults : MandateFaults[i] \in r.mandates}
    IN  IF there = {} THEN << >> ELSE << MandateFaults[Earliest(there)] >>

\* The key must be the digest of the cart, when that could be computed.
MandateReasons(r) ==
    MandateReason(r)
        \o (IF r.mandates \cap Undecoded = {} /\ ~r.keyIsDigest
            THEN << "ap2_idempotency_mismatch" >> ELSE << >>)

\* Each section of security names the reasons it can give.
Checked == UNION {cfg.security[f] : f \in DOMAIN cfg.security}
Objection(r, x) == IF x \in Checked /\ x \in r.faults THEN << x >> ELSE << >>
SecurityReasons(r) ==
    Objection(r, "version_unpinned") \o Objection(r, "egress_violation")
    \o Objection(r, "fs_violation") \o Objection(r, "payload_too_large")
    \o (IF MandatesMatter(r) THEN MandateReasons(r) ELSE << >>)

-----------------------------------------------------------------------------
(* The runtime adapter.                                                    *)

\* LocalRuntimeAdapter.evaluate; forceDeny is never passed on to it.
LocalDeny(a) ==
    /\ Mode = "enforce"
    /\ a.reasons # << >>
    /\ a.any \/ a.denyOn = {} \/ Elements(a.reasons) \cap a.denyOn # {}
LocalDecision(a) == IF LocalDeny(a) THEN "deny" ELSE "allow"

\* The protocol's actions; only "deny" denies.
Actions == {"allow", "deny", "escalate", "clarify"}

\* resolveRuntimeAdapterConfig: local unless the configuration says otherwise.
Remotely == Given(cfg.runtime, "mode", "local") = "remote"
Retries == Given(cfg.runtime, "retries", 1)

Ask(about, reasons, denyOn, any) ==
    [about |-> about, reasons |-> reasons, denyOn |-> denyOn, any |-> any]

Consult(question) ==
    /\ ask' = question
    /\ attempt' = 1
    /\ stage' = IF Remotely /\ Given(cfg.runtime, "endpoint", FALSE) THEN "remote" ELSE "local"

Decided(decision, source) ==
    /\ verdict' = [decision |-> decision, source |-> source]
    /\ lifted' = IF LocalDeny(ask) /\ decision # "deny" THEN lifted \cup {source}
                 ELSE lifted
    /\ attempt' = 0
    /\ stage' = "act"

ToAdapter == << cfg, req, tenant, holders, ask, escalation, upstream, status >>

\* The local adapter, also when a remote one has no endpoint.
DecideLocally ==
    /\ stage = "local"
    /\ Decided(LocalDecision(ask),
               IF Remotely THEN "fallback-local" ELSE "local")
    /\ UNCHANGED ToAdapter

\* The service answers with one of the actions of the protocol.
RemoteAnswers ==
    /\ stage = "remote"
    /\ \E d \in Actions : Decided(d, "remote")
    /\ UNCHANGED ToAdapter

NextAttempt == attempt + 1

\* Mutant: the first attempt is not one of those configured.
MayRetryOnceMore == attempt <= Retries + 1

MayRetry == attempt <= Retries

\* It is out of reach, overloaded or too slow: tried again.  An answer that
\* cannot be read, or a refusal, is not.
RemoteFails ==
    /\ stage = "remote"
    /\ \E transient \in BOOLEAN :
         IF transient /\ MayRetry
         THEN stage' = "backoff" /\ UNCHANGED attempt
         ELSE stage' = "fallback" /\ attempt' = 0
    /\ UNCHANGED << verdict, lifted >> /\ UNCHANGED ToAdapter

\* The pause before the next attempt is over.
Retry ==
    /\ stage = "backoff"
    /\ attempt' = NextAttempt
    /\ stage' = "remote"
    /\ UNCHANGED << verdict, lifted >> /\ UNCHANGED ToAdapter

\* Mutant: whatever was configured, an outage lets calls pass.
FallbackOpen ==
    /\ stage = "fallback"
    /\ Decided("allow", "fallback-local")
    /\ UNCHANGED ToAdapter

Fallback ==
    /\ stage = "fallback"
    /\ LET failing == Given(cfg.runtime, "failureMode", "local") IN
         \/ failing = "allow" /\ Decided("allow", "fallback-allow")
         \/ failing = "deny" /\ Decided("deny", "fallback-deny")
         \/ failing = "local" /\ Decided(LocalDecision(ask), "fallback-local")
    /\ UNCHANGED ToAdapter

-----------------------------------------------------------------------------
AdmissionInit ==
    /\ cfg \in Bases
    /\ stage = "boot"
    /\ req = Null /\ tenant = Null /\ holders = {}
    /\ ask = NoAsk /\ attempt = 0 /\ verdict = NoVerdict /\ lifted = {}
    /\ escalation = "none" /\ upstream = "none" /\ status = 0

ForRequest == << tenant, holders, ask, attempt, verdict, lifted, escalation, upstream >>

\* startGatewayServer, with a policy or without one.
Start ==
    /\ stage = "boot"
    /\ \E p \in Policies :
         IF MayStart(cfg, p)
         THEN cfg' = Merged(cfg, p) /\ stage' = "listening"
         ELSE stage' = "refused" /\ UNCHANGED cfg
    /\ UNCHANGED << req, status, ForRequest >>

AnswerWith(code) == status' = code /\ stage' = "answered"

\* A request comes in: what the route requires of it.
Receive ==
    /\ stage \in {"listening", "answered"}
    /\ \E r \in Arrivals :
         /\ req' = r
         /\ IF Malformed(r) # 0 THEN AnswerWith(Malformed(r))
            ELSE status' = 0 /\ stage' = "authn"
    /\ tenant' = Null /\ holders' = {}
    /\ ask' = NoAsk /\ attempt' = 0 /\ verdict' = NoVerdict /\ lifted' = {}
    /\ escalation' = "none" /\ upstream' = "none"
    /\ UNCHANGED cfg

Refuse(code) == AnswerWith(code) /\ UNCHANGED << tenant, holders >>

AdmitAs(t, names) ==
    /\ tenant' = t
    /\ holders' = HoldersOf(req, names)
    /\ stage' = "authz"
    /\ UNCHANGED status

\* Mutant: who may come without a token may do so in either mode.
StrangersWelcome == cfg.authn.lenient

StrangersAllowed == cfg.authn.lenient /\ Mode # "enforce"

\* authenticateGatewayRequest.  A token that does not verify fails with an
\* error of the library, which the server answers as its own failure.
Authenticate ==
    /\ stage = "authn"
    /\ IF cfg.authn = Null
       THEN IF req.headerTenant \in {Null, cfg.tenant} THEN AdmitAs(cfg.tenant, {})
            ELSE Refuse(401)
       ELSE \/ /\ req.token = "none"
               /\ IF StrangersAllowed
                  THEN AdmitAs(IF req.headerTenant # Null THEN req.headerTenant
                             ELSE cfg.tenant, {})
                  ELSE Refuse(401)
            \/ req.token = "invalid" /\ Refuse(500)
            \/ /\ req.token = "valid"
               /\ IF req.headerTenant \in {Null, ClaimedTenant(req)}
                  THEN AdmitAs(ClaimedTenant(req), req.claims.names)
                  ELSE Refuse(401)
    /\ UNCHANGED << cfg, req, ask, attempt, verdict, lifted, escalation, upstream >>

\* enforceGatewayEntitlements up to the adapter, which is asked even when
\* there is nothing to say.
Entitle ==
    /\ stage = "authz"
    /\ IF cfg.entitlements = Null
       THEN stage' = "security" /\ UNCHANGED << ask, attempt >>
       ELSE Consult(Ask("authz", Entitlement(req), {}, TRUE))
    /\ UNCHANGED << cfg, req, tenant, holders, verdict, lifted, escalation, upstream, status >>

\* evaluateGatewaySecurity up to the adapter, asked when a check objects.
Secure ==
    /\ stage = "security"
    /\ IF SecurityReasons(req) = << >>
       THEN stage' = "quota" /\ UNCHANGED << ask, attempt >>
       ELSE Consult(Ask("risk", SecurityReasons(req), DenyOn, FALSE))
    /\ UNCHANGED << cfg, req, tenant, holders, verdict, lifted, escalation, upstream, status >>

\* What follows from the decision: a denial stands only against a reason.
Onward == [authz |-> "security", risk |-> "quota", duration |-> "answered"]
Act ==
    /\ stage = "act"
    /\ IF verdict.decision = "deny" /\ ask.reasons # << >>
       THEN stage' = "escalate" /\ UNCHANGED << ask, status >>
       ELSE /\ stage' = Onward[ask.about]
            /\ status' = IF ask.about = "duration" THEN 200 ELSE status
            /\ ask' = NoAsk
    /\ UNCHANGED << cfg, req, tenant, holders, attempt, verdict, lifted, escalation, upstream >>

\* Mutant: the reasons are compared as they were given.
ViolationAsGiven ==
    LET listed == {i \in DOMAIN ask.reasons : ask.reasons[i] \in EscalateOn}
    IN  ask.reasons[IF listed # {} THEN Earliest(listed) ELSE 1]

\* The reason a human is asked about: the first the policy lists, by its
\* name of today, or else the first.
Violation ==
    LET listed == {i \in DOMAIN ask.reasons : Token(ask.reasons[i]) \in EscalateOn}
    IN  Token(ask.reasons[IF listed # {} THEN Earliest(listed) ELSE 1])

Escalates ==
    /\ cfg.reporter
    /\ "approve_high_risk" \in Given(cfg.security, "side_effects", {})
    /\ Violation \in EscalateOn

\* attemptGatewayEscalation, then the denial.  The reporter may report
\* nothing, and its failure is told to the caller.
Escalate ==
    /\ stage = "escalate"
    /\ IF Escalates THEN escalation' \in {"created", "unreported", "failed"}
       ELSE UNCHANGED escalation
    /\ AnswerWith(403)
    /\ UNCHANGED << cfg, req, tenant, holders, ask, attempt, verdict, lifted, upstream >>

\* evaluateLimits, for who has a rate or a daily limit.
Quota ==
    /\ stage = "quota"
    /\ \/ stage' = "forward" /\ UNCHANGED status
       \/ /\ cfg.entitlements # Null
          /\ tenant \in DOMAIN cfg.entitlements => cfg.entitlements[tenant].limited
          /\ AnswerWith(429)
    /\ UNCHANGED << cfg, req, ForRequest >>

\* getVendorHeaders throws without a secret, and the pipeline goes on
\* without the header.
VendorKey == IF cfg.broker = "resolved" THEN "keyed" ELSE "plain"

\* The call upstream.
Forward ==
    /\ stage = "forward"
    /\ IF req.server \in cfg.targets
       THEN upstream' = VendorKey /\ stage' = "upstream" /\ UNCHANGED status
       ELSE AnswerWith(502) /\ UNCHANGED upstream
    /\ UNCHANGED << cfg, req, tenant, holders, ask, attempt, verdict, lifted, escalation >>

\* It answers with a result, in time or not, or fails with a status of its own.
UpstreamAnswers ==
    /\ stage = "upstream"
    /\ \/ AnswerWith(503) /\ UNCHANGED << ask, attempt >>
       \/ AnswerWith(200) /\ UNCHANGED << ask, attempt >>
       \/ /\ "duration_too_long" \in Checked
          /\ Consult(Ask("duration", << "duration_too_long" >>, DenyOn, FALSE))
          /\ UNCHANGED status
    /\ UNCHANGED << cfg, req, tenant, holders, verdict, lifted, escalation, upstream >>

AdmissionNext ==
    \/ Start \/ Receive \/ Authenticate \/ Entitle \/ Secure \/ Act \/ Escalate
    \/ DecideLocally \/ RemoteAnswers \/ RemoteFails \/ Retry \/ Fallback
    \/ Quota \/ Forward \/ UpstreamAnswers

AdmissionSpec == AdmissionInit /\ [][AdmissionNext]_admissionVars

-----------------------------------------------------------------------------
(* What is checked.                                                        *)

\* Every variable has its type; a verdict and an attempt exist only where
\* the adapter is consulted, and the attempts stay within those configured.
AdmissionTypeOK ==
    /\ stage \in Places
    /\ cfg.authn # Null => cfg.authn.oidc \subseteq OidcFields
    /\ req \in Arrivals \cup {Null}
    /\ tenant \in Tenants \cup {"unknown", Null}
    /\ ask.about \in {"none", "authz", "risk", "duration"}
    /\ ask.reasons \in Seq(Reasons)
    /\ attempt # 0 => /\ stage \in {"local", "remote", "backoff"}
                      /\ stage = "remote" => attempt <= Retries + 1
    /\ verdict.decision \in Actions \cup {"none"}
    /\ verdict.source \in Sources
    /\ lifted \subseteq Sources
    /\ escalation \in {"none", "created", "unreported", "failed"}
    /\ upstream \in {"none", "plain", "keyed"}
    /\ status \in {0, 200, 400, 401, 403, 404, 429, 500, 502, 503}

\* What the local rules deny only the remote service lets pass, or the
\* failure mode "allow" during its outage: entitlements and deny_on hold
\* through retries and fallbacks, before the call and after it.
LiftedOnlyRemotely ==
    /\ lifted \subseteq {"remote", "fallback-allow"}
    /\ "fallback-allow" \in lifted => Given(cfg.runtime, "failureMode", "local") = "allow"

\* Enforcing, a request gets past authentication only as the tenant of a
\* token that verified, or as the gateway's own where no tokens are asked for;
\* the tenant a header names never counts by itself.
TenantProven ==
    tenant # Null /\ Mode = "enforce"
        => IF cfg.authn = Null THEN tenant = cfg.tenant
           ELSE req.token = "valid" /\ tenant = ClaimedTenant(req)

\* A denial for a reason the policy wants a human for reaches the reporter,
\* under whatever name the reason goes, before the caller is told; and no
\* human is asked about a call that was not denied.
DenialIsEscalated ==
    /\ escalation # "none" => status = 403
    /\ stage = "answered" /\ status = 403 /\ cfg.reporter
         /\ "approve_high_risk" \in Given(cfg.security, "side_effects", {})
         /\ (\E x \in Elements(ask.reasons) : Token(x) \in EscalateOn)
       => escalation # "none"

\* Denials and the people asked about them, and the types of what a request is
\* made of.
DenialsHold == AdmissionTypeOK /\ DenialIsEscalated
=============================================================================
