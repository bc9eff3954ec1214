---------------------------- MODULE OpenClawHooks ----------------------------
(***************************************************************************)
(* The hooks of the OpenClaw plugin, createMoltbotHooks of                 *)
(* src/src/integrations/openclaw/moltbot.ts, with the skill scans of       *)
(* src/src/middleware/skill.ts and the escalation handler of               *)
(* src/src/integrations/openclaw/escalation.ts.                            *)
(*                                                                         *)
(* The hooks of one plugin share their closure: the enforcement lists of   *)
(* the last policy fetched, the permits that wait for their report, the    *)
(* quarantine, the skill baselines.  One step here is one stretch of a     *)
(* hook between two awaits; hooks of other calls and messages run between. *)
(*                                                                         *)
(* Policies are versions 1, 2, ... as the control plane publishes them.    *)
(* One skill is in use, in several revisions; its scan hook is             *)
(* asynchronous.  "skill_version_changed" stands for a changed version or  *)
(* digest, and a failed scan has findings.                                 *)
(***************************************************************************)
EXTENDS ContextualEvaluator

CONSTANTS
    ToolCalls,    \* tool calls; ToolOf[c], the session and tool of one
    ToolOf,
    Received,     \* messages that come in
    Sent,         \* messages that go out
    ContentOf,    \* ContentOf[m]: conversation and content of a message
    PolicyOf,     \* PolicyOf[n]: what version n says
    Revisions,    \* the revisions of the skill
    Setups,       \* how a plugin may be configured, and which hooks run
    Payloads,     \* what calls and messages carry
    ReportOf,     \* ReportOf[p]: what a hosted scanner reports of a string
    MaxLapses,    \* bound: scan results and quarantines that expire
    MaxMisses     \* bound: appends to the audit log that fail

Policies == DOMAIN PolicyOf
Reasons  == {"tool_not_in_allowlist", "agent_guard_failed", "skill_version_changed",
             "skill_scan_pending", "skill_scan_failed",
             "contextual_evaluator_denied", "contextual_evaluator_escalated"}
Forms    == {"good", "bad_escalate_on", "bad_allowlist"}

\* A guard's thresholds and its packs of rules; who evaluates, and when.
Guards   == [enabled : BOOLEAN, severity : SUBSET {"high"}, count : SUBSET {1, 2},
             compliance : [packs : [{"pack"} -> Seq(RuleRecords)],
                           policies : Seq([enabled : BOOLEAN, packs : Seq({"pack"})])]]
Managers == [source : {"disabled", "local", "control-plane"}, mode : {"sync", "async", "hybrid"}]

PolicyRecords ==
    [deny : SUBSET Reasons, escalate : SUBSET Reasons, human : BOOLEAN,
     tools : SUBSET {ToolOf[c] : c \in ToolCalls}, form : Forms, guard : Guards]

ASSUME PolicyAssumption == PolicyOf # <<>> /\ PolicyOf \in Seq(PolicyRecords)

\* What a plugin is configured with: where its policy is from, whether it enforces
\* it, who approves an escalation and whether that is waited for, the hooks that
\* run, whether rules have a judge, and the evaluator.
Configurations ==
    [source : {"local", "control_plane"}, mode : {"enforce", "observe"},
     approval : {"human", "auto_approve", "auto_reject"}, waits : BOOLEAN,
     hooks : SUBSET (ToolCalls \cup Received \cup Sent), judge : BOOLEAN, manager : Managers]

ASSUME SetupAssumption == Setups \subseteq Configurations
ASSUME HooksAssumption ==
    "none" \notin ToolCalls \cup Revisions /\ {MaxLapses, MaxMisses} \subseteq Nat

\* A scanner's report names a code and a severity, of whatever kind; a context
\* that a payload brings along is valid when its schema says so.
ASSUME PayloadAssumption ==
    /\ ReportOf \in [Pieces -> Seq([code : STRING, severity : STRING])]
    /\ \A p \in Payloads :
          /\ p.text \in Seq(Pieces)
          /\ p.valid /\ "findings" \in DOMAIN p.patch => p.patch.findings \in Seq(FindingRecords)
          /\ p.valid /\ "reflection" \in DOMAIN p.patch => p.patch.reflection \in ReflectionRecords

VARIABLES
    setup,      \* the configuration
    served,     \* the version the policy manager answers with
    lists,      \* the version enforceDenyOn and enforceEscalateOn are of
    allow,      \* the version allowlist and approveHighRisk are of
    pending,    \* pending[k]: permits without a report, by session and tool
    mixed,      \* calls whose report another call of their tool may have taken
    baseline,   \* the revision last committed
    scan,       \* scan[r]: the cached scan of a revision
    inflight,   \* revisions whose scan runs
    passed,     \* revisions that passed a scan
    blind,      \* revisions whose entry lapsed while the scan ran
    quarantine, \* quarantine[k]: why a content is held
    freed,      \* contents whose hold ran out or was overridden
    escalation, \* escalation[m]: what became of the escalation of a message
    call,       \* call[c]: the hooks of a tool call
    msg,        \* msg[m]: the hook of a message, and what the host does
    lapses, misses

skills == <<baseline, scan, inflight, passed, blind>>
holds  == <<quarantine, freed>>
bounds == <<lapses, misses>>
hooksVars == <<setup, served, lists, allow, pending, mixed, skills, holds,
          escalation, call, msg, bounds>>

Messages == Received \cup Sent
Tools    == {ToolOf[c] : c \in ToolCalls}
Contents == {ContentOf[m] : m \in Messages}
Opt(S)   == S \cup {"none"}

CallPlaces == {"idle", "checking", "judging", "allowed", "blocked", "threw", "reported"}
MsgPlaces  == {"idle", "opening", "weighing", "escalating", "waiting", "done", "threw",
               "sent", "cancelled", "approved", "rejected", "expired", "pending",
               "create_failed"}

NewCall == [at |-> "idle", policy |-> 0, violation |-> "none", finding |-> "none",
            revision |-> "none", saw |-> "none", swayed |-> FALSE, judgedBy |-> 0,
            permitted |-> FALSE, of |-> "none"]
NewMsg  == [at |-> "idle", policy |-> 0, held |-> FALSE, hard |-> FALSE]

HooksInit ==
    /\ setup \in Setups
    /\ served = 1
    /\ lists = IF setup.source = "local" THEN 1 ELSE 0
    /\ allow = lists
    /\ pending = [k \in Tools |-> <<>>] /\ mixed = {}
    /\ baseline = "none" /\ scan = [r \in Revisions |-> "none"]
    /\ inflight = {} /\ passed = {} /\ blind = {}
    /\ quarantine = [k \in Contents |-> "none"] /\ freed = {}
    /\ escalation = [m \in Sent |-> "none"]
    /\ call = [c \in ToolCalls |-> NewCall]
    /\ msg = [m \in Messages |-> NewMsg]
    /\ lapses = 0 /\ misses = 0

----------------------------------------------------------------------------
(***************************************************************************)
(* The shared policy.                                                      *)
(***************************************************************************)
Hosted == setup.source = "control_plane"
Form   == PolicyOf[served].form

\* In observe mode, and before the first fetch, the enforced lists are empty.
Says(n, field) ==
    IF setup.mode = "observe" \/ n = 0 THEN {} ELSE PolicyOf[n][field]

Denied    == Says(lists, "deny")
Escalated == Says(lists, "escalate")
Human     == allow # 0 /\ PolicyOf[allow].human

\* Mutant: the lists are set up by the first policy only.
RefreshOnce ==
    /\ lists' = IF Hosted /\ lists = 0 THEN served ELSE lists
    /\ allow' = IF Hosted /\ Form = "good" THEN served ELSE allow

\* refreshControlPlanePolicy: it throws in the middle on a bad escalate_on or
\* allowlist, and what was assigned before stays assigned.
Refresh ==
    /\ lists' = IF Hosted /\ Form # "bad_escalate_on" THEN served ELSE lists
    /\ allow' = IF Hosted /\ Form = "good" THEN served ELSE allow

\* ensurePolicy: the hook goes on, or throws.
Usable == Hosted => Form = "good"

Publish ==
    /\ Hosted /\ served < Len(PolicyOf)
    /\ served' = served + 1
    /\ UNCHANGED <<setup, lists, allow, pending, mixed, skills, holds, escalation,
                   call, msg, bounds>>

\* appendAudit without onAuditError: a failed append throws.
Append1(ok) ==
    /\ ok \/ misses < MaxMisses
    /\ misses' = IF ok THEN misses ELSE misses + 1

----------------------------------------------------------------------------
(***************************************************************************)
(* What the guard finds in a payload and the evaluator says of it.  A      *)
(* payload is [text, writes, outside, justification, needed, unresolved,   *)
(* rank, granted, approvals, routing, patch, valid]: its strings, and the  *)
(* metadata the two builders of an evaluator's input read; the patch is    *)
(* the context it brings along, which need not be valid.                   *)
(***************************************************************************)
\* buildAgentGuard; it throws where rules need a judge and there is none.
GuardOf(n) ==
    LET g == PolicyOf[n].guard IN
    [enabled |-> g.enabled, severity |-> g.severity, count |-> g.count,
     apps |-> Apps(g.compliance), hosted |-> ReportOf]

Buildable(n) ==
    LET g == GuardOf(n) IN
    g.enabled /\ NeedsJudge(g.apps) /\ setup.mode = "enforce" => setup.judge

\* What is common to the two builders: no history, no reflection, no sources.
BlankInput(p) ==
    [boundary |-> "home", allowed |-> {"home"}, forbidden |-> {}, justification |-> p.justification,
     needed |-> p.needed, unresolved |-> p.unresolved, rank |-> p.rank, sourceRank |-> -1,
     maxRank |-> 99, unjustified |-> FALSE, overBudget |-> FALSE, unclear |-> FALSE,
     reflection |-> [missing |-> 0, deviations |-> 0, doubts |-> 0, review |-> FALSE,
                     clarify |-> FALSE],
     findings |-> <<>>]

ToolInput(p) == Merged(BlankInput(p),
    [sideEffect |-> p.writes, writes |-> p.writes, discloses |-> FALSE, crosses |-> p.outside,
     granted |-> {}, approvals |-> {}, routing |-> p.routing])

\* A message is sent by what it is: outside, disclosing, and about reaching someone.
MessageInput(p) == Merged(BlankInput(p),
    [sideEffect |-> TRUE, writes |-> TRUE, discloses |-> TRUE, crosses |-> TRUE,
     granted |-> p.granted, approvals |-> p.approvals, routing |-> TRUE])

InputOf(default, p, findings) ==
    Merged(Merged(default, [findings |-> Described(findings)]), p.patch)

Up(judge) == SUBSET (IF judge THEN {"judge", "scanner"} ELSE {"scanner"})

\* mapSkillFindingsToAgentFindings
SkillFinding(severity) ==
    [code |-> "agent_policy_violation", severity |-> severity, subject |-> "none", hints |-> {}]

Looks   == {"input", "output"}
Classes == {"none", "mailbox", "soft", "hard"}

\* A scan: by whose policy, of what comes in or goes out, and with which judge.
Scans == {[n |-> n, look |-> look, judge |-> judge] :
             n \in Policies, look \in Looks, judge \in BOOLEAN}

\* What a guard may find in a payload: an incoming text, or one that is sent.
Found == [s \in Scans |->
    {[payload |-> p, findings |-> Scan(GuardOf(s.n), p.text, s.look, up)] :
        p \in Payloads, up \in Up(s.judge)}]

Outlines == [s \in Scans |->
    {[class |-> ClassOf(f.findings), blocks |-> ShouldBlock(GuardOf(s.n), f.findings)] :
        f \in Found[s]}]

ScanBy(n, look) == [n |-> n, look |-> look, judge |-> setup.judge]

\* The findings the evaluator hears of: those of a skill come after the guard's.
Heard(f, look) ==
    {f.findings} \cup (IF look = "output" THEN {}
                       ELSE {Append(f.findings, SkillFinding(s)) : s \in {"medium", "critical"}})

InputFor(f, look, findings) ==
    InputOf(IF look = "input" THEN ToolInput(f.payload) ELSE MessageInput(f.payload),
            f.payload, findings)

\* What the evaluator may say, by what is kept of the findings.
Inquiries == {[scan |-> s, class |-> class, blocks |-> blocks, manager |-> p.manager] :
                 s \in Scans, class \in Classes, blocks \in BOOLEAN, p \in Setups}

Opinions == [q \in Inquiries |->
    UNION {{opinion \in {"none"} \cup Decided :
              \E findings \in Heard(f, q.scan.look) :
                 /\ ClassOf(findings) = q.class
                 /\ ShouldBlock(GuardOf(q.scan.n), f.findings) = q.blocks
                 /\ opinion \in OpinionsOn(q.manager, InputFor(f, q.scan.look, findings))} :
           f \in {g \in Found[q.scan] : g.payload.valid}}]

Asked(by, class, blocks) ==
    [scan |-> by, class |-> class, blocks |-> blocks, manager |-> setup.manager]

\* The evaluator refuses an input that is not valid, and the hook throws.
Refusable == setup.manager.source # "disabled" /\ setup.manager.mode # "async"
                /\ \E p \in Payloads : ~p.valid

----------------------------------------------------------------------------
(***************************************************************************)
(* The skill scans.                                                        *)
(***************************************************************************)
\* ensureScan
Ensured(r) ==
    IF scan[r] \in {"pass", "fail"} \/ r \in inflight
    THEN UNCHANGED <<scan, inflight>>
    ELSE scan' = [scan EXCEPT ![r] = "pending"] /\ inflight' = inflight \cup {r}

\* Mutant: a scan that has not ended is not waited for.
SkillViolationOfEnded(saw, r, status) ==
    CASE saw \notin {"none", r} -> "skill_version_changed"
      [] status = "fail"        -> "skill_scan_failed"
      [] OTHER                  -> "none"

\* A change is named before the scan is looked at.
SkillViolation(saw, r, status) ==
    CASE saw \notin {"none", r} -> "skill_version_changed"
      [] status = "pending"     -> "skill_scan_pending"
      [] status = "fail"        -> "skill_scan_failed"
      [] OTHER                  -> "none"

ScanEnds(r) ==
    /\ r \in inflight
    /\ inflight' = inflight \ {r}
    /\ \E result \in {"pass", "fail"} :
          /\ scan' = [scan EXCEPT ![r] = result]
          /\ passed' = IF result = "pass" THEN passed \cup {r} ELSE passed
    /\ UNCHANGED <<setup, served, lists, allow, pending, mixed, baseline, blind, holds,
                   escalation, call, msg, bounds>>

\* getCached, after cache_ttl_ms: also while the scan runs.
ScanLapses(r) ==
    /\ scan[r] # "none" /\ lapses < MaxLapses
    /\ scan' = [scan EXCEPT ![r] = "none"]
    /\ blind' = IF r \in inflight THEN blind \cup {r} ELSE blind
    /\ lapses' = lapses + 1
    /\ UNCHANGED <<setup, served, lists, allow, pending, mixed, baseline, inflight, passed,
                   holds, escalation, call, msg, misses>>

----------------------------------------------------------------------------
(***************************************************************************)
(* beforeToolCall and afterToolCall.                                       *)
(***************************************************************************)
Step(c, next) == call' = [call EXCEPT ![c] = next]

\* Up to the scan of the parameters: the policy and the allowlist.
Before(c) ==
    /\ c \in setup.hooks /\ call[c].at = "idle"
    /\ \/ /\ Refresh
          /\ IF Usable
             THEN Step(c, [call[c] EXCEPT
                      !.at = "checking",
                      !.policy = allow',
                      !.violation = IF ToolOf[c] \in PolicyOf[allow'].tools
                                    THEN "none" ELSE "tool_not_in_allowlist"])
             ELSE Step(c, [call[c] EXCEPT !.at = "threw"])
       \/ /\ Hosted   \* the fetch failed
          /\ Step(c, [call[c] EXCEPT !.at = "threw"])
          /\ UNCHANGED <<lists, allow>>
    /\ UNCHANGED <<setup, served, pending, mixed, skills, holds, escalation, msg, bounds>>

\* What the guard found, and whether that is enough for its policy to block.
Guarded(c, finding, blocks) ==
    [call[c] EXCEPT !.finding = finding,
                    !.violation = IF blocks THEN "agent_guard_failed" ELSE call[c].violation]

OrElse(violation, other) == IF violation = "none" THEN other ELSE violation
Sharper(finding) == IF finding = "hard" THEN "hard" ELSE "soft"

\* The tool belongs to no skill.
CheckPlain(c, known) ==
    /\ Step(c, [known EXCEPT !.at = "judging"])
    /\ UNCHANGED <<scan, inflight, misses>>

\* The skill's resolver, or the append of its record, threw: the violation is
\* the failure, the skill is not a baseline, and the failure is appended.
CheckFails(c, known, first) ==
    \E ok \in BOOLEAN :
       /\ misses + (IF first THEN 1 ELSE 0) + (IF ok THEN 0 ELSE 1) <= MaxMisses
       /\ misses' = misses + (IF first THEN 1 ELSE 0) + (IF ok THEN 0 ELSE 1)
       /\ Step(c, [known EXCEPT
                     !.at = IF ok THEN "judging" ELSE "threw",
                     !.finding = Sharper(known.finding),
                     !.violation = OrElse(known.violation, "skill_scan_failed")])

\* The tool is revision r of the skill.
CheckSkill(c, known, r) ==
    LET changed == baseline # r
        status  == scan'[r]
        found   == SkillViolation(baseline, r, status)
    IN  /\ IF changed THEN Ensured(r) ELSE UNCHANGED <<scan, inflight>>
        /\ \/ /\ Step(c, [known EXCEPT
                           !.at = "judging", !.revision = r, !.saw = baseline,
                           !.finding = IF status = "fail" THEN Sharper(@) ELSE @,
                           !.violation = OrElse(known.violation, found)])
              /\ UNCHANGED misses
           \/ /\ changed \/ found # "none"   \* a record is appended, and fails
              /\ CheckFails(c, known, TRUE)

\* The guard's scan and the skill's.
CheckCall(c) ==
    /\ call[c].at = "checking"
    /\ IF Buildable(call[c].policy)
       THEN \E outline \in Outlines[ScanBy(call[c].policy, "input")] :
               LET known == Guarded(c, outline.class, outline.blocks)
               IN  \/ CheckPlain(c, known)
                   \/ \E r \in Revisions : CheckSkill(c, known, r)
                   \/ CheckFails(c, known, FALSE) /\ UNCHANGED <<scan, inflight>>
       ELSE /\ Step(c, [call[c] EXCEPT !.at = "threw"])
            /\ UNCHANGED <<scan, inflight, misses>>
    /\ UNCHANGED <<setup, served, lists, allow, pending, mixed, baseline, passed, blind,
                   holds, escalation, msg, lapses>>

\* Calls of the same tool that were let through and have not reported.
Open(c) == {d \in ToolCalls \ {c} : ToolOf[d] = ToolOf[c] /\ call[d].at = "allowed"}

\* Mutant: permits are kept by session alone.
SessionOnly(c) == CHOOSE k \in Tools : TRUE

KeyFor(c) == ToolOf[c]

\* The evaluator has answered: blocked, with a record, or let through, with a
\* permit for the report.  The lists are those of the last policy fetched.
Judge(c) ==
    /\ call[c].at = "judging"
    /\ \E opinion \in Opinions[Asked(ScanBy(call[c].policy, "input"), call[c].finding,
                                     call[c].violation = "agent_guard_failed")] :
          LET violation == Adjudicated(call[c].violation, call[c].finding, opinion)
              judged == [call[c] EXCEPT !.violation = violation, !.judgedBy = lists,
                           !.swayed = violation # call[c].violation]
          IN  IF violation \in Denied
              THEN /\ \E ok \in BOOLEAN :
                         /\ Append1(ok)
                         /\ Step(c, [judged EXCEPT !.at = IF ok THEN "blocked" ELSE "threw"])
                   /\ UNCHANGED <<pending, mixed>>
              ELSE /\ Step(c, [judged EXCEPT !.at = "allowed", !.permitted = TRUE])
                   /\ pending' = [pending EXCEPT ![KeyFor(c)] = Append(@, c)]
                   /\ mixed' = mixed \cup Open(c)
                   /\ UNCHANGED misses
    /\ UNCHANGED <<setup, served, lists, allow, skills, holds, escalation, msg, lapses>>

JudgeRefused(c) ==
    /\ call[c].at = "judging" /\ Refusable
    /\ Step(c, [call[c] EXCEPT !.at = "threw"])
    /\ UNCHANGED <<setup, served, lists, allow, pending, mixed, skills, holds, escalation,
                   msg, bounds>>

\* Mutant: the permit taken stays on the list.
Kept(permits) == permits

\* popPending, without what it returns.
Popped(permits) == IF permits = <<>> THEN <<>> ELSE Front(permits)

\* The baseline a report commits: that of the permit it takes.
Commits(permit) == IF permit = "none" THEN "none" ELSE call[permit].revision

\* afterToolCall takes the last permit of the tool.  A host that runs the tool
\* although the first hook threw reports as well.
After(c) ==
    LET permits == pending[KeyFor(c)]
        permit  == IF permits = <<>> THEN "none" ELSE Last(permits)
        revision == Commits(permit)
    IN  /\ call[c].at \in {"allowed", "threw"}
        /\ pending' = [pending EXCEPT ![KeyFor(c)] = Popped(permits)]
        /\ mixed' = mixed \cup Open(c)
        /\ baseline' = IF revision = "none" THEN baseline ELSE revision
        /\ Step(c, [call[c] EXCEPT !.at = "reported", !.of = permit])
        /\ UNCHANGED <<setup, served, lists, allow, scan, inflight, passed, blind, holds,
                       escalation, msg, bounds>>

----------------------------------------------------------------------------
(***************************************************************************)
(* messageReceived and messageSending.                                     *)
(***************************************************************************)
Turn(m, next) == msg' = [msg EXCEPT ![m] = next]

\* Mutant: a message is known by its sender and not by its conversation.
KeyBySender(m) == IF m \in Received THEN ContentOf[m] ELSE CHOOSE k \in Contents : k # ContentOf[m]

MessageKeyFor(m) == ContentOf[m]

\* getAgentGuard fetches the policy.
OpenHook(m) ==
    /\ msg[m].at = (IF m \in Received THEN "idle" ELSE "opening")
    /\ m \in setup.hooks
    /\ \/ /\ Refresh
          /\ Turn(m, [msg[m] EXCEPT
                        !.at = IF Usable /\ Buildable(allow') THEN "weighing" ELSE "threw",
                        !.policy = allow'])
       \/ Hosted /\ Turn(m, [msg[m] EXCEPT !.at = "threw"]) /\ UNCHANGED <<lists, allow>>
    /\ UNCHANGED <<setup, served, pending, mixed, skills, holds, escalation, call, bounds>>

\* setQuarantine, then the record.
Hold(m, violation, hard) ==
    quarantine' = IF hard THEN [quarantine EXCEPT ![MessageKeyFor(m)] = violation]
                  ELSE quarantine

\* The end of messageReceived: only the guard is asked.
Receive(m) ==
    /\ m \in Received /\ msg[m].at = "weighing"
    /\ \E outline \in Outlines[ScanBy(msg[m].policy, "input")], ok \in BOOLEAN :
          LET violation == IF outline.blocks THEN "agent_guard_failed" ELSE "none"
              hard      == violation \in Denied
          IN  /\ Hold(m, violation, hard) /\ Append1(ok)
              /\ Turn(m, [msg[m] EXCEPT !.at = IF ok THEN "done" ELSE "threw",
                                         !.policy = 0, !.hard = hard])
    /\ UNCHANGED <<setup, served, lists, allow, pending, mixed, skills, freed, escalation,
                   call, lapses>>

\* The start of messageSending: a content in quarantine is cancelled, unless a
\* human may be asked; then the hold is dropped and the content weighed anew.
Send(m) ==
    LET why  == quarantine[MessageKeyFor(m)]
        held == \E n \in Messages : /\ msg[n].hard /\ ContentOf[n] = ContentOf[m]
                                    /\ ContentOf[m] \notin freed
        next == [msg[m] EXCEPT !.held = held]
    IN  /\ m \in setup.hooks \cap Sent /\ msg[m].at = "idle"
        /\ \/ /\ why # "none" /\ ~(Human /\ why \in Escalated)
              /\ \E ok \in BOOLEAN :
                    Append1(ok) /\ Turn(m, [next EXCEPT !.at = IF ok THEN "cancelled" ELSE "threw"])
              /\ UNCHANGED holds
           \/ /\ why # "none" => Human /\ why \in Escalated
              /\ quarantine' = [quarantine EXCEPT ![MessageKeyFor(m)] = "none"]
              /\ freed' = IF why = "none" THEN freed ELSE freed \cup {ContentOf[m]}
              /\ Turn(m, [next EXCEPT !.at = "opening"])
              /\ UNCHANGED misses
        /\ UNCHANGED <<setup, served, lists, allow, pending, mixed, skills, escalation, call,
                       lapses>>

\* Whether a human is asked about a violation of an outgoing message.
ForHuman(violation) ==
    Human /\ violation \in {"contextual_evaluator_denied", "contextual_evaluator_escalated"}
                              \cup Escalated

\* The rest of messageSending.
Weigh(m) ==
    /\ m \in Sent /\ msg[m].at = "weighing"
    /\ \E outline \in Outlines[ScanBy(msg[m].policy, "output")], ok \in BOOLEAN :
       \E opinion \in Opinions[Asked(ScanBy(msg[m].policy, "output"), outline.class,
                                     outline.blocks)] :
          LET raw       == IF outline.blocks THEN "agent_guard_failed" ELSE "none"
              violation == Adjudicated(raw, outline.class, opinion)
              hard      == violation \in Denied /\ ~ForHuman(violation)
              where     == IF ~ok THEN "threw"
                           ELSE IF ForHuman(violation) THEN "escalating"
                           ELSE IF hard THEN "cancelled" ELSE "sent"
          IN  /\ Hold(m, violation, hard) /\ Append1(ok)
              /\ Turn(m, [msg[m] EXCEPT !.at = where, !.policy = 0, !.hard = hard])
    /\ UNCHANGED <<setup, served, lists, allow, pending, mixed, skills, freed, escalation,
                   call, lapses>>

WeighRefused(m) ==
    /\ m \in Sent /\ msg[m].at = "weighing" /\ Refusable
    /\ Turn(m, [msg[m] EXCEPT !.at = "threw", !.policy = 0])
    /\ UNCHANGED <<setup, served, lists, allow, pending, mixed, skills, holds, escalation,
                   call, bounds>>

QuarantineLapses(k) ==
    /\ quarantine[k] # "none" /\ lapses < MaxLapses
    /\ quarantine' = [quarantine EXCEPT ![k] = "none"]
    /\ freed' = freed \cup {k}
    /\ lapses' = lapses + 1
    /\ UNCHANGED <<setup, served, lists, allow, pending, mixed, skills, escalation, call, msg,
                   misses>>

----------------------------------------------------------------------------
(***************************************************************************)
(* createMoltbotEscalationManager: what the host asks about a message that *)
(* its hook escalated.                                                     *)
(***************************************************************************)
\* Until the wait: a reporter that fails, or answers without an id; a callback
\* that throws after the escalation was created.
Escalate(m) ==
    /\ msg[m].at = "escalating"
    /\ IF setup.approval # "human"
       THEN /\ Turn(m, [msg[m] EXCEPT !.at = IF setup.approval = "auto_approve"
                                             THEN "approved" ELSE "rejected"])
            /\ UNCHANGED escalation
       ELSE \/ /\ Turn(m, [msg[m] EXCEPT !.at = "create_failed"])
               /\ UNCHANGED escalation
            \/ /\ escalation' = [escalation EXCEPT ![m] = "open"]
               /\ \E place \in {"rejected", IF setup.waits THEN "waiting" ELSE "pending"} :
                     Turn(m, [msg[m] EXCEPT !.at = place])
    /\ UNCHANGED <<setup, served, lists, allow, pending, mixed, skills, holds, call, bounds>>

Resolve(m) ==
    /\ escalation[m] = "open"
    /\ \E how \in {"approved", "rejected", "expired"} :
          escalation' = [escalation EXCEPT ![m] = how]
    /\ UNCHANGED <<setup, served, lists, allow, pending, mixed, skills, holds, call, msg, bounds>>

\* Mutant: what is not refused goes out.
OutcomesUnlessRefused(how) == {IF how \in {"rejected", "expired"} THEN how ELSE "approved"}

\* What the wait makes of the escalation it read: a time-out leaves it pending,
\* and a callback that throws makes a rejection of anything.
WaitOutcomes(how) == {"rejected", IF how = "open" THEN "pending" ELSE how}

WaitEnds(m) ==
    /\ msg[m].at = "waiting"
    /\ \E place \in WaitOutcomes(escalation[m]) : Turn(m, [msg[m] EXCEPT !.at = place])
    /\ UNCHANGED <<setup, served, lists, allow, pending, mixed, skills, holds, escalation,
                   call, bounds>>

HooksNext ==
    \/ Publish
    \/ \E r \in Revisions : ScanEnds(r) \/ ScanLapses(r)
    \/ \E c \in ToolCalls : Before(c) \/ CheckCall(c) \/ Judge(c) \/ JudgeRefused(c) \/ After(c)
    \/ \E m \in Messages : OpenHook(m) \/ Receive(m) \/ Send(m) \/ Weigh(m) \/ WeighRefused(m)
    \/ \E m \in Sent : Escalate(m) \/ Resolve(m) \/ WaitEnds(m)
    \/ \E k \in Contents : QuarantineLapses(k)

HooksSpec == HooksInit /\ [][HooksNext]_hooksVars

----------------------------------------------------------------------------
(***************************************************************************)
(* What is checked.                                                        *)
(***************************************************************************)
CallRecords ==
    [at : CallPlaces, policy : 0 .. Len(PolicyOf), violation : Opt(Reasons),
     finding : Opt(Classes), revision : Opt(Revisions),
     saw : Opt(Revisions), swayed : BOOLEAN, judgedBy : 0 .. Len(PolicyOf),
     permitted : BOOLEAN, of : Opt(ToolCalls)]
MessageRecords ==
    [at : MsgPlaces, policy : 0 .. Len(PolicyOf), held : BOOLEAN, hard : BOOLEAN]

\* Every variable holds a value of its kind.
HooksTypeOK ==
    /\ setup \in Setups /\ served \in Policies
    /\ lists \in 0 .. Len(PolicyOf) /\ allow \in 0 .. Len(PolicyOf)
    /\ pending \in [Tools -> Seq(ToolCalls)]
    /\ mixed \subseteq ToolCalls
    /\ baseline \in Opt(Revisions)
    /\ scan \in [Revisions -> {"none", "pending", "pass", "fail"}]
    /\ inflight \subseteq Revisions /\ passed \subseteq Revisions /\ blind \subseteq Revisions
    /\ quarantine \in [Contents -> Opt(Reasons)] /\ freed \subseteq Contents
    /\ escalation \in [Sent -> {"none", "open", "approved", "rejected", "expired"}]
    /\ call \in [ToolCalls -> CallRecords]
    /\ msg \in [Messages -> MessageRecords]
    /\ lapses \in 0 .. MaxLapses /\ misses \in 0 .. MaxMisses

\* A permit is taken at most once: it waits once, and one report has it.
TakenOnce ==
    /\ \A k \in Tools : IsInjective(pending[k])
    /\ \A c, d \in ToolCalls : c # d /\ call[c].of # "none" => call[c].of # call[d].of

\* The report of a call is filed under its own permit when no other call of
\* the same session and tool was let through or reported between the two
\* hooks, whatever calls of other tools did (the LIFO of moltbot.ts:2336).
OwnReportWhenAlone ==
    \A c \in ToolCalls :
        call[c].at = "reported" /\ call[c].permitted /\ c \notin mixed
            => call[c].of = c

\* Where pending and failed scans are denied, the revision of a skill that
\* becomes its baseline has passed a scan, or came in as a change of a skill
\* in use; or its scan lapsed while it ran, or the evaluator set the violation
\* aside, or lists that do not deny were in force.
BaselineWasScanned ==
    baseline # "none" =>
        \/ baseline \in passed \cup blind
        \/ \E c \in ToolCalls :
              /\ call[c].revision = baseline /\ call[c].permitted
              /\ \/ call[c].saw # "none" \/ call[c].swayed
                 \/ ~({"skill_scan_pending", "skill_scan_failed"}
                        \subseteq Says(call[c].judgedBy, "deny"))
                 \/ call[c].violation \notin {"none", "skill_scan_pending", "skill_scan_failed"}

\* A call is never judged by lists older than the policy it fetched, though
\* other hooks fetch policies while it is scanned.
NeverOlderLists ==
    \A c \in ToolCalls : call[c].judgedBy # 0 => call[c].judgedBy >= call[c].policy

\* A content that a hook found bad and blocked is not sent by a hook that
\* begins afterwards, in the same conversation, unless the hold ran out or a
\* policy that asks humans released it.
QuarantineHolds ==
    \A m \in Sent :
        msg[m].at \in {"sent", "approved"} /\ msg[m].held => ContentOf[m] \in freed

\* A message escalated goes out only when a human approved that escalation;
\* an escalation that was refused, failed, or is still open never sends.
SentIsAnswered ==
    \A m \in Sent :
        msg[m].at = "approved" /\ setup.approval # "auto_approve"
            => escalation[m] = "approved"

\* How strict an opinion is, where nobody is asked a question.
Strictness(opinion) == CASE opinion = "allow" -> 0 [] opinion = "escalate" -> 1 [] OTHER -> 2

\* The scans whose findings a hook is about to have weighed.
Weighed ==
    {ScanBy(call[c].policy, "input") : c \in {d \in ToolCalls : call[d].at = "judging"}}
    \cup {ScanBy(msg[m].policy, "output") : m \in {o \in Sent : msg[o].at = "weighing"}}

Sharpens(i) ==
    \A code \in Codes, p \in Pieces :
        LET more   == [i EXCEPT !.findings = Append(@, Finding(code, SeverityOf(code), p))]
            before == LocalOpinions(i)
            after  == LocalOpinions(more)
        IN  "clarify" \notin before =>
               /\ "clarify" \notin after
               /\ \A b \in after : \E a \in before : Strictness(a) <= Strictness(b)

Sharpening == [s \in Scans |->
    \A f \in Found[s] : f.payload.valid => Sharpens(InputFor(f, s.look, f.findings))]

\* One more finding of a guard never makes the local evaluator milder, though
\* it counts one concern of a principle and drops the others (addFinding in
\* localEvaluator.ts), and though a finding may take a question away.
FindingsOnlySharpen == \A w \in Weighed : Sharpening[w]

Standing == [s \in Scans |->
    \A f \in Found[s], opinion \in Decided :
        /\ ShouldBlock(GuardOf(s.n), f.findings)
        /\ \E finding \in ToSet(f.findings) : Hard(finding)
        /\ Len(f.findings) <= MaxDescribed
        => Adjudicated("agent_guard_failed", ClassOf(f.findings), opinion)
              = "agent_guard_failed"]

\* A guard that blocks for what no context excuses is never overruled, whatever
\* the evaluator answers, as long as all its findings are described to it.
HardStands == \A w \in Weighed : Standing[w]

\* The permits of tool calls: taken from the lists they were put on, once, by a
\* report of their own.
PermitsTaken == HooksTypeOK /\ TakenOnce /\ OwnReportWhenAlone

\* Bad content stays in: it is neither sent again nor sent over an open or a
\* refused escalation.
MessagesHeld == QuarantineHolds /\ SentIsAnswered

\* The evaluator between the guards and the lists: more findings never help a
\* call, and it cannot excuse what no context excuses.
WeighedFairly == FindingsOnlySharpen /\ HardStands
=============================================================================
