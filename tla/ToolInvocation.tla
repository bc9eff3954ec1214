--------------------------- MODULE ToolInvocation ---------------------------
(***************************************************************************)
(* A tool call through the middleware: the handler that                    *)
(* createWrappedToolHandler puts in the place of the tool's own            *)
(* (src/middleware/toolInvocationPipeline.ts), with the decision flow, the *)
(* local runtime adapter, the contextual evaluator, the breaker's window,  *)
(* the frozen registry, the guards on the process' I/O, the escalation and *)
(* the audit record.  Calls are asynchronous: one step is what a call does *)
(* between two awaits.                                                     *)
(*                                                                         *)
(* Arguments, findings and telemetry are left out: a check says whether it *)
(* objects.  Guards, scanners, verifiers and the reporter are external.    *)
(* Runtime decisions are those of the local adapter, which never throws.   *)
(***************************************************************************)
EXTENDS Integers, Sequences, FiniteSets

CONSTANTS
    Calls,        \* calls that may be in flight at once, of one tool
    Gone,         \* stands for calls that are over, none of Calls
    Possible,     \* the reasons there may be to object to a call
    Policies,     \* the deny_on sets of the policies that may be fetched
    EscalateOn,   \* reasons the policy wants a reviewer for
    EvaluatorOn,  \* whether a contextual evaluator is configured
    WindowSize,   \* samples the breaker keeps (100 in the code)
    MinSamples,   \* samples without which it does not open
    ErrorRate     \* percentage of failures at which it opens

EvaluatorReasons == {"contextual_evaluator_denied", "contextual_evaluator_escalated"}
GuardReasons == {"egress_violation", "fs_violation", "subprocess_blocked"}
Signals == {"server_code_changed", "tool_code_changed", "registry_mutation",
            "handler_swap"}
AdmissionReasons == {"policy_fetch_failed", "version_unpinned", "tool_not_in_allowlist",
                     "missing_idempotency_for_side_effect", "ap2_mandate_missing",
                     "payload_too_large"}
Reasons == AdmissionReasons \cup EvaluatorReasons \cup GuardReasons \cup Signals
           \cup {"ap2_cart_mismatch", "agent_guard_failed", "missing_audit_signature"}

ASSUME ToolAssumption ==
    /\ Gone \notin Calls
    /\ Possible \subseteq Reasons
    /\ Policies \subseteq SUBSET Reasons
    /\ Policies # {}
    /\ EscalateOn \subseteq Reasons
    /\ EvaluatorOn \in BOOLEAN
    /\ WindowSize \in Nat \ {0}
    /\ MinSamples \in Nat \ {0}
    /\ ErrorRate \in Nat \ {0}

VARIABLES
    call,       \* what each call knows
    published,  \* the policy of the last fetch that answered
    window,     \* the breaker's samples, oldest first: did the call succeed
    tampered,   \* whether the registry was written to or replaced meanwhile
    guards,     \* whose guards are around the process' I/O functions
    inside,     \* history: the calls running ever since before each began to run
    crossed     \* history: running calls during which such a call came to its end;
                \* Gone once there was one

vars == << call, published, window, tampered, guards, inside, crossed >>

Stages == {"new", "policy", "judge", "evaluate", "running", "blocked", "recheck",
           "input", "scan", "output", "escalate", "audit", "ended"}

\* error is "none", the reason of a PolicyDeniedError, or another failure.
Failures == {"failed", "circuit", "unsigned"}
NoEntry == [decision |-> "none", violation |-> "none"]

CallRecord ==
    [stage : Stages, denyOn : Policies, violation : Reasons \cup {"none"},
     decision : {"allow", "deny"}, error : {"none"} \cup Reasons \cup Failures,
     signals : SUBSET Signals, contextual : EvaluatorReasons \cup {"none"},
     approval : {"unasked", "valid", "invalid"}, ran : BOOLEAN,
     escalation : {"none", "asked", "refused"}, entry :
        [decision : {"none", "allow", "deny"}, violation : Reasons \cup {"none"}],
     saved : SUBSET (Calls \cup {Gone})]

NewCall == [stage |-> "new", denyOn |-> published, violation |-> "none",
            decision |-> "allow", error |-> "none", signals |-> {},
            contextual |-> "none", approval |-> "unasked", ran |-> FALSE,
            escalation |-> "none", entry |-> NoEntry, saved |-> {}]

TypeOK ==
    /\ call \in [Calls -> CallRecord]
    /\ published \in Policies
    /\ window \in Seq(BOOLEAN) /\ Len(window) <= WindowSize
    /\ tampered \subseteq {"attempted", "replaced"}
    /\ guards \subseteq Calls \cup {Gone}
    /\ inside \in [Calls -> SUBSET Calls]
    /\ crossed \subseteq Calls \cup {Gone}

Init ==
    /\ published \in Policies
    /\ call = [c \in Calls |-> NewCall]
    /\ window = << >>
    /\ tampered = {}
    /\ guards = {}
    /\ inside = [c \in Calls |-> {}]
    /\ crossed = {}

----------------------------------------------------------------------------
\* What decides.

\* The local adapter: an empty deny_on denies for every reason.
Denies(c, reason) == call[c].denyOn = {} \/ reason \in call[c].denyOn

\* policyDeniesReason
Listed(c, reason) == reason \in call[c].denyOn

Failed(samples) == Cardinality({i \in DOMAIN samples : ~samples[i]})

BreakerOpen ==
    /\ Len(window) >= MinSamples
    /\ Failed(window) * 100 >= ErrorRate * Len(window)

\* Mutant: refusals of the open breaker count as successes of the tool.
PushStatKindly(samples, error) ==
    LET all == Append(samples, error \in {"none", "circuit"})
    IN  IF Len(all) > WindowSize THEN Tail(all) ELSE all

\* Mutant: no sample is ever dropped.
PushStatForever(samples, error) == Append(samples, error = "none")

PushStat(samples, error) ==
    LET all == Append(samples, error = "none")
    IN  IF Len(all) > WindowSize THEN Tail(all) ELSE all

\* detectToolRuntimeChanges: the handler it expects in the registry is the one
\* the wrapper replaced, so what it finds there, the wrapper, is never that.
Drift == {"handler_swap"}
         \cup (IF "attempted" \in tampered THEN {"registry_mutation"} ELSE {})
         \cup (IF "replaced" \in tampered
               THEN {"tool_code_changed", "server_code_changed"} ELSE {})

\* What the checks before the handler, in their order, leave as the violation:
\* the allowlist, the missing key and the size overwrite what was found before
\* them, the mandate only fills a gap.
Verdict(found) ==
    IF "payload_too_large" \in found THEN "payload_too_large"
    ELSE IF "missing_idempotency_for_side_effect" \in found
         THEN "missing_idempotency_for_side_effect"
    ELSE IF "policy_fetch_failed" \in found THEN "policy_fetch_failed"
    ELSE IF "tool_not_in_allowlist" \in found THEN "tool_not_in_allowlist"
    ELSE IF "version_unpinned" \in found THEN "version_unpinned"
    ELSE IF "ap2_mandate_missing" \in found THEN "ap2_mandate_missing"
    ELSE "none"

Running == {c \in Calls : call[c].stage = "running"}

\* withGuardedIO on entry: the wrappers go around what it found.
EnterTool(c, known) ==
    /\ call' = [call EXCEPT ![c] = [known EXCEPT !.stage = "running", !.ran = TRUE,
                                                 !.saved = guards]]
    /\ guards' = guards \cup {c}
    /\ inside' = [inside EXCEPT ![c] = Running]

Proceed(c, known, to) ==
    /\ call' = [call EXCEPT ![c] = [known EXCEPT !.stage = to]]
    /\ UNCHANGED << guards, inside >>

----------------------------------------------------------------------------
\* Before the handler.

\* The handler is called: drift of the tool is looked for a first time, and the
\* policy is asked for.
Start(c) ==
    /\ call[c].stage = "new"
    /\ call' = [call EXCEPT ![c].stage = "policy", ![c].denyOn = published,
                            ![c].signals = Drift \cap {"handler_swap", "tool_code_changed"}]
    /\ UNCHANGED << published, window, tampered, guards, inside, crossed >>

\* The checks up to the first await after the policy, in one go.
Admit(c, violation, error, policy) ==
    LET known == [call[c] EXCEPT !.violation = violation, !.denyOn = policy,
                                 !.error = IF error = "none" /\ BreakerOpen
                                           THEN "circuit" ELSE error,
                                 !.decision = IF violation = "none" THEN "allow" ELSE "deny",
                                 !.signals = @ \cup Drift]
    IN  IF violation # "none" THEN Proceed(c, known, "judge")
        ELSE IF known.error # "none" THEN Proceed(c, known, "recheck")
        ELSE IF EvaluatorOn THEN Proceed(c, known, "evaluate")
        ELSE EnterTool(c, known)

\* The policy answers, or the fetch fails and the call is judged by the policy
\* that was current when it started.
Resolve(c) ==
    /\ call[c].stage = "policy"
    /\ \E found \in SUBSET (Possible \cap AdmissionReasons) :
        \/ \E policy \in Policies :
             /\ "policy_fetch_failed" \notin found
             /\ published' = policy
             /\ Admit(c, Verdict(found), "none", policy)
        \/ /\ "policy_fetch_failed" \in found
           /\ Admit(c, Verdict(found), "policy_fetch_failed", call[c].denyOn)
           /\ UNCHANGED published
    /\ UNCHANGED << window, tampered, crossed >>

\* Mutant: a violation is noted and the tool runs all the same.
JudgeNothing(c) ==
    /\ call[c].stage = "judge"
    /\ IF call[c].error # "none" THEN Proceed(c, call[c], "recheck")
       ELSE EnterTool(c, call[c])
    /\ UNCHANGED << published, window, tampered, crossed >>

\* The runtime decides on the violation: one it does not deny is only noted.
Judge(c) ==
    /\ call[c].stage = "judge"
    /\ IF Denies(c, call[c].violation)
       THEN Proceed(c, [call[c] EXCEPT !.error = call[c].violation], "recheck")
       ELSE IF call[c].error # "none" THEN Proceed(c, call[c], "recheck")
       ELSE EnterTool(c, call[c])
    /\ UNCHANGED << published, window, tampered, crossed >>

\* runContextualEvaluation: no opinion, a verdict, or an error of the host's
\* hooks.  Only a verdict that deny_on lists stops the call.
Evaluate(c) ==
    /\ call[c].stage = "evaluate"
    /\ \/ EnterTool(c, call[c])
       \/ Proceed(c, [call[c] EXCEPT !.error = "failed"], "recheck")
       \/ /\ "contextual_evaluator_escalated" \in Possible
          /\ ~Listed(c, "contextual_evaluator_escalated")   \* it asks for more
          /\ EnterTool(c, [call[c] EXCEPT !.contextual = "contextual_evaluator_escalated"])
       \/ \E v \in EvaluatorReasons \cap Possible :
            LET known == [call[c] EXCEPT !.contextual = v, !.violation = v]
            IN  IF Listed(c, v)
                THEN Proceed(c, [known EXCEPT !.decision = "deny", !.error = v], "recheck")
                ELSE EnterTool(c, known)
    /\ UNCHANGED << published, window, tampered, crossed >>

----------------------------------------------------------------------------
\* The handler, and what follows it.

\* Mutant: a handler that fails leaves its guards where they are.
RestoreOnSuccess(c, ok) == IF ok THEN call[c].saved ELSE guards

\* withGuardedIO on exit, however the handler ended.
Restore(c, ok) == call[c].saved

\* The handler returns or throws; a guard on the process' I/O, its own or one
\* of another call's, may have stopped it.
ToolEnds(c) ==
    LET Back(known, to, ok) ==
          /\ call' = [call EXCEPT ![c] = [known EXCEPT !.stage = to, !.saved = {}]]
          /\ guards' = Restore(c, ok)
        cut == {d \in Running \ {c} : c \in inside[d]}
    IN  /\ call[c].stage = "running"
        /\ \/ Back(call[c], "recheck", TRUE)
           \/ Back([call[c] EXCEPT !.error = "failed"], "recheck", FALSE)
           \/ /\ guards # {}
              /\ \E v \in GuardReasons \cap Possible :
                   Back([call[c] EXCEPT !.violation = v, !.decision = "deny"],
                        "blocked", FALSE)
        /\ crossed' = (crossed \ {c}) \cup cut \cup (IF cut = {} THEN {} ELSE {Gone})
        /\ inside' = [d \in Calls |-> IF d = c THEN {} ELSE inside[d] \ {c}]
        /\ UNCHANGED << published, window, tampered >>

\* The runtime decides whether the guard's error is told as a denial.
Blocked(c) ==
    /\ call[c].stage = "blocked"
    /\ Proceed(c, [call[c] EXCEPT !.error = IF Denies(c, call[c].violation)
                                            THEN call[c].violation ELSE "failed"], "recheck")
    /\ UNCHANGED << published, window, tampered, crossed >>

\* The mandates are verified, which only notes a violation; then each sign of
\* drift that the runtime denies replaces the error, the last one for good.
Recheck(c) ==
    /\ call[c].stage = "recheck"
    /\ LET drift == {s \in call[c].signals : Denies(c, s)}
           last == CHOOSE s \in drift :
                     \A after \in {"server_code_changed", "tool_code_changed",
                                  "registry_mutation", "handler_swap"} \cap drift :
                       \/ after = s
                       \/ s = "handler_swap"
                       \/ s = "registry_mutation" /\ after # "handler_swap"
                       \/ s = "tool_code_changed" /\ after = "server_code_changed"
       IN  \E v \in {"none"} \cup ({"ap2_cart_mismatch"} \cap Possible) :
             Proceed(c, [call[c] EXCEPT
                           !.violation = IF @ = "none" THEN v ELSE @,
                           !.decision = IF drift = {} THEN @ ELSE "deny",
                           !.error = IF drift = {} THEN @ ELSE last,
                           !.signals = {}], "input")
    /\ UNCHANGED << published, window, tampered, crossed >>

\* verifyApprovalIfAny: a verifier that answered is not asked again; one that
\* failed, or no token, counts as no approval.
Approvals(c) ==
    IF call[c].approval = "unasked" THEN {"valid", "invalid", "unasked"}
    ELSE {call[c].approval}

\* Mutant: the denial does not reach the decision that is recorded.
RefuseQuietly(c, known, reason, to) ==
    \E a \in Approvals(c) :
      Proceed(c, IF a = "valid" THEN [known EXCEPT !.approval = a]
                 ELSE [known EXCEPT !.approval = a, !.error = reason,
                                    !.violation = reason], to)

\* A scan of the input or the output objects: denied unless approved.
Refuse(c, known, reason, to) ==
    \E a \in Approvals(c) :
      Proceed(c, IF a = "valid" THEN [known EXCEPT !.approval = a]
                 ELSE [known EXCEPT !.approval = a, !.decision = "deny",
                                    !.error = reason, !.violation = reason], to)

\* Input findings: with an evaluator the decision waits for the output's.
GuardInput(c) ==
    /\ call[c].stage = "input"
    /\ \/ Proceed(c, call[c], "scan")
       \/ "agent_guard_failed" \in Possible /\
          LET known == [call[c] EXCEPT !.violation = IF @ = "none" THEN "agent_guard_failed"
                                                    ELSE @]
          IN  IF EvaluatorOn \/ ~Denies(c, "agent_guard_failed")
              THEN Proceed(c, known, "scan")
              ELSE Refuse(c, known, "agent_guard_failed", "scan")
    /\ UNCHANGED << published, window, tampered, crossed >>

\* The code scan, the sandbox scan and its dynamic rules: whichever blocks does
\* so whatever deny_on says.
Scan(c) ==
    /\ call[c].stage = "scan"
    /\ \/ Proceed(c, call[c], "output")
       \/ Proceed(c, [call[c] EXCEPT !.decision = "deny", !.error = "tool_code_changed"],
                  "output")
    /\ UNCHANGED << published, window, tampered, crossed >>

\* Output findings, put before the evaluator when there is one: what it makes
\* of them is out, what it says for itself is said.
Judged(c) ==
    LET out == {"none"} \cup ({"agent_guard_failed"} \cap Possible)
        verdicts == EvaluatorReasons \cap Possible
    IN  [out : out, said : {call[c].contextual}]
        \cup (IF EvaluatorOn /\ call[c].violation \in {"none", "agent_guard_failed"}
              THEN {j \in [out : out \cup verdicts, said : verdicts] :
                      \/ j.out \in {"agent_guard_failed", j.said}
                      \/ j.out = "none" /\ j.said = "contextual_evaluator_escalated"}
              ELSE {})

\* With no catch around it: a hook of the host that throws ends the call.
GuardOutput(c) ==
    /\ call[c].stage = "output"
    /\ \/ /\ EvaluatorOn /\ call[c].violation \in {"none", "agent_guard_failed"}
          /\ Proceed(c, [NewCall EXCEPT !.error = "failed", !.ran = call[c].ran], "ended")
       \/ \E j \in Judged(c) :
            LET known == [call[c] EXCEPT !.contextual = j.said,
                                         !.violation = IF @ = "none" THEN j.out ELSE @]
                enforced == {r \in {j.out} \ {"none"} : r # j.said \/ Listed(c, r)}
                            \cup {r \in {j.said} \ {"none"} : Listed(c, r)}
                reason == IF j.out # "none" THEN j.out ELSE j.said
            IN  IF \E r \in enforced : Denies(c, r)
                THEN Refuse(c, known, reason, "escalate")
                ELSE Proceed(c, known, "escalate")
    /\ UNCHANGED << published, window, tampered, crossed >>

\* Mutant: the reviewer is asked about the violation, not about the denial.
ConcernsLoosely(c) == call[c].violation

\* What an escalation would be about: the denial the caller will be told of, or
\* the evaluator's wish.
Concerns(c) ==
    IF call[c].decision = "deny" /\ call[c].error \in Reasons THEN call[c].error
    ELSE call[c].contextual

\* createEscalationFromState: a reporter that fails changes nothing else.
Escalate(c) ==
    /\ call[c].stage = "escalate"
    /\ IF Concerns(c) \in EvaluatorReasons \cup EscalateOn
       THEN \E e \in {"asked", "refused"} :
              Proceed(c, [call[c] EXCEPT !.escalation = e, !.contextual = "none",
                                         !.approval = "unasked"], "audit")
       ELSE Proceed(c, [call[c] EXCEPT !.contextual = "none",
                                       !.approval = "unasked"], "audit")
    /\ UNCHANGED << published, window, tampered, crossed >>

\* The record is offered to the audit sink; where it cannot be kept and the
\* runtime denies for that, the call fails.  Then the sample is taken, and what
\* the call knew is gone but for its answer.
Record(c) ==
    /\ call[c].stage = "audit"
    /\ \E kept \in BOOLEAN :
        LET error == IF ~kept /\ Denies(c, "missing_audit_signature") THEN "unsigned"
                     ELSE call[c].error
        IN  /\ Proceed(c, [NewCall EXCEPT
                            !.entry = [decision |-> call[c].decision,
                                       violation |-> call[c].violation],
                            !.escalation = call[c].escalation, !.ran = call[c].ran,
                            !.error = error], "ended")
            /\ window' = PushStat(window, error)
    /\ UNCHANGED << published, tampered, crossed >>

----------------------------------------------------------------------------
\* Around the calls.

\* Somebody writes to the frozen registry, which throws and takes note, or the
\* host puts another table in its place.
Tamper ==
    /\ \/ "registry_mutation" \in Possible /\ tampered' = tampered \cup {"attempted"}
       \/ "server_code_changed" \in Possible /\ tampered' = tampered \cup {"replaced"}
    /\ UNCHANGED << call, published, window, guards, inside, crossed >>

\* A call that is over makes room for the next.
Forget(c) ==
    LET Aged(set) == IF c \in set THEN (set \ {c}) \cup {Gone} ELSE set
    IN  /\ call[c].stage = "ended"
        /\ call' = [d \in Calls |-> IF d = c THEN NewCall
                                    ELSE [call[d] EXCEPT !.saved = Aged(@)]]
        /\ guards' = Aged(guards)
        /\ UNCHANGED << published, window, tampered, inside, crossed >>

Step(c) == \/ Resolve(c) \/ Judge(c) \/ Evaluate(c) \/ ToolEnds(c) \/ Blocked(c)
           \/ Recheck(c) \/ GuardInput(c) \/ Scan(c) \/ GuardOutput(c)
           \/ Escalate(c) \/ Record(c)

Next == Tamper \/ \E c \in Calls : Start(c) \/ Step(c) \/ Forget(c)

Spec == Init /\ [][Next]_vars

----------------------------------------------------------------------------
\* What is checked.

\* A tool runs only with its policy at hand and the breaker closed, and only if
\* the policy that judges the call does not deny the violation its admission
\* ended with; the evaluator's have to be listed to be denied.
LetThrough ==
    \A c \in Running :
        /\ call[c].error = "none"
        /\ call[c].violation \in EvaluatorReasons => ~Listed(c, call[c].violation)
        /\ call[c].violation \in AdmissionReasons => ~Denies(c, call[c].violation)

\* What the audit record says of a call is what its caller is told: a denial is
\* recorded as one, and a record of a denial whose result the caller gets
\* names a violation.
RecordMatchesAnswer ==
    \A c \in Calls : call[c].stage = "ended" /\ call[c].entry # NoEntry =>
        /\ call[c].error \in Reasons => call[c].entry.decision = "deny"
        /\ call[c].error = "none" /\ call[c].entry.decision = "deny"
              => call[c].entry.violation # "none"
        /\ call[c].entry.decision = "allow" => call[c].error \in {"none"} \cup Failures

\* A reviewer is asked about a denial exactly when the reason told to the caller
\* is one the policy escalates or the evaluator's: what replaces the error after
\* the escalation was decided is the failure to sign alone.
AsksAboutTheDenial ==
    \A c \in Calls : call[c].stage = "ended" /\ call[c].error \in Reasons =>
        (call[c].escalation # "none" <=> call[c].error \in EscalateOn \cup EvaluatorReasons)

\* A handler runs behind its own guards unless a call that was already running
\* when it began has ended since (and took all later guards down); and when no
\* handler runs, no guard is left behind unless calls have ever overlapped so.
GuardsHold ==
    /\ \A c \in Running \ crossed : c \in guards
    /\ Running = {} /\ Gone \notin crossed => guards = {}

\* Once the breaker is open and every call that got past it has failed or is
\* over, it stays open for good: refusals count as failures of the tool, and no
\* call gets to succeed any more.
OpenForGood ==
    [][/\ BreakerOpen
       /\ \A c \in Calls : call[c].stage \in {"new", "policy", "ended"}
                         \/ call[c].error # "none"
       => BreakerOpen']_vars

\* The caller, the audit log and the reviewers are told the same of a call: the
\* two statements above, and the types of what they are about.
ToldAlike == TypeOK /\ RecordMatchesAnswer /\ AsksAboutTheDenial
============================================================================
